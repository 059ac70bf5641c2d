CONSTANTS
  hit = hit
  binhit = binhit
  miss = miss
  Tomb = Tomb
  NoValue = NoValue
  Keys = {0, 1}
  Values <- OnlyHits
  RangeSets = {}
  NumLevels = 1
  NumMemtables = 3
  MaxSeq = 1
  MaxSnapshots = 0
  Matching <- OnlyHits
  BinHits <- OnlyHits
  BatchSize = 1
  CheckSampleKeys = 2
  MinSkipRatePct = 25
  RestartInterval = 2
  MaxCheckedKeys = 2
  PlainValues = {TRUE}
  IOErrors = FALSE
  Modes = {"Verified"}
SPECIFICATION Spec
INVARIANT ScanComplete
