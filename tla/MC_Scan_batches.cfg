CONSTANTS
  hit = hit
  binhit = binhit
  miss = miss
  Tomb = Tomb
  NoValue = NoValue
  Keys = {1, 2}
  Values <- OnlyHits
  RangeSets <- WholeRange
  NumLevels = 2
  NumMemtables = 3
  MaxSeq = 3
  MaxSnapshots = 0
  Matching <- OnlyHits
  BinHits <- OnlyHits
  BatchSize = 1
  CheckSampleKeys = 2
  MinSkipRatePct = 25
  RestartInterval = 2
  MaxCheckedKeys = 0
  PlainValues = {TRUE}
  IOErrors = FALSE
  Modes = {"Verified"}
SPECIFICATION Spec
INVARIANT ScanComplete
INVARIANT OrderedOnce
INVARIANT AuthorityHolds
INVARIANT SoundButForOwnRanges
