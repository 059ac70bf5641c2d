CONSTANTS
  hit = hit
  binhit = binhit
  miss = miss
  Tomb = Tomb
  NoValue = NoValue
  Keys = {1, 2}
  Values <- HitMiss
  RangeSets = {}
  NumLevels = 1
  NumMemtables = 2
  MaxSeq = 3
  MaxSnapshots = 0
  Matching <- OnlyHits
  BinHits <- OnlyHits
  BatchSize = 1
  CheckSampleKeys = 1
  MinSkipRatePct = 25
  RestartInterval = 2
  MaxCheckedKeys = 0
  PlainValues = {TRUE, FALSE}
  IOErrors = TRUE
  Modes = {"Verified"}
SPECIFICATION FairSpec
INVARIANT ShadowCheckSound
INVARIANT ScanComplete
PROPERTY StatusSticky
PROPERTY FetchReturns
