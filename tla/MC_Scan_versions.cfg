CONSTANTS
  hit = hit
  binhit = binhit
  miss = miss
  Tomb = Tomb
  NoValue = NoValue
  Keys = {1}
  Values <- HitBinhit
  RangeSets = {}
  NumLevels = 2
  NumMemtables = 3
  MaxSeq = 3
  MaxSnapshots = 1
  Matching <- OnlyHits
  BinHits <- HitBinhit
  BatchSize = 1
  CheckSampleKeys = 2
  MinSkipRatePct = 25
  RestartInterval = 2
  MaxCheckedKeys = 0
  PlainValues = {TRUE}
  IOErrors = FALSE
  Modes = {"Verified", "Candidate"}
SPECIFICATION Spec
INVARIANT RowsCorrect
INVARIANT SnapshotReadsStable
INVARIANT CandidateSuperset
