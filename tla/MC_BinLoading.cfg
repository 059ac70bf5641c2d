CONSTANTS
  Files <- MCFiles
  Queries <- MCQueries
  MaxSlots = 2
  Copies = 3
SPECIFICATION Spec
INVARIANT CacheHoldsOwnBins
INVARIANT PinsMatchCache
INVARIANT SameAsResident
PROPERTY LoadingReturns
CHECK_DEADLOCK FALSE
