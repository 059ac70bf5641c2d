CONSTANTS
  Files <- MCFiles
  EntriesOf <- MCEntriesOf
  StalePct = 10
  MaxInstalls = 2
  MaxRefreshes = 1
  ArmedFirst = TRUE
SPECIFICATION Spec
INVARIANT NoLostWakeup
INVARIANT RefreshSawCall
INVARIANT BuiltFromLastPass
PROPERTY StatsCatchUp
PROPERTY DestructorReturns
PROPERTY RefreshReturns
