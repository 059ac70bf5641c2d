CONSTANTS
  Files <- MCFiles
  EntriesOf <- MCEntriesOf
  StalePct = 10
  MaxInstalls = 1
  MaxRefreshes = 0
  ArmedFirst = FALSE
SPECIFICATION Spec
PROPERTY StatsCatchUp
