CONSTANTS
  Layouts <- MCLayouts
  Depth = 2
  IOErrors = TRUE
  MaxSeeks = 2
SPECIFICATION Spec
INVARIANT BufferHoldsItsBlock
PROPERTY IsOrderedScan
PROPERTY LoadNextBlockReturns
