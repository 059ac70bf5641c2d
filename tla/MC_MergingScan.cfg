CONSTANTS
  Trees <- MCTrees
  MaxSeeks = 3
SPECIFICATION Spec
INVARIANT ReadTablesPinned
INVARIANT NoHandleLeaked
PROPERTY IsOrderedScan
