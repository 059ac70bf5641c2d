CONSTANTS
  Half = 8
  Inf = 6
  WordBytes = 2
  ByteVals = 4
  BitsPerByte = 2
  EndBytes = 2
  PayloadSize = 1
  Null = null
  Tombstone = tombstone
  Instances <- MCInstances
  GridCells = 3
  kMaxTrackedValues = 1
SPECIFICATION EstSpec
INVARIANT RowsReadBack
INVARIANT CandidatesCoverMatches
INVARIANT EncodingExact
INVARIANT RowsInTheirBins
INVARIANT OnlyEndBinsWaste
INVARIANT MassConserved
INVARIANT ZeroMeansAbsent
