CONSTANTS
  r1 = r1
  r2 = r2
  r3 = r3
  Null = Null
  Blocks <- MCBlocks
  Pages = 3
  Sizes = {1}
  CapAddr = 2
  Parallel = TRUE
SPECIFICATION Spec
SYMMETRY Symmetry
CHECK_DEADLOCK FALSE

  
PROPERTIES
  KeepsSnapshotPromise
  LookupFindsWhatStays
