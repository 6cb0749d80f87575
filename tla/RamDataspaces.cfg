CONSTANTS
  r1 = r1
  r2 = r2
  r3 = r3
  Null = Null
  Blocks <- MCBlocks
  Contents <- MCContents
  Blank = "blank"
SPECIFICATION Spec
SYMMETRY Symmetry
INVARIANTS
  PointerIsAlive
  CopiesAreExplained
  RecordsDieOnce
PROPERTIES
  KeepsSnapshotPromise
