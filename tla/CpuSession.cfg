CONSTANTS
  t1 = t1
  t2 = t2
  Null = Null
  Blocks <- TwoBlocks
  InitialFlags <- OneFlag
  InitialBadges <- AnyThread
SPECIFICATION Spec
SYMMETRY Symmetry
INVARIANTS
  OnlyTouchedRun
  RecordsMatchParent
PROPERTIES
  WalkSparesTheDead
  KeepsSnapshotPromise
