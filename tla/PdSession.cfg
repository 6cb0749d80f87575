CONSTANTS
  r1 = r1
  r2 = r2
  r3 = r3
  r4 = r4
  b1 = b1
  b2 = b2
  Null = Null
  Blocks <- MCBlocks
  Badges <- MCBadges
  NoBadge = NoBadge
SPECIFICATION Spec
SYMMETRY Symmetry
INVARIANTS
  FreeFindsItsRecord
  SnapshotIsPublished
  SnapshotIsClosed
