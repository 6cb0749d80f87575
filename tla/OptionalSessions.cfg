CONSTANTS
  t1 = t1
  t2 = t2
  Threads = {t1, t2}
  NoThread = none
  Contexts = {c1, c2}
  Dataspaces = {ds}
  Times = {7}
  Upgraded = {"rom"}
  Garbage = garbage
  Word = 16
  Kilo = 3
  MaxMaps = 2
  MaxCalls = 3
  MaxRounds = 2
SPECIFICATION OptSpec
SYMMETRY Symmetry
INVARIANTS
  SnapshotIsParentState
  SighIsInSnapshot
  PublishedMapsWereVisited
\* The child and the monitor stop at the bounds on their calls.
CHECK_DEADLOCK FALSE
