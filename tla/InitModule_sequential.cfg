CONSTANTS
  sheep = sheep
  dog = dog
  client = client
  Childs <- OneChild
  Opened <- OpenedByOne
  Workers <- WorkersOfOne
  Client <- client
  Throwing <- MappingMayThrow
  Parallel = FALSE
  MaxCalls = 1
SPECIFICATION IMSpec
INVARIANTS
  MappingRunsLast
PROPERTIES
  IsCheckpointableClient
  CheckpointReturnsUnlessRace
\* Lost wakeups and a throwing checkpoint() really stop the system.
CHECK_DEADLOCK FALSE
