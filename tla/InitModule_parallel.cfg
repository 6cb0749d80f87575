CONSTANTS
  sheep = sheep
  dog = dog
  client = client
  Childs <- TwoChilds
  Opened <- OpenedByTwo
  Workers <- WorkersOfTwo
  Client <- client
  Throwing <- NoWorker
  Parallel = TRUE
  MaxCalls = 1
SPECIFICATION AsleepSpec
CONSTRAINT TwoLaggards
INVARIANTS
  CompleteWhenReturned
  OneChildAtATime
\* Lost wakeups and a throwing checkpoint() really stop the system.
CHECK_DEADLOCK FALSE
