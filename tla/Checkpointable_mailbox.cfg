CONSTANTS
  w1 = w1
  w2 = w2
  client = client
  Workers <- OneWorker
  Client <- client
  Throwing <- NoWorker
SPECIFICATION Spec
PROPERTIES
  PostedJobIsTaken
\* Lost wakeups really stop the system.
CHECK_DEADLOCK FALSE
