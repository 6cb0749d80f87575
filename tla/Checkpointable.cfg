CONSTANTS
  w1 = w1
  w2 = w2
  client = client
  Workers <- MCWorkers
  Client <- client
  Throwing <- MCThrowing
SPECIFICATION Spec
INVARIANTS
  TypeOK
  JoinMeansCheckpointed
  RunsOncePerRequest
  MailboxIsEmpty
PROPERTIES
  TakenJobIsServed
  QueuedJoinReturns
  OnlyRacesBlock
\* Lost wakeups and a throwing checkpoint() really stop the system.
CHECK_DEADLOCK FALSE
