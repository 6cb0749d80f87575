----------------------------- MODULE MCInitModule -----------------------------
(***************************************************************************)
(* Instances of InitModule for TLC.  In sequence: one child with the four  *)
(* sessions it always has, from their construction on.  In parallel: two   *)
(* children, one of them with two optional sessions.                       *)
(***************************************************************************)
EXTENDS InitModule, TLC, FiniteSets

CONSTANTS sheep, dog, client

TwoChilds == <<sheep, dog>>
OneChild == <<sheep>>
OpenedByTwo == sheep :> {"rom", "timer"} @@ dog :> {}
OpenedByOne == sheep :> {}
WorkersOfTwo == {<<sheep, s>> : s \in {"capability_mapping", "pd", "ram", "cpu", "rom", "timer"}}
                \cup {<<dog, s>> : s \in {"capability_mapping", "pd", "ram", "cpu"}}
WorkersOfOne == {<<sheep, s>> : s \in {"capability_mapping", "pd", "ram", "cpu"}}
NoWorker == {}
MappingMayThrow == {<<sheep, "capability_mapping">>}

\* Workers are created with their sessions, long before checkpoint() is called
\* for the first time.  With many workers the instance starts where all of
\* them have gone to sleep; the other runs cover the way there.
AsleepInit ==
  /\ isSet = [e \in Events |-> e[2] = "ready"]
  /\ call = [t \in Threads |-> IF t = Client THEN Running ELSE InCall("blocked", _next_event(t))]
  /\ _next_job = [w \in Workers |-> NONE]
  /\ _current_job = [w \in Workers |-> NONE]
  /\ pc = [w \in Workers |-> "unset_next"]
  /\ at = "idle"
  /\ target = <<sheep, "pd">>
  /\ request = [w \in Workers |-> "none"]
  /\ child = 1 /\ position = 1 /\ op = "start"
  /\ active = FALSE
  /\ calls = 0
  /\ done = {}
  /\ paused = [c \in DOMAIN Opened |-> FALSE]

AsleepSpec == AsleepInit /\ [][IMNext]_imVars

Asleep(w) == call[w] = InCall("blocked", _next_event(w))

\* Bound: besides the worker the client deals with, at most two are awake.
TwoLaggards == Cardinality({w \in Workers \ {target} : ~Asleep(w)}) <= 2
=============================================================================
