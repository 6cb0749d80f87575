------------------------------ MODULE InitModule ------------------------------
(***************************************************************************)
(* Rtcr::Init_module (src/rtcr/init_module.cc): checkpoint() walks the     *)
(* list of children and, for each of them, starts and joins the workers of *)
(* its sessions, one after the other or all at once (_parallel).  The      *)
(* module restricts the client of Checkpointable to that order.            *)
(*                                                                         *)
(* A worker is a pair <<child, session>>.  The sessions rm, rom, log and   *)
(* timer are optional: the pointer in Child_info is null for a child that  *)
(* has not opened them.                                                    *)
(***************************************************************************)
EXTENDS Checkpointable, Naturals, Sequences

CONSTANTS
  Childs,      \* the list _childs, from its head
  Opened,      \* Opened[c]: the optional sessions that child c has opened
  Parallel,    \* _parallel, read from the configuration once
  MaxCalls     \* bound on the number of calls of checkpoint()

Mandatory == {"capability_mapping", "pd", "ram", "cpu"}
Optional == {"rm", "rom", "log", "timer"}
SessionsOf(c) == Mandatory \cup Opened[c]

ASSUME ModuleAssumption ==
  /\ Parallel \in BOOLEAN
  /\ MaxCalls \in Nat
  /\ Opened \in [DOMAIN Opened -> SUBSET Optional]
  /\ Childs \in Seq(DOMAIN Opened)
  /\ \A i, j \in DOMAIN Childs : Childs[i] = Childs[j] => i = j
  /\ Workers = {w \in (DOMAIN Opened) \X (Mandatory \cup Optional) : w[2] \in SessionsOf(w[1])}

VARIABLES
  child,       \* the index of the child whose turn it is
  position,    \* the position in Order of the next call for it
  op,          \* the next call: start or join
  active,      \* the client is inside of checkpoint()
  calls,       \* the number of calls of checkpoint() so far
  done,        \* history: the workers that ran since checkpoint() was called
  paused       \* paused[c]: Cpu_session::pause() was the last call for child c

script == <<child, position, op>>
moduleVars == <<script, active, calls, done, paused>>
imVars == <<vars, moduleVars>>

-----------------------------------------------------------------------------
(* The order of the calls for one child. *)

\* Mutant of Order: the capability mapping comes first in sequence, too.
MappingFirst ==
  <<"capability_mapping", "pd", "ram", "cpu", "rm", "rom", "log", "timer">>

Order ==
  IF Parallel
    THEN <<"capability_mapping", "pd", "ram", "cpu", "rm", "rom", "log", "timer">>
    ELSE <<"pd", "ram", "cpu", "rm", "rom", "log", "timer", "capability_mapping">>

N == 8   \* the length of Order

\* The calls for a session are skipped if the child has not opened it.
Has(i, j) == Order[j] \in SessionsOf(Childs[i])

NextSession ==
  \E j \in position + 1 .. N :
    /\ Has(child, j)
    /\ \A k \in position + 1 .. j - 1 : ~Has(child, k)
    /\ position' = j

IsLastSession == \A k \in position + 1 .. N : ~Has(child, k)

NextChild == child' = child + 1 /\ position' = 1 /\ op' = "start"

\* Mutant of AdvanceParallel: the workers are not joined.
StartOnly ==
  \/ NextSession /\ UNCHANGED <<child, op>>
  \/ IsLastSession /\ NextChild

\* All starts come before all joins.
AdvanceParallel ==
  \/ NextSession /\ UNCHANGED <<child, op>>
  \/ IsLastSession /\ op = "start" /\ op' = "join" /\ position' = 1 /\ UNCHANGED child
  \/ IsLastSession /\ op = "join" /\ NextChild

\* Mutant of AdvanceSequential: the sessions but the first are only joined.
NoNextStart ==
  \/ op = "start" /\ op' = "join" /\ UNCHANGED <<child, position>>
  \/ op = "join" /\ NextSession /\ UNCHANGED <<child, op>>
  \/ op = "join" /\ IsLastSession /\ NextChild

\* Every start is followed by its join.
AdvanceSequential ==
  \/ op = "start" /\ op' = "join" /\ UNCHANGED <<child, position>>
  \/ op = "join" /\ NextSession /\ op' = "start" /\ UNCHANGED child
  \/ op = "join" /\ IsLastSession /\ NextChild

-----------------------------------------------------------------------------
IMInit ==
  /\ Init
  /\ child = 1 /\ position = 1 /\ op = "start"
  /\ active = FALSE
  /\ calls = 0
  /\ done = {}
  /\ paused = [c \in DOMAIN Opened |-> FALSE]

CheckpointedChilds == {Childs[i] : i \in DOMAIN Childs}

BetweenCalls == at = "idle" /\ Returned(Client)

CallCheckpoint ==
  /\ ~active
  /\ calls < MaxCalls
  /\ calls' = calls + 1
  /\ active' = TRUE
  /\ child' = 1 /\ position' = 1 /\ op' = "start"
  /\ done' = {}
  /\ UNCHANGED <<vars, paused>>

NextCall ==
  /\ active
  /\ child <= Len(Childs)
  /\ \E w \in Workers :
       /\ w = <<Childs[child], Order[position]>>
       /\ \/ op = "start" /\ StartCheckpoint(w)
          \/ op = "join" /\ JoinCheckpoint(w)
  /\ IF Parallel THEN AdvanceParallel ELSE AdvanceSequential
  /\ UNCHANGED <<active, calls, done, paused>>

CheckpointReturns ==
  /\ active
  /\ child > Len(Childs)
  /\ BetweenCalls
  /\ active' = FALSE
  /\ UNCHANGED <<vars, script, calls, done, paused>>

\* pause() and resume() call the Cpu_session of every child; nothing in
\* checkpoint() calls them.
Pause ==
  /\ ~active
  /\ paused' = [c \in DOMAIN paused |-> c \in CheckpointedChilds]
  /\ UNCHANGED <<vars, script, active, calls, done>>

Resume ==
  /\ ~active
  /\ paused' = [c \in DOMAIN paused |-> FALSE]
  /\ UNCHANGED <<vars, script, active, calls, done>>

WorkerStep(w) ==
  /\ Worker(w)
  /\ done' = IF pc[w] = "checkpoint" /\ pc'[w] = "set_finished" THEN done \cup {w} ELSE done
  /\ UNCHANGED <<script, active, calls, paused>>

ClientStep ==
  /\ ClientContinues
  /\ UNCHANGED moduleVars

IMNext ==
  \/ \E w \in Workers : WorkerStep(w)
  \/ ClientStep
  \/ CallCheckpoint \/ NextCall \/ CheckpointReturns
  \/ Pause \/ Resume

IMSafetySpec == IMInit /\ [][IMNext]_imVars

\* Every runnable thread is scheduled; a checkpoint() that was called goes on.
IMFairness ==
  /\ \A w \in Workers : WF_imVars(WorkerStep(w) /\ WorkerRuns(w))
  /\ WF_imVars(ClientStep \/ NextCall \/ CheckpointReturns)

IMSpec == IMSafetySpec /\ IMFairness

-----------------------------------------------------------------------------
(* Properties *)

\* When Init_module::checkpoint() returns, every session of every child has
\* run its checkpoint() in this call, and no worker is inside of one: the
\* Child_info objects that the caller serializes next are complete and at
\* rest.  (init_module.cc 94-177)
CompleteWhenReturned ==
  active /\ child > Len(Childs) /\ BetweenCalls =>
    \A w \in Workers : w[1] \in CheckpointedChilds => w \in done /\ ~Busy(w)

InBody(w) == pc[w] = "checkpoint"

\* Children are checkpointed one after the other, even in parallel mode: two
\* workers that run at the same time belong to the same child, and without
\* _parallel no two run at the same time.  (init_module.cc 98-102, 145-176)
OneChildAtATime ==
  \A v, w \in Workers :
    InBody(v) /\ InBody(w) => v[1] = w[1] /\ (Parallel \/ v = w)

\* Without _parallel the capability mapping, which walks the attached regions
\* of the Pd_session (capability_mapping_focnados.cc 70-71), runs when all
\* other workers of the child are through, so that the list it reads is not
\* being purged.
MappingRunsLast ==
  ~Parallel => \A w \in Workers :
    w[2] = "capability_mapping" /\ InBody(w) =>
      \A v \in Workers : v[1] = w[1] /\ v # w => v \in done /\ ~Busy(v)

\* The order of Init_module is one of the orders that Checkpointable allows
\* its client: no worker is started twice without a join or joined without a
\* start.  Whatever is proved of Checkpointable holds here.
IsCheckpointableClient == SafetySpec

\* In a behaviour without the races of the events, every call of checkpoint()
\* returns.
CheckpointReturnsUnlessRace ==
  [](NoRace /\ \A w \in Workers : pc[w] # "dead") => (active ~> ~active)
=============================================================================
