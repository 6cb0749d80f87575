---------------------------- MODULE Checkpointable ----------------------------
(***************************************************************************)
(* Rtcr::Checkpointable (include/rtcr/checkpointable.h, src/rtcr/          *)
(* checkpointable.cc): every session component owns a thread that sleeps   *)
(* until a checkpoint is requested, runs it and reports back through three *)
(* events.  A worker stands for a Checkpointable object together with its  *)
(* thread; Client is the one thread that calls start_checkpoint() and      *)
(* join_checkpoint(), the thread that runs Init_module::checkpoint().      *)
(*                                                                         *)
(* Every access to a variable the two threads share is a step of its own:  *)
(* the code synchronises them with nothing but the events.                 *)
(***************************************************************************)
EXTENDS Event

CONSTANTS
  Workers,     \* the Checkpointable objects
  Client,      \* the thread that starts and joins checkpoints
  Throwing     \* the workers whose checkpoint() may leave with an exception

ASSUME ConstantsAssumption ==
  /\ Client \notin Workers
  /\ Throwing \subseteq Workers

\* enum Job
CHECKPOINT == "CHECKPOINT"
NONE == "NONE"
Job == {CHECKPOINT, NONE}

_next_event(w) == <<w, "next">>
_checkpoint_finished(w) == <<w, "finished">>
_ready_event(w) == <<w, "ready">>

Events == Workers \X {"next", "finished", "ready"}
Threads == Workers \cup {Client}

VARIABLES
  _next_job,     \* _next_job[w]: written by both threads
  _current_job,  \* _current_job[w]: local variable of entry()
  pc,            \* pc[w]: the statement of entry() the worker runs next
  at,            \* the statement the client runs next
  target,        \* the worker the client's call is about
  request        \* request[w]: history of the client's request to w

workerVars == <<_next_job, _current_job, pc>>
clientVars == <<at, target>>
vars == <<eventVars, workerVars, clientVars, request>>

WorkerStatements == {"wait_next", "unset_next", "take_job", "reset_job", "unset_ready",
                     "checkpoint", "set_finished", "set_ready", "dead"}
ClientStatements == {"idle", "post_job", "unset_finished", "set_next", "join"}

\* none: not started or already joined; asked: start_checkpoint() was
\* called; executed: checkpoint() has run for it, join_checkpoint() has not
\* returned yet.
Requests == {"none", "asked", "executed"}

TypeOK ==
  /\ isSet \in [Events -> BOOLEAN]
  /\ call \in [Threads -> CallsOn(Events)]
  /\ _next_job \in [Workers -> Job]
  /\ _current_job \in [Workers -> Job]
  /\ pc \in [Workers -> WorkerStatements]
  /\ at \in ClientStatements
  /\ target \in Workers
  /\ request \in [Workers -> Requests]

\* Mutant of Init: the constructor forgets to initialise the mailbox.
InitWithoutMailbox ==
  /\ isSet = [e \in Events |-> e[2] = "ready"]
  /\ call = [t \in Threads |-> Running]
  /\ _next_job = [w \in Workers |-> "uninitialised"]
  /\ _current_job = [w \in Workers |-> NONE]
  /\ pc = [w \in Workers |-> "wait_next"]
  /\ at = "idle"
  /\ target \in Workers
  /\ request = [w \in Workers |-> "none"]

Init ==
  /\ isSet = [e \in Events |-> e[2] = "ready"]
  /\ call = [t \in Threads |-> Running]
  /\ _next_job = [w \in Workers |-> NONE]
  /\ _current_job = [w \in Workers |-> NONE]
  /\ pc = [w \in Workers |-> "wait_next"]
  /\ at = "idle"
  /\ target \in Workers
  /\ request = [w \in Workers |-> "none"]

-----------------------------------------------------------------------------
(* The worker: Checkpointable::entry(). *)

Goto(w, from, to) ==
  /\ pc[w] = from
  /\ pc' = [pc EXCEPT ![w] = to]

WaitNext(w) ==
  /\ Goto(w, "wait_next", "unset_next")
  /\ Wait(w, _next_event(w))
  /\ UNCHANGED <<_next_job, _current_job, clientVars, request>>

UnsetNext(w) ==
  /\ Goto(w, "unset_next", "take_job")
  /\ Unset(w, _next_event(w))
  /\ UNCHANGED <<_next_job, _current_job, clientVars, request>>

TakeJob(w) ==
  /\ Goto(w, "take_job", "reset_job")
  /\ _current_job' = [_current_job EXCEPT ![w] = _next_job[w]]
  /\ UNCHANGED <<eventVars, _next_job, clientVars, request>>

\* Mutant of ResetJob: the job stays in the mailbox.
KeepJob(w) ==
  /\ Goto(w, "reset_job", IF _current_job[w] = CHECKPOINT THEN "unset_ready" ELSE "wait_next")
  /\ _current_job' = [_current_job EXCEPT ![w] = NONE]
  /\ UNCHANGED <<eventVars, _next_job, clientVars, request>>

\* The mailbox is cleared and _current_job tested; the local variable is not
\* read again in this iteration and is forgotten.
ResetJob(w) ==
  /\ Goto(w, "reset_job", IF _current_job[w] = CHECKPOINT THEN "unset_ready" ELSE "wait_next")
  /\ _next_job' = [_next_job EXCEPT ![w] = NONE]
  /\ _current_job' = [_current_job EXCEPT ![w] = NONE]
  /\ UNCHANGED <<eventVars, clientVars, request>>

UnsetReady(w) ==
  /\ Goto(w, "unset_ready", "checkpoint")
  /\ Unset(w, _ready_event(w))
  /\ UNCHANGED <<_next_job, _current_job, clientVars, request>>

\* The virtual method checkpoint() returns.  While pc[w] is "checkpoint" the
\* worker is inside of it.
DoCheckpoint(w) ==
  /\ Goto(w, "checkpoint", "set_finished")
  /\ request' = [request EXCEPT ![w] = IF @ = "asked" THEN "executed" ELSE @]
  /\ UNCHANGED <<eventVars, _next_job, _current_job, clientVars>>

\* checkpoint() throws; nothing in entry() catches it and the thread ends.
ThrowInCheckpoint(w) ==
  /\ w \in Throwing
  /\ Goto(w, "checkpoint", "dead")
  /\ UNCHANGED <<eventVars, _next_job, _current_job, clientVars, request>>

\* Mutant of SetFinished: the flag is raised, but nobody is woken up.
SetFinishedSilently(w) ==
  /\ Goto(w, "set_finished", "set_ready")
  /\ Returned(w)
  /\ isSet' = [isSet EXCEPT ![_checkpoint_finished(w)] = TRUE]
  /\ UNCHANGED <<call, _next_job, _current_job, clientVars, request>>

SetFinished(w) ==
  /\ Goto(w, "set_finished", "set_ready")
  /\ Set(w, _checkpoint_finished(w))
  /\ UNCHANGED <<_next_job, _current_job, clientVars, request>>

\* Mutant of SetReady: the worker sleeps again without getting ready.
NeverReady(w) ==
  /\ Goto(w, "set_ready", "wait_next")
  /\ Returned(w)
  /\ UNCHANGED <<eventVars, _next_job, _current_job, clientVars, request>>

\* post_checkpoint() is empty in every class of the repository.
SetReady(w) ==
  /\ Goto(w, "set_ready", "wait_next")
  /\ Set(w, _ready_event(w))
  /\ UNCHANGED <<_next_job, _current_job, clientVars, request>>

FinishWorkerCall(w) ==
  /\ FinishCall(w)
  /\ UNCHANGED <<workerVars, clientVars, request>>

WorkerRuns(w) ==
  \/ WaitNext(w) \/ UnsetNext(w) \/ TakeJob(w) \/ ResetJob(w) \/ UnsetReady(w)
  \/ DoCheckpoint(w) \/ SetFinished(w) \/ SetReady(w)
  \/ FinishWorkerCall(w)

Worker(w) == WorkerRuns(w) \/ ThrowInCheckpoint(w)

-----------------------------------------------------------------------------
(* The client: start_checkpoint(), join_checkpoint() and wait_ready().  *)

StartCheckpoint(w) ==
  /\ at = "idle"
  /\ Wait(Client, _ready_event(w))
  /\ at' = "post_job"
  /\ target' = w
  /\ UNCHANGED <<workerVars, request>>

PostJob ==
  /\ at = "post_job"
  /\ Returned(Client)
  /\ _next_job' = [_next_job EXCEPT ![target] = CHECKPOINT]
  /\ at' = "unset_finished"
  /\ request' = [request EXCEPT ![target] = "asked"]
  /\ UNCHANGED <<eventVars, _current_job, pc, target>>

\* Mutant of UnsetFinished: the event of the previous checkpoint stays up.
KeepFinished ==
  /\ at = "unset_finished"
  /\ Returned(Client)
  /\ at' = "set_next"
  /\ UNCHANGED <<eventVars, workerVars, target, request>>

UnsetFinished ==
  /\ at = "unset_finished"
  /\ Unset(Client, _checkpoint_finished(target))
  /\ at' = "set_next"
  /\ UNCHANGED <<workerVars, target, request>>

\* Mutant of SetNext: the job is posted, but the worker is not woken up.
SetNextForgotten ==
  /\ at = "set_next"
  /\ Returned(Client)
  /\ at' = "idle"
  /\ UNCHANGED <<eventVars, workerVars, target, request>>

SetNext ==
  /\ at = "set_next"
  /\ Set(Client, _next_event(target))
  /\ at' = "idle"
  /\ UNCHANGED <<workerVars, target, request>>

JoinCheckpoint(w) ==
  /\ at = "idle"
  /\ Wait(Client, _checkpoint_finished(w))
  /\ at' = "join"
  /\ target' = w
  /\ UNCHANGED <<workerVars, request>>

JoinReturns ==
  /\ at = "join"
  /\ Returned(Client)
  /\ at' = "idle"
  /\ request' = [request EXCEPT ![target] = "none"]
  /\ UNCHANGED <<eventVars, workerVars, target>>

WaitReady(w) ==
  /\ at = "idle"
  /\ Wait(Client, _ready_event(w))
  /\ UNCHANGED <<workerVars, clientVars, request>>

FinishClientCall ==
  /\ FinishCall(Client)
  /\ UNCHANGED <<workerVars, clientVars, request>>

\* The steps of a call that has begun.
ClientContinues == PostJob \/ UnsetFinished \/ SetNext \/ JoinReturns \/ FinishClientCall

\* The calls are the client's choice, but every start of a worker is followed
\* by one join of it.  The code does not enforce that; module InitModule is
\* checked to obey it.
Calls(w) ==
  \/ request[w] = "none" /\ StartCheckpoint(w)
  \/ request[w] # "none" /\ JoinCheckpoint(w)
  \/ WaitReady(w)

-----------------------------------------------------------------------------
Next ==
  \/ \E w \in Workers : Worker(w) \/ Calls(w)
  \/ ClientContinues

\* The kernel schedules every runnable thread; nothing obliges checkpoint()
\* to throw or the client to call.
Fairness ==
  /\ \A w \in Workers : WF_vars(WorkerRuns(w))
  /\ WF_vars(ClientContinues)

SafetySpec == Init /\ [][Next]_vars

Spec == SafetySpec /\ Fairness

-----------------------------------------------------------------------------
(* Properties *)

\* The worker runs checkpoint() or is about to.
Busy(w) == pc[w] \in {"unset_ready", "checkpoint"}

\* join_checkpoint() returns only when checkpoint() has run for the request
\* the client started, and the worker is out of it by then: what the client
\* reads after the join is a finished snapshot, for this request and not for
\* an earlier one.  (checkpointable.cc 61-106: the flag _checkpoint_finished
\* is lowered by one thread and raised by the other, without a lock.)
JoinMeansCheckpointed ==
  at = "join" /\ Returned(Client) =>
    request[target] = "executed" /\ ~Busy(target)

\* A worker runs checkpoint() only for a request that is outstanding and has
\* not been served: a job is never run twice, however late or often the
\* worker is woken up.  (checkpointable.cc 71-73)
RunsOncePerRequest ==
  \A w \in Workers : Busy(w) => request[w] = "asked"

\* start_checkpoint() never writes over a job the worker has not taken yet.
\* (checkpointable.cc 96-97: nothing in start_checkpoint() looks into the
\* one-element mailbox _next_job before it writes to it.)
MailboxIsEmpty ==
  at = "post_job" /\ Returned(Client) => _next_job[target] = NONE

\* Progress.  A job that was taken is run and the worker gets ready for the
\* next one, whatever the client does meanwhile.
TakenJobIsServed ==
  \A w \in Workers \ Throwing : Busy(w) ~> isSet[_ready_event(w)] /\ pc[w] = "wait_next"

\* A client that made it into the queue of _checkpoint_finished before the
\* worker raised the event is woken up by it.
QueuedJoinReturns ==
  \A w \in Workers \ Throwing :
    (call[Client] = InCall("blocked", _checkpoint_finished(w)) /\ Busy(w)) ~> Returned(Client)

-----------------------------------------------------------------------------
(* The three races of the protocol. *)

\* A thread has found the flag down, but by the time it enters the queue the
\* flag is up and the queue has been emptied.
MissedWakeup ==
  \E t \in Threads :
    /\ call[t].phase = "enqueue"
    /\ isSet[call[t].event]
    /\ \A u \in Threads : call[u] # InCall("release", call[t].event)

\* The worker is about to clear a job that it has not seen.
DroppedJob(w) ==
  pc[w] = "reset_job" /\ _current_job[w] = NONE /\ _next_job[w] = CHECKPOINT

\* The client is about to lower the event that reports the request it has
\* just posted as finished.
ErasedFinish(w) ==
  at = "unset_finished" /\ target = w /\ isSet[_checkpoint_finished(w)] /\ request[w] = "executed"

NoRace == ~MissedWakeup /\ \A w \in Workers : ~DroppedJob(w) /\ ~ErasedFinish(w)

\* These three are the only ways the protocol gets stuck: in a behaviour
\* without them every request is served, and every join that is called
\* returns.
OnlyRacesBlock ==
  []NoRace => \A w \in Workers \ Throwing :
    /\ request[w] = "asked" ~> request[w] # "asked"
    /\ at = "join" /\ target = w ~> at = "idle"

\* What checkpointable.h 62-64 says of _next_job: "If CHECKPOINT than the next
\* job will be a checkpoint".  A posted job stays in the mailbox until the
\* worker has read it.
PostedJobIsTaken ==
  [][\A w \in Workers : _next_job[w] = CHECKPOINT /\ _next_job'[w] = NONE
       => _current_job[w] = CHECKPOINT]_vars
=============================================================================
