--------------------------- MODULE InitModuleProofs ---------------------------
(***************************************************************************)
(* Safety of the checkpoint protocol for every set of workers, and of      *)
(* Init_module::checkpoint(), its client, for every list of children,      *)
(* every choice of optional sessions and either mode.                      *)
(*                                                                         *)
(* The first part is about Checkpointable alone, and none of its proofs    *)
(* cites an assumption of InitModule: a join returns only after            *)
(* checkpoint() has run for the request it belongs to, no job runs twice,  *)
(* and no posted job is overwritten.  The properties are not inductive:    *)
(* that the flag _checkpoint_finished is trustworthy depends on who may    *)
(* still raise it, which depends on where the worker is, which depends on  *)
(* what the client waited for before it posted the job.  IInv states these *)
(* dependencies, one conjunct for each.                                    *)
(*                                                                         *)
(* The second part shows that the calls of Init_module respect the         *)
(* protocol and that, when checkpoint() returns, all workers of all        *)
(* children have run and rest.  It relates the place in the order of calls *)
(* to the requests: exactly the workers whose start lies behind and whose  *)
(* join lies ahead have a request, the worker of the call in progress      *)
(* excepted.                                                               *)
(***************************************************************************)
EXTENDS InitModule, TLAPS

-----------------------------------------------------------------------------
(* Checkpointable: the worker and client protocol. *)


\* A worker has a job, in the mailbox or in its hands, only while the request
\* is asked for, and the mailbox stays empty while it serves a job.
JobsAreAsked(w) ==
  /\ _next_job[w] = CHECKPOINT => request[w] = "asked"
  /\ pc[w] = "reset_job" /\ _current_job[w] = CHECKPOINT => request[w] = "asked"
  /\ pc[w] \in {"unset_ready", "checkpoint"} => request[w] = "asked"
  /\ pc[w] \in {"unset_ready", "checkpoint", "set_finished", "set_ready"}
       => _next_job[w] = NONE

\* Between the end of checkpoint() and the end of the iteration.
ServedIsNotAsked(w) ==
  /\ pc[w] = "set_finished" => request[w] = "executed"
  /\ pc[w] = "set_ready" => request[w] # "asked"

\* The flag of an earlier request survives into the next one only until the
\* client lowers it.
StaleFinish(w) ==
  isSet[_checkpoint_finished(w)]
    /\ (request[w] = "asked" \/ pc[w] \in {"unset_ready", "checkpoint", "set_finished"})
  => at = "unset_finished" /\ target = w

ReadyIsDown(w) ==
  pc[w] \in {"checkpoint", "set_finished", "set_ready", "dead"} => ~isSet[_ready_event(w)]

\* Which call each thread can be inside of.
WorkerCalls(w) ==
  \/ call[w] = Running
  \/ /\ call[w] \in {InCall("enqueue", _next_event(w)), InCall("blocked", _next_event(w))}
     /\ pc[w] = "unset_next"
  \/ call[w] = InCall("release", _checkpoint_finished(w)) /\ pc[w] = "set_ready"
  \/ call[w] = InCall("release", _ready_event(w)) /\ pc[w] = "wait_next"

ClientCalls ==
  \/ call[Client] = Running
  \/ /\ at = "post_job"
     /\ call[Client] \in {InCall("enqueue", _ready_event(target)),
                          InCall("blocked", _ready_event(target))}
  \/ /\ at = "join"
     /\ call[Client] \in {InCall("enqueue", _checkpoint_finished(target)),
                          InCall("blocked", _checkpoint_finished(target))}
  \/ /\ at = "idle"
     /\ \E w \in Workers : call[Client] \in {InCall("release", _next_event(w)),
                                             InCall("enqueue", _ready_event(w)),
                                             InCall("blocked", _ready_event(w))}

\* The request of the client's target at each of its statements.
TargetRequest ==
  /\ at = "post_job" => request[target] = "none"
  /\ at = "join" => request[target] # "none"

\* The client posts a job only to a worker that has none in service.
PostedToFree ==
  at = "post_job" /\ Returned(Client) =>
    pc[target] \in {"wait_next", "unset_next", "take_job", "reset_job"}

\* The client leaves a join only behind the checkpoint.
Joined ==
  at = "join" /\ Returned(Client) =>
    /\ request[target] = "executed"
    /\ pc[target] \notin {"unset_ready", "checkpoint", "set_finished"}

WorkerInv(w) ==
  /\ JobsAreAsked(w)
  /\ ServedIsNotAsked(w)
  /\ StaleFinish(w)
  /\ ReadyIsDown(w)
  /\ WorkerCalls(w)

IInv ==
  /\ TypeOK
  /\ \A w \in Workers : WorkerInv(w)
  /\ ClientCalls
  /\ TargetRequest
  /\ PostedToFree
  /\ Joined

-----------------------------------------------------------------------------
(* The steps of Event, in terms of the event they are about. *)

LEMMA EventCalls ==
  ASSUME NEW e \in Events, NEW f \in Events,
         NEW p \in {"enqueue", "blocked", "release"},
         NEW q \in {"enqueue", "blocked", "release"}
  PROVE  /\ InCall(p, e) # Running
         /\ InCall(p, e) = InCall(q, f) <=> p = q /\ e = f
         /\ InCall(p, e) \in CallsOn(Events)
         /\ InCall(p, e).phase = p
         /\ InCall(p, e).event = e
  BY DEF InCall, Running, CallsOn

LEMMA EnqueueStep ==
  ASSUME NEW t \in Threads, call \in [Threads -> CallsOn(Events)], Enqueue(t)
  PROVE  \E e \in Events :
            /\ call[t] = InCall("enqueue", e)
            /\ call' = [call EXCEPT ![t] = InCall("blocked", e)]
            /\ isSet' = isSet
<1>1. call[t] # Running
  BY DEF Enqueue, Running
<1>2. PICK p \in {"enqueue", "blocked", "release"}, e \in Events : call[t] = InCall(p, e)
  BY <1>1 DEF CallsOn, InCall
<1>3. call[t].phase = p /\ call[t].event = e
  BY <1>2, EventCalls
<1>4. QED
  BY <1>2, <1>3 DEF Enqueue

LEMMA ReleaseStep ==
  ASSUME NEW t \in Threads, call \in [Threads -> CallsOn(Events)], Release(t)
  PROVE  \E e \in Events :
            /\ call[t] = InCall("release", e)
            /\ call' = [u \in Threads |-> IF u = t \/ call[u] = InCall("blocked", e)
                                          THEN Running ELSE call[u]]
            /\ isSet' = isSet
<1>1. call[t] # Running
  BY DEF Release, Running
<1>2. PICK p \in {"enqueue", "blocked", "release"}, e \in Events : call[t] = InCall(p, e)
  BY <1>1 DEF CallsOn, InCall
<1>3. call[t].phase = p /\ call[t].event = e
  BY <1>2, EventCalls
<1>4. DOMAIN call = Threads
  OBVIOUS
<1>5. QED
  BY <1>2, <1>3, <1>4 DEF Release, _waiting_callers

-----------------------------------------------------------------------------
LEMMA InitIInv == Init => IInv
<1> SUFFICES ASSUME Init PROVE IInv
  OBVIOUS
<1> USE ConstantsAssumption DEF Init
<1>1. TypeOK
  BY DEF TypeOK, Threads, CallsOn, Job, NONE, WorkerStatements, ClientStatements, Requests
<1>2. ASSUME NEW w \in Workers PROVE WorkerInv(w)
  BY DEF WorkerInv, JobsAreAsked, ServedIsNotAsked, StaleFinish, ReadyIsDown, WorkerCalls,
         Events, Threads, _checkpoint_finished, CHECKPOINT, NONE
<1>3. ClientCalls /\ TargetRequest /\ PostedToFree /\ Joined
  BY DEF ClientCalls, TargetRequest, PostedToFree, Joined, Threads
<1>4. QED
  BY <1>1, <1>2, <1>3 DEF IInv

-----------------------------------------------------------------------------
LEMMA TypePreserved ==
  ASSUME TypeOK, [Next]_vars
  PROVE  TypeOK'
<1> USE DEF TypeOK, Job, Requests, CHECKPOINT, NONE
<1>1. \A w \in Workers : /\ _next_event(w) \in Events
                         /\ _checkpoint_finished(w) \in Events
                         /\ _ready_event(w) \in Events
  BY DEF Events, _next_event, _checkpoint_finished, _ready_event
<1>2. \A e \in Events, p \in {"enqueue", "blocked", "release"} : InCall(p, e) \in CallsOn(Events)
  BY EventCalls
<1>3. Running \in CallsOn(Events)
  BY DEF CallsOn
<1>4. ASSUME NEW t \in Threads, NEW e \in Events, Wait(t, e) \/ Set(t, e) \/ Unset(t, e)
      PROVE  isSet' \in [Events -> BOOLEAN] /\ call' \in [Threads -> CallsOn(Events)]
  BY <1>2, <1>4 DEF Wait, Set, Unset
<1>5. ASSUME NEW t \in Threads, FinishCall(t)
      PROVE  isSet' \in [Events -> BOOLEAN] /\ call' \in [Threads -> CallsOn(Events)]
  <2>1. CASE Enqueue(t)
    BY <1>2, <2>1, EnqueueStep
  <2>2. CASE Release(t)
    BY <1>3, <2>2, ReleaseStep
  <2>3. QED
    BY <1>5, <2>1, <2>2 DEF FinishCall
<1>6. ASSUME NEW w \in Workers, Worker(w) PROVE TypeOK'
  <2> w \in Threads
    BY DEF Threads
  <2> USE <1>1, <1>4, <1>5 DEF Goto, WorkerStatements, clientVars, eventVars, workerVars
  <2>1. CASE WaitNext(w)
    BY <2>1 DEF WaitNext
  <2>2. CASE UnsetNext(w)
    BY <2>2 DEF UnsetNext
  <2>3. CASE TakeJob(w)
    BY <2>3 DEF TakeJob
  <2>4. CASE ResetJob(w)
    BY <2>4 DEF ResetJob
  <2>5. CASE UnsetReady(w)
    BY <2>5 DEF UnsetReady
  <2>6. CASE DoCheckpoint(w)
    BY <2>6 DEF DoCheckpoint
  <2>7. CASE ThrowInCheckpoint(w)
    BY <2>7 DEF ThrowInCheckpoint
  <2>8. CASE SetFinished(w)
    BY <2>8 DEF SetFinished
  <2>9. CASE SetReady(w)
    BY <2>9 DEF SetReady
  <2>10. CASE FinishWorkerCall(w)
    BY <2>10 DEF FinishWorkerCall
  <2>11. QED
    BY <1>6, <2>1, <2>2, <2>3, <2>4, <2>5, <2>6, <2>7, <2>8, <2>9, <2>10 DEF Worker, WorkerRuns
<1>7. ASSUME NEW w \in Workers, Calls(w) PROVE TypeOK'
  <2> Client \in Threads
    BY DEF Threads
  <2>1. QED
    BY <1>1, <1>4, <1>7 DEF Calls, StartCheckpoint, JoinCheckpoint, WaitReady, ClientStatements,
                            clientVars, workerVars
<1>8. ASSUME ClientContinues PROVE TypeOK'
  <2> Client \in Threads
    BY DEF Threads
  <2>1. QED
    BY <1>1, <1>4, <1>5, <1>8
       DEF ClientContinues, PostJob, UnsetFinished, SetNext, JoinReturns, FinishClientCall,
           ClientStatements, eventVars, clientVars, workerVars
<1>9. CASE UNCHANGED vars
  BY <1>9 DEF vars, eventVars, workerVars, clientVars
<1>10. QED
  BY <1>6, <1>7, <1>8, <1>9 DEF Next

-----------------------------------------------------------------------------
LEMMA EventNames ==
  ASSUME NEW v \in Workers, NEW w \in Workers
  PROVE  /\ _next_event(w) \in Events
         /\ _checkpoint_finished(w) \in Events
         /\ _ready_event(w) \in Events
         /\ _next_event(v) = _next_event(w) => v = w
         /\ _checkpoint_finished(v) = _checkpoint_finished(w) => v = w
         /\ _ready_event(v) = _ready_event(w) => v = w
         /\ _next_event(v) # _checkpoint_finished(w)
         /\ _next_event(v) # _ready_event(w)
         /\ _checkpoint_finished(v) # _ready_event(w)
  BY DEF _next_event, _checkpoint_finished, _ready_event, Events

LEMMA InCallsDiffer ==
  \A e, f \in Events : \A p, q \in {"enqueue", "blocked", "release"} :
    /\ InCall(p, e) # Running
    /\ InCall(p, e) = InCall(q, f) => p = q /\ e = f
  BY EventCalls

\* A step of a worker preserves the inductive invariant.
LEMMA WorkerPreservesIInv ==
  ASSUME IInv, TypeOK', NEW w \in Workers, Worker(w)
  PROVE  IInv'
<1> USE ConstantsAssumption, InCallsDiffer, EventNames
        DEF IInv, WorkerInv, TypeOK, Threads, Job, CHECKPOINT, NONE, Goto, Returned,
            eventVars, clientVars, workerVars,
            JobsAreAsked, ServedIsNotAsked, StaleFinish, ReadyIsDown, WorkerCalls, ClientCalls,
            TargetRequest, PostedToFree, Joined
<1>1. CASE WaitNext(w)
  BY <1>1 DEF WaitNext, Wait
<1>2. CASE UnsetNext(w)
  BY <1>2 DEF UnsetNext, Unset
<1>3. CASE TakeJob(w)
  BY <1>3 DEF TakeJob
<1>4. CASE ResetJob(w)
  BY <1>4 DEF ResetJob
<1>5. CASE UnsetReady(w)
  BY <1>5 DEF UnsetReady, Unset
<1>6. CASE DoCheckpoint(w)
  BY <1>6 DEF DoCheckpoint
<1>7. CASE ThrowInCheckpoint(w)
  BY <1>7 DEF ThrowInCheckpoint
<1>8. CASE SetFinished(w)
  BY <1>8 DEF SetFinished, Set
<1>9. CASE SetReady(w)
  BY <1>9 DEF SetReady, Set
<1>10. CASE FinishWorkerCall(w)
  <2>1. CASE Enqueue(w)
    BY <1>10, <2>1, EnqueueStep DEF FinishWorkerCall
  <2>2. CASE Release(w)
    <3>1. PICK e \in Events :
            /\ call[w] = InCall("release", e)
            /\ call' = [u \in Threads |-> IF u = w \/ call[u] = InCall("blocked", e)
                                          THEN Running ELSE call[u]]
            /\ isSet' = isSet
      BY <2>2, ReleaseStep
    <3>2. UNCHANGED <<workerVars, clientVars, request>>
      BY <1>10 DEF FinishWorkerCall
    <3>3. \/ e = _checkpoint_finished(w) /\ pc[w] = "set_ready"
          \/ e = _ready_event(w) /\ pc[w] = "wait_next"
      BY <3>1
    <3>4. \A v \in Workers : WorkerInv(v)'
      BY <3>1, <3>2
    <3>5. ClientCalls'
      BY <3>1, <3>2
    <3>6. TargetRequest'
      BY <3>2
    <3>7. PostedToFree'
      BY <3>1, <3>2, <3>3
    <3>8. Joined'
      BY <3>1, <3>2, <3>3 DEF Requests
    <3>9. QED
      BY <3>4, <3>5, <3>6, <3>7, <3>8
  <2>3. QED
    BY <1>10, <2>1, <2>2 DEF FinishWorkerCall, FinishCall
<1>11. QED
  BY <1>1, <1>2, <1>3, <1>4, <1>5, <1>6, <1>7, <1>8, <1>9, <1>10 DEF Worker, WorkerRuns

\* A step of the client preserves the inductive invariant.
LEMMA ClientPreservesIInv ==
  ASSUME IInv, TypeOK', ClientContinues \/ (\E w \in Workers : Calls(w))
  PROVE  IInv'
<1> USE ConstantsAssumption, InCallsDiffer, EventNames
        DEF IInv, WorkerInv, TypeOK, Threads, Job, CHECKPOINT, NONE, Requests, Returned,
            eventVars, clientVars, workerVars,
            JobsAreAsked, ServedIsNotAsked, StaleFinish, ReadyIsDown, WorkerCalls, ClientCalls,
            TargetRequest, PostedToFree, Joined
<1>1. ASSUME NEW w \in Workers, request[w] = "none", StartCheckpoint(w) PROVE IInv'
  <2>1. \A v \in Workers : WorkerInv(v)'
    BY <1>1 DEF StartCheckpoint, Wait
  <2>2. ClientCalls' /\ TargetRequest' /\ Joined'
    BY <1>1 DEF StartCheckpoint, Wait
  <2>3. PostedToFree'
    BY <1>1 DEF StartCheckpoint, Wait, WorkerStatements
  <2>4. QED
    BY <2>1, <2>2, <2>3
<1>2. ASSUME NEW w \in Workers, request[w] # "none", JoinCheckpoint(w) PROVE IInv'
  BY <1>2 DEF JoinCheckpoint, Wait
<1>3. ASSUME NEW w \in Workers, WaitReady(w) PROVE IInv'
  BY <1>3 DEF WaitReady, Wait
<1>4. CASE PostJob
  BY <1>4 DEF PostJob
<1>5. CASE UnsetFinished
  BY <1>5 DEF UnsetFinished, Unset
<1>6. CASE SetNext
  BY <1>6 DEF SetNext, Set
<1>7. CASE JoinReturns
  BY <1>7 DEF JoinReturns
<1>8. CASE FinishClientCall
  <2> Client \in Threads
    OBVIOUS
  <2>1. CASE Enqueue(Client)
    BY <1>8, <2>1, EnqueueStep DEF FinishClientCall
  <2>2. CASE Release(Client)
    <3>1. PICK e \in Events :
            /\ call[Client] = InCall("release", e)
            /\ call' = [u \in Threads |-> IF u = Client \/ call[u] = InCall("blocked", e)
                                          THEN Running ELSE call[u]]
            /\ isSet' = isSet
      BY <2>2, ReleaseStep
    <3>2. UNCHANGED <<workerVars, clientVars, request>>
      BY <1>8 DEF FinishClientCall
    <3>3. at = "idle"
      BY <3>1
    <3>4. \A v \in Workers : WorkerInv(v)'
      BY <3>1, <3>2
    <3>5. QED
      BY <3>1, <3>2, <3>3, <3>4
  <2>3. QED
    BY <1>8, <2>1, <2>2 DEF FinishClientCall, FinishCall
<1>9. QED
  BY <1>1, <1>2, <1>3, <1>4, <1>5, <1>6, <1>7, <1>8 DEF Calls, ClientContinues

\* Every step preserves the inductive invariant.
LEMMA StepPreservesIInv ==
  ASSUME IInv, [Next]_vars
  PROVE  IInv'
<1>1. TypeOK'
  BY TypePreserved DEF IInv
<1>2. CASE \E w \in Workers : Worker(w)
  BY <1>1, <1>2, WorkerPreservesIInv
<1>3. CASE ClientContinues \/ (\E w \in Workers : Calls(w))
  BY <1>1, <1>3, ClientPreservesIInv
<1>4. CASE UNCHANGED vars
  BY <1>4 DEF vars, eventVars, workerVars, clientVars, IInv, TypeOK, WorkerInv, JobsAreAsked,
              ServedIsNotAsked, StaleFinish, ReadyIsDown, WorkerCalls, ClientCalls,
              TargetRequest, PostedToFree, Joined, Returned
<1>5. QED
  BY <1>2, <1>3, <1>4 DEF Next

\* The inductive invariant holds in every reachable state.
THEOREM InductiveInvariant == SafetySpec => []IInv
  BY InitIInv, StepPreservesIInv, PTL DEF SafetySpec

-----------------------------------------------------------------------------
\* Every variable keeps its type, for any number of workers.
THEOREM TypeCorrect == SafetySpec => []TypeOK
<1>1. IInv => TypeOK
  BY DEF IInv
<1>2. QED
  BY InductiveInvariant, <1>1, PTL

\* join_checkpoint() returns behind the checkpoint it belongs to, for any
\* number of workers and any of them throwing.
THEOREM JoinIsSafe == SafetySpec => []JoinMeansCheckpointed
<1>1. IInv => JoinMeansCheckpointed
  BY DEF IInv, Joined, JoinMeansCheckpointed, Busy
<1>2. QED
  BY InductiveInvariant, <1>1, PTL

\* checkpoint() runs at most once for a request.
THEOREM NoJobRunsTwice == SafetySpec => []RunsOncePerRequest
<1>1. IInv => RunsOncePerRequest
  BY DEF IInv, WorkerInv, JobsAreAsked, RunsOncePerRequest, Busy
<1>2. QED
  BY InductiveInvariant, <1>1, PTL

\* The one-element mailbox is empty whenever the client writes to it.
THEOREM MailboxIsSafe == SafetySpec => []MailboxIsEmpty
<1>1. IInv => MailboxIsEmpty
  BY DEF IInv, TypeOK, WorkerInv, JobsAreAsked, TargetRequest, MailboxIsEmpty, Job, CHECKPOINT, NONE
<1>2. QED
  BY InductiveInvariant, <1>1, PTL

-----------------------------------------------------------------------------
(* Init_module: the order of the calls. *)


WorkerAt(i, j) == <<Childs[i], Order[j]>>

Places == (DOMAIN Childs) \X (1 .. N)

\* The start, the join of the j-th session of the i-th child lies behind.
Started(i, j) ==
  \/ i < child
  \/ /\ i = child
     /\ IF Parallel THEN op = "join" \/ j < position
        ELSE j < position \/ (j = position /\ op = "join")

JoinCalled(i, j) ==
  \/ i < child
  \/ /\ i = child
     /\ IF Parallel THEN op = "join" /\ j < position ELSE j < position

Posting(w) == at = "post_job" /\ target = w
Joining(w) == at = "join" /\ target = w

RequestAtPlace(i, j) ==
  LET w == WorkerAt(i, j)
  IN  /\ request[w] # "none" <=>
           (Started(i, j) /\ ~JoinCalled(i, j) /\ ~Posting(w)) \/ Joining(w)
      /\ Posting(w) => Started(i, j) /\ ~JoinCalled(i, j)
      /\ Joining(w) => JoinCalled(i, j)

DoneAtPlace(i, j) ==
  LET w == WorkerAt(i, j)
  IN  /\ JoinCalled(i, j) /\ ~Joining(w) => w \in done
      /\ request[w] = "executed" => w \in done

PlaceType ==
  /\ child \in Nat \ {0}
  /\ position \in 1 .. N
  /\ op \in {"start", "join"}
  /\ active \in BOOLEAN

PlaceInv ==
  /\ PlaceType
  /\ active => \A p \in Places : Has(p[1], p[2]) =>
                 RequestAtPlace(p[1], p[2]) /\ DoneAtPlace(p[1], p[2])
  /\ ~active => /\ at = "idle"
                /\ \A p \in Places : Has(p[1], p[2]) => request[WorkerAt(p[1], p[2])] = "none"

IMInv == IInv /\ PlaceInv

-----------------------------------------------------------------------------
LEMMA PlacesDiffer ==
  ASSUME NEW p \in Places, NEW q \in Places, WorkerAt(p[1], p[2]) = WorkerAt(q[1], q[2])
  PROVE  p = q
<1>1. p[1] = q[1]
  BY ModuleAssumption DEF Places, WorkerAt
<1>2. p[2] \in 1 .. 8 /\ q[2] \in 1 .. 8 /\ Order[p[2]] = Order[q[2]]
  BY DEF Places, WorkerAt, N
<1>3. p[2] = q[2]
  BY <1>2 DEF Order
<1>4. QED
  BY <1>1, <1>3 DEF Places

LEMMA WorkersHavePlaces ==
  /\ \A p \in Places : Has(p[1], p[2]) => WorkerAt(p[1], p[2]) \in Workers
  /\ \A i \in DOMAIN Childs, j \in 1 .. N : WorkerAt(i, j) \in Workers => Has(i, j)
  /\ \A w \in Workers : w[1] \in CheckpointedChilds =>
       \E p \in Places : Has(p[1], p[2]) /\ w = WorkerAt(p[1], p[2])
<1>1. \A j \in 1 .. 8 : Order[j] \in Mandatory \cup Optional
  BY DEF Order, Mandatory, Optional
<1>2. \A s \in Mandatory \cup Optional : \E j \in 1 .. 8 : Order[j] = s
  <2>1. /\ Parallel => /\ Order[1] = "capability_mapping" /\ Order[2] = "pd"
                       /\ Order[3] = "ram" /\ Order[4] = "cpu" /\ Order[5] = "rm"
                       /\ Order[6] = "rom" /\ Order[7] = "log" /\ Order[8] = "timer"
        /\ ~Parallel => /\ Order[8] = "capability_mapping" /\ Order[1] = "pd"
                        /\ Order[2] = "ram" /\ Order[3] = "cpu" /\ Order[4] = "rm"
                        /\ Order[5] = "rom" /\ Order[6] = "log" /\ Order[7] = "timer"
    BY DEF Order
  <2>2. 1 \in 1 .. 8 /\ 2 \in 1 .. 8 /\ 3 \in 1 .. 8 /\ 4 \in 1 .. 8
        /\ 5 \in 1 .. 8 /\ 6 \in 1 .. 8 /\ 7 \in 1 .. 8 /\ 8 \in 1 .. 8
    OBVIOUS
  <2>3. QED
    BY <2>1, <2>2, Zenon DEF Mandatory, Optional
<1>3. \A i \in DOMAIN Childs : Childs[i] \in DOMAIN Opened
  BY ModuleAssumption
<1>4. \A c, s : <<c, s>> \in Workers <=>
        c \in DOMAIN Opened /\ s \in Mandatory \cup Optional /\ s \in SessionsOf(c)
  BY ModuleAssumption
<1>5. \A i \in DOMAIN Childs, j \in 1 .. N : Has(i, j) <=> WorkerAt(i, j) \in Workers
  BY <1>1, <1>3, <1>4 DEF Has, WorkerAt, N
<1>6. ASSUME NEW w \in Workers, w[1] \in CheckpointedChilds
      PROVE  \E p \in Places : Has(p[1], p[2]) /\ w = WorkerAt(p[1], p[2])
  <2>1. PICK i \in DOMAIN Childs : w[1] = Childs[i]
    BY <1>6 DEF CheckpointedChilds
  <2>2. w = <<w[1], w[2]>> /\ w[2] \in Mandatory \cup Optional
    BY ModuleAssumption
  <2>3. PICK j \in 1 .. 8 : Order[j] = w[2]
    BY <1>2, <2>2
  <2>4. w = WorkerAt(i, j)
    BY <2>1, <2>2, <2>3 DEF WorkerAt
  <2>5. Has(i, j)
    BY <1>5, <2>4 DEF N
  <2>6. <<i, j>> \in Places
    BY DEF Places, N
  <2>7. QED
    BY <2>4, <2>5, <2>6
<1>7. QED
  BY <1>5, <1>6 DEF Places

-----------------------------------------------------------------------------
\* What one call does to the place: it lies behind now, and nothing else does.
LEMMA AdvanceMeans ==
  ASSUME PlaceType, child <= Len(Childs), UNCHANGED active,
         IF Parallel THEN AdvanceParallel ELSE AdvanceSequential
  PROVE  /\ PlaceType'
         /\ \A p \in Places : Has(p[1], p[2]) =>
              LET here == p = <<child, position>>
              IN  /\ op = "start" => /\ Started(p[1], p[2])' <=> Started(p[1], p[2]) \/ here
                                     /\ JoinCalled(p[1], p[2])' <=> JoinCalled(p[1], p[2])
                                     /\ here => ~Started(p[1], p[2]) /\ ~JoinCalled(p[1], p[2])
                  /\ op = "join" => /\ Started(p[1], p[2])' <=> Started(p[1], p[2])
                                    /\ JoinCalled(p[1], p[2])' <=> JoinCalled(p[1], p[2]) \/ here
                                    /\ here => Started(p[1], p[2]) /\ ~JoinCalled(p[1], p[2])
<1> USE DEF PlaceType, N
<1>1. PlaceType'
  BY DEF AdvanceParallel, AdvanceSequential, NextSession, NextChild
<1>2. ASSUME NEW i \in DOMAIN Childs, NEW j \in 1 .. N, Has(i, j)
      PROVE  LET here == <<i, j>> = <<child, position>>
             IN  /\ op = "start" => /\ Started(i, j)' <=> Started(i, j) \/ here
                                    /\ JoinCalled(i, j)' <=> JoinCalled(i, j)
                                    /\ here => ~Started(i, j) /\ ~JoinCalled(i, j)
                 /\ op = "join" => /\ Started(i, j)' <=> Started(i, j)
                                   /\ JoinCalled(i, j)' <=> JoinCalled(i, j) \/ here
                                   /\ here => Started(i, j) /\ ~JoinCalled(i, j)
  <2>1. i \in Nat /\ j \in Nat
    BY ModuleAssumption
  <2>2. CASE Parallel
    BY <1>2, <2>1, <2>2 DEF Started, JoinCalled, AdvanceParallel, NextSession, IsLastSession, NextChild
  <2>3. CASE ~Parallel
    BY <1>2, <2>1, <2>3 DEF Started, JoinCalled, AdvanceSequential, NextSession, IsLastSession, NextChild
  <2>4. QED
    BY <2>2, <2>3
<1>3. QED
  BY <1>1, <1>2 DEF Places

\* The call at the place respects the protocol.
LEMMA CallIsAllowed ==
  ASSUME IMInv, NextCall
  PROVE  \E w \in Workers :
           /\ w = WorkerAt(child, position)
           /\ <<child, position>> \in Places /\ Has(child, position)
           /\ at = "idle"
           /\ op = "start" => request[w] = "none" /\ StartCheckpoint(w)
           /\ op = "join" => request[w] # "none" /\ JoinCheckpoint(w)
<1>1. PICK w \in Workers : /\ w = WorkerAt(child, position)
                          /\ \/ op = "start" /\ StartCheckpoint(w)
                             \/ op = "join" /\ JoinCheckpoint(w)
  BY DEF NextCall, WorkerAt
<1>2. <<child, position>> \in Places
  BY ModuleAssumption DEF NextCall, IMInv, PlaceInv, PlaceType, Places
<1>3. Has(child, position)
  BY <1>1, <1>2, WorkersHavePlaces DEF Places
<1>4. at = "idle"
  BY <1>1 DEF StartCheckpoint, JoinCheckpoint
<1>5. RequestAtPlace(child, position)
  BY <1>2, <1>3 DEF IMInv, PlaceInv, NextCall
<1>6. op = "start" => ~Started(child, position)
  BY DEF Started, IMInv, PlaceInv, PlaceType, N
<1>7. op = "join" => Started(child, position) /\ ~JoinCalled(child, position)
  BY DEF Started, JoinCalled, IMInv, PlaceInv, PlaceType, N
<1>8. QED
  BY <1>1, <1>2, <1>3, <1>4, <1>5, <1>6, <1>7 DEF RequestAtPlace, Posting, Joining

\* Every step of Init_module is a step of a client of the protocol, or none.
LEMMA StepImplements ==
  ASSUME IMInv, [IMNext]_imVars
  PROVE  [Next]_vars
<1>1. ASSUME NEW w \in Workers, WorkerStep(w) PROVE Next
  BY <1>1 DEF WorkerStep, Next
<1>2. CASE ClientStep
  BY <1>2 DEF ClientStep, Next
<1>3. CASE CallCheckpoint \/ CheckpointReturns \/ Pause \/ Resume
  BY <1>3 DEF CallCheckpoint, CheckpointReturns, Pause, Resume
<1>4. CASE NextCall
  <2>1. op \in {"start", "join"}
    BY DEF IMInv, PlaceInv, PlaceType
  <2>2. QED
    BY <1>4, <2>1, CallIsAllowed DEF Calls, Next
<1>5. CASE UNCHANGED imVars
  BY <1>5 DEF imVars
<1>6. QED
  BY <1>1, <1>2, <1>3, <1>4, <1>5 DEF IMNext

-----------------------------------------------------------------------------
\* What a step of a worker does to the requests.
LEMMA WorkerEffect ==
  ASSUME IInv, NEW w \in Workers, WorkerStep(w)
  PROVE  /\ UNCHANGED <<clientVars, script, active>>
         /\ done \subseteq done'
         /\ \A v \in Workers : /\ request'[v] = "none" <=> request[v] = "none"
                               /\ request'[v] = "executed" => request[v] = "executed" \/ v \in done'
<1> USE DEF WorkerStep, IInv, TypeOK, Goto, clientVars, workerVars, eventVars
<1>1. CASE DoCheckpoint(w)
  BY <1>1 DEF DoCheckpoint
<1>2. CASE ~DoCheckpoint(w)
  <2>1. UNCHANGED <<clientVars, request>>
    BY <1>2 DEF Worker, WorkerRuns, WaitNext, UnsetNext, TakeJob, ResetJob, UnsetReady,
                ThrowInCheckpoint, SetFinished, SetReady, FinishWorkerCall
  <2>2. QED
    BY <2>1
<1>3. QED
  BY <1>1, <1>2

LEMMA StepPreservesPlace ==
  ASSUME IMInv, IInv', [IMNext]_imVars
  PROVE  PlaceInv'
<1> USE WorkersHavePlaces
    DEF IMInv, PlaceInv, RequestAtPlace, DoneAtPlace, Posting, Joining, script, clientVars, moduleVars
<1>1. ASSUME NEW w \in Workers, WorkerStep(w) PROVE PlaceInv'
  BY <1>1, WorkerEffect DEF PlaceType, Started, JoinCalled, WorkerAt, Has
<1>2. CASE ClientStep
  <2>1. UNCHANGED <<moduleVars>>
    BY <1>2 DEF ClientStep
  <2> USE <2>1 DEF ClientContinues, PlaceType, Started, JoinCalled, WorkerAt, Has, IInv, TypeOK
  <2>2. CASE PostJob
    BY <2>2 DEF PostJob
  <2>3. CASE UnsetFinished
    BY <2>3 DEF UnsetFinished
  <2>4. CASE SetNext
    BY <2>4 DEF SetNext
  <2>5. CASE JoinReturns
    BY <2>5 DEF JoinReturns, Joined
  <2>6. CASE FinishClientCall
    BY <2>6 DEF FinishClientCall
  <2>7. QED
    BY <1>2, <2>2, <2>3, <2>4, <2>5, <2>6 DEF ClientStep
<1>3. CASE CallCheckpoint
  <2>1. \A p \in Places : ~Started(p[1], p[2])' /\ ~JoinCalled(p[1], p[2])'
    BY <1>3, ModuleAssumption DEF CallCheckpoint, Started, JoinCalled, Places, N
  <2>2. QED
    BY <1>3, <2>1 DEF CallCheckpoint, vars, PlaceType, WorkerAt, Has, N
<1>4. CASE NextCall
  <2>1. PICK w \in Workers :
           /\ w = WorkerAt(child, position)
           /\ <<child, position>> \in Places /\ Has(child, position)
           /\ at = "idle"
           /\ op = "start" => request[w] = "none" /\ StartCheckpoint(w)
           /\ op = "join" => request[w] # "none" /\ JoinCheckpoint(w)
    BY <1>4, CallIsAllowed
  <2>2. child <= Len(Childs) /\ (IF Parallel THEN AdvanceParallel ELSE AdvanceSequential)
        /\ active /\ UNCHANGED <<active, calls, done, paused>>
    BY <1>4 DEF NextCall
  <2>3. \A p \in Places : WorkerAt(p[1], p[2]) = w => p = <<child, position>>
    BY <2>1, PlacesDiffer
  <2>4. PlaceType'
    BY <2>2, AdvanceMeans
  <2>5. request' = request /\ target' = w
    BY <2>1, <2>2 DEF StartCheckpoint, JoinCheckpoint, PlaceType
  <2>6. ASSUME NEW p \in Places, Has(p[1], p[2])
        PROVE  RequestAtPlace(p[1], p[2])' /\ DoneAtPlace(p[1], p[2])'
    <3>1. CASE op = "start"
      BY <2>1, <2>2, <2>3, <2>5, <2>6, <3>1, AdvanceMeans DEF StartCheckpoint, WorkerAt
    <3>2. CASE op = "join"
      BY <2>1, <2>2, <2>3, <2>5, <2>6, <3>2, AdvanceMeans DEF JoinCheckpoint, WorkerAt
    <3>3. QED
      BY <3>1, <3>2 DEF PlaceType
  <2>7. QED
    BY <2>2, <2>4, <2>6 DEF Has
<1>5. CASE CheckpointReturns
  <2>1. \A p \in Places : Started(p[1], p[2]) /\ JoinCalled(p[1], p[2])
    BY <1>5, ModuleAssumption DEF CheckpointReturns, Started, JoinCalled, Places, PlaceType
  <2>2. QED
    BY <1>5, <2>1 DEF CheckpointReturns, BetweenCalls, vars, PlaceType, WorkerAt, Has
<1>6. CASE Pause \/ Resume \/ UNCHANGED imVars
  <2>1. UNCHANGED <<script, active, done, clientVars, request>>
    BY <1>6 DEF Pause, Resume, imVars, vars
  <2>2. QED
    BY <2>1 DEF PlaceType, Started, JoinCalled, WorkerAt, Has
<1>7. QED
  BY <1>1, <1>2, <1>3, <1>4, <1>5, <1>6 DEF IMNext

-----------------------------------------------------------------------------
LEMMA IMInvInitial == IMInit => IMInv
<1> SUFFICES ASSUME IMInit PROVE IMInv
  OBVIOUS
<1>1. IInv
  BY InitIInv DEF IMInit
<1>2. \A p \in Places : Has(p[1], p[2]) => request[WorkerAt(p[1], p[2])] = "none"
  BY WorkersHavePlaces DEF IMInit, Init
<1>3. active \in BOOLEAN /\ ~active
  BY Zenon DEF IMInit
<1>4. child \in Nat \ {0} /\ position \in 1 .. N /\ op \in {"start", "join"}
  BY DEF IMInit, N
<1>5. at = "idle"
  BY DEF IMInit, Init
<1>6. QED
  BY <1>1, <1>2, <1>3, <1>4, <1>5 DEF IMInv, PlaceInv, PlaceType

LEMMA IMInvPreserved == IMInv /\ [IMNext]_imVars => IMInv' /\ [Next]_vars
<1> SUFFICES ASSUME IMInv, [IMNext]_imVars PROVE IMInv' /\ [Next]_vars
  OBVIOUS
<1>1. [Next]_vars
  BY StepImplements
<1>2. IInv'
  BY <1>1, StepPreservesIInv DEF IMInv
<1>3. PlaceInv'
  BY <1>2, StepPreservesPlace
<1>4. QED
  BY <1>1, <1>2, <1>3 DEF IMInv

THEOREM IMInvariant == IMSafetySpec => []IMInv
  BY IMInvInitial, IMInvPreserved, PTL DEF IMSafetySpec

\* Init_module is a client of the protocol (init_module.cc 94-177): whatever
\* the list of children, their sessions and the mode, it never starts a worker
\* that it has not joined and never joins one that it has not started.
THEOREM ImplementsCheckpointable == IMSafetySpec => IsCheckpointableClient
<1>1. IMInit => Init
  BY DEF IMInit
<1>2. IMInv /\ [IMNext]_imVars => [Next]_vars
  BY IMInvPreserved
<1>3. QED
  BY <1>1, <1>2, IMInvariant, PTL DEF IMSafetySpec, SafetySpec, IsCheckpointableClient

\* When Init_module::checkpoint() returns, every worker of every child has run
\* in this call and is at rest, for every list of children, any optional
\* sessions, either mode and any workers throwing (init_module.cc 94-177).
THEOREM CheckpointIsComplete == IMSafetySpec => []CompleteWhenReturned
<1>1. ASSUME IMInv PROVE CompleteWhenReturned
  <2> SUFFICES ASSUME active, child > Len(Childs), BetweenCalls,
                      NEW w \in Workers, w[1] \in CheckpointedChilds
               PROVE  w \in done /\ ~Busy(w)
    BY DEF CompleteWhenReturned
  <2>1. PICK p \in Places : Has(p[1], p[2]) /\ w = WorkerAt(p[1], p[2])
    BY WorkersHavePlaces
  <2>2. Started(p[1], p[2]) /\ JoinCalled(p[1], p[2])
    BY <1>1, ModuleAssumption DEF Started, JoinCalled, Places, IMInv, PlaceInv, PlaceType
  <2>3. RequestAtPlace(p[1], p[2]) /\ DoneAtPlace(p[1], p[2])
    BY <1>1, <2>1 DEF IMInv, PlaceInv
  <2>4. ~Joining(w) /\ ~Posting(w)
    BY DEF BetweenCalls, Joining, Posting
  <2>5. w \in done /\ request[w] = "none"
    BY <2>1, <2>2, <2>3, <2>4 DEF RequestAtPlace, DoneAtPlace
  <2>6. ~Busy(w)
    BY <1>1, <2>5 DEF IMInv, IInv, WorkerInv, JobsAreAsked, Busy
  <2>7. QED
    BY <2>5, <2>6
<1>2. QED
  BY <1>1, IMInvariant, PTL

-----------------------------------------------------------------------------
(* Whose turn it is. *)

\* The worker that is being joined is that of the last call: the next one is for
\* the same child, or begins with the next child.
JoinIsLastCall ==
  \A p \in Places : Has(p[1], p[2]) /\ Joining(WorkerAt(p[1], p[2])) =>
    \/ position = 1 /\ op = "start"
    \/ p[1] = child /\ (Parallel \/ op = "start")

\* A worker of a child that is not in the list is never asked for anything.
OthersRest ==
  \A w \in Workers : w[1] \notin CheckpointedChilds => request[w] = "none" /\ ~Posting(w)

TurnInv == JoinIsLastCall /\ OthersRest

LEMMA TurnInvStep ==
  ASSUME IMInv, TurnInv, [IMNext]_imVars
  PROVE  TurnInv'
<1> USE DEF TurnInv, JoinIsLastCall, OthersRest, Posting, Joining, script, clientVars, moduleVars
<1>1. ASSUME NEW w \in Workers, WorkerStep(w) PROVE TurnInv'
  <2>1. IInv
    BY DEF IMInv
  <2>. QED
    BY <1>1, <2>1, WorkerEffect DEF WorkerAt, Has
<1>2. CASE ClientStep
  <2>1. UNCHANGED <<moduleVars>>
    BY <1>2 DEF ClientStep
  <2> USE <2>1 DEF WorkerAt, Has
  <2>2. request \in [Workers -> Requests]
    BY DEF IMInv, IInv, TypeOK
  <2>3. CASE PostJob
    BY <2>2, <2>3 DEF PostJob
  <2>4. CASE UnsetFinished
    BY <2>4 DEF UnsetFinished
  <2>5. CASE SetNext
    BY <2>5 DEF SetNext
  <2>6. CASE JoinReturns
    BY <2>2, <2>6 DEF JoinReturns
  <2>7. CASE FinishClientCall
    BY <2>7 DEF FinishClientCall
  <2>. QED
    BY <1>2, <2>3, <2>4, <2>5, <2>6, <2>7 DEF ClientStep, ClientContinues
<1>3. CASE CallCheckpoint
  BY <1>3 DEF CallCheckpoint, vars, WorkerAt, Has, IMInv, PlaceInv
<1>4. CASE NextCall
  <2>1. PICK w \in Workers :
           /\ w = WorkerAt(child, position)
           /\ <<child, position>> \in Places /\ Has(child, position)
           /\ at = "idle"
           /\ op = "start" => request[w] = "none" /\ StartCheckpoint(w)
           /\ op = "join" => request[w] # "none" /\ JoinCheckpoint(w)
    BY <1>4, CallIsAllowed
  <2>2. op \in {"start", "join"}
    BY DEF IMInv, PlaceInv, PlaceType
  <2>3. request' = request /\ target' = w
    BY <2>1, <2>2 DEF StartCheckpoint, JoinCheckpoint
  <2>4. w[1] \in CheckpointedChilds
    BY <2>1 DEF WorkerAt, Places, CheckpointedChilds
  <2>5. OthersRest'
    BY <2>3, <2>4
  <2>6. \A p \in Places : WorkerAt(p[1], p[2]) = w => p = <<child, position>>
    BY <2>1, PlacesDiffer
  <2>7. JoinIsLastCall'
    <3>. SUFFICES ASSUME NEW p \in Places, Has(p[1], p[2]), at' = "join", w = WorkerAt(p[1], p[2])
                  PROVE  \/ position' = 1 /\ op' = "start"
                         \/ p[1] = child' /\ (Parallel \/ op' = "start")
      BY <2>3 DEF WorkerAt, Has
    <3>1. op = "join"
      BY <2>1, <2>2 DEF StartCheckpoint
    <3>2. p[1] = child
      BY <2>6
    <3>. QED
      <4>1. CASE Parallel
        BY <1>4, <3>1, <3>2, <4>1 DEF NextCall, AdvanceParallel, NextChild
      <4>2. CASE ~Parallel
        BY <1>4, <3>1, <3>2, <4>2 DEF NextCall, AdvanceSequential, NextChild
      <4>. QED
        BY <4>1, <4>2
  <2>. QED
    BY <2>5, <2>7
<1>5. CASE CheckpointReturns \/ Pause \/ Resume \/ UNCHANGED imVars
  BY <1>5 DEF CheckpointReturns, Pause, Resume, imVars, vars, WorkerAt, Has
<1>. QED
  BY <1>1, <1>2, <1>3, <1>4, <1>5 DEF IMNext

\* The workers take turns as the order of calls says.
THEOREM TurnInvariant == IMSafetySpec => []TurnInv
<1>1. IMInit => TurnInv
  BY DEF IMInit, Init, TurnInv, JoinIsLastCall, OthersRest, Posting, Joining
<1>2. IMInv /\ TurnInv /\ [IMNext]_imVars => TurnInv'
  BY TurnInvStep
<1>. QED
  BY <1>1, <1>2, IMInvariant, PTL DEF IMSafetySpec

\* A worker inside of checkpoint() has a place that was started and not joined, or is
\* being joined.
LEMMA BodyHasPlace ==
  ASSUME IMInv, TurnInv, NEW w \in Workers, InBody(w)
  PROVE  /\ active
         /\ \E p \in Places :
              /\ Has(p[1], p[2]) /\ w = WorkerAt(p[1], p[2])
              /\ (Started(p[1], p[2]) /\ ~JoinCalled(p[1], p[2])) \/ Joining(w)
<1>1. request[w] # "none"
  BY DEF IMInv, IInv, WorkerInv, JobsAreAsked, InBody
<1>2. w[1] \in CheckpointedChilds
  BY <1>1 DEF TurnInv, OthersRest
<1>3. PICK p \in Places : Has(p[1], p[2]) /\ w = WorkerAt(p[1], p[2])
  BY <1>2, WorkersHavePlaces
<1>4. active
  BY <1>1, <1>3 DEF IMInv, PlaceInv, PlaceType
<1>5. RequestAtPlace(p[1], p[2])
  BY <1>3, <1>4 DEF IMInv, PlaceInv
<1>. QED
  BY <1>1, <1>3, <1>4, <1>5 DEF RequestAtPlace

\* Between the start and the join of a place it is the turn of its child, and in sequence
\* of that place alone.
LEMMA PlaceInTurn ==
  ASSUME PlaceType, NEW p \in Places, Started(p[1], p[2]), ~JoinCalled(p[1], p[2])
  PROVE  /\ p[1] = child
         /\ ~(position = 1 /\ op = "start")
         /\ ~Parallel => p[2] = position /\ op = "join"
<1>1. p[1] \in Nat /\ p[2] \in 1 .. N
  BY ModuleAssumption DEF Places
<1>. QED
  BY <1>1 DEF PlaceType, Started, JoinCalled, N

\* Children are checkpointed one after the other, and without _parallel so are the
\* sessions of a child. (init_module.cc 98-102, 145-176)
THEOREM ChildrenTakeTurns == IMSafetySpec => []OneChildAtATime
<1>1. ASSUME IMInv, TurnInv PROVE OneChildAtATime
  <2>. SUFFICES ASSUME NEW v \in Workers, NEW w \in Workers, InBody(v), InBody(w)
                PROVE  v[1] = w[1] /\ (Parallel \/ v = w)
    BY DEF OneChildAtATime
  <2>1. PICK p \in Places :
          /\ Has(p[1], p[2]) /\ v = WorkerAt(p[1], p[2])
          /\ (Started(p[1], p[2]) /\ ~JoinCalled(p[1], p[2])) \/ Joining(v)
    BY <1>1, BodyHasPlace
  <2>2. PICK q \in Places :
          /\ Has(q[1], q[2]) /\ w = WorkerAt(q[1], q[2])
          /\ (Started(q[1], q[2]) /\ ~JoinCalled(q[1], q[2])) \/ Joining(w)
    BY <1>1, BodyHasPlace
  <2>3. PlaceType /\ JoinIsLastCall
    BY <1>1 DEF IMInv, PlaceInv, TurnInv
  <2>4. p[1] = q[1] => v[1] = w[1]
    BY <2>1, <2>2 DEF WorkerAt
  <2>5. CASE Joining(v) /\ Joining(w)
    BY <2>5 DEF Joining
  <2>6. CASE ~Joining(v) /\ ~Joining(w)
    <3>1. /\ p[1] = child /\ q[1] = child
          /\ ~Parallel => p[2] = position /\ q[2] = position
      BY <2>1, <2>2, <2>3, <2>6, PlaceInTurn
    <3>. QED
      BY <2>1, <2>2, <2>4, <3>1 DEF WorkerAt
  <2>7. CASE Joining(v) /\ ~Joining(w)
    <3>1. q[1] = child /\ ~(position = 1 /\ op = "start") /\ (~Parallel => op = "join")
      BY <2>2, <2>3, <2>7, PlaceInTurn
    <3>2. p[1] = child /\ Parallel
      BY <2>1, <2>3, <2>7, <3>1 DEF JoinIsLastCall
    <3>. QED
      BY <2>4, <3>1, <3>2
  <2>8. CASE ~Joining(v) /\ Joining(w)
    <3>1. p[1] = child /\ ~(position = 1 /\ op = "start") /\ (~Parallel => op = "join")
      BY <2>1, <2>3, <2>8, PlaceInTurn
    <3>2. q[1] = child /\ Parallel
      BY <2>2, <2>3, <2>8, <3>1 DEF JoinIsLastCall
    <3>. QED
      BY <2>4, <3>1, <3>2
  <2>. QED
    BY <2>5, <2>6, <2>7, <2>8
<1>. QED
  BY <1>1, IMInvariant, TurnInvariant, PTL

\* Without _parallel the capability mapping of a child, which reads the region maps of its
\* other sessions, runs when they are through. (capability_mapping_focnados.cc 70-71)
THEOREM MappingFollows == IMSafetySpec => []MappingRunsLast
<1>1. ASSUME IMInv, TurnInv PROVE MappingRunsLast
  <2>. SUFFICES ASSUME ~Parallel, NEW w \in Workers, w[2] = "capability_mapping", InBody(w),
                       NEW v \in Workers, v[1] = w[1], v # w
                PROVE  v \in done /\ ~Busy(v)
    BY DEF MappingRunsLast
  <2>1. PICK p \in Places :
          /\ Has(p[1], p[2]) /\ w = WorkerAt(p[1], p[2])
          /\ (Started(p[1], p[2]) /\ ~JoinCalled(p[1], p[2])) \/ Joining(w)
    BY <1>1, BodyHasPlace
  <2>2. v[1] \in CheckpointedChilds
    BY <2>1 DEF WorkerAt, Places, CheckpointedChilds
  <2>3. PICK q \in Places : Has(q[1], q[2]) /\ v = WorkerAt(q[1], q[2])
    BY <2>2, WorkersHavePlaces
  <2>4. active /\ PlaceType /\ JoinIsLastCall
    BY <1>1, BodyHasPlace DEF IMInv, PlaceInv, TurnInv
  <2>5. RequestAtPlace(p[1], p[2]) /\ RequestAtPlace(q[1], q[2]) /\ DoneAtPlace(q[1], q[2])
    BY <1>1, <2>1, <2>3, <2>4 DEF IMInv, PlaceInv
  <2>6. p[1] \in Nat /\ q[1] = p[1] /\ p[2] = 8 /\ q[2] \in 1 .. 7
    <3>1. p[1] \in DOMAIN Childs /\ q[1] \in DOMAIN Childs /\ p[2] \in 1 .. 8 /\ q[2] \in 1 .. 8
      BY DEF Places, N
    <3>2. Childs[q[1]] = Childs[p[1]] /\ Order[p[2]] = "capability_mapping"
      BY <2>1, <2>3 DEF WorkerAt
    <3>3. q[1] = p[1] /\ p[1] \in Nat
      BY <3>1, <3>2, ModuleAssumption
    <3>4. p[2] = 8
      BY <3>1, <3>2 DEF Order
    <3>5. q[2] # 8
      BY <2>1, <2>3, <3>3, <3>4 DEF WorkerAt
    <3>. QED
      BY <3>1, <3>3, <3>4, <3>5
  <2>7. JoinCalled(q[1], q[2]) /\ ~Joining(v)
    <3>1. CASE Joining(w)
      <4>1. JoinCalled(p[1], p[2]) /\ ~Joining(v)
        BY <2>1, <2>5, <3>1 DEF RequestAtPlace, Joining
      <4>. QED
        BY <2>4, <2>6, <4>1 DEF JoinCalled, PlaceType, N
    <3>2. CASE ~Joining(w)
      <4>1. p[1] = child /\ p[2] = position /\ op = "join"
        BY <2>1, <2>4, <3>2, PlaceInTurn
      <4>2. JoinCalled(q[1], q[2])
        BY <2>6, <4>1 DEF JoinCalled
      <4>3. ~Joining(v)
        BY <2>3, <2>4, <4>1 DEF JoinIsLastCall
      <4>. QED
        BY <4>2, <4>3
    <3>. QED
      BY <3>1, <3>2
  <2>8. v \in done /\ request[v] = "none"
    BY <2>3, <2>5, <2>7 DEF RequestAtPlace, DoneAtPlace
  <2>9. ~Busy(v)
    BY <1>1, <2>8 DEF IMInv, IInv, WorkerInv, JobsAreAsked, Busy
  <2>. QED
    BY <2>8, <2>9
<1>. QED
  BY <1>1, IMInvariant, TurnInvariant, PTL
=============================================================================
