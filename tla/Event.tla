-------------------------------- MODULE Event --------------------------------
(***************************************************************************)
(* Rtcr::Event (include/util/event.h): one thread signals an event, other  *)
(* threads wait for it.                                                    *)
(*                                                                         *)
(* wait() reads the flag _set without the meta lock and enqueues the       *)
(* caller under the lock in a second step; set() raises the flag and wakes *)
(* the callers found in the queue in a second step.  Each of these memory  *)
(* accesses is a step of its own, so that a set() may fall between the two *)
(* steps of a wait() and the other way round.  The two critical sections   *)
(* of the meta lock only touch the queue; each is one step.                *)
(*                                                                         *)
(* The queue _waiting_callers is not a variable: it holds exactly the      *)
(* threads whose call is blocked on the event, and release() dequeues them *)
(* all, so their order is of no consequence.                               *)
(***************************************************************************)

VARIABLES
  isSet,   \* isSet[e]: the flag _set of event e
  call     \* call[t]: the call of an Event method thread t is inside of

eventVars == <<isSet, call>>

\* The thread is outside of every Event method and runs its own code.
Running == [phase |-> "running"]

InCall(phase, e) == [phase |-> phase, event |-> e]

CallsOn(Events) == {Running} \cup [phase : {"enqueue", "blocked", "release"}, event : Events]

Returned(t) == call[t] = Running

_waiting_callers(e) == {t \in DOMAIN call : call[t] = InCall("blocked", e)}

-----------------------------------------------------------------------------
(* Calls, made by the thread's own code. *)

\* Event::wait() up to the unlocked test of the flag.
Wait(t, e) ==
  /\ Returned(t)
  /\ call' = IF isSet[e] THEN call ELSE [call EXCEPT ![t] = InCall("enqueue", e)]
  /\ UNCHANGED isSet

\* Event::set() up to and including the assignment of the flag.
Set(t, e) ==
  /\ Returned(t)
  /\ isSet' = [isSet EXCEPT ![e] = TRUE]
  /\ call' = [call EXCEPT ![t] = InCall("release", e)]

\* Event::unset()
Unset(t, e) ==
  /\ Returned(t)
  /\ isSet' = [isSet EXCEPT ![e] = FALSE]
  /\ UNCHANGED call

-----------------------------------------------------------------------------
(* The rest of a call. *)

\* Event::wait() puts the caller into the queue; the caller then blocks on
\* its own lock and has no step left: only release() lets it continue.
Enqueue(t) ==
  /\ call[t].phase = "enqueue"
  /\ call' = [call EXCEPT ![t] = InCall("blocked", @.event)]
  /\ UNCHANGED isSet

\* Event::release() wakes every caller in the queue; set() returns after it.
Release(t) ==
  /\ call[t].phase = "release"
  /\ LET woken == _waiting_callers(call[t].event)
     IN  call' = [u \in DOMAIN call |-> IF u = t \/ u \in woken THEN Running ELSE call[u]]
  /\ UNCHANGED isSet

FinishCall(t) == Enqueue(t) \/ Release(t)
=============================================================================
