---------------------------- MODULE RootComponent ----------------------------
(***************************************************************************)
(* The life of the intercepting sessions: Rtcr::Root_component             *)
(* (include/rtcr/root_component.h) creates and destroys them, their        *)
(* constructors and destructors set and reset the pointers of Child_info,  *)
(* and Init_module walks the list of Child_infos meanwhile.                *)
(*                                                                         *)
(* Requests are handled by several entrypoints: one for each Child, one    *)
(* for the roots that are announced to the parent.  A label is a sequence  *)
(* of its parts, "a -> b" being <<"a", "b">>.  A Child_info is named by    *)
(* its index in _childs, the oldest first: the list runs downwards.  A     *)
(* session is named by its index in `sessions`; 0 is the null pointer.     *)
(***************************************************************************)
EXTENDS Naturals, Sequences, FiniteSets, SequencesExt

CONSTANTS
  Threads,        \* the entrypoints
  Monitor,        \* the thread that calls Init_module
  Nobody,         \* the owner of a lock that is free
  FreshPointers,  \* what a pointer of a new Child_info can hold
  Parallel,       \* _parallel of Init_module
  MaxSessions,    \* bound on the sessions that are ever created
  MaxCalls        \* bound on the calls of Init_module

Kinds == {"pd", "cpu", "log", "timer", "rom", "rm"}
Mandatory == {"pd", "cpu", "capability_mapping"}
Pointers == Kinds \cup {"capability_mapping"}
Wild == MaxSessions + 1     \* a pointer to anything

ASSUME RootAssumption ==
  /\ Monitor \notin Threads /\ Nobody \notin Threads \cup {Monitor}
  /\ FreshPointers \subseteq {0, Wild} /\ FreshPointers # {}
  /\ IsFiniteSet(Threads)
  /\ Parallel \in BOOLEAN
  /\ MaxSessions \in Nat /\ MaxCalls \in Nat

VARIABLES
  _childs,    \* the Child_infos: a name, and the pointers to the sessions
  sessions,   \* all sessions ever created: [kind, info, by, state]
  lock,       \* the owner of _childs_lock
  request,    \* request[t]: the request that thread t handles
  walk,       \* the call of Init_module: where it is, its cursor, its copies
  running,    \* the pointers walk.copy[k] whose workers run
  calls,      \* the number of calls of Init_module so far
  fault,      \* "none", or the pointer that was dereferenced: "null", "freed",
              \* "wild", or "unserved", the null pointer of Child's policy
  due,        \* history: the pointers and sessions that have been registered since
              \* the call began and that it has not checkpointed yet
  closed,     \* history: a session was closed since the call began
  before,     \* history: the number of sessions created before it began
  shared      \* history: <<info, kind>> of which two sessions were ever open

rootVars == <<_childs, sessions, lock, request>>
walkVars == <<walk, running, calls>>
history == <<due, closed, before, shared>>
vars == <<rootVars, walkVars, fault, history>>

-----------------------------------------------------------------------------
(* Labels and Child_infos *)

\* The prefix of the label or, if it is empty, the label.
NameOf(label) == IF Len(label) = 1 THEN label ELSE Front(label)

\* The first from the head of the list, that is the youngest.
find_by_name(name) == SelectLastInSeq(_childs, LAMBDA c : c.name = name)

\* Nobody asks this before walking the list.
child_destroyed(c) == _childs[c].session["cpu"] = 0 \/ _childs[c].session["pd"] = 0

Registered == {p \in Pointers \X DOMAIN sessions : \E c \in DOMAIN _childs : _childs[c].session[p[1]] = p[2]}
Open(c, k) == {o \in DOMAIN sessions :
                 sessions[o].info = c /\ sessions[o].kind = k /\ sessions[o].state = "open"}

Idle == [at |-> "idle", name |-> <<>>, kind |-> "none", info |-> 0, session |-> 0]
Still == [at |-> "idle", child |-> 0, copy |-> [k \in Pointers |-> 0], started |-> {}, joined |-> {}]

RootInit ==
  /\ _childs = <<>>
  /\ sessions = <<>>
  /\ lock = Nobody
  /\ request = [t \in Threads |-> Idle]
  /\ walk = Still
  /\ running = {}
  /\ calls = 0
  /\ fault = "none"
  /\ due = {} /\ closed = FALSE /\ before = 0 /\ shared = {}

-----------------------------------------------------------------------------
(* _create_session() *)

create(t, label, kind) ==
  /\ request[t] = Idle
  /\ Len(sessions) + Cardinality({u \in Threads : request[u].at \in {"find", "insert", "construct"}})
       < MaxSessions
  /\ request' = [request EXCEPT ![t] = [Idle EXCEPT !.at = "find", !.name = NameOf(label), !.kind = kind]]
  /\ UNCHANGED <<_childs, sessions, lock, walkVars, fault, history>>

\* Mutant of FindInfo: the search is not protected by the lock.
FindWithoutLock(t) ==
  /\ request[t].at = "find"
  /\ request' = [request EXCEPT ![t].at = "insert", ![t].info = find_by_name(request[t].name)]
  /\ UNCHANGED <<_childs, sessions, lock, walkVars, fault, history>>

FindInfo(t) ==
  /\ request[t].at = "find"
  /\ lock = Nobody
  /\ lock' = t
  /\ request' = [request EXCEPT ![t].at = "insert", ![t].info = find_by_name(request[t].name)]
  /\ UNCHANGED <<_childs, sessions, walkVars, fault, history>>

\* A new Child_info, unless one was found; its constructor sets the name only.
InsertInfo(t) ==
  /\ request[t].at = "insert"
  /\ \/ request[t].info # 0 /\ UNCHANGED _childs
     \/ /\ request[t].info = 0
        /\ \E p \in FreshPointers :
             _childs' = Append(_childs, [name |-> request[t].name, session |-> [k \in Pointers |-> p]])
  /\ request' = [request EXCEPT ![t].at = "construct",
                                ![t].info = IF @ = 0 THEN Len(_childs) + 1 ELSE @]
  /\ lock' = Nobody
  /\ UNCHANGED <<sessions, walkVars, fault, history>>

PointersTo(kind) == IF kind = "pd" THEN {"pd", "capability_mapping"} ELSE {kind}

Point(c, kind, o) ==
  _childs' = [_childs EXCEPT ![c].session = [k \in Pointers |-> IF k \in PointersTo(kind) THEN o ELSE @[k]]]

\* Mutant of Construct: only the first session of a kind is registered.
ConstructRegisterOnce(t) ==
  LET r == request[t]  o == Len(sessions) + 1
      first == \A p \in DOMAIN sessions : sessions[p].info # r.info \/ sessions[p].kind # r.kind
  IN  /\ r.at = "construct"
      /\ sessions' = Append(sessions, [kind |-> r.kind, info |-> r.info, by |-> t, state |-> "open"])
      /\ IF first THEN Point(r.info, r.kind, o) ELSE UNCHANGED _childs
      /\ shared' = IF Open(r.info, r.kind) # {} THEN shared \cup {<<r.info, r.kind>>} ELSE shared
      /\ due' = due \cap Registered'
      /\ request' = [request EXCEPT ![t] = Idle]
      /\ UNCHANGED <<lock, walkVars, fault, closed, before>>

\* The constructor of the session; the pointer is the last that it sets.  The
\* capability mapping is created with its Pd_session, which it reads.
Construct(t) ==
  LET r == request[t]  o == Len(sessions) + 1
  IN  /\ r.at = "construct"
      /\ sessions' = Append(sessions, [kind |-> r.kind, info |-> r.info, by |-> t, state |-> "open"])
      /\ Point(r.info, r.kind, o)
      /\ shared' = IF Open(r.info, r.kind) # {} THEN shared \cup {<<r.info, r.kind>>} ELSE shared
      /\ due' = due \cap Registered'
      /\ request' = [request EXCEPT ![t] = Idle]
      /\ UNCHANGED <<lock, walkVars, fault, closed, before>>

-----------------------------------------------------------------------------
(* _destroy_session() *)

\* Mutant of Unregister: the pointer is left as it is.
UnregisterNothing(t, o) ==
  /\ request[t] = Idle
  /\ sessions[o].state = "open" /\ sessions[o].by = t
  /\ sessions' = [sessions EXCEPT ![o].state = "closing"]
  /\ closed' = (walk.at # "idle")
  /\ request' = [request EXCEPT ![t] = [Idle EXCEPT !.at = "destroy", !.session = o]]
  /\ UNCHANGED <<_childs, lock, walkVars, fault, due, before, shared>>

\* The destructor resets the pointer, whatever session it points to.
Unregister(t, o) ==
  /\ request[t] = Idle
  /\ sessions[o].state = "open" /\ sessions[o].by = t
  /\ sessions' = [sessions EXCEPT ![o].state = "closing"]
  /\ Point(sessions[o].info, sessions[o].kind, 0)
  /\ closed' = (walk.at # "idle")
  /\ due' = due \cap Registered'
  /\ request' = [request EXCEPT ![t] = [Idle EXCEPT !.at = "destroy", !.session = o]]
  /\ UNCHANGED <<lock, walkVars, fault, before, shared>>

\* The records go, then the object, with its worker wherever that is.
Destroy(t) ==
  /\ request[t].at = "destroy"
  /\ sessions' = [sessions EXCEPT ![request[t].session].state = "freed"]
  /\ fault' = IF \E k \in running : walk.copy[k] = request[t].session THEN "freed" ELSE fault
  /\ request' = [request EXCEPT ![t] = Idle]
  /\ UNCHANGED <<_childs, lock, walkVars, history>>

-----------------------------------------------------------------------------
(* Init_module *)

\* What becomes of a thread that dereferences a pointer to a session.
FaultOf(o) ==
  CASE o = 0 -> "null"
    [] o = Wild -> "wild"
    [] OTHER -> IF sessions[o].state = "freed" THEN "freed" ELSE "none"

\* Mutant of Order: the timer session is forgotten.
OrderWithoutTimer == <<"pd", "cpu", "rm", "rom", "log", "capability_mapping">>

\* pd stands for the two Checkpointables of the Pd_session.
Order ==
  IF Parallel THEN <<"capability_mapping", "pd", "cpu", "rm", "rom", "log", "timer">>
  ELSE <<"pd", "cpu", "rm", "rom", "log", "timer", "capability_mapping">>

\* The places in Order of the sessions that are not in S, of those that the
\* copies name, and the first of these sessions.
Pending(S) == {i \in DOMAIN Order : Order[i] \notin S /\ (Order[i] \in Mandatory \/ walk.copy[Order[i]] # 0)}
FirstPending(S) == Order[Min(Pending(S))]

CallCheckpoint ==
  /\ walk.at = "idle"
  /\ calls < MaxCalls
  /\ calls' = calls + 1
  /\ walk' = [Still EXCEPT !.at = "load", !.child = Len(_childs)]
  /\ due' = Registered /\ before' = Len(sessions)
  /\ UNCHANGED <<rootVars, running, fault, closed, shared>>

LoadPointers ==
  /\ walk.at = "load"
  /\ walk.child > 0
  /\ walk' = [Still EXCEPT !.at = "run", !.child = walk.child, !.copy = _childs[walk.child].session]
  /\ UNCHANGED <<rootVars, running, calls, fault, history>>

StartSession ==
  /\ walk.at = "run"
  /\ Pending(walk.started) # {}
  /\ Parallel \/ walk.joined = walk.started
  /\ LET k == FirstPending(walk.started)  o == walk.copy[k]
     IN  /\ walk' = [walk EXCEPT !.started = @ \cup {k}]
         /\ fault' = FaultOf(o)
         /\ running' = IF fault' = "none" THEN running \cup {k} ELSE running
  /\ UNCHANGED <<rootVars, calls, history>>

\* The worker of a session is through with its checkpoint().
WorkerDone(k) ==
  /\ running' = running \ {k}
  /\ due' = due \ {<<k, walk.copy[k]>>}
  /\ UNCHANGED <<rootVars, walk, calls, fault, closed, before, shared>>

JoinSession ==
  /\ walk.at = "run"
  /\ Pending(walk.joined) # {}
  /\ LET k == FirstPending(walk.joined)  o == walk.copy[k]
     IN  /\ k \in walk.started /\ (Parallel => Pending(walk.started) = {})
         /\ k \notin running
         /\ walk' = [walk EXCEPT !.joined = @ \cup {k}]
         /\ fault' = FaultOf(o)
  /\ UNCHANGED <<rootVars, running, calls, history>>

NextChild ==
  /\ walk.at = "run"
  /\ Pending(walk.joined) = {}
  /\ walk' = [Still EXCEPT !.at = "load", !.child = walk.child - 1]
  /\ UNCHANGED <<rootVars, running, calls, fault, history>>

\* What is called or read of a child: the Cpu_session; the sessions that are there
\* and a Pd_session, of which report() does not ask whether it is there; and all
\* that a child must have with what it has besides.
IsSet(c) == {k \in Pointers : _childs[c].session[k] # 0}
pause(c) == {"cpu"}
report(c) == {"pd"} \cup IsSet(c)
print(c) == Mandatory \cup IsSet(c)

\* pause() and resume(), which are alike, walk the list with the lock; report() and
\* the Serializer, which reads the pointers that print() reads, without it.
Walks == {"pause", "report", "print"}

CallWalk(op) ==
  /\ walk.at = "idle"
  /\ calls < MaxCalls
  /\ \/ op = "pause" /\ lock = Nobody /\ lock' = Monitor
     \/ op # "pause" /\ UNCHANGED lock
  /\ calls' = calls + 1
  /\ walk' = [Still EXCEPT !.at = op, !.child = Len(_childs)]
  /\ before' = Len(sessions)
  /\ UNCHANGED <<_childs, sessions, request, running, fault, due, closed, shared>>

VisitChild(op, used) ==
  LET faults == {FaultOf(_childs[walk.child].session[k]) : k \in used} \ {"none"}
  IN  /\ walk.at = op
      /\ fault' \in (IF faults = {} THEN {"none"} ELSE faults)
      /\ walk' = [walk EXCEPT !.child = @ - 1]
      /\ UNCHANGED <<rootVars, running, calls, history>>

Visit ==
  /\ walk.child > 0
  /\ \/ VisitChild("pause", pause(walk.child))
     \/ VisitChild("report", report(walk.child))
     \/ VisitChild("print", print(walk.child))

WalkReturns ==
  /\ walk.at \in {"load"} \cup Walks
  /\ walk.child = 0
  /\ lock' = IF walk.at = "pause" THEN Nobody ELSE lock
  /\ walk' = Still
  /\ due' = {} /\ closed' = FALSE /\ before' = 0
  /\ UNCHANGED <<_childs, sessions, request, running, calls, fault, shared>>

Init_module ==
  \/ CallCheckpoint \/ LoadPointers \/ StartSession \/ JoinSession \/ NextChild
  \/ \E op \in Walks : CallWalk(op)
  \/ Visit \/ WalkReturns
  \/ \E k \in running : WorkerDone(k)

Handle(t) == FindInfo(t) \/ InsertInfo(t) \/ Construct(t) \/ Destroy(t)

-----------------------------------------------------------------------------
(* Properties *)

\* However many entrypoints handle requests at a time, a child has one Child_info:
\* the search and the insertion are one critical section.  (root_component.h 68-79)
OneInfoPerName ==
  \A c, d \in DOMAIN _childs : _childs[c].name = _childs[d].name => c = d

\* A pointer of Child_info is null or names an open session of this child and of
\* this kind, in whatever order sessions are opened, replaced and closed: nobody
\* who reads the pointer afterwards finds a session that was destroyed.
PointersAreOpen ==
  \A c \in DOMAIN _childs : \A k \in Pointers :
    LET o == _childs[c].session[k]
    IN  o # 0 /\ o # Wild => sessions[o].info = c /\ k \in PointersTo(sessions[o].kind)
                             /\ sessions[o].state = "open"

\* A session is registered while it is open, so that checkpoint() finds it, as
\* long as its child has never had two open sessions of the kind.
SoleSessionIsRegistered ==
  \A o \in DOMAIN sessions :
    LET s == sessions[o]
    IN  s.state = "open" /\ <<s.info, s.kind>> \notin shared =>
          \A k \in PointersTo(s.kind) : _childs[s.info].session[k] = o

\* Init_module uses a destroyed session only if the session was closed during the
\* very call, and a null pointer only of a child whose PD or CPU session was not
\* open when the call began, has been closed since, or was opened twice.
\* (init_module.cc 94-176)
FaultsHaveACause ==
  /\ fault = "freed" => closed
  /\ fault = "null" =>
       \E c \in DOMAIN _childs : \E k \in {"pd", "cpu"} :
         <<c, k>> \in shared \/ Open(c, k) \cap 1..before = {}

\* When checkpoint() returns, every session that was registered when it began and
\* has remained so has been checkpointed, whatever was opened and closed meanwhile.
RegisteredIsCheckpointed ==
  walk.at = "load" /\ walk.child = 0 => due = {}
=============================================================================
