--------------------------- MODULE OptionalSessions ---------------------------
(***************************************************************************)
(* Rm_session, Rom_session, Log_session and Timer_session: what a child    *)
(* tells them is kept in hot fields and forwarded to the parent, and       *)
(* checkpoint() copies the hot fields into the cold ones (i_...), each by  *)
(* an access of its own.                                                   *)
(*                                                                         *)
(* One entrypoint handles the calls of the child's threads one by one,     *)
(* while the workers of the sessions run in sequence.  The caller of       *)
(* Init_module may pause the child around checkpoint(): a paused thread    *)
(* issues no call, but the calls it has issued are handled.  The signal    *)
(* contexts belong to the Pd_session, of which this module knows the list. *)
(***************************************************************************)
EXTENDS Naturals, Sequences

CONSTANTS
  Threads,      \* the threads of the child
  NoThread,     \* the entrypoint waits for a call
  Contexts,     \* the signal contexts
  Dataspaces,   \* the dataspaces of the ROM module
  Times,        \* the arguments of the timer's methods
  Upgraded,     \* the sessions that are upgraded
  Garbage,      \* what a field that was never written holds
  Word,         \* 2^32, the range of Timer_session::_timeout
  Kilo,         \* 1000
  MaxMaps,      \* bound on the region maps
  MaxCalls,     \* bound on the calls of the child
  MaxRounds     \* bound on the calls of checkpoint()

ASSUME OptionalAssumption ==
  /\ NoThread \notin Threads
  /\ Times \subseteq Nat
  /\ Word \in Nat \ {0} /\ Kilo \in Nat
  /\ Upgraded \subseteq {"rm", "rom", "log", "timer"}
  /\ MaxMaps \in Nat /\ MaxCalls \in Nat /\ MaxRounds \in Nat

\* The fields, named <<session, field>>.
RmFields == {<<"rm", "upgrade_args">>}
RomFields == {<<"rom", "upgrade_args">>, <<"rom", "dataspace">>, <<"rom", "sigh">>}
LogFields == {<<"log", "upgrade_args">>}
TimerFields == {<<"timer", f>> : f \in {"upgrade_args", "sigh", "timeout", "periodic"}}
Fields == RmFields \cup RomFields \cup LogFields \cup TimerFields
Sighs == {<<"rom", "sigh">>, <<"timer", "sigh">>}

VARIABLES
  hot,         \* hot[f]: the field of the session object
  cold,        \* cold[f]: its copy in the ..._session_info
  parent,      \* parent[f]: what the parent was told or gave last
  contexts,    \* the contexts in the Pd_session's list
  i_contexts,  \* and in its snapshot
  maps,        \* _region_maps: a map is the badge of the parent's
  parentMaps,  \* the maps that exist at the parent
  destroyed,   \* _destroyed_region_maps
  visited,     \* the maps whose checkpoint() ran in this round
  i_maps,      \* i_region_maps: the maps from the head of the time on; what is
               \* inserted later comes before it
  call,        \* call[t]: what is left to do of the call of thread t
  serving,     \* the thread whose call is handled
  issued,      \* the number of calls so far
  paused,      \* the child is paused
  at,          \* where the monitor is: its index in Script
  rounds,      \* the number of calls of checkpoint() so far
  overlapped,  \* history: the fields and maps of the calls that were not through
               \* when checkpoint() was called, or were issued since
  freed        \* history: the contexts that were ever freed

hotVars == <<hot, contexts, maps, destroyed>>
coldVars == <<cold, i_contexts, visited, i_maps>>
parentVars == <<parent, parentMaps>>
callVars == <<call, serving, issued>>
monitorVars == <<paused, at, rounds>>
vars == <<hotVars, coldVars, parentVars, callVars, monitorVars, overlapped, freed>>

\* What each checkpoint() does, in order.
RmScript ==
  <<<<"rm", "upgrade_args">>, <<"rm", "purge">>, <<"rm", "visit">>, <<"rm", "publish">>>>
RomScript == <<<<"rom", "upgrade_args">>, <<"rom", "dataspace">>, <<"rom", "sigh">>>>
LogScript == <<<<"log", "upgrade_args">>>>
TimerScript == <<<<"timer", "upgrade_args">>, <<"timer", "sigh">>, <<"timer", "timeout">>,
                 <<"timer", "periodic">>>>
Script == <<<<"pd", "contexts">>>> \o RmScript \o RomScript \o LogScript \o TimerScript

OptInit ==
  /\ hot = [f \in Fields |-> Garbage] /\ cold = hot /\ parent = hot
  /\ contexts = {} /\ i_contexts = {} /\ freed = {}
  /\ maps = {} /\ i_maps = {} /\ parentMaps = {} /\ destroyed = {} /\ visited = {}
  /\ call = [t \in Threads |-> <<>>] /\ serving = NoThread /\ issued = 0
  /\ paused = FALSE /\ at = 0 /\ rounds = 0 /\ overlapped = {}

-----------------------------------------------------------------------------
(* A call is a sequence of steps: assignments to hot fields, calls of the  *)
(* parent with the values it gets or gives, operations on the lists.       *)

\* One field with one value.
Only(f, v) == [g \in {f} |-> v]
Store(f, v) == [do |-> "store", on |-> Only(f, v)]
Forward(values) == [do |-> "forward", on |-> values]
Do(op, x) == [do |-> op, on |-> Only(<<op, x>>, x)]

\* _timeout is an unsigned int; the parent is told what the session was told.
trigger(us, periodic) ==
  <<Store(<<"timer", "timeout">>, us % Word), Store(<<"timer", "periodic">>, periodic),
    Forward([f \in {<<"timer", "timeout">>, <<"timer", "periodic">>} |->
               IF f = <<"timer", "timeout">> THEN us ELSE periodic])>>

trigger_once(us) == trigger(us, FALSE)      \* and usleep()
trigger_periodic(us) == trigger(us, TRUE)
msleep(ms) == trigger(Kilo * ms, FALSE)

\* Mutant of sigh: the handler is forwarded and not stored.
SighForwarded(s, c) == <<Forward(Only(<<s, "sigh">>, c))>>

sigh(s, c) == <<Store(<<s, "sigh">>, c), Forward(Only(<<s, "sigh">>, c))>>

\* The parent gives out the dataspace that it has for the module at the time.
dataspace(d) == <<Forward(Only(<<"rom", "dataspace">>, d)), Store(<<"rom", "dataspace">>, d)>>

\* The quota goes to the session Parent::Env::pd() of rtcr itself, which is none of
\* this model's; the pointer outlives the arguments.
upgrade(s) == <<Store(<<s, "upgrade_args">>, "dangling")>>

alloc_context(c) == <<Do("alloc", c)>>
free_context(c) == <<Do("free", c)>>
create(m) == <<Do("create", m), Do("insert", m)>>

\* The child holds the capability of the intercepting map, whose badge is not that
\* of the parent's map, by which the map is known.
OwnBadge(m) == MaxMaps + m
destroy(m) == <<Do("destroy", OwnBadge(m))>>

\* Fields and operations that a call deals with.
Touches(steps) == UNION {DOMAIN steps[i].on : i \in DOMAIN steps}
Outstanding == UNION {Touches(call[t]) : t \in Threads}
Unused(op, x) == <<op, x>> \notin Outstanding

\* Mutant of Issue: pause() does not stop the thread.
IssueWhilePaused(t, steps) ==
  /\ call[t] = <<>>
  /\ issued < MaxCalls
  /\ issued' = issued + 1
  /\ call' = [call EXCEPT ![t] = steps]
  /\ overlapped' = IF at = 0 THEN {} ELSE overlapped \cup Touches(steps)
  /\ UNCHANGED <<hotVars, coldVars, parentVars, serving, monitorVars, freed>>

Issue(t, steps) ==
  /\ ~paused
  /\ call[t] = <<>>
  /\ issued < MaxCalls
  /\ issued' = issued + 1
  /\ call' = [call EXCEPT ![t] = steps]
  /\ overlapped' = IF at = 0 THEN {} ELSE overlapped \cup Touches(steps)
  /\ UNCHANGED <<hotVars, coldVars, parentVars, serving, monitorVars, freed>>

\* The child sets, frees and destroys what it was given.
ChildCalls(t) ==
  \/ \E time \in Times :
       Issue(t, trigger_once(time)) \/ Issue(t, trigger_periodic(time)) \/ Issue(t, msleep(time))
  \/ \E f \in Sighs, c \in contexts : Issue(t, sigh(f[1], c))
  \/ \E d \in Dataspaces : Issue(t, dataspace(d))
  \/ \E s \in Upgraded : Issue(t, upgrade(s))
  \/ \E c \in Contexts \ (contexts \cup freed) : Unused("alloc", c) /\ Issue(t, alloc_context(c))
  \/ \E c \in contexts : Unused("free", c) /\ Issue(t, free_context(c))
  \/ \E m \in 1..MaxMaps :
       /\ m \notin parentMaps /\ Unused("create", m)
       /\ \A n \in 1..m - 1 : n \in parentMaps \/ ~Unused("create", n)
       /\ Issue(t, create(m))
  \/ \E m \in maps : Unused("destroy", OwnBadge(m)) /\ Issue(t, destroy(m))

-----------------------------------------------------------------------------
(* The entrypoint *)

Accept(t) ==
  /\ serving = NoThread
  /\ call[t] # <<>>
  /\ serving' = t
  /\ UNCHANGED <<hotVars, coldVars, parentVars, call, issued, monitorVars, overlapped, freed>>

\* The next step of the call that is served; the call returns with the last.
Step(op) ==
  /\ serving # NoThread
  /\ Head(call[serving]).do = op
  /\ call' = [call EXCEPT ![serving] = Tail(@)]
  /\ serving' = IF Len(call[serving]) = 1 THEN NoThread ELSE serving
  /\ UNCHANGED <<coldVars, issued, monitorVars, overlapped>>

Values == Head(call[serving]).on

\* The fields with the values that the step gives.
Assigned(fields) == [f \in DOMAIN fields |-> IF f \in DOMAIN Values THEN Values[f] ELSE fields[f]]

Operand == CHOOSE x \in {Values[p] : p \in DOMAIN Values} : TRUE

StoreField ==
  /\ Step("store")
  /\ hot' = Assigned(hot)
  /\ UNCHANGED <<contexts, maps, destroyed, parentVars, freed>>

ForwardCall ==
  /\ Step("forward")
  /\ parent' = Assigned(parent)
  /\ UNCHANGED <<hotVars, parentMaps, freed>>

UpdateContexts ==
  /\ \/ Step("alloc") /\ contexts' = contexts \cup {Operand} /\ UNCHANGED freed
     \/ Step("free") /\ contexts' = contexts \ {Operand} /\ freed' = freed \cup {Operand}
  /\ UNCHANGED <<hot, maps, destroyed, parentVars>>

CreateAtParent ==
  /\ Step("create")
  /\ parentMaps' = parentMaps \cup {Operand}
  /\ UNCHANGED <<hotVars, parent, freed>>

InsertMap ==
  /\ Step("insert")
  /\ maps' = maps \cup {Operand}
  /\ UNCHANGED <<hot, contexts, destroyed, parentVars, freed>>

\* The map whose badge is the operand is queued and destroyed at the parent; if
\* there is none, nothing happens.
DestroyMap ==
  LET found == maps \cap {Operand}
  IN  /\ Step("destroy")
      /\ destroyed' = destroyed \cup found
      /\ parentMaps' = parentMaps \ found
      /\ UNCHANGED <<hot, contexts, maps, parent, freed>>

Entrypoint ==
  \/ \E t \in Threads : Accept(t)
  \/ StoreField \/ ForwardCall \/ UpdateContexts \/ CreateAtParent \/ InsertMap \/ DestroyMap

-----------------------------------------------------------------------------
(* The monitor *)

Begin(pause) ==
  /\ at = 0
  /\ rounds < MaxRounds
  /\ rounds' = rounds + 1
  /\ at' = 1
  /\ paused' = pause
  /\ visited' = {}
  /\ overlapped' = Outstanding
  /\ UNCHANGED <<hotVars, cold, i_contexts, i_maps, parentVars, callVars, freed>>

MonitorAt(here) ==
  /\ at \in DOMAIN Script
  /\ Script[at] = here
  /\ at' = at + 1
  /\ UNCHANGED <<parentVars, callVars, paused, rounds, overlapped, freed>>

CopyField ==
  \E f \in Fields :
    /\ MonitorAt(f)
    /\ cold' = [cold EXCEPT ![f] = hot[f]]
    /\ UNCHANGED <<hotVars, i_contexts, visited, i_maps>>

TakeContexts ==
  /\ MonitorAt(<<"pd", "contexts">>)
  /\ i_contexts' = contexts
  /\ UNCHANGED <<hotVars, cold, visited, i_maps>>

PurgeMaps ==
  /\ MonitorAt(<<"rm", "purge">>)
  /\ maps' = maps \ destroyed
  /\ destroyed' = {}
  /\ UNCHANGED <<hot, contexts, coldVars>>

\* Mutant of VisitMaps: a map that was checkpointed before is left out.
VisitNewMaps ==
  /\ MonitorAt(<<"rm", "visit">>)
  /\ visited' = maps \ i_maps
  /\ UNCHANGED <<hotVars, cold, i_contexts, i_maps>>

\* The walk from the head: what is inserted meanwhile comes before the head.
VisitMaps ==
  /\ MonitorAt(<<"rm", "visit">>)
  /\ visited' = maps
  /\ UNCHANGED <<hotVars, cold, i_contexts, i_maps>>

PublishMaps ==
  /\ MonitorAt(<<"rm", "publish">>)
  /\ i_maps' = maps
  /\ UNCHANGED <<hotVars, cold, i_contexts, visited>>

Returned == at > Len(Script)

End ==
  /\ Returned
  /\ at' = 0
  /\ paused' = FALSE
  /\ overlapped' = {}
  /\ UNCHANGED <<hotVars, coldVars, parentVars, callVars, rounds, freed>>

Monitor ==
  \/ \E pause \in BOOLEAN : Begin(pause)
  \/ CopyField \/ TakeContexts \/ PurgeMaps \/ VisitMaps \/ PublishMaps \/ End

OptNext == (\E t \in Threads : ChildCalls(t)) \/ Entrypoint \/ Monitor

OptSpec == OptInit /\ [][OptNext]_vars

-----------------------------------------------------------------------------
(* Properties *)

\* What a field of the snapshot is when the parent knows v.
Recorded(f, v) == IF f = <<"timer", "timeout">> THEN v % Word ELSE v

\* When checkpoint() has returned, the snapshot says what the parent was told or
\* gave last: the dataspace, the handlers, the mode of the timer, and its timeout
\* as far as 32 bits hold it; only a field that a call was about to write may be
\* older or newer.  (timer_session.cc 52-110, rom_session.cc 55-83)
SnapshotIsParentState ==
  Returned => \A f \in Fields \ overlapped :
    parent[f] # Garbage => cold[f] = Recorded(f, parent[f])

\* The handler that the snapshot of a ROM or timer session names is a context of
\* the PD session's snapshot or has been freed.  This holds in spite of the calls
\* that a paused child has still under way, and without a pause unless the handler
\* was being set.  (init_module.cc 112-140)
SighIsInSnapshot ==
  Returned => \A f \in Sighs :
    paused \/ f \notin overlapped => cold[f] \in i_contexts \cup freed \cup {Garbage}

\* Of the region maps that the snapshot leads to, only one whose create() was not
\* through can lack its own checkpoint, and none that the child had got before is
\* missing.  (rm_session.cc 92-110)
PublishedMapsWereVisited ==
  LET overlapping == {m \in 1..MaxMaps : <<"insert", m>> \in overlapped}
  IN  Returned => /\ i_maps \subseteq visited \cup overlapping
                  /\ maps \subseteq i_maps \cup overlapping
=============================================================================
