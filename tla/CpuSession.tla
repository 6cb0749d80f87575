------------------------------ MODULE CpuSession ------------------------------
(***************************************************************************)
(* Rtcr::Cpu_session and Rtcr::Cpu_thread (src/rtcr/cpu_session.cc,        *)
(* cpu_thread.cc): a record is kept for every thread of the child.         *)
(* Init_module pauses and resumes the threads and checkpoints the records, *)
(* walking the list without a lock, while the child creates, starts,       *)
(* pauses, resumes and kills threads through the entrypoint.  pause()      *)
(* stops threads, not the calls they have issued, and until it has come to *)
(* a thread this goes on.                                                  *)
(*                                                                         *)
(* A thread is named by the heap block of its record, and its capability   *)
(* by the thread.  A thread issues a call in one step and the entrypoint   *)
(* handles it in another, for which the model chooses what was asked for;  *)
(* the walks go record by record.                                          *)
(*                                                                         *)
(* The constructor of Cpu_thread sets neither _started nor                 *)
(* _paused, and passes the badge where Cpu_thread_info takes the flag      *)
(* bootstrapped, so that i_badge is not set either: all three hold what    *)
(* the heap block held.                                                    *)
(***************************************************************************)
EXTENDS Naturals, Sequences, SequencesExt, Fifo

CONSTANTS
  Blocks,         \* heap blocks for Cpu_thread objects
  Null,           \* the null pointer, and a badge of no thread
  InitialFlags,   \* what an uninitialised flag may hold
  InitialBadges   \* what an uninitialised badge may hold

ASSUME CpuAssumption ==
  /\ Null \notin Blocks
  /\ InitialFlags \subseteq BOOLEAN
  /\ InitialBadges \subseteq Blocks \cup {Null}

VARIABLES
  _cpu_threads,            \* the list, head first
  _destroyed_cpu_threads,  \* the queue of records to destroy
  enqueued,                \* the records with the mark that enqueue() sets
  i_cpu_thread_info,       \* the first record of the snapshot
  hot,                     \* hot[t]: the fields _started and _paused
  cold,                    \* cold[t]: the fields i_started and i_paused
  i_badge,                 \* i_badge[t]: the badge of a record
  parent,                  \* parent[t]: the state of the real thread
  calling,                 \* the threads with a call that is not handled
  op,                      \* what Init_module does
  cursor,                  \* the record its walk has come to
  frozen,                  \* pause() has returned, resume() was not called
  touched,                 \* history: the threads the child has created or resumed since
                           \* pause() began, until resume() begins
  requeued,                \* history: a kill has found a record that was in the queue
  published,               \* history: what the last checkpoint has published, Null before
  disturbed                \* history: the child has acted since this checkpoint's purge

listVars == <<_cpu_threads, _destroyed_cpu_threads, enqueued, i_cpu_thread_info>>
walkVars == <<op, cursor, frozen>>
historyVars == <<touched, requeued, published, disturbed>>
vars == <<listVars, hot, cold, i_badge, parent, calling, walkVars, historyVars>>

Flags == [started : BOOLEAN, paused : BOOLEAN]

\* The null pointer is told from a snapshot.
ASSUME NullAssumption == \A S \in SUBSET Blocks : \A f \in [S -> Flags] : f # Null

NoFlags == [started |-> FALSE, paused |-> FALSE]
NoThread == [alive |-> FALSE, started |-> FALSE, paused |-> FALSE]

Records == ToSet(_cpu_threads)
Queued == ToSet(_destroyed_cpu_threads)
Alive == {t \in Blocks : parent[t].alive}
Runs(t) == parent[t].alive /\ parent[t].started /\ ~parent[t].paused

First == IF _cpu_threads = <<>> THEN Null ELSE Head(_cpu_threads)
ListFrom(t) ==
  IF t \in Records
    THEN SubSeq(_cpu_threads, SelectInSeq(_cpu_threads, LAMBDA x : x = t), Len(_cpu_threads))
    ELSE <<>>
NextOf(t) == IF Len(ListFrom(t)) > 1 THEN ListFrom(t)[2] ELSE Null

\* The threads as the session knows them: the records that do not wait for their end.
Recorded == Records \ Queued
RecordedThreads == [t \in Recorded |-> hot[t]]

\* No constructor sets i_cpu_thread_info: it holds what the memory held.
Init ==
  /\ _cpu_threads = <<>> /\ _destroyed_cpu_threads = <<>> /\ enqueued = {}
  /\ i_cpu_thread_info \in Blocks \cup {Null}
  /\ hot = [t \in Blocks |-> NoFlags] /\ cold = [t \in Blocks |-> NoFlags]
  /\ i_badge = [t \in Blocks |-> Null]
  /\ parent = [t \in Blocks |-> NoThread] /\ calling = {}
  /\ op = "idle" /\ cursor = Null /\ frozen = FALSE
  /\ touched = {} /\ requeued = FALSE /\ published = Null /\ disturbed = FALSE

-----------------------------------------------------------------------------
(* The child, through the entrypoint. *)

\* A thread that runs issues a call and waits for the reply.
IssueCall(t) ==
  /\ Runs(t) /\ t \notin calling
  /\ calling' = calling \cup {t}
  /\ UNCHANGED <<listVars, hot, cold, i_badge, parent, walkVars, historyVars>>

\* The entrypoint takes up a call, whatever has become of the caller since; the
\* calls of threads that are killed go with them.  Until a thread of the child
\* is started the calls come from the loader: the thread that also calls
\* Init_module.
TakeCall(gone) ==
  \/ \E t \in calling : calling' = calling \ ({t} \cup gone)
  \/ /\ op = "idle" /\ ~frozen /\ \A t \in Alive : ~parent[t].started
     /\ calling' = calling \ gone

ChildDisturbs == disturbed' = (disturbed \/ op = "checkpoint")

Touch(t) ==
  touched' = IF frozen \/ op \in {"pause", "pause_call"} THEN touched \cup {t} ELSE touched

create_thread(t) ==
  /\ TakeCall({})
  /\ t \notin Records
  /\ parent' = [parent EXCEPT ![t] = [NoThread EXCEPT !.alive = TRUE]]
  /\ \E s, p \in InitialFlags : hot' = [hot EXCEPT ![t] = [started |-> s, paused |-> p]]
  /\ \E b \in InitialBadges : i_badge' = [i_badge EXCEPT ![t] = b]
  /\ _cpu_threads' = <<t>> \o _cpu_threads
  /\ Touch(t)
  /\ ChildDisturbs
  /\ UNCHANGED <<_destroyed_cpu_threads, enqueued, i_cpu_thread_info, cold, walkVars, requeued,
                 published>>

\* The methods of Cpu_thread: the real thread first, then the field.  A call for
\* a thread that is dead has no effect on it.
start(t) ==
  /\ TakeCall({})
  /\ t \in Records
  /\ parent' = [parent EXCEPT ![t].started = parent[t].alive]
  /\ hot' = [hot EXCEPT ![t].started = TRUE]
  /\ ChildDisturbs
  /\ UNCHANGED <<listVars, cold, i_badge, walkVars, touched, requeued, published>>

SetPaused(t, p) ==
  /\ TakeCall({})
  /\ t \in Records
  /\ parent' = [parent EXCEPT ![t].paused = p /\ parent[t].alive]
  /\ hot' = [hot EXCEPT ![t].paused = p]
  /\ IF p THEN UNCHANGED touched ELSE Touch(t)
  /\ ChildDisturbs
  /\ UNCHANGED <<listVars, cold, i_badge, walkVars, requeued, published>>

pause_thread(t) == SetPaused(t, TRUE)
resume_thread(t) == SetPaused(t, FALSE)

find_by_badge(badge) ==
  LET i == SelectInSeq(_cpu_threads, LAMBDA t : i_badge[t] = badge)
  IN  IF i = 0 THEN Null ELSE _cpu_threads[i]

\* Mutant of kill_thread: the record is not queued.
KillOnly(t) ==
  /\ t \in Records
  /\ LET found == find_by_badge(t)
     IN  /\ TakeCall({found})
         /\ found # Null
         /\ parent' = [parent EXCEPT ![found] = NoThread]
  /\ ChildDisturbs
  /\ UNCHANGED <<listVars, hot, cold, i_badge, walkVars, touched, requeued, published>>

\* The record is looked up by the badge of the capability; the parent kills
\* the thread of the record that was found.
kill_thread(t) ==
  /\ t \in Records
  /\ LET found == find_by_badge(t)
     IN  /\ TakeCall({found})
         /\ IF found = Null
            THEN UNCHANGED <<_destroyed_cpu_threads, enqueued, parent, requeued>>
            ELSE /\ _destroyed_cpu_threads' = enqueue(_destroyed_cpu_threads, found)
                 /\ enqueued' = enqueued \cup {found}
                 /\ parent' = [parent EXCEPT ![found] = NoThread]
                 /\ requeued' = (requeued \/ found \in Queued)
  /\ ChildDisturbs
  /\ UNCHANGED <<_cpu_threads, i_cpu_thread_info, hot, cold, i_badge, walkVars, touched, published>>

-----------------------------------------------------------------------------
(* Cpu_session::pause() and resume(). *)

BeginWalk(name) ==
  /\ op = "idle"
  /\ op' = name
  /\ cursor' = First
  /\ frozen' = FALSE
  /\ touched' = {}
  /\ UNCHANGED <<listVars, hot, cold, i_badge, parent, calling, requeued, published, disturbed>>

\* Mutant of TestRecord: the mark is not looked at.
TestNothing(name, next) ==
  /\ op = name
  /\ cursor # Null
  /\ op' = next
  /\ UNCHANGED <<listVars, hot, cold, i_badge, parent, calling, cursor, frozen, historyVars>>

\* A thread whose record is enqueued is skipped.
TestRecord(name, next) ==
  /\ op = name
  /\ cursor # Null
  /\ IF cursor \in enqueued THEN cursor' = NextOf(cursor) /\ UNCHANGED op
                            ELSE op' = next /\ UNCHANGED cursor
  /\ UNCHANGED <<listVars, hot, cold, i_badge, parent, calling, frozen, historyVars>>

\* Mutant of CallParent: the walk steps over the record that follows.
CallEverySecond(name, back, p) ==
  /\ op = name
  /\ op' = back
  /\ cursor' = IF NextOf(cursor) = Null THEN Null ELSE NextOf(NextOf(cursor))
  /\ parent' = IF parent[cursor].alive THEN [parent EXCEPT ![cursor].paused = p] ELSE parent
  /\ UNCHANGED <<listVars, hot, cold, i_badge, calling, frozen, historyVars>>

\* silent_pause() or silent_resume(); a call for a thread that is dead has
\* no effect.
CallParent(name, back, p) ==
  /\ op = name
  /\ op' = back
  /\ cursor' = NextOf(cursor)
  /\ parent' = IF parent[cursor].alive THEN [parent EXCEPT ![cursor].paused = p] ELSE parent
  /\ UNCHANGED <<listVars, hot, cold, i_badge, calling, frozen, historyVars>>

WalkEnds(name, stopped) ==
  /\ op = name
  /\ cursor = Null
  /\ op' = "idle"
  /\ frozen' = stopped
  /\ UNCHANGED <<listVars, hot, cold, i_badge, parent, calling, cursor, historyVars>>

pause ==
  \/ BeginWalk("pause") \/ TestRecord("pause", "pause_call")
  \/ CallParent("pause_call", "pause", TRUE) \/ WalkEnds("pause", TRUE)

resume ==
  \/ BeginWalk("resume") \/ TestRecord("resume", "resume_call")
  \/ CallParent("resume_call", "resume", FALSE) \/ WalkEnds("resume", FALSE)

-----------------------------------------------------------------------------
(* Cpu_session::checkpoint(), which the caller of start_checkpoint() joins. *)

BeginCheckpoint ==
  /\ op = "idle"
  /\ op' = "purge"
  /\ UNCHANGED <<listVars, hot, cold, i_badge, parent, calling, cursor, frozen, historyVars>>

\* One record of the queue is removed and destroyed.  The mark of the block is gone
\* with the record.
DestroyThread ==
  /\ op = "purge"
  /\ _destroyed_cpu_threads # <<>>
  /\ LET t == Head(_destroyed_cpu_threads)
     IN  /\ _cpu_threads' = RemoveFirst(_cpu_threads, t)
         /\ hot' = [hot EXCEPT ![t] = NoFlags]
         /\ cold' = [cold EXCEPT ![t] = NoFlags]
         /\ i_badge' = [i_badge EXCEPT ![t] = Null]
         /\ enqueued' = enqueued \ {t}
  /\ _destroyed_cpu_threads' = Tail(_destroyed_cpu_threads)
  /\ UNCHANGED <<i_cpu_thread_info, parent, calling, walkVars, historyVars>>

PurgeDone ==
  /\ op = "purge"
  /\ _destroyed_cpu_threads = <<>>
  /\ op' = "checkpoint"
  /\ cursor' = First
  /\ UNCHANGED <<listVars, hot, cold, i_badge, parent, calling, frozen, historyVars>>

\* Mutant of CheckpointThread: the fields are not copied.
CheckpointNothing ==
  /\ op = "checkpoint"
  /\ cursor # Null
  /\ cursor' = NextOf(cursor)
  /\ UNCHANGED <<listVars, hot, cold, i_badge, parent, calling, op, frozen, historyVars>>

\* Cpu_thread::checkpoint() of one record.
CheckpointThread ==
  /\ op = "checkpoint"
  /\ cursor # Null
  /\ cold' = [cold EXCEPT ![cursor] = hot[cursor]]
  /\ cursor' = NextOf(cursor)
  /\ UNCHANGED <<listVars, hot, i_badge, parent, calling, op, frozen, historyVars>>

Publish ==
  /\ op = "checkpoint"
  /\ cursor = Null
  /\ i_cpu_thread_info' = First
  /\ published' = [t \in Records |-> cold[t]]
  /\ op' = "idle"
  /\ disturbed' = FALSE
  /\ UNCHANGED <<_cpu_threads, _destroyed_cpu_threads, enqueued, hot, cold, i_badge, parent,
                 calling, cursor, frozen, touched, requeued>>

checkpoint ==
  \/ BeginCheckpoint \/ DestroyThread \/ PurgeDone \/ CheckpointThread \/ Publish

-----------------------------------------------------------------------------
Child(t) ==
  \/ IssueCall(t)
  \/ create_thread(t) \/ start(t) \/ pause_thread(t) \/ resume_thread(t) \/ kill_thread(t)

Next == (\E t \in Blocks : Child(t)) \/ pause \/ resume \/ checkpoint

Spec == Init /\ [][Next]_vars

-----------------------------------------------------------------------------
(* Properties *)

\* Between pause() and resume() no thread of the child runs.  (cpu_session.h
\* 136-139: "Pause all child threads of this session".)  TLC refutes it; what holds is
\* OnlyTouchedRun.
PauseStopsChild == frozen => \A t \in Blocks : ~Runs(t)

\* The only threads that run after pause() are those that a call has created or
\* resumed since pause() began: pause() stops all others, whatever the child does
\* to the list while it is walked and whatever calls are handled later.
OnlyTouchedRun == frozen => \A t \in Blocks : Runs(t) => t \in touched

\* When pause() and resume() decide to call the parent for a thread, it is alive,
\* though its record may have been found by a badge that was never set: a thread
\* whose record is in the list, but dead, has the mark.  (cpu_session.cc 157-160:
\* "if the object is in the destroyed queue, it means that it is already destroyed".)
WalkSparesTheDead ==
  [][(op' # op /\ op' \in {"pause_call", "resume_call"}) => cursor \in Alive]_vars

\* The records without the mark are the threads of the parent, whatever badges the
\* records hold; no record is in the queue twice, and none that has the mark is
\* missing there, so that it would never be destroyed, unless a kill has found a
\* record that was in the queue already.
RecordsMatchParent ==
  /\ Alive = Records \ enqueued
  /\ \A i, j \in DOMAIN _destroyed_cpu_threads :
       _destroyed_cpu_threads[i] = _destroyed_cpu_threads[j] => i = j
  /\ Queued \subseteq enqueued
  /\ ~requeued => enqueued \subseteq Queued

\* A kill ends the thread it is asked to end.  (cpu_session.cc 211: "Find CPU thread
\* for the given capability".)  TLC refutes it; what holds is RecordsMatchParent.
KillEndsItsThread == [][\A t \in Blocks : kill_thread(t) => t \notin Alive']_vars

\* The session keeps the promise of Snapshot: between checkpoints a reader
\* finds the threads and the fields of the last checkpoint, unless the child
\* has acted during it; nobody reads before there was one.
Promise == INSTANCE Snapshot WITH
  Names <- Blocks, Values <- Flags,
  live <- RecordedThreads,
  snapshot <- CASE published = Null -> <<>>
                [] published # Null /\ op \in {"purge", "checkpoint"} -> published
                [] published # Null /\ op \notin {"purge", "checkpoint"} ->
                     [t \in ToSet(ListFrom(i_cpu_thread_info)) |-> cold[t]]
KeepsSnapshotPromise == Promise!SnapshotSpec
=============================================================================
