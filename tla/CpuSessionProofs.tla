---------------------------- MODULE CpuSessionProofs ----------------------------
(***************************************************************************)
(* The records of the threads, for every number of threads, whatever their *)
(* uninitialised fields hold and whatever the child does while Init_module *)
(* walks the list.                                                         *)
(*                                                                         *)
(* pause() stops every thread it finds ahead of it when it begins, because *)
(* a thread whose record is not enqueued is alive, and the child can add   *)
(* records only where the walk has been.  What the walk leaves behind it   *)
(* runs only if a call has created or resumed it since.                    *)
(***************************************************************************)
EXTENDS CpuSession, SequenceLemmas

Snapshots == UNION {[S -> Flags] : S \in SUBSET Blocks}
ThreadStates == [alive : BOOLEAN, started : BOOLEAN, paused : BOOLEAN]

Pausing == {"pause", "pause_call"}
Walks == {"pause", "pause_call", "resume", "resume_call"}

CpuTypeOK ==
  /\ _cpu_threads \in Seq(Blocks)
  /\ _destroyed_cpu_threads \in Seq(Blocks)
  /\ i_cpu_thread_info \in Blocks \cup {Null}
  /\ hot \in [Blocks -> Flags]
  /\ cold \in [Blocks -> Flags]
  /\ i_badge \in [Blocks -> Blocks \cup {Null}]
  /\ parent \in [Blocks -> ThreadStates]
  /\ calling \in SUBSET Blocks
  /\ op \in Walks \cup {"idle", "purge", "checkpoint"}
  /\ cursor \in Blocks \cup {Null}
  /\ frozen \in BOOLEAN
  /\ published \in Snapshots \cup {Null}
  /\ disturbed \in BOOLEAN
  /\ IsInjective(_cpu_threads)

QueueHoldsTheDead ==
  /\ RecordsMatchParent
  /\ enqueued \subseteq Records

\* The record a walk has come to.
CursorIsRecord ==
  /\ op \in Walks \cup {"checkpoint"} => cursor \in Records \cup {Null}
  /\ op \in {"pause_call", "resume_call"} => cursor # Null

\* A thread that runs once it is started.
Unpaused(t) == parent[t].alive /\ ~ parent[t].paused

\* A walk of pause() leaves no thread behind that would run.
UnpausedIsAhead ==
  /\ op \in Pausing =>
       \A t \in Blocks : Unpaused(t) => t \in AheadOf(_cpu_threads, cursor) \cup touched
  /\ op \in Walks => ~ frozen
  /\ frozen => \A t \in Blocks : Unpaused(t) => t \in touched

CopiedIsBehind ==
  /\ disturbed => op = "checkpoint"
  /\ op = "checkpoint" /\ ~ disturbed =>
       /\ Queued = {}
       /\ \A t \in Records \ AheadOf(_cpu_threads, cursor) : cold[t] = hot[t]

SnapshotIsKept ==
  published # Null /\ op \notin {"purge", "checkpoint"} =>
    /\ i_cpu_thread_info \in Records \cup {Null}
    /\ [t \in AheadOf(_cpu_threads, i_cpu_thread_info) |-> cold[t]] = published

CpuInv ==
  /\ CpuTypeOK
  /\ QueueHoldsTheDead
  /\ CursorIsRecord
  /\ UnpausedIsAhead
  /\ CopiedIsBehind
  /\ SnapshotIsKept

-----------------------------------------------------------------------------
(* The operations on the list. *)

LEMMA ListIsWalk ==
  /\ \A t : ListFrom(t) = SuffixFrom(_cpu_threads, t)
  /\ \A t : NextOf(t) = NextIn(_cpu_threads, t, Null)
<1>1. \A t : ListFrom(t) = SuffixFrom(_cpu_threads, t)
  BY DEF ListFrom, Records, SuffixFrom, IndexOf
<1>. QED
  BY <1>1 DEF NextOf, NextIn

LEMMA NextIsRecord ==
  ASSUME CpuInv, NEW t \in Records
  PROVE  /\ t \in AheadOf(_cpu_threads, t)
         /\ AheadOf(_cpu_threads, t) \subseteq Records
         /\ NextOf(t) = Null => AheadOf(_cpu_threads, t) = {t}
         /\ NextOf(t) # Null =>
              /\ NextOf(t) \in Records
              /\ AheadOf(_cpu_threads, NextOf(t)) = AheadOf(_cpu_threads, t) \ {t}
BY ListIsWalk, WalkSteps, CpuAssumption DEF CpuInv, CpuTypeOK, Records

LEMMA RecordsAreBlocks ==
  ASSUME CpuTypeOK
  PROVE  Records \subseteq Blocks /\ Null \notin Records
BY ListPlaces, CpuAssumption DEF CpuTypeOK, Records

\* Nothing is ahead of a walk at its end.
LEMMA NothingAheadOfNull ==
  ASSUME CpuTypeOK
  PROVE  AheadOf(_cpu_threads, Null) = {}
BY RecordsAreBlocks DEF AheadOf, SuffixFrom, Records, ToSet

\* A walk starts with the whole list ahead of it.
LEMMA FirstIsRecord ==
  ASSUME CpuTypeOK
  PROVE  First \in Records \cup {Null} /\ AheadOf(_cpu_threads, First) = Records
<1>1. CASE _cpu_threads = <<>>
  <2>1. Records = {} /\ First = Null
    BY <1>1, ListPlaces DEF CpuTypeOK, Records, First
  <2>. QED
    BY <2>1, NothingAheadOfNull
<1>2. CASE _cpu_threads # <<>>
  BY <1>2, WalkStarts DEF CpuTypeOK, First, Records
<1>. QED
  BY <1>1, <1>2

\* A step of a walk leaves one record behind.
LEMMA WalkLeavesOne ==
  ASSUME CpuInv, cursor \in Records
  PROVE  /\ NextOf(cursor) \in Records \cup {Null}
         /\ AheadOf(_cpu_threads, NextOf(cursor)) = AheadOf(_cpu_threads, cursor) \ {cursor}
<1>1. CASE NextOf(cursor) = Null
  BY <1>1, NextIsRecord, NothingAheadOfNull DEF CpuInv
<1>2. CASE NextOf(cursor) # Null
  BY <1>2, NextIsRecord
<1>. QED
  BY <1>1, <1>2

\* The search finds a record, if it finds anything.
LEMMA FindsRecord ==
  ASSUME CpuInv, NEW b
  PROVE  find_by_badge(b) \in Records \cup {Null}
<1> DEFINE T == {x \in Blocks : i_badge[x] = b}
           i == FirstOf(_cpu_threads, T)
<1>1. /\ _cpu_threads \in Seq(Blocks)
      /\ Len(_cpu_threads) \in Nat
      /\ \A j \in 1 .. Len(_cpu_threads) : _cpu_threads[j] \in Blocks
  BY ListPlaces DEF CpuInv, CpuTypeOK
<1>2. i = SelectInSeq(_cpu_threads, LAMBDA t : i_badge[t] = b)
  <2>1. \A j \in 1 .. Len(_cpu_threads) : _cpu_threads[j] \in T <=> i_badge[_cpu_threads[j]] = b
    BY <1>1
  <2>. HIDE DEF T
  <2>2. {j \in 1 .. Len(_cpu_threads) : _cpu_threads[j] \in T}
          = {j \in 1 .. Len(_cpu_threads) : i_badge[_cpu_threads[j]] = b}
    BY <2>1
  <2>. QED
    BY <2>2 DEF FirstOf, SelectInSeq
<1>3. find_by_badge(b) = IF i = 0 THEN Null ELSE _cpu_threads[i]
  BY <1>2 DEF find_by_badge
<1>4. i = 0 \/ _cpu_threads[i] \in ToSet(_cpu_threads) \cap T
  <2>. HIDE DEF T
  <2>. QED
    BY <1>1, FirstOfIsFirst
<1>. HIDE DEF i
<1>. QED
  BY <1>3, <1>4 DEF Records

\* A call that is handled is no longer in flight.
LEMMA CallsShrink ==
  ASSUME CpuInv, NEW gone, TakeCall(gone)
  PROVE  calling' \in SUBSET Blocks
BY DEF TakeCall, CpuInv, CpuTypeOK

\* What the child has touched stays touched.
LEMMA TouchAdds ==
  ASSUME NEW t, Touch(t)
  PROVE  /\ touched \subseteq touched'
         /\ frozen \/ op \in Pausing => t \in touched'
BY DEF Touch, Pausing

-----------------------------------------------------------------------------
(* The calls of the child. *)

\* A call for a thread leaves the list and what Init_module does.
LEMMA CallsKeepCpuInv ==
  ASSUME CpuInv,
         UNCHANGED <<_cpu_threads, _destroyed_cpu_threads, enqueued, i_cpu_thread_info, cold,
                     i_badge, op, cursor, frozen, requeued, published>>,
         hot' \in [Blocks -> Flags], parent' \in [Blocks -> ThreadStates],
         calling' \in SUBSET Blocks,
         \A q \in Blocks : parent'[q].alive = parent[q].alive,
         \A q \in Blocks : Unpaused(q)' => Unpaused(q) \/ (frozen \/ op \in Pausing => q \in touched'),
         touched \subseteq touched',
         ChildDisturbs
  PROVE  CpuInv'
<1>1. Alive' = Alive /\ Records' = Records /\ Queued' = Queued
  BY DEF Alive, Records, Queued
<1>2. CpuTypeOK'
  BY DEF CpuInv, CpuTypeOK, ChildDisturbs
<1>3. QueueHoldsTheDead'
  BY <1>1 DEF CpuInv, QueueHoldsTheDead, RecordsMatchParent
<1>4. CursorIsRecord'
  BY <1>1 DEF CpuInv, CursorIsRecord
<1>5. UnpausedIsAhead'
  BY DEF CpuInv, UnpausedIsAhead
<1>6. CopiedIsBehind'
  BY DEF CpuInv, CopiedIsBehind, ChildDisturbs
<1>7. SnapshotIsKept'
  BY <1>1 DEF CpuInv, SnapshotIsKept
<1>. QED
  BY <1>2, <1>3, <1>4, <1>5, <1>6, <1>7 DEF CpuInv

LEMMA IssueKeepsCpuInv ==
  ASSUME CpuInv, NEW t \in Blocks, IssueCall(t)
  PROVE  CpuInv'
<1>1. /\ UNCHANGED <<_cpu_threads, _destroyed_cpu_threads, enqueued, i_cpu_thread_info, hot, cold,
                     i_badge, parent, op, cursor, frozen, touched, requeued, published, disturbed>>
      /\ calling' = calling \cup {t}
  BY DEF IssueCall, listVars, walkVars, historyVars
<1>2. /\ Alive' = Alive /\ Records' = Records /\ Queued' = Queued
      /\ \A q \in Blocks : Unpaused(q)' = Unpaused(q)
  BY <1>1 DEF Alive, Records, Queued, Unpaused
<1>3. CpuTypeOK'
  BY <1>1 DEF CpuInv, CpuTypeOK
<1>4. QueueHoldsTheDead' /\ CursorIsRecord' /\ CopiedIsBehind' /\ SnapshotIsKept'
  BY <1>1, <1>2 DEF CpuInv, QueueHoldsTheDead, RecordsMatchParent, CursorIsRecord, CopiedIsBehind,
                    SnapshotIsKept
<1>5. UnpausedIsAhead'
  BY <1>1, <1>2 DEF CpuInv, UnpausedIsAhead
<1>. QED
  BY <1>3, <1>4, <1>5 DEF CpuInv

\* start(), pause() and resume() of a thread change its state and its fields.
LEMMA ThreadStepsKeepCpuInv ==
  ASSUME CpuInv, NEW t \in Blocks, start(t) \/ pause_thread(t) \/ resume_thread(t)
  PROVE  CpuInv'
<1>1. hot \in [Blocks -> Flags] /\ parent \in [Blocks -> ThreadStates]
  BY DEF CpuInv, CpuTypeOK
<1>2. \A f \in Flags, p \in BOOLEAN :
        [f EXCEPT !.started = TRUE] \in Flags /\ [f EXCEPT !.paused = p] \in Flags
  BY DEF Flags
<1>3. \A s \in ThreadStates, p \in BOOLEAN :
        /\ [s EXCEPT !.started = p] \in ThreadStates
        /\ [s EXCEPT !.started = p].alive = s.alive
        /\ [s EXCEPT !.started = p].paused = s.paused
        /\ [s EXCEPT !.paused = p] \in ThreadStates
        /\ [s EXCEPT !.paused = p].alive = s.alive
        /\ [s EXCEPT !.paused = p].paused = p
  BY DEF ThreadStates
<1>4. parent[t] \in ThreadStates /\ parent[t].alive \in BOOLEAN
  BY <1>1 DEF ThreadStates
<1>5. CASE start(t)
  <2>1. /\ UNCHANGED <<_cpu_threads, _destroyed_cpu_threads, enqueued, i_cpu_thread_info, cold,
                       i_badge, op, cursor, frozen, touched, requeued, published>>
        /\ ChildDisturbs
        /\ hot' = [hot EXCEPT ![t].started = TRUE]
        /\ parent' = [parent EXCEPT ![t].started = parent[t].alive]
        /\ TakeCall({})
    BY <1>5 DEF start, listVars, walkVars
  <2>2. hot' \in [Blocks -> Flags] /\ parent' \in [Blocks -> ThreadStates]
    BY <1>1, <1>2, <1>3, <1>4, <2>1
  <2>3. \A q \in Blocks : parent'[q].alive = parent[q].alive /\ parent'[q].paused = parent[q].paused
    BY <1>1, <1>3, <1>4, <2>1
  <2>4. \A q \in Blocks : Unpaused(q)' => Unpaused(q)
    BY <2>3 DEF Unpaused
  <2>. QED
    BY <2>1, <2>2, <2>3, <2>4, CallsShrink, CallsKeepCpuInv
<1>6. ASSUME NEW p \in BOOLEAN, SetPaused(t, p) PROVE CpuInv'
  <2>1. /\ UNCHANGED <<_cpu_threads, _destroyed_cpu_threads, enqueued, i_cpu_thread_info, cold,
                       i_badge, op, cursor, frozen, requeued, published>>
        /\ ChildDisturbs
        /\ hot' = [hot EXCEPT ![t].paused = p]
        /\ TakeCall({})
    BY <1>6 DEF SetPaused, listVars, walkVars
  <2>2. PICK b \in BOOLEAN :
          b = (p /\ parent[t].alive) /\ parent' = [parent EXCEPT ![t].paused = b]
    <3>1. parent' = [parent EXCEPT ![t].paused = p /\ parent[t].alive]
      BY <1>6 DEF SetPaused
    <3>2. (p /\ parent[t].alive) \in BOOLEAN
      BY <1>4
    <3>. QED
      BY <3>1, <3>2
  <2>3. /\ parent' \in [Blocks -> ThreadStates]
        /\ \A q \in Blocks : parent'[q].alive = parent[q].alive
        /\ \A q \in Blocks : q # t => parent'[q].paused = parent[q].paused
        /\ parent'[t].paused = b
    <3>1. parent' = [parent EXCEPT ![t].paused = b]
      BY <2>2
    <3>2. parent' \in [Blocks -> ThreadStates]
      BY <1>1, <1>4, <3>1 DEF ThreadStates
    <3>3. parent'[t].paused = b /\ parent'[t].alive = parent[t].alive
      BY <1>1, <1>4, <3>1 DEF ThreadStates
    <3>4. \A q \in Blocks : q # t => parent'[q] = parent[q]
      BY <1>1, <3>1
    <3>. QED
      BY <3>2, <3>3, <3>4
  <2>4. hot' \in [Blocks -> Flags]
    BY <1>1, <1>2, <2>1
  <2>5. /\ touched \subseteq touched'
        /\ ~ p => (frozen \/ op \in Pausing => t \in touched')
    BY <1>6, TouchAdds DEF SetPaused
  <2>6. \A q \in Blocks :
          Unpaused(q)' => Unpaused(q) \/ (frozen \/ op \in Pausing => q \in touched')
    BY <2>2, <2>3, <2>5 DEF Unpaused
  <2>. QED
    BY <2>1, <2>3, <2>4, <2>5, <2>6, CallsShrink, CallsKeepCpuInv
<1>. QED
  BY <1>5, <1>6 DEF pause_thread, resume_thread

\* A new record becomes the head of the list, where no walk comes by.
LEMMA CreateKeepsCpuInv ==
  ASSUME CpuInv, NEW t \in Blocks, create_thread(t)
  PROVE  CpuInv'
<1>1. /\ UNCHANGED <<_destroyed_cpu_threads, enqueued, i_cpu_thread_info, cold, op, cursor, frozen,
                     requeued, published>>
      /\ _cpu_threads' = <<t>> \o _cpu_threads /\ t \notin Records
      /\ TakeCall({}) /\ Touch(t) /\ ChildDisturbs
  BY DEF create_thread, walkVars
<1>2. /\ _cpu_threads \in Seq(Blocks) /\ IsInjective(_cpu_threads)
      /\ Records \subseteq Blocks /\ Null \notin Records /\ Null # t
  BY RecordsAreBlocks, CpuAssumption DEF CpuInv, CpuTypeOK
<1>3. /\ _cpu_threads' \in Seq(Blocks)
      /\ IsInjective(_cpu_threads')
      /\ Records' = {t} \cup Records
  BY <1>1, <1>2, ConsAtPlace, ConsOfInjective DEF Records
<1>4. \A x : x # t => AheadOf(_cpu_threads', x) = AheadOf(_cpu_threads, x)
  BY <1>1, <1>2, <1>3, SuffixOfCons DEF AheadOf, Records
<1>5. /\ parent' \in [Blocks -> ThreadStates]
      /\ parent'[t].alive
      /\ \A q \in Blocks : q # t => parent'[q] = parent[q]
  <2> DEFINE new == [NoThread EXCEPT !.alive = TRUE]
  <2>1. new \in ThreadStates /\ new.alive
    BY DEF NoThread, ThreadStates
  <2>2. parent' = [parent EXCEPT ![t] = new]
    BY DEF create_thread
  <2>. HIDE DEF new
  <2>. QED
    BY <2>1, <2>2 DEF CpuInv, CpuTypeOK
<1>6. Alive' = {t} \cup Alive /\ Queued' = Queued
  BY <1>1, <1>5 DEF Alive, Queued
<1>7. /\ hot' \in [Blocks -> Flags]
      /\ \A q \in Blocks : q # t => hot'[q] = hot[q]
  <2>1. PICK s \in InitialFlags, p \in InitialFlags :
          hot' = [hot EXCEPT ![t] = [started |-> s, paused |-> p]]
    BY DEF create_thread
  <2>2. [started |-> s, paused |-> p] \in Flags
    BY <2>1, CpuAssumption DEF Flags
  <2>. QED
    BY <2>1, <2>2 DEF CpuInv, CpuTypeOK
<1>8. i_badge' \in [Blocks -> Blocks \cup {Null}]
  <2>1. PICK b \in InitialBadges : i_badge' = [i_badge EXCEPT ![t] = b]
    BY DEF create_thread
  <2>2. b \in Blocks \cup {Null}
    BY <2>1, CpuAssumption
  <2>. QED
    BY <2>1, <2>2 DEF CpuInv, CpuTypeOK
<1>9. CpuTypeOK'
  BY <1>1, <1>3, <1>5, <1>7, <1>8, CallsShrink DEF CpuInv, CpuTypeOK, ChildDisturbs
<1>10. QueueHoldsTheDead'
  <2>1. /\ RecordsMatchParent /\ enqueued \subseteq Records
    BY DEF CpuInv, QueueHoldsTheDead
  <2>2. Alive' = Records' \ enqueued'
    BY <1>1, <1>3, <1>6, <2>1 DEF RecordsMatchParent
  <2>. QED
    BY <1>1, <1>3, <1>6, <2>1, <2>2 DEF QueueHoldsTheDead, RecordsMatchParent
<1>11. CursorIsRecord'
  BY <1>1, <1>3 DEF CpuInv, CursorIsRecord
<1>12. UnpausedIsAhead'
  <2>1. touched \subseteq touched' /\ (frozen \/ op \in Pausing => t \in touched')
    BY <1>1, TouchAdds
  <2>2. \A q \in Blocks : q # t => (Unpaused(q)' <=> Unpaused(q))
    BY <1>5 DEF Unpaused
  <2>3. op \in Pausing => cursor # t
    BY <1>1, <1>2 DEF CpuInv, CursorIsRecord, Pausing, Walks
  <2>. QED
    BY <1>1, <1>4, <2>1, <2>2, <2>3 DEF CpuInv, UnpausedIsAhead
<1>13. CopiedIsBehind'
  BY <1>1 DEF CpuInv, CopiedIsBehind, ChildDisturbs
<1>14. SnapshotIsKept'
  <2>. SUFFICES ASSUME published # Null, op \notin {"purge", "checkpoint"}
                PROVE  SnapshotIsKept'
    BY <1>1 DEF SnapshotIsKept
  <2>1. i_cpu_thread_info \in Records \cup {Null} /\ i_cpu_thread_info # t
    BY <1>1, <1>2 DEF CpuInv, SnapshotIsKept
  <2>2. AheadOf(_cpu_threads', i_cpu_thread_info) = AheadOf(_cpu_threads, i_cpu_thread_info)
    BY <1>4, <2>1
  <2>. QED
    BY <1>1, <1>3, <2>1, <2>2 DEF CpuInv, SnapshotIsKept
<1>. QED
  BY <1>9, <1>10, <1>11, <1>12, <1>13, <1>14 DEF CpuInv

\* A kill marks the record it finds; its thread is dead then, if it was not before.
LEMMA KillKeepsCpuInv ==
  ASSUME CpuInv, NEW t \in Blocks, kill_thread(t)
  PROVE  CpuInv'
<1> DEFINE found == find_by_badge(t)
<1>1. /\ UNCHANGED <<_cpu_threads, i_cpu_thread_info, hot, cold, i_badge, op, cursor, frozen,
                     touched, published>>
      /\ TakeCall({found}) /\ ChildDisturbs
  BY DEF kill_thread, walkVars
<1>2. CASE found = Null
  <2>1. UNCHANGED <<_destroyed_cpu_threads, enqueued, parent, requeued>>
    BY <1>2 DEF kill_thread
  <2>2. hot \in [Blocks -> Flags] /\ parent \in [Blocks -> ThreadStates]
    BY DEF CpuInv, CpuTypeOK
  <2>3. \A q \in Blocks : Unpaused(q)' => Unpaused(q)
    BY <2>1 DEF Unpaused
  <2>4. calling' \in SUBSET Blocks
    BY <1>1, CallsShrink
  <2>. HIDE DEF found
  <2>. QED
    BY <1>1, <2>1, <2>2, <2>3, <2>4, CallsKeepCpuInv
<1>3. CASE found # Null
  <2>1. /\ _destroyed_cpu_threads' = enqueue(_destroyed_cpu_threads, found)
        /\ enqueued' = enqueued \cup {found}
        /\ parent' = [parent EXCEPT ![found] = NoThread]
        /\ requeued' = (requeued \/ found \in Queued)
    BY <1>3 DEF kill_thread
  <2>2. found \in Records /\ Records \subseteq Blocks
    BY <1>3, FindsRecord, RecordsAreBlocks DEF CpuInv
  <2>3. calling' \in SUBSET Blocks
    BY <1>1, CallsShrink
  <2>. HIDE DEF found
  <2>4. /\ _destroyed_cpu_threads \in Seq(Blocks) /\ IsInjective(_destroyed_cpu_threads)
        /\ Queued \subseteq enqueued /\ enqueued \subseteq Records /\ Alive = Records \ enqueued
        /\ ~ requeued => enqueued \subseteq Queued
    BY DEF CpuInv, CpuTypeOK, QueueHoldsTheDead, RecordsMatchParent, IsInjective
  <2>5. /\ _destroyed_cpu_threads' \in Seq(Blocks) /\ IsInjective(_destroyed_cpu_threads')
        /\ Queued' \subseteq Queued \cup {found}
        /\ found \notin Queued => Queued' = Queued \cup {found}
    BY <2>1, <2>2, <2>4, EnqueueOfInjective DEF Queued
  <2>6. parent' \in [Blocks -> ThreadStates]
    BY <2>1, <2>2 DEF CpuInv, CpuTypeOK, ThreadStates, NoThread
  <2>7. ~ parent'[found].alive /\ \A q \in Blocks : q # found => parent'[q] = parent[q]
    BY <2>1, <2>2 DEF CpuInv, CpuTypeOK, NoThread
  <2>8. Alive' = Alive \ {found} /\ Records' = Records
    BY <1>1, <2>7 DEF Alive, Records
  <2>9. \A q \in Blocks : Unpaused(q)' => Unpaused(q)
    BY <2>7 DEF Unpaused
  <2>10. CpuTypeOK'
    BY <1>1, <2>3, <2>5, <2>6 DEF CpuInv, CpuTypeOK, ChildDisturbs
  <2>11. QueueHoldsTheDead'
    <3>1. Alive' = Records' \ enqueued' /\ enqueued' \subseteq Records' /\ Queued' \subseteq enqueued'
      BY <2>1, <2>2, <2>4, <2>5, <2>8
    <3>2. ~ requeued' => enqueued' \subseteq Queued'
      BY <2>1, <2>4, <2>5
    <3>. QED
      BY <2>5, <3>1, <3>2 DEF QueueHoldsTheDead, RecordsMatchParent, IsInjective
  <2>12. CursorIsRecord' /\ SnapshotIsKept'
    BY <1>1, <2>8 DEF CpuInv, CursorIsRecord, SnapshotIsKept
  <2>13. UnpausedIsAhead'
    BY <1>1, <2>9 DEF CpuInv, UnpausedIsAhead
  <2>14. CopiedIsBehind'
    BY <1>1 DEF CpuInv, CopiedIsBehind, ChildDisturbs
  <2>. QED
    BY <2>10, <2>11, <2>12, <2>13, <2>14 DEF CpuInv
<1>. QED
  BY <1>2, <1>3

-----------------------------------------------------------------------------
(* pause() and resume(). *)

\* What a walk leaves alone keeps the list and the queue as they are.
LEMMA WalkKeepsLists ==
  ASSUME CpuInv,
         UNCHANGED <<_cpu_threads, _destroyed_cpu_threads, enqueued, i_cpu_thread_info, hot, cold,
                     i_badge, calling, requeued, published, disturbed>>,
         parent' \in [Blocks -> ThreadStates], Alive' = Alive,
         op' \in Walks \cup {"idle"}, op \in Walks \cup {"idle"},
         cursor' \in Records \cup {Null}, frozen' \in BOOLEAN,
         op' \in {"pause_call", "resume_call"} => cursor' # Null
  PROVE  /\ CpuTypeOK' /\ QueueHoldsTheDead' /\ CursorIsRecord' /\ CopiedIsBehind'
         /\ SnapshotIsKept'
<1>1. Records' = Records /\ Queued' = Queued /\ cursor' \in Blocks \cup {Null}
  BY RecordsAreBlocks DEF CpuInv, Records, Queued
<1>2. op # "purge" /\ op' # "purge" /\ op # "checkpoint" /\ op' # "checkpoint"
  BY DEF Walks
<1>3. CpuTypeOK'
  BY <1>1 DEF CpuInv, CpuTypeOK
<1>4. QueueHoldsTheDead' /\ CursorIsRecord'
  BY <1>1 DEF CpuInv, QueueHoldsTheDead, RecordsMatchParent, CursorIsRecord
<1>5. CopiedIsBehind'
  BY <1>2 DEF CpuInv, CopiedIsBehind
<1>6. SnapshotIsKept'
  BY <1>1, <1>2 DEF CpuInv, SnapshotIsKept
<1>. QED
  BY <1>3, <1>4, <1>5, <1>6

LEMMA BeginWalkKeepsCpuInv ==
  ASSUME CpuInv, NEW name \in {"pause", "resume"}, BeginWalk(name)
  PROVE  CpuInv'
<1>1. /\ op = "idle" /\ op' = name /\ cursor' = First /\ frozen' = FALSE
      /\ UNCHANGED <<_cpu_threads, _destroyed_cpu_threads, enqueued, i_cpu_thread_info, hot, cold,
                     i_badge, parent, calling, requeued, published, disturbed>>
  BY DEF BeginWalk, listVars
<1>2. /\ First \in Records \cup {Null}
      /\ AheadOf(_cpu_threads, First) = Records
      /\ Records \subseteq Blocks
  BY FirstIsRecord, RecordsAreBlocks DEF CpuInv
<1>3. /\ Alive' = Alive /\ \A t \in Blocks : Unpaused(t)' = Unpaused(t)
      /\ \A t \in Blocks : Unpaused(t) => t \in Records
  BY <1>1 DEF Alive, Unpaused, CpuInv, QueueHoldsTheDead, RecordsMatchParent
<1>4. /\ CpuTypeOK' /\ QueueHoldsTheDead' /\ CursorIsRecord' /\ CopiedIsBehind'
      /\ SnapshotIsKept'
  <2>1. parent' \in [Blocks -> ThreadStates] /\ cursor' \in Records \cup {Null} /\ op' \in Walks
    BY <1>1, <1>2 DEF CpuInv, CpuTypeOK, Walks
  <2>. QED
    BY <1>1, <1>3, <2>1, WalkKeepsLists
<1>5. UnpausedIsAhead'
  BY <1>1, <1>2, <1>3 DEF UnpausedIsAhead
<1>. QED
  BY <1>4, <1>5 DEF CpuInv

\* A record that is enqueued is passed by: its thread is dead.
LEMMA TestKeepsCpuInv ==
  ASSUME CpuInv, TestRecord("pause", "pause_call") \/ TestRecord("resume", "resume_call")
  PROVE  CpuInv'
<1>1. /\ op \in {"pause", "resume"} /\ cursor # Null
      /\ UNCHANGED <<_cpu_threads, _destroyed_cpu_threads, enqueued, i_cpu_thread_info, hot, cold,
                     i_badge, parent, calling, frozen, touched, requeued, published, disturbed>>
  BY DEF TestRecord, listVars, historyVars
<1>2. \/ cursor \in enqueued /\ cursor' = NextOf(cursor) /\ op' = op
      \/ /\ cursor' = cursor
         /\ \/ op = "pause" /\ op' = "pause_call"
            \/ op = "resume" /\ op' = "resume_call"
  BY DEF TestRecord
<1>3. /\ cursor \in Records /\ Records \subseteq Blocks
      /\ ~ frozen
  BY <1>1, RecordsAreBlocks DEF CpuInv, CursorIsRecord, UnpausedIsAhead, Walks
<1>4. /\ NextOf(cursor) \in Records \cup {Null}
      /\ AheadOf(_cpu_threads, NextOf(cursor)) = AheadOf(_cpu_threads, cursor) \ {cursor}
  BY <1>3, WalkLeavesOne
<1>5. Alive' = Alive /\ \A t \in Blocks : Unpaused(t)' = Unpaused(t)
  BY <1>1 DEF Alive, Unpaused
<1>6. /\ CpuTypeOK' /\ QueueHoldsTheDead' /\ CursorIsRecord' /\ CopiedIsBehind'
      /\ SnapshotIsKept'
  <2>1. /\ parent' \in [Blocks -> ThreadStates] /\ cursor' \in Records \cup {Null}
        /\ op \in Walks /\ op' \in Walks /\ frozen' \in BOOLEAN
    BY <1>1, <1>2, <1>3, <1>4 DEF CpuInv, CpuTypeOK, Walks
  <2>2. op' \in {"pause_call", "resume_call"} => cursor' # Null
    BY <1>1, <1>2
  <2>. QED
    BY <1>1, <1>5, <2>1, <2>2, WalkKeepsLists
<1>7. UnpausedIsAhead'
  <2>1. \A t \in Blocks : Unpaused(t) => t \notin enqueued
    BY DEF Unpaused, CpuInv, QueueHoldsTheDead, RecordsMatchParent, Alive
  <2>2. op' \in Pausing => op = "pause"
    BY <1>1, <1>2 DEF Pausing
  <2>3. op = "pause" =>
          \A t \in Blocks : Unpaused(t) => t \in AheadOf(_cpu_threads, cursor) \cup touched
    BY DEF CpuInv, UnpausedIsAhead, Pausing
  <2>4. op = "pause" =>
          \A t \in Blocks : Unpaused(t) => t \in AheadOf(_cpu_threads, cursor') \cup touched
    BY <1>2, <1>4, <2>1, <2>3
  <2>. QED
    BY <1>1, <1>3, <1>5, <2>2, <2>4 DEF UnpausedIsAhead
<1>. QED
  BY <1>6, <1>7 DEF CpuInv

\* The parent is told about the thread the walk has come to.
LEMMA CallKeepsCpuInv ==
  ASSUME CpuInv,
         CallParent("pause_call", "pause", TRUE) \/ CallParent("resume_call", "resume", FALSE)
  PROVE  CpuInv'
<1>1. /\ op \in {"pause_call", "resume_call"}
      /\ cursor' = NextOf(cursor)
      /\ op = "pause_call" => op' = "pause"
      /\ op = "resume_call" => op' = "resume"
      /\ UNCHANGED <<_cpu_threads, _destroyed_cpu_threads, enqueued, i_cpu_thread_info, hot, cold,
                     i_badge, calling, frozen, touched, requeued, published, disturbed>>
  BY DEF CallParent, listVars, historyVars
<1>2. /\ cursor \in Records /\ Records \subseteq Blocks /\ cursor \in Blocks
      /\ ~ frozen
  BY <1>1, RecordsAreBlocks DEF CpuInv, CursorIsRecord, UnpausedIsAhead, Walks
<1>3. /\ NextOf(cursor) \in Records \cup {Null}
      /\ AheadOf(_cpu_threads, NextOf(cursor)) = AheadOf(_cpu_threads, cursor) \ {cursor}
  BY <1>2, WalkLeavesOne
<1>4. /\ parent' \in [Blocks -> ThreadStates]
      /\ \A t \in Blocks : parent'[t].alive = parent[t].alive
      /\ \A t \in Blocks : t # cursor => parent'[t] = parent[t]
      /\ op = "pause_call" /\ parent[cursor].alive => parent'[cursor].paused
  <2>1. parent \in [Blocks -> ThreadStates] /\ parent[cursor] \in ThreadStates
    BY <1>2 DEF CpuInv, CpuTypeOK
  <2>2. CASE ~ parent[cursor].alive
    <3>1. parent' = parent
      BY <2>2 DEF CallParent
    <3>. QED
      BY <2>1, <2>2, <3>1
  <2>3. CASE op = "pause_call" /\ parent[cursor].alive
    <3>1. parent' = [parent EXCEPT ![cursor].paused = TRUE]
      BY <2>3 DEF CallParent
    <3>. QED
      BY <1>2, <2>1, <3>1 DEF ThreadStates
  <2>4. CASE op = "resume_call" /\ parent[cursor].alive
    <3>1. parent' = [parent EXCEPT ![cursor].paused = FALSE]
      BY <2>4 DEF CallParent
    <3>. QED
      BY <1>2, <2>1, <2>4, <3>1 DEF ThreadStates
  <2>. QED
    BY <1>1, <2>2, <2>3, <2>4
<1>5. /\ Alive' = Alive
      /\ \A t \in Blocks : t # cursor => Unpaused(t)' = Unpaused(t)
      /\ op = "pause_call" => \A t \in Blocks : t = cursor => ~ Unpaused(t)'
  BY <1>2, <1>4 DEF Alive, Unpaused
<1>6. /\ CpuTypeOK' /\ QueueHoldsTheDead' /\ CursorIsRecord' /\ CopiedIsBehind'
      /\ SnapshotIsKept'
  <2>1. /\ cursor' \in Records \cup {Null} /\ frozen' \in BOOLEAN
        /\ op \in Walks /\ op' \in Walks
    BY <1>1, <1>2, <1>3 DEF CpuInv, CpuTypeOK, Walks
  <2>. QED
    BY <1>1, <1>4, <1>5, <2>1, WalkKeepsLists
<1>7. UnpausedIsAhead'
  <2>1. op' \in Pausing => op = "pause_call"
    BY <1>1 DEF Pausing
  <2>2. op = "pause_call" =>
          \A t \in Blocks : Unpaused(t) => t \in AheadOf(_cpu_threads, cursor) \cup touched
    BY DEF CpuInv, UnpausedIsAhead, Pausing
  <2>3. op = "pause_call" =>
          \A t \in Blocks : Unpaused(t)' => t \in AheadOf(_cpu_threads, cursor') \cup touched
    BY <1>1, <1>3, <1>5, <2>2
  <2>. QED
    BY <1>1, <1>2, <2>1, <2>3 DEF UnpausedIsAhead
<1>. QED
  BY <1>6, <1>7 DEF CpuInv

LEMMA WalkEndsKeepsCpuInv ==
  ASSUME CpuInv, WalkEnds("pause", TRUE) \/ WalkEnds("resume", FALSE)
  PROVE  CpuInv'
<1>1. /\ op \in {"pause", "resume"} /\ op' = "idle" /\ cursor = Null /\ frozen' \in BOOLEAN
      /\ op = "resume" => ~ frozen'
      /\ UNCHANGED <<_cpu_threads, _destroyed_cpu_threads, enqueued, i_cpu_thread_info, hot, cold,
                     i_badge, parent, calling, cursor, touched, requeued, published, disturbed>>
  BY DEF WalkEnds, listVars, historyVars
<1>2. Alive' = Alive /\ \A t \in Blocks : Unpaused(t)' = Unpaused(t)
  BY <1>1 DEF Alive, Unpaused
<1>3. /\ CpuTypeOK' /\ QueueHoldsTheDead' /\ CursorIsRecord' /\ CopiedIsBehind'
      /\ SnapshotIsKept'
  <2>1. /\ parent' \in [Blocks -> ThreadStates] /\ cursor' \in Records \cup {Null}
        /\ op \in Walks
    BY <1>1 DEF CpuInv, CpuTypeOK, Walks
  <2>. QED
    BY <1>1, <1>2, <2>1, WalkKeepsLists
<1>4. op = "pause" => \A t \in Blocks : Unpaused(t) => t \in touched
  BY <1>1, NothingAheadOfNull DEF CpuInv, UnpausedIsAhead, Pausing
<1>5. UnpausedIsAhead'
  BY <1>1, <1>2, <1>4 DEF UnpausedIsAhead, Walks, Pausing
<1>. QED
  BY <1>3, <1>5 DEF CpuInv

-----------------------------------------------------------------------------
(* checkpoint(). *)

\* A step of checkpoint() leaves the threads of the parent alone.
LEMMA CheckpointKeepsPaused ==
  ASSUME CpuInv, UNCHANGED <<parent, frozen, touched>>, op' \notin Walks
  PROVE  UnpausedIsAhead' /\ Alive' = Alive
BY DEF CpuInv, UnpausedIsAhead, Unpaused, Alive, Walks, Pausing

LEMMA BeginCheckpointKeepsCpuInv ==
  ASSUME CpuInv, BeginCheckpoint
  PROVE  CpuInv'
<1>1. /\ op = "idle" /\ op' = "purge" /\ op' \notin Walks
      /\ UNCHANGED <<_cpu_threads, _destroyed_cpu_threads, enqueued, i_cpu_thread_info, hot, cold,
                     i_badge, parent, calling, cursor, frozen, touched, requeued, published,
                     disturbed>>
  BY DEF BeginCheckpoint, listVars, historyVars, Walks
<1>2. Records' = Records /\ Queued' = Queued
  BY <1>1 DEF Records, Queued
<1>3. UnpausedIsAhead' /\ Alive' = Alive
  BY <1>1, CheckpointKeepsPaused
<1>4. CpuTypeOK'
  BY <1>1 DEF CpuInv, CpuTypeOK
<1>5. QueueHoldsTheDead'
  BY <1>1, <1>2, <1>3 DEF CpuInv, QueueHoldsTheDead, RecordsMatchParent
<1>6. CursorIsRecord' /\ CopiedIsBehind' /\ SnapshotIsKept'
  BY <1>1 DEF CpuInv, CursorIsRecord, CopiedIsBehind, SnapshotIsKept, Walks
<1>. QED
  BY <1>3, <1>4, <1>5, <1>6 DEF CpuInv

\* The purge takes the head of the queue out of the list.
LEMMA DestroyKeepsCpuInv ==
  ASSUME CpuInv, DestroyThread
  PROVE  CpuInv'
<1> DEFINE t == Head(_destroyed_cpu_threads)
           list == _cpu_threads
<1>1. /\ _destroyed_cpu_threads \in Seq(Blocks) /\ IsInjective(_destroyed_cpu_threads)
      /\ _destroyed_cpu_threads # <<>>
      /\ list \in Seq(Blocks) /\ IsInjective(list)
      /\ Queued \subseteq enqueued /\ enqueued \subseteq Records /\ Alive = Records \ enqueued
      /\ ~ requeued => enqueued \subseteq Queued
  BY DEF CpuInv, CpuTypeOK, QueueHoldsTheDead, RecordsMatchParent, IsInjective, DestroyThread
<1>2. /\ t \in Queued
      /\ Tail(_destroyed_cpu_threads) \in Seq(Blocks)
      /\ IsInjective(Tail(_destroyed_cpu_threads))
      /\ ToSet(Tail(_destroyed_cpu_threads)) = Queued \ {t}
  BY <1>1, TailOfInjective DEF Queued
<1>3. /\ _cpu_threads' = RemoveFirst(list, t)
      /\ _destroyed_cpu_threads' = Tail(_destroyed_cpu_threads)
      /\ hot' = [hot EXCEPT ![t] = NoFlags] /\ cold' = [cold EXCEPT ![t] = NoFlags]
      /\ i_badge' = [i_badge EXCEPT ![t] = Null]
      /\ enqueued' = enqueued \ {t}
      /\ op = "purge" /\ op' = "purge"
      /\ UNCHANGED <<i_cpu_thread_info, parent, calling, cursor, frozen, touched, requeued,
                     published, disturbed>>
  BY DEF DestroyThread, walkVars, historyVars
<1>. HIDE DEF t
<1>4. t \in ToSet(list)
  BY <1>1, <1>2 DEF Records
<1>5. /\ IsInjective(RemoveFirst(list, t))
      /\ ToSet(RemoveFirst(list, t)) = ToSet(list) \ {t}
      /\ RemoveFirst(list, t) \in Seq(Blocks)
  <2>1. IndexOf(list, t) \in DOMAIN list /\ RemoveFirst(list, t) = RemoveAt(list, IndexOf(list, t))
    BY <1>1, <1>4, RemoveFirstAtPlace
  <2>. QED
    BY <1>1, <1>4, <2>1, RemoveFirstAtPlace, RemoveAtPlace
<1>6. Records' = Records \ {t} /\ Queued' = Queued \ {t}
  BY <1>2, <1>3, <1>5 DEF Records, Queued
<1>7. UnpausedIsAhead' /\ Alive' = Alive
  BY <1>3, CheckpointKeepsPaused DEF Walks
<1>8. CpuTypeOK'
  <2>1. hot' \in [Blocks -> Flags] /\ cold' \in [Blocks -> Flags]
    BY <1>3 DEF CpuInv, CpuTypeOK, NoFlags, Flags
  <2>2. i_badge' \in [Blocks -> Blocks \cup {Null}]
    BY <1>3 DEF CpuInv, CpuTypeOK
  <2>. QED
    BY <1>2, <1>3, <1>5, <2>1, <2>2 DEF CpuInv, CpuTypeOK
<1>9. QueueHoldsTheDead'
  <2>1. Alive' = Records' \ enqueued' /\ enqueued' \subseteq Records' /\ Queued' \subseteq enqueued'
    BY <1>1, <1>2, <1>3, <1>6, <1>7
  <2>2. ~ requeued' => enqueued' \subseteq Queued'
    BY <1>1, <1>3, <1>6
  <2>. QED
    BY <1>2, <1>3, <2>1, <2>2 DEF QueueHoldsTheDead, RecordsMatchParent, IsInjective
<1>10. CursorIsRecord' /\ CopiedIsBehind' /\ SnapshotIsKept'
  BY <1>3 DEF CpuInv, CursorIsRecord, CopiedIsBehind, SnapshotIsKept, Walks
<1>. QED
  BY <1>7, <1>8, <1>9, <1>10 DEF CpuInv

LEMMA PurgeDoneKeepsCpuInv ==
  ASSUME CpuInv, PurgeDone
  PROVE  CpuInv'
<1>1. /\ op = "purge" /\ op' = "checkpoint" /\ cursor' = First /\ _destroyed_cpu_threads = <<>>
      /\ UNCHANGED <<_cpu_threads, _destroyed_cpu_threads, enqueued, i_cpu_thread_info, hot, cold,
                     i_badge, parent, calling, frozen, touched, requeued, published, disturbed>>
  BY DEF PurgeDone, listVars, historyVars
<1>2. Records' = Records /\ Queued' = Queued
  BY <1>1 DEF Records, Queued
<1>3. Queued = {}
  BY <1>1, ListPlaces DEF CpuInv, CpuTypeOK, Queued
<1>4. /\ First \in Records \cup {Null}
      /\ AheadOf(_cpu_threads, First) = Records
      /\ Records \subseteq Blocks
  BY FirstIsRecord, RecordsAreBlocks DEF CpuInv
<1>5. UnpausedIsAhead' /\ Alive' = Alive
  BY <1>1, CheckpointKeepsPaused DEF Walks
<1>6. CpuTypeOK'
  BY <1>1, <1>4 DEF CpuInv, CpuTypeOK
<1>7. QueueHoldsTheDead'
  BY <1>1, <1>2, <1>5 DEF CpuInv, QueueHoldsTheDead, RecordsMatchParent
<1>8. CursorIsRecord' /\ CopiedIsBehind' /\ SnapshotIsKept'
  BY <1>1, <1>2, <1>3, <1>4 DEF CursorIsRecord, CopiedIsBehind, SnapshotIsKept
<1>. QED
  BY <1>5, <1>6, <1>7, <1>8 DEF CpuInv

LEMMA CheckpointThreadKeepsCpuInv ==
  ASSUME CpuInv, CheckpointThread
  PROVE  CpuInv'
<1>1. /\ op = "checkpoint" /\ op' = "checkpoint" /\ cursor # Null
      /\ cold' = [cold EXCEPT ![cursor] = hot[cursor]]
      /\ cursor' = NextOf(cursor)
      /\ UNCHANGED <<_cpu_threads, _destroyed_cpu_threads, enqueued, i_cpu_thread_info, hot,
                     i_badge, parent, calling, frozen, touched, requeued, published, disturbed>>
  BY DEF CheckpointThread, listVars, historyVars
<1>2. cursor \in Records /\ Records \subseteq Blocks
  BY <1>1, RecordsAreBlocks DEF CpuInv, CursorIsRecord
<1>3. /\ NextOf(cursor) \in Records \cup {Null}
      /\ AheadOf(_cpu_threads, NextOf(cursor)) = AheadOf(_cpu_threads, cursor) \ {cursor}
  BY <1>2, WalkLeavesOne
<1>4. Records' = Records /\ Queued' = Queued
  BY <1>1 DEF Records, Queued
<1>5. /\ cold' \in [Blocks -> Flags] /\ cold'[cursor] = hot[cursor]
      /\ \A t \in Blocks : t # cursor => cold'[t] = cold[t]
  BY <1>1, <1>2 DEF CpuInv, CpuTypeOK
<1>6. UnpausedIsAhead' /\ Alive' = Alive
  BY <1>1, CheckpointKeepsPaused DEF Walks
<1>7. CpuTypeOK'
  BY <1>1, <1>2, <1>3, <1>5 DEF CpuInv, CpuTypeOK
<1>8. QueueHoldsTheDead'
  BY <1>1, <1>4, <1>6 DEF CpuInv, QueueHoldsTheDead, RecordsMatchParent
<1>9. CursorIsRecord' /\ SnapshotIsKept'
  BY <1>1, <1>3, <1>4 DEF CursorIsRecord, SnapshotIsKept, Walks
<1>10. CopiedIsBehind'
  <2>1. ~ disturbed =>
          Queued = {} /\ \A t \in Records \ AheadOf(_cpu_threads, cursor) : cold[t] = hot[t]
    BY <1>1 DEF CpuInv, CopiedIsBehind
  <2>2. ~ disturbed => \A t \in Records \ AheadOf(_cpu_threads, cursor') : cold'[t] = hot[t]
    BY <1>1, <1>2, <1>3, <1>5, <2>1
  <2>. QED
    BY <1>1, <1>4, <2>1, <2>2 DEF CopiedIsBehind
<1>. QED
  BY <1>6, <1>7, <1>8, <1>9, <1>10 DEF CpuInv

\* When the walk is over undisturbed, every record holds the fields of its thread,
\* and none is waiting for its end.
LEMMA PublishTakes ==
  ASSUME CpuInv, Publish
  PROVE  /\ First \in Records \cup {Null}
         /\ AheadOf(_cpu_threads, First) = Records
         /\ [t \in Records |-> cold[t]] \in Snapshots
         /\ published' = [t \in Records |-> cold[t]]
         /\ published' # Null
         /\ ~ disturbed => published' = RecordedThreads
<1>1. op = "checkpoint" /\ cursor = Null /\ published' = [t \in Records |-> cold[t]]
  BY DEF Publish
<1>2. /\ First \in Records \cup {Null}
      /\ AheadOf(_cpu_threads, First) = Records
      /\ Records \subseteq Blocks
      /\ AheadOf(_cpu_threads, Null) = {}
  BY FirstIsRecord, RecordsAreBlocks, NothingAheadOfNull DEF CpuInv
<1>3. [t \in Records |-> cold[t]] \in [Records -> Flags]
  BY <1>2 DEF CpuInv, CpuTypeOK
<1>4. [t \in Records |-> cold[t]] \in Snapshots /\ [t \in Records |-> cold[t]] # Null
  BY <1>2, <1>3, NullAssumption DEF Snapshots
<1>5. ~ disturbed => Queued = {} /\ \A t \in Records : cold[t] = hot[t]
  BY <1>1, <1>2 DEF CpuInv, CopiedIsBehind
<1>6. ~ disturbed => [t \in Records |-> cold[t]] = RecordedThreads
  BY <1>5 DEF RecordedThreads, Recorded
<1>. QED
  BY <1>1, <1>2, <1>4, <1>6

LEMMA PublishKeepsCpuInv ==
  ASSUME CpuInv, Publish
  PROVE  CpuInv'
<1>1. /\ op = "checkpoint" /\ op' = "idle" /\ i_cpu_thread_info' = First /\ disturbed' = FALSE
      /\ UNCHANGED <<_cpu_threads, _destroyed_cpu_threads, enqueued, hot, cold, i_badge, parent,
                     calling, cursor, frozen, touched, requeued>>
  BY DEF Publish
<1>2. /\ First \in Records \cup {Null}
      /\ AheadOf(_cpu_threads, First) = Records
      /\ published' \in Snapshots
      /\ published' = [t \in Records |-> cold[t]]
      /\ Records \subseteq Blocks
  BY PublishTakes, RecordsAreBlocks DEF CpuInv
<1>3. Records' = Records /\ Queued' = Queued
  BY <1>1 DEF Records, Queued
<1>4. UnpausedIsAhead' /\ Alive' = Alive
  BY <1>1, CheckpointKeepsPaused DEF Walks
<1>5. CpuTypeOK'
  BY <1>1, <1>2 DEF CpuInv, CpuTypeOK
<1>6. QueueHoldsTheDead'
  BY <1>1, <1>3, <1>4 DEF CpuInv, QueueHoldsTheDead, RecordsMatchParent
<1>7. CursorIsRecord' /\ CopiedIsBehind'
  BY <1>1 DEF CursorIsRecord, CopiedIsBehind, Walks
<1>8. SnapshotIsKept'
  BY <1>1, <1>2, <1>3 DEF SnapshotIsKept
<1>. QED
  BY <1>4, <1>5, <1>6, <1>7, <1>8 DEF CpuInv

-----------------------------------------------------------------------------
(* The invariant. *)

LEMMA CpuInvInit == Init => CpuInv
<1>. SUFFICES ASSUME Init PROVE CpuInv
  OBVIOUS
<1>1. /\ _cpu_threads = <<>> /\ _destroyed_cpu_threads = <<>> /\ enqueued = {}
      /\ op = "idle" /\ cursor = Null /\ ~ frozen /\ published = Null /\ disturbed = FALSE
      /\ \A t \in Blocks : ~ parent[t].alive
  BY DEF Init, NoThread
<1>2. <<>> \in Seq(Blocks) /\ IsInjective(<<>>) /\ ToSet(<<>>) = {}
  BY DEF IsInjective, ToSet
<1>3. Records = {} /\ Queued = {} /\ Alive = {}
  BY <1>1, <1>2 DEF Records, Queued, Alive
<1>4. CpuTypeOK
  <2>1. NoFlags \in Flags /\ NoThread \in ThreadStates
    BY DEF NoFlags, Flags, NoThread, ThreadStates
  <2>. QED
    BY <1>2, <2>1 DEF Init, CpuTypeOK
<1>5. QueueHoldsTheDead
  BY <1>1, <1>2, <1>3 DEF QueueHoldsTheDead, RecordsMatchParent, IsInjective
<1>6. CursorIsRecord /\ UnpausedIsAhead /\ CopiedIsBehind /\ SnapshotIsKept
  BY <1>1 DEF CursorIsRecord, UnpausedIsAhead, CopiedIsBehind, SnapshotIsKept, Walks, Pausing
<1>. QED
  BY <1>4, <1>5, <1>6 DEF CpuInv

\* The mark is what tells pause() and resume() the dead.
LEMMA TestSparesTheDead ==
  ASSUME CpuInv, [Next]_vars, op' # op, op' \in {"pause_call", "resume_call"}
  PROVE  cursor \in Alive /\ cursor # Null
<1>1. TestRecord("pause", "pause_call") \/ TestRecord("resume", "resume_call")
  <2>1. CASE \E t \in Blocks : Child(t)
    BY <2>1 DEF Child, IssueCall, create_thread, start, pause_thread, resume_thread, SetPaused,
                kill_thread, walkVars
  <2>2. CASE pause
    BY <2>2 DEF pause, BeginWalk, CallParent, WalkEnds
  <2>3. CASE resume
    BY <2>3 DEF resume, BeginWalk, CallParent, WalkEnds
  <2>4. CASE checkpoint
    BY <2>4 DEF checkpoint, BeginCheckpoint, DestroyThread, PurgeDone, CheckpointThread, Publish,
                walkVars
  <2>5. CASE UNCHANGED vars
    BY <2>5 DEF vars, walkVars
  <2>. QED
    BY <2>1, <2>2, <2>3, <2>4, <2>5 DEF Next
<1>2. /\ op \in {"pause", "resume"} /\ cursor # Null /\ cursor \notin enqueued
  BY <1>1 DEF TestRecord
<1>3. cursor \in Records
  BY <1>2 DEF CpuInv, CursorIsRecord, Walks
<1>. QED
  BY <1>2, <1>3 DEF CpuInv, QueueHoldsTheDead, RecordsMatchParent

LEMMA CpuInvStep ==
  ASSUME CpuInv, [Next]_vars
  PROVE  CpuInv'
<1>1. ASSUME NEW t \in Blocks, Child(t) PROVE CpuInv'
  BY <1>1, IssueKeepsCpuInv, CreateKeepsCpuInv, ThreadStepsKeepCpuInv, KillKeepsCpuInv DEF Child
<1>2. CASE pause
  BY <1>2, BeginWalkKeepsCpuInv, TestKeepsCpuInv, CallKeepsCpuInv, WalkEndsKeepsCpuInv DEF pause
<1>3. CASE resume
  BY <1>3, BeginWalkKeepsCpuInv, TestKeepsCpuInv, CallKeepsCpuInv, WalkEndsKeepsCpuInv DEF resume
<1>4. CASE checkpoint
  BY <1>4, BeginCheckpointKeepsCpuInv, DestroyKeepsCpuInv, PurgeDoneKeepsCpuInv,
     CheckpointThreadKeepsCpuInv, PublishKeepsCpuInv DEF checkpoint
<1>5. CASE UNCHANGED vars
  BY <1>5 DEF vars, listVars, walkVars, historyVars, CpuInv, CpuTypeOK, QueueHoldsTheDead,
              RecordsMatchParent, CursorIsRecord, UnpausedIsAhead, Unpaused, CopiedIsBehind,
              SnapshotIsKept, Records, Queued, Alive
<1>. QED
  BY <1>1, <1>2, <1>3, <1>4, <1>5 DEF Next

-----------------------------------------------------------------------------
(* The session implements Snapshot. *)

\* What the reader finds, by the mapping of Promise.
Snapshot ==
  CASE published = Null -> <<>>
    [] published # Null /\ op \in {"purge", "checkpoint"} -> published
    [] published # Null /\ op \notin {"purge", "checkpoint"} ->
         [t \in ToSet(ListFrom(i_cpu_thread_info)) |-> cold[t]]

\* It is the snapshot that was published last.
LEMMA SnapshotIsPublished ==
  ASSUME CpuInv
  PROVE  Snapshot = IF published = Null THEN <<>> ELSE published
<1>1. CASE published = Null
  BY <1>1 DEF Snapshot
<1>2. CASE published # Null /\ op \in {"purge", "checkpoint"}
  BY <1>2 DEF Snapshot
<1>3. CASE published # Null /\ op \notin {"purge", "checkpoint"}
  <2>1. Snapshot = [t \in AheadOf(_cpu_threads, i_cpu_thread_info) |-> cold[t]]
    BY <1>3, ListIsWalk DEF Snapshot, AheadOf
  <2>. QED
    BY <1>3, <2>1 DEF CpuInv, SnapshotIsKept
<1>. QED
  BY <1>1, <1>2, <1>3

LEMMA PromiseInit == Init => Promise!SnapshotInit
<1>. SUFFICES ASSUME Init PROVE RecordedThreads = <<>> /\ Snapshot = <<>> /\ disturbed = FALSE
  BY DEF Promise!SnapshotInit, Snapshot
<1>1. Recorded = {}
  BY DEF Init, Recorded, Records, ToSet
<1>2. RecordedThreads = [t \in {} |-> hot[t]]
  BY <1>1 DEF RecordedThreads
<1>3. [t \in {} |-> hot[t]] = <<>>
  OBVIOUS
<1>4. Snapshot = <<>> /\ disturbed = FALSE
  BY DEF Init, Snapshot
<1>. QED
  BY <1>2, <1>3, <1>4

LEMMA PromiseStep ==
  ASSUME CpuInv, [Next]_vars
  PROVE  [Promise!SnapshotNext]_(Promise!snapshotVars)
<1>0. CpuInv'
  BY CpuInvStep
<1>1. Promise!IsState(RecordedThreads')
  <2>1. Recorded' \in SUBSET Blocks /\ hot' \in [Blocks -> Flags]
    BY <1>0, ListPlaces DEF CpuInv, CpuTypeOK, Recorded, Records
  <2>2. RecordedThreads' = [t \in Recorded' |-> hot'[t]]
    BY DEF RecordedThreads
  <2>. QED
    BY <2>1, <2>2 DEF Promise!IsState
<1>2. Snapshot' = IF published' = Null THEN <<>> ELSE published'
  <2>1. CASE published' = Null
    BY <2>1 DEF Snapshot
  <2>2. CASE published' # Null /\ op' \in {"purge", "checkpoint"}
    BY <2>2 DEF Snapshot
  <2>3. CASE published' # Null /\ op' \notin {"purge", "checkpoint"}
    <3>1. ListFrom(i_cpu_thread_info)' = SuffixFrom(_cpu_threads', i_cpu_thread_info')
      BY DEF ListFrom, Records, SuffixFrom, IndexOf, SelectInSeq
    <3>2. Snapshot' = [t \in AheadOf(_cpu_threads', i_cpu_thread_info') |-> cold'[t]]
      BY <2>3, <3>1 DEF Snapshot, AheadOf
    <3>. QED
      BY <1>0, <2>3, <3>2 DEF CpuInv, SnapshotIsKept
  <2>. QED
    BY <2>1, <2>2, <2>3
<1>3. CASE UNCHANGED published /\ disturbed' \in {disturbed, TRUE}
  <2>1. Snapshot' = Snapshot
    BY <1>2, <1>3, SnapshotIsPublished
  <2>. QED
    BY <1>1, <1>3, <2>1
    DEF Promise!SnapshotNext, Promise!ChildStep, Promise!snapshotVars, Snapshot
<1>4. CASE Publish
  <2>1. disturbed' = FALSE /\ RecordedThreads' = RecordedThreads
    BY <1>4 DEF Publish, RecordedThreads, Recorded, Records, Queued
  <2>2. /\ Snapshot' = published' /\ published' \in Snapshots
        /\ ~ disturbed => published' = RecordedThreads
    BY <1>2, <1>4, PublishTakes
  <2>3. Promise!IsState(Snapshot')
    BY <2>2 DEF Promise!IsState, Snapshots
  <2>4. Promise!TakeSnapshot
    BY <2>1, <2>2, <2>3 DEF Promise!TakeSnapshot, Snapshot
  <2>. QED
    BY <2>4 DEF Promise!SnapshotNext
<1>5. Publish \/ (UNCHANGED published /\ disturbed' \in {disturbed, TRUE})
  <2>1. CASE \E t \in Blocks : Child(t)
    BY <2>1 DEF Child, IssueCall, create_thread, start, pause_thread, resume_thread, SetPaused,
                kill_thread, ChildDisturbs, historyVars, CpuInv, CpuTypeOK
  <2>2. CASE pause \/ resume
    BY <2>2 DEF pause, resume, BeginWalk, TestRecord, CallParent, WalkEnds, historyVars
  <2>3. CASE checkpoint
    BY <2>3 DEF checkpoint, BeginCheckpoint, DestroyThread, PurgeDone, CheckpointThread, historyVars
  <2>4. CASE UNCHANGED vars
    BY <2>4 DEF vars, historyVars
  <2>. QED
    BY <2>1, <2>2, <2>3, <2>4 DEF Next
<1>. QED
  BY <1>3, <1>4, <1>5

-----------------------------------------------------------------------------
(* The theorems. *)

\* The inductive invariant of the records, the queue and the walks.
THEOREM CpuInvariant == Spec => []CpuInv
<1>1. CpuInv /\ [Next]_vars => CpuInv'
  BY CpuInvStep
<1>. QED
  BY <1>1, CpuInvInit, PTL DEF Spec

\* After pause() and until resume() the only threads that run are those that a call
\* has created or resumed since pause() began, however many of the records belong
\* to threads that were killed. (cpu_session.cc 151-164)
THEOREM OnlyTouchedThreadsRun == Spec => []OnlyTouchedRun
<1>1. CpuInv => OnlyTouchedRun
  BY DEF CpuInv, UnpausedIsAhead, OnlyTouchedRun, Runs, Unpaused
<1>. QED
  BY <1>1, CpuInvariant, PTL

\* pause() and resume() decide to call the parent for threads that are alive only.
\* (cpu_session.cc 157-160, 172-175)
THEOREM WalksSpareTheDead == Spec => WalkSparesTheDead
<1>1. CpuInv /\ [Next]_vars =>
        [(op' # op /\ op' \in {"pause_call", "resume_call"}) => cursor \in Alive]_vars
  BY TestSparesTheDead
<1>. QED
  BY <1>1, CpuInvariant, PTL DEF Spec, WalkSparesTheDead

\* The records without the mark are the threads of the parent, no record is queued
\* twice, and none is lost from the queue unless a kill finds a queued record.
\* (cpu_session.cc 97-108, 136-139, 209-218)
THEOREM RecordsAreTheThreads == Spec => []RecordsMatchParent
<1>1. CpuInv => RecordsMatchParent
  BY DEF CpuInv, QueueHoldsTheDead
<1>. QED
  BY <1>1, CpuInvariant, PTL

\* The session implements Snapshot: from one checkpoint to the next a reader finds
\* what the first has published, and that is a state of the child unless it acted
\* meanwhile. (cpu_session.cc 130-149)
THEOREM CpuSessionKeepsPromise == Spec => KeepsSnapshotPromise
<1>1. CpuInv /\ [Next]_vars => [Promise!SnapshotNext]_(Promise!snapshotVars)
  BY PromiseStep
<1>. QED
  BY <1>1, PromiseInit, CpuInvariant, PTL
  DEF Spec, KeepsSnapshotPromise, Promise!SnapshotSpec
=============================================================================
