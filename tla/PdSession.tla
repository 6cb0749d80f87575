------------------------------ MODULE PdSession ------------------------------
(***************************************************************************)
(* The capabilities of Rtcr::Pd_session (src/rtcr/pd_session.cc): signal   *)
(* sources, signal contexts and RPC capabilities.  For each of the three   *)
(* kinds the session keeps a list of records, a queue of records to        *)
(* destroy and the first record of the snapshot.                           *)
(*                                                                         *)
(* The child allocates and frees through the entrypoint.  A free reaches   *)
(* the parent at once, so that the badge may be given to the next object   *)
(* and the freed capability names nothing any more, while the record stays *)
(* until Pd_checkpointable::checkpoint(), in a thread of its own, destroys *)
(* it.  Nothing stops the child meanwhile: it allocates and frees between  *)
(* any two steps of the checkpoint.  RAM dataspaces and region maps are in *)
(* modules of their own.                                                   *)
(*                                                                         *)
(* A record is named by the heap block it lives in.                        *)
(***************************************************************************)
EXTENDS Naturals, Sequences, SequencesExt

CONSTANTS
  Blocks,   \* heap blocks for records
  Null,     \* the null pointer
  Badges,   \* badges of capabilities
  NoBadge   \* the badge in a record that refers to no other object

ASSUME PdAssumption ==
  /\ Null \notin Blocks
  /\ \A S \in SUBSET Blocks : S # Null
  /\ NoBadge \notin Badges

Kinds == {"native_caps", "signal_sources", "signal_contexts"}

VARIABLES
  list,       \* list[k]: _native_caps, _signal_sources, _signal_contexts, head first
  destroyed,  \* destroyed[k]: _destroyed_native_caps and so on
  info,       \* info[k]: i_native_caps, i_signal_sources, i_signal_contexts
  i_badge,    \* i_badge[r]: the badge in record r
  i_refers,   \* i_refers[r]: i_signal_source_badge of a context
  live,       \* the records whose object exists at the parent
  stage,      \* the part of checkpoint() that runs
  purged,     \* the part has found its queue empty
  published,  \* history: published[k]: the records that were live or touched when
              \* info[k] was set last, Null before
  touched,    \* history: the records of what the child has allocated or freed
              \* since the last checkpoint began and before it ended
  orphans,    \* history: the contexts whose source was freed before them
  loose       \* history: the orphans when the contexts were published last

recordVars == <<i_badge, i_refers>>
walkVars == <<stage, purged>>
historyVars == <<published, touched, orphans, loose>>
vars == <<list, destroyed, info, recordVars, live, walkVars, historyVars>>

Records(k) == ToSet(list[k])
AllRecords == UNION {Records(k) : k \in Kinds}
LiveOf(k) == Records(k) \cap live
First(k) == IF list[k] = <<>> THEN Null ELSE Head(list[k])
ListFrom(k, r) ==
  IF r \in Records(k)
    THEN SubSeq(list[k], SelectInSeq(list[k], LAMBDA x : x = r), Len(list[k])) ELSE <<>>

\* No constructor sets the pointers in info: they hold what the memory held.
Init ==
  /\ list = [k \in Kinds |-> <<>>]
  /\ destroyed = [k \in Kinds |-> <<>>]
  /\ info \in [Kinds -> Blocks \cup {Null}]
  /\ i_badge = [r \in Blocks |-> NoBadge]
  /\ i_refers = [r \in Blocks |-> NoBadge]
  /\ live = {}
  /\ stage = "idle" /\ purged = FALSE
  /\ published = [k \in Kinds |-> Null]
  /\ touched = {} /\ orphans = {} /\ loose = {}

-----------------------------------------------------------------------------
(* The child, through the entrypoint. *)

InUse(b) == \E r \in live : i_badge[r] = b

Touch(r) == touched' = IF stage = "idle" THEN touched ELSE touched \cup {r}

\* Mutant of Insert: the record is inserted at the end of the list.
InsertAtTail(k, r, b, s) ==
  /\ r \notin AllRecords
  /\ ~InUse(b)
  /\ i_badge' = [i_badge EXCEPT ![r] = b]
  /\ i_refers' = [i_refers EXCEPT ![r] = s]
  /\ live' = live \cup {r}
  /\ list' = [list EXCEPT ![k] = Append(@, r)]
  /\ Touch(r)
  /\ UNCHANGED <<destroyed, info, walkVars, published, orphans, loose>>

\* The parent allocates the object and its badge b; the record refers to the
\* object of badge s.
Insert(k, r, b, s) ==
  /\ r \notin AllRecords
  /\ ~InUse(b)
  /\ i_badge' = [i_badge EXCEPT ![r] = b]
  /\ i_refers' = [i_refers EXCEPT ![r] = s]
  /\ live' = live \cup {r}
  /\ list' = [list EXCEPT ![k] = <<r>> \o @]
  /\ Touch(r)
  /\ UNCHANGED <<destroyed, info, walkVars, published, orphans, loose>>

alloc_signal_source(r, b) == Insert("signal_sources", r, b, NoBadge)
alloc_rpc_cap(r, b) == Insert("native_caps", r, b, NoBadge)

alloc_context(r, b) ==
  \E s \in LiveOf("signal_sources") : Insert("signal_contexts", r, b, i_badge[s])

find_by_badge(k, b) ==
  LET i == SelectInSeq(list[k], LAMBDA r : i_badge[r] = b)
  IN  IF i = 0 THEN Null ELSE list[k][i]

\* The child frees its object r, which is looked up by its badge.
Remember(k, r) ==
  /\ r \in LiveOf(k)
  /\ LET found == find_by_badge(k, i_badge[r])
     IN  /\ found # Null
         /\ destroyed' = [destroyed EXCEPT ![k] = Append(@, found)]
  /\ live' = live \ {r}
  /\ Touch(r)
  /\ UNCHANGED <<list, info, recordVars, walkVars, published, loose>>

\* Contexts may still refer to the source.
free_signal_source(r) ==
  /\ Remember("signal_sources", r)
  /\ orphans' = orphans \cup {c \in LiveOf("signal_contexts") : i_refers[c] = i_badge[r]}

free_rpc_cap(r) == Remember("native_caps", r) /\ UNCHANGED orphans
free_context(r) == Remember("signal_contexts", r) /\ UNCHANGED orphans

-----------------------------------------------------------------------------
(* The checkpoint, one kind after the other. *)

Begin ==
  /\ stage = "idle"
  /\ stage' = "native_caps"
  /\ touched' = {}
  /\ UNCHANGED <<list, destroyed, info, recordVars, live, purged, published, orphans, loose>>

\* One record of the queue is removed and destroyed.
DestroyRecord(k) ==
  /\ stage = k /\ ~purged
  /\ destroyed[k] # <<>>
  /\ LET r == Head(destroyed[k])
     IN  /\ list' = [list EXCEPT ![k] = RemoveFirst(@, r)]
         /\ i_badge' = [i_badge EXCEPT ![r] = NoBadge]
         /\ i_refers' = [i_refers EXCEPT ![r] = NoBadge]
         /\ touched' = touched \ {r} /\ orphans' = orphans \ {r}
  /\ destroyed' = [destroyed EXCEPT ![k] = Tail(@)]
  /\ UNCHANGED <<info, live, walkVars, published, loose>>

\* dequeue_all() finds no more records; later frees queue them for the next time.
PurgeDone(k) ==
  /\ stage = k /\ ~purged
  /\ destroyed[k] = <<>>
  /\ purged' = TRUE
  /\ UNCHANGED <<list, destroyed, info, recordVars, live, stage, historyVars>>

\* Mutant of NextStage: the contexts before the sources.
ContextsFirst(k) ==
  CASE k = "native_caps" -> "signal_contexts"
    [] k = "signal_contexts" -> "signal_sources"
    [] k = "signal_sources" -> "idle"

NextStage(k) ==
  CASE k = "native_caps" -> "signal_sources"
    [] k = "signal_sources" -> "signal_contexts"
    [] k = "signal_contexts" -> "idle"

PublishedNow(k) == Records(k) \cap (live \cup touched)

\* What every publication does apart from the pointer.
EndPart(k) ==
  /\ published' = [published EXCEPT ![k] = PublishedNow(k)]
  /\ loose' = IF k = "signal_contexts" THEN orphans ELSE loose
  /\ stage' = NextStage(k) /\ purged' = FALSE
  /\ UNCHANGED <<list, destroyed, recordVars, live, touched, orphans>>

\* Mutant of Publish: the queue need not have been emptied.
PublishBeforePurge(k) ==
  /\ stage = k
  /\ info' = [info EXCEPT ![k] = First(k)]
  /\ EndPart(k)

Publish(k) ==
  /\ stage = k /\ purged
  /\ info' = [info EXCEPT ![k] = First(k)]
  /\ EndPart(k)

CheckpointPart(k) == DestroyRecord(k) \/ PurgeDone(k) \/ Publish(k)

_checkpoint_native_capabilities == CheckpointPart("native_caps")
_checkpoint_signal_sources == CheckpointPart("signal_sources")
_checkpoint_signal_contexts == CheckpointPart("signal_contexts")

checkpoint ==
  \/ _checkpoint_native_capabilities
  \/ _checkpoint_signal_sources
  \/ _checkpoint_signal_contexts

-----------------------------------------------------------------------------
Alloc(r, b) == alloc_signal_source(r, b) \/ alloc_rpc_cap(r, b) \/ alloc_context(r, b)
Free(r) == free_signal_source(r) \/ free_rpc_cap(r) \/ free_context(r)

Next ==
  \/ \E r \in Blocks : Free(r) \/ \E b \in Badges : Alloc(r, b)
  \/ Begin \/ checkpoint

Spec == Init /\ [][Next]_vars

-----------------------------------------------------------------------------
(* Properties *)

\* A free destroys the record of the object that was freed, although records
\* of earlier objects may hold the same badge: the records that are not in a
\* queue are those of live objects, and none is in a queue twice.
\* (pd_session.cc 276-360)
FreeFindsItsRecord ==
  \A k \in Kinds :
    /\ LiveOf(k) = Records(k) \ ToSet(destroyed[k])
    /\ \A i, j \in DOMAIN destroyed[k] : destroyed[k][i] = destroyed[k][j] => i = j

SnapshotOf(k) == ToSet(ListFrom(k, info[k]))

\* There was a checkpoint, and none runs: the snapshot may be read.
IsReadable == stage = "idle" /\ \A k \in Kinds : published[k] # Null

\* Between checkpoints, the snapshot of every kind holds what the checkpoint has
\* found live, and apart from that only what the child has freed while it ran:
\* neither an object of before or after, nor a gap. (pd_session.cc 107-155)
SnapshotIsPublished ==
  IsReadable => \A k \in Kinds : SnapshotOf(k) = published[k]

\* The snapshot is closed although the child runs while the three kinds are
\* published one after the other: the source of a signal context is in it, unless
\* the child has allocated or freed the context meanwhile or had freed the source
\* before the context; and a badge names one object in it, unless the child has
\* freed one and allocated the other meanwhile. (pd_session.cc 193-195, 276-290)
SnapshotIsClosed ==
  IsReadable =>
    /\ \A c \in SnapshotOf("signal_contexts") \ (touched \cup loose) :
         \E s \in SnapshotOf("signal_sources") : i_badge[s] = i_refers[c]
    /\ \A r, q \in UNION {SnapshotOf(k) : k \in Kinds} :
         i_badge[r] = i_badge[q] => r = q \/ {r, q} \subseteq touched

=============================================================================
