---------------------------- MODULE RamDataspaces ----------------------------
(***************************************************************************)
(* The RAM dataspaces of Rtcr::Pd_session (src/rtcr/pd_session.cc): a      *)
(* record is kept for every dataspace the child allocates; a checkpoint    *)
(* gives each record a cold dataspace and copies the child's memory there. *)
(*                                                                         *)
(* alloc() and free() run in the entrypoint, at any time: nothing pauses   *)
(* the child.  The checkpoint runs in the thread of Ram_checkpointable.    *)
(* free() only marks the record; the checkpoint destroys it.  New records  *)
(* go to the head of the list, so that the part from i_ram_dataspaces on,  *)
(* the snapshot, stays as it was published.                                *)
(*                                                                         *)
(* A record is named by the heap block it lives in: a block that was freed *)
(* can be the next record's.  Operations on the list and on the queue of   *)
(* destroyed records are steps, and the copy of a dataspace is one.        *)
(***************************************************************************)
EXTENDS Naturals, Sequences, SequencesExt, Fifo

CONSTANTS
  Blocks,          \* heap blocks for records
  Null,            \* the null pointer
  Contents,        \* contents of a dataspace
  Blank            \* the content of a dataspace that was just allocated

ASSUME RamAssumption ==
  /\ Null \notin Blocks
  /\ Blank \in Contents
  /\ Null \notin Contents

\* The null pointer is told from a snapshot.
ASSUME NullAssumption == \A S \in SUBSET Blocks : \A f \in [S -> Contents \cup {Null}] : f # Null

VARIABLES
  _ram_dataspaces,            \* the list, head first
  _destroyed_ram_dataspaces,  \* the queue of records to destroy
  i_ram_dataspaces,           \* the first record of the snapshot
  src,                        \* src[r]: content of the child's dataspace
  dst,                        \* dst[r]: content of the cold dataspace, Null if there is none
  pc,                         \* what the checkpoint thread does next
  dataspace,                  \* its local variable
  published,                  \* history: what the last checkpoint has published, Null before
  disturbed,                  \* history: the child has acted since this checkpoint's purge
  late                        \* history: records that came after step 2 began, or into the
                              \* block i_ram_dataspaces points to, and that it has not served

listVars == <<_ram_dataspaces, _destroyed_ram_dataspaces>>
historyVars == <<published, disturbed, late>>
vars == <<listVars, i_ram_dataspaces, src, dst, pc, dataspace, historyVars>>

Records == ToSet(_ram_dataspaces)
Queued == ToSet(_destroyed_ram_dataspaces)

First == IF _ram_dataspaces = <<>> THEN Null ELSE Head(_ram_dataspaces)

\* The list from record r on.
Place(r) == SelectInSeq(_ram_dataspaces, LAMBDA x : x = r)
ListFrom(r) == IF r \in Records
               THEN SubSeq(_ram_dataspaces, Place(r), Len(_ram_dataspaces)) ELSE <<>>
NextOf(r) == IF Len(ListFrom(r)) > 1 THEN ListFrom(r)[2] ELSE Null

\* The child's memory: the dataspaces whose records do not wait for their end.
Recorded == Records \ Queued
ChildMemory == [r \in Recorded |-> src[r]]

\* No constructor sets i_ram_dataspaces: it holds what the memory held.
Init ==
  /\ _ram_dataspaces = <<>>
  /\ _destroyed_ram_dataspaces = <<>>
  /\ i_ram_dataspaces \in Blocks \cup {Null}
  /\ src = [r \in Blocks |-> Blank]
  /\ dst = [r \in Blocks |-> Null]
  /\ pc = "idle"
  /\ dataspace = Null
  /\ published = Null /\ disturbed = FALSE /\ late = {}

-----------------------------------------------------------------------------
(* The child, through the entrypoint. *)

Purged == pc \in {"alloc", "copy", "publish"}

ChildDisturbs == disturbed' = (disturbed \/ Purged)

\* Step 2 has begun, or will take the record for the one published last.
ComesLate(r) == late' = IF Purged \/ r = i_ram_dataspaces THEN late \cup {r} ELSE late

\* Mutant of Alloc: the record is inserted at the end of the list.
AllocAtTail(r) ==
  /\ r \notin Records
  /\ _ram_dataspaces' = Append(_ram_dataspaces, r)
  /\ src' = [src EXCEPT ![r] = Blank]
  /\ dst' = [dst EXCEPT ![r] = Null]
  /\ ChildDisturbs /\ ComesLate(r)
  /\ UNCHANGED <<_destroyed_ram_dataspaces, i_ram_dataspaces, pc, dataspace, published>>

Alloc(r) ==
  /\ r \notin Records
  /\ _ram_dataspaces' = <<r>> \o _ram_dataspaces
  /\ src' = [src EXCEPT ![r] = Blank]
  /\ dst' = [dst EXCEPT ![r] = Null]
  /\ ChildDisturbs /\ ComesLate(r)
  /\ UNCHANGED <<_destroyed_ram_dataspaces, i_ram_dataspaces, pc, dataspace, published>>

\* Mutant of Free: the record is removed at once.
FreeAtOnce(r) ==
  /\ r \in Records
  /\ _ram_dataspaces' = RemoveFirst(_ram_dataspaces, r)
  /\ late' = late \ {r}
  /\ ChildDisturbs
  /\ UNCHANGED <<_destroyed_ram_dataspaces, i_ram_dataspaces, src, dst, pc, dataspace, published>>

\* The record is found by the badge of the dataspace, which is in use until
\* the record is destroyed.  A child may free a dataspace twice.
Free(r) ==
  /\ r \in Records
  /\ _destroyed_ram_dataspaces' = enqueue(_destroyed_ram_dataspaces, r)
  /\ ChildDisturbs
  /\ UNCHANGED <<_ram_dataspaces, i_ram_dataspaces, src, dst, pc, dataspace, published, late>>

\* The child writes to its memory.
Write(r, c) ==
  /\ r \in Records
  /\ src' = [src EXCEPT ![r] = c]
  /\ ChildDisturbs
  /\ UNCHANGED <<listVars, i_ram_dataspaces, dst, pc, dataspace, published, late>>

-----------------------------------------------------------------------------
(* The checkpoint, _checkpoint_ram_dataspaces(). *)

Begin ==
  /\ pc = "idle"
  /\ pc' = "purge"
  /\ UNCHANGED <<listVars, i_ram_dataspaces, src, dst, dataspace, historyVars>>

\* Mutant of DestroyDataspace: the record is destroyed, but stays in the queue.
DestroyButKeepQueued ==
  /\ pc = "purge"
  /\ _destroyed_ram_dataspaces # <<>>
  /\ LET ds == Head(_destroyed_ram_dataspaces)
     IN  /\ _ram_dataspaces' = RemoveFirst(_ram_dataspaces, ds)
         /\ dst' = [dst EXCEPT ![ds] = Null]
         /\ late' = late \ {ds}
  /\ UNCHANGED <<_destroyed_ram_dataspaces, i_ram_dataspaces, src, pc, dataspace, published,
                 disturbed>>

\* Step 1, one record: remove it, detach and free its dataspaces, destroy it.
DestroyDataspace ==
  /\ pc = "purge"
  /\ _destroyed_ram_dataspaces # <<>>
  /\ LET ds == Head(_destroyed_ram_dataspaces)
     IN  /\ _ram_dataspaces' = RemoveFirst(_ram_dataspaces, ds)
         /\ dst' = [dst EXCEPT ![ds] = Null]
         /\ late' = late \ {ds}
  /\ _destroyed_ram_dataspaces' = Tail(_destroyed_ram_dataspaces)
  /\ UNCHANGED <<i_ram_dataspaces, src, pc, dataspace, published, disturbed>>

PurgeDone ==
  /\ pc = "purge"
  /\ _destroyed_ram_dataspaces = <<>>
  /\ pc' = "alloc"
  /\ dataspace' = First
  /\ UNCHANGED <<listVars, i_ram_dataspaces, src, dst, historyVars>>

\* Step 2, one record: a new cold dataspace takes the place of dst.
AllocDataspace ==
  /\ pc = "alloc"
  /\ dataspace \notin {Null, i_ram_dataspaces}
  /\ dst' = [dst EXCEPT ![dataspace] = Blank]
  /\ late' = late \ {dataspace}
  /\ dataspace' = NextOf(dataspace)
  /\ UNCHANGED <<listVars, i_ram_dataspaces, src, pc, published, disturbed>>

\* Mutant of AllocDone: the walk stops one record early.
AllocDoneEarly ==
  /\ pc = "alloc"
  /\ dataspace = Null \/ NextOf(dataspace) \in {Null, i_ram_dataspaces}
  /\ pc' = "copy"
  /\ dataspace' = First
  /\ UNCHANGED <<listVars, i_ram_dataspaces, src, dst, historyVars>>

AllocDone ==
  /\ pc = "alloc"
  /\ dataspace \in {Null, i_ram_dataspaces}
  /\ pc' = "copy"
  /\ dataspace' = First
  /\ UNCHANGED <<listVars, i_ram_dataspaces, src, dst, historyVars>>

\* Step 3, one record: memcpy() to a null pointer is a page fault.
CopyDataspace ==
  /\ pc = "copy"
  /\ dataspace # Null
  /\ IF dst[dataspace] # Null
     THEN /\ dst' = [dst EXCEPT ![dataspace] = src[dataspace]]
          /\ dataspace' = NextOf(dataspace)
          /\ pc' = pc
     ELSE pc' = "fault" /\ UNCHANGED <<dst, dataspace>>
  /\ UNCHANGED <<listVars, i_ram_dataspaces, src, historyVars>>

CopyDone ==
  /\ pc = "copy"
  /\ dataspace = Null
  /\ pc' = "publish"
  /\ UNCHANGED <<listVars, i_ram_dataspaces, src, dst, dataspace, historyVars>>

\* Step 4.
Publish ==
  /\ pc = "publish"
  /\ i_ram_dataspaces' = First
  /\ published' = [r \in Records |-> dst[r]]
  /\ pc' = "idle"
  /\ disturbed' = FALSE
  /\ UNCHANGED <<listVars, src, dst, dataspace, late>>

_checkpoint_ram_dataspaces ==
  \/ DestroyDataspace \/ PurgeDone
  \/ AllocDataspace \/ AllocDone
  \/ CopyDataspace \/ CopyDone
  \/ Publish

Next ==
  \/ \E r \in Blocks : Alloc(r) \/ Free(r) \/ \E c \in Contents : Write(r, c)
  \/ Begin
  \/ _checkpoint_ram_dataspaces

Spec == Init /\ [][Next]_vars

-----------------------------------------------------------------------------
(* Properties *)

\* What a reader of Pd_session_info finds: the records from i_ram_dataspaces
\* on and their cold memory.  It is read between checkpoints.
ColdMemory == [r \in ToSet(ListFrom(i_ram_dataspaces)) |-> dst[r]]

\* The session keeps the promise of Snapshot: from one checkpoint to the next,
\* the records and the memory that a reader finds are those of the child when the
\* earlier one completed, whatever it allocates, frees or writes meanwhile; and if it
\* has acted between the purge and the publication, the reader still finds records
\* of the list, some of them perhaps without a cold dataspace.
Promise == INSTANCE Snapshot WITH
  Names <- Blocks, Values <- Contents \cup {Null},
  live <- ChildMemory,
  snapshot <- CASE published = Null -> <<>>
                [] published # Null /\ pc = "idle" -> ColdMemory
                [] published # Null /\ pc # "idle" -> published
KeepsSnapshotPromise == Promise!SnapshotSpec

\* Between checkpoints i_ram_dataspaces does not dangle: the record it points
\* to may be freed by the child, but is in the list until the next checkpoint.
PointerIsAlive ==
  pc = "idle" /\ published \notin {Null, <<>>} => i_ram_dataspaces \in Records

\* Step 2 gives a record a second cold dataspace over the first only if the record that
\* was published last is gone, so that the walk, which should end there, does not meet it;
\* and step 3 meets a record without one only if it came late: during steps 2 to 4 of
\* this checkpoint or an earlier one, or into the block of the record published last.
\* (pd_session.cc 168-182)
CopiesAreExplained ==
  /\ pc = "alloc" /\ dataspace \notin {Null, i_ram_dataspaces} /\ dst[dataspace] # Null =>
       i_ram_dataspaces \notin Records \ late
  /\ pc = "fault" => dataspace \in late

\* After the first checkpoint, step 2 gives every record the cold dataspace that step 3
\* copies to. (pd_session.cc 168: "allocate cold dataspace for recently added
\* dataspaces", 176: "copy memory of hot ds to cold ds".)  TLC refutes it; what holds is
\* CopiesAreExplained.
RecentlyAddedAreServed == published # Null => pc # "fault"

\* Each record in the queue of destroyed records is alive and queued once, even if the
\* child frees it twice, so that the purge destroys it once; and the record the
\* checkpoint stands at has not been destroyed.
RecordsDieOnce ==
  /\ \A i, j \in DOMAIN _destroyed_ram_dataspaces :
       _destroyed_ram_dataspaces[i] = _destroyed_ram_dataspaces[j] => i = j
  /\ Queued \subseteq Records
  /\ pc \in {"alloc", "copy", "fault"} /\ dataspace # Null => dataspace \in Records

=============================================================================
