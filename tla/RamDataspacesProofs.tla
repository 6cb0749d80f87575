------------------------- MODULE RamDataspacesProofs -------------------------
(***************************************************************************)
(* The snapshot of the RAM dataspaces, for every number of records, with a *)
(* child that allocates, frees and writes at any time and a pointer that   *)
(* holds anything at first.                                                *)
(*                                                                         *)
(* The argument is about the order of the list.  From the record that was  *)
(* published last on, every record has a cold dataspace or came late;      *)
(* before it, none has one, as far as step 2 has not come.  A record that  *)
(* came late has none, and step 3 meets it before it meets a record that   *)
(* step 2 has left out because of it.                                      *)
(***************************************************************************)
EXTENDS RamDataspaces, SequenceLemmas

Snapshots == UNION {[S -> Contents \cup {Null}] : S \in SUBSET Blocks}

RamTypeOK ==
  /\ _ram_dataspaces \in Seq(Blocks)
  /\ _destroyed_ram_dataspaces \in Seq(Blocks)
  /\ i_ram_dataspaces \in Blocks \cup {Null}
  /\ src \in [Blocks -> Contents]
  /\ dst \in [Blocks -> Contents \cup {Null}]
  /\ pc \in {"idle", "purge", "alloc", "copy", "publish", "fault"}
  /\ dataspace \in Blocks \cup {Null}
  /\ published \in Snapshots \cup {Null}
  /\ disturbed \in BOOLEAN
  /\ late \in SUBSET Blocks
  /\ IsInjective(_ram_dataspaces)

\* Only the child queues a record between the purge and the publication.
UndisturbedIsPurged ==
  /\ disturbed => Purged \/ pc = "fault"
  /\ Purged /\ ~ disturbed => Queued = {}

\* What a reader finds between two checkpoints.
SnapshotIsKept ==
  pc = "idle" /\ published # Null =>
    /\ i_ram_dataspaces \in Records \cup {Null}
    /\ published # <<>> => i_ram_dataspaces \in Records
    /\ [r \in AheadOf(_ram_dataspaces, i_ram_dataspaces) |-> dst[r]] = published

RecordInv ==
  /\ RamTypeOK
  /\ RecordsDieOnce
  /\ UndisturbedIsPurged
  /\ SnapshotIsKept

\* The records that the walk of step 2 or of step 3 has not come to.
Ahead == AheadOf(_ram_dataspaces, dataspace)

Served(r) == dst[r] # Null \/ r \in late

LateHaveNone == \A r \in late : r \in Records /\ dst[r] = Null

\* The snapshot that the next one will be added to is in the list.
PublishedStands ==
  pc \in {"idle", "purge", "alloc"} /\ i_ram_dataspaces \in Records \ late

PublishedAreServed ==
  PublishedStands =>
    \A r \in Records :
      r = i_ram_dataspaces \/ Before(_ram_dataspaces, i_ram_dataspaces, r) => Served(r)

NewHaveNone ==
  PublishedStands =>
    \A r \in Records :
      Before(_ram_dataspaces, r, i_ram_dataspaces) /\ (pc = "alloc" => r \in Ahead) =>
        dst[r] = Null

WalkMeetsPublished == PublishedStands /\ pc = "alloc" => i_ram_dataspaces \in Ahead

PassedAreServed == Purged => \A r \in Records \ Ahead : Served(r)

\* Before a record that step 2 has left out comes one that was late.
LateComesFirst ==
  pc = "copy" =>
    \A r \in Ahead : Served(r) \/ \E q \in late \cap Ahead : Before(_ram_dataspaces, q, r)

WalkIsOver == pc = "publish" => dataspace = Null

FaultIsLate == pc = "fault" => dataspace \in late

WalkInv ==
  /\ LateHaveNone
  /\ PublishedAreServed
  /\ NewHaveNone
  /\ WalkMeetsPublished
  /\ PassedAreServed
  /\ LateComesFirst
  /\ WalkIsOver
  /\ FaultIsLate

\* What step 3 has copied, if the child has not acted since.
PassedAreCopied ==
  pc \in {"copy", "publish"} /\ ~ disturbed => \A r \in Records \ Ahead : dst[r] = src[r]

CopyInv == RecordInv /\ WalkInv /\ PassedAreCopied

-----------------------------------------------------------------------------
(* The operations on the list and on the queue. *)

\* The walks of the code and of a reader, as walks of the list.
LEMMA ListIsWalk ==
  /\ \A r : ListFrom(r) = SuffixFrom(_ram_dataspaces, r)
  /\ \A r : NextOf(r) = NextIn(_ram_dataspaces, r, Null)
<1>1. \A r : ListFrom(r) = SuffixFrom(_ram_dataspaces, r)
  BY DEF ListFrom, Place, Records, SuffixFrom, IndexOf
<1>. QED
  BY <1>1 DEF NextOf, NextIn

LEMMA RecordsAreBlocks ==
  ASSUME RecordInv
  PROVE  Records \subseteq Blocks /\ Null \notin Records
BY ListPlaces, RamAssumption DEF RecordInv, RamTypeOK, Records

LEMMA NothingAheadOfNull ==
  ASSUME RecordInv
  PROVE  AheadOf(_ram_dataspaces, Null) = {}
BY RecordsAreBlocks DEF AheadOf, SuffixFrom, Records, ToSet

\* All records are ahead of a walk that begins.
LEMMA FirstIsRecord ==
  ASSUME RecordInv
  PROVE  /\ First \in Records \cup {Null}
         /\ AheadOf(_ram_dataspaces, First) = Records
         /\ Records # {} => First \in Records
<1>1. _ram_dataspaces \in Seq(Blocks) /\ IsInjective(_ram_dataspaces)
  BY DEF RecordInv, RamTypeOK
<1>2. CASE _ram_dataspaces = <<>>
  <2>1. Records = {} /\ First = Null
    BY <1>1, <1>2, ListPlaces DEF Records, First
  <2>. QED
    BY <2>1, NothingAheadOfNull
<1>3. CASE _ram_dataspaces # <<>>
  BY <1>1, <1>3, WalkStarts DEF First, Records
<1>. QED
  BY <1>2, <1>3

\* A step of a walk leaves one record behind.
LEMMA WalkLeavesOne ==
  ASSUME RecordInv, NEW r \in Records
  PROVE  /\ r \in AheadOf(_ram_dataspaces, r)
         /\ AheadOf(_ram_dataspaces, r) \subseteq Records
         /\ NextOf(r) \in Records \cup {Null}
         /\ AheadOf(_ram_dataspaces, NextOf(r)) = AheadOf(_ram_dataspaces, r) \ {r}
<1>1. _ram_dataspaces \in Seq(Blocks) /\ IsInjective(_ram_dataspaces)
  BY DEF RecordInv, RamTypeOK
<1>2. /\ r \in AheadOf(_ram_dataspaces, r) /\ AheadOf(_ram_dataspaces, r) \subseteq Records
      /\ NextOf(r) = Null => AheadOf(_ram_dataspaces, r) = {r}
      /\ NextOf(r) # Null =>
           /\ NextOf(r) \in Records
           /\ AheadOf(_ram_dataspaces, NextOf(r)) = AheadOf(_ram_dataspaces, r) \ {r}
  BY <1>1, ListIsWalk, WalkSteps, RamAssumption DEF Records
<1>. QED
  BY <1>2, NothingAheadOfNull

\* What is ahead of a record is the record and what comes after it.
LEMMA AheadIs ==
  ASSUME RecordInv, NEW r \in Records, NEW x
  PROVE  x \in AheadOf(_ram_dataspaces, r) <=> x = r \/ Before(_ram_dataspaces, r, x)
<1>1. _ram_dataspaces \in Seq(Blocks) /\ IsInjective(_ram_dataspaces)
  BY DEF RecordInv, RamTypeOK
<1>. QED
  BY <1>1, WalkLeavesOne, AheadIsAfter, AfterIsAhead DEF Records

LEMMA OrderOfRecords ==
  ASSUME RecordInv
  PROVE  /\ \A x, y : Before(_ram_dataspaces, x, y) =>
              x # y /\ x \in Records /\ y \in Records /\ ~ Before(_ram_dataspaces, y, x)
         /\ \A x, y \in Records :
              x # y => Before(_ram_dataspaces, x, y) \/ Before(_ram_dataspaces, y, x)
<1>1. _ram_dataspaces \in Seq(Blocks) /\ IsInjective(_ram_dataspaces)
  BY DEF RecordInv, RamTypeOK
<1>. QED
  BY <1>1, OrderIsStrict, OrderIsTotal DEF Records

\* A new record comes before all others and leaves their order.
LEMMA AllocEffect ==
  ASSUME RecordInv, NEW r \in Blocks, Alloc(r)
  PROVE  /\ _ram_dataspaces' \in Seq(Blocks) /\ IsInjective(_ram_dataspaces')
         /\ r \notin Records /\ Records' = Records \cup {r}
         /\ \A x : x # r => AheadOf(_ram_dataspaces', x) = AheadOf(_ram_dataspaces, x)
         /\ \A x, y : Before(_ram_dataspaces', x, y) =>
              (x = r /\ y \in Records) \/ Before(_ram_dataspaces, x, y)
         /\ \A x, y : Before(_ram_dataspaces, x, y) => Before(_ram_dataspaces', x, y)
<1>1. /\ _ram_dataspaces \in Seq(Blocks) /\ IsInjective(_ram_dataspaces)
      /\ r \notin ToSet(_ram_dataspaces)
      /\ _ram_dataspaces' = <<r>> \o _ram_dataspaces
  BY DEF RecordInv, RamTypeOK, Alloc, Records
<1>2. _ram_dataspaces' \in Seq(Blocks) /\ Records' = Records \cup {r}
  BY <1>1, ConsAtPlace DEF Records
<1>3. IsInjective(_ram_dataspaces')
  BY <1>1, ConsOfInjective
<1>4. \A x : x # r => AheadOf(_ram_dataspaces', x) = AheadOf(_ram_dataspaces, x)
  BY <1>1, <1>3, SuffixOfCons DEF AheadOf
<1>5. \A x, y : Before(_ram_dataspaces', x, y) =>
        (x = r /\ y \in Records) \/ Before(_ram_dataspaces, x, y)
  BY <1>1, BeforeOfCons DEF Records
<1>6. ASSUME NEW x, NEW y, Before(_ram_dataspaces, x, y) PROVE Before(_ram_dataspaces', x, y)
  <2>1. x # y /\ x \in ToSet(_ram_dataspaces) /\ x # r
    BY <1>1, <1>6, OrderIsStrict
  <2>2. y \in AheadOf(_ram_dataspaces', x)
    BY <1>1, <1>4, <1>6, <2>1, AfterIsAhead
  <2>3. x \in ToSet(_ram_dataspaces')
    BY <1>2, <2>1 DEF Records
  <2>. QED
    BY <1>2, <1>3, <2>1, <2>2, <2>3, AheadIsAfter
<1>. QED
  BY <1>1, <1>2, <1>3, <1>4, <1>5, <1>6 DEF Records

\* Whatever the child frees, twice or once, is queued once.
LEMMA FreeQueues ==
  ASSUME RecordInv, NEW r \in Blocks, Free(r)
  PROVE  /\ _destroyed_ram_dataspaces' \in Seq(Blocks)
         /\ IsInjective(_destroyed_ram_dataspaces')
         /\ Queued' \subseteq Records
<1>1. /\ _destroyed_ram_dataspaces \in Seq(Blocks) /\ IsInjective(_destroyed_ram_dataspaces)
      /\ Queued \subseteq Records /\ r \in Records
      /\ _destroyed_ram_dataspaces' = enqueue(_destroyed_ram_dataspaces, r)
  BY DEF RecordInv, RamTypeOK, RecordsDieOnce, IsInjective, Free
<1>. QED
  BY <1>1, EnqueueOfInjective DEF Queued

\* The purge takes one record from list and queue.
LEMMA DestroyEffect ==
  ASSUME RecordInv, DestroyDataspace
  PROVE  \E ds \in Queued :
           /\ _ram_dataspaces' \in Seq(Blocks) /\ IsInjective(_ram_dataspaces')
           /\ Records' = Records \ {ds}
           /\ \A x, y : Before(_ram_dataspaces', x, y) => Before(_ram_dataspaces, x, y)
           /\ _destroyed_ram_dataspaces' \in Seq(Blocks)
           /\ IsInjective(_destroyed_ram_dataspaces')
           /\ Queued' = Queued \ {ds}
           /\ ds \in Blocks
           /\ dst' = [dst EXCEPT ![ds] = Null]
           /\ late' = late \ {ds}
<1> DEFINE ds == Head(_destroyed_ram_dataspaces)
<1>1. /\ _destroyed_ram_dataspaces \in Seq(Blocks) /\ IsInjective(_destroyed_ram_dataspaces)
      /\ _destroyed_ram_dataspaces # <<>>
      /\ _ram_dataspaces \in Seq(Blocks) /\ IsInjective(_ram_dataspaces)
      /\ Queued \subseteq Records
  BY DEF RecordInv, RamTypeOK, RecordsDieOnce, IsInjective, DestroyDataspace
<1>2. /\ ds \in Queued
      /\ Tail(_destroyed_ram_dataspaces) \in Seq(Blocks)
      /\ IsInjective(Tail(_destroyed_ram_dataspaces))
      /\ ToSet(Tail(_destroyed_ram_dataspaces)) = Queued \ {ds}
  BY <1>1, TailOfInjective DEF Queued
<1>3. /\ _ram_dataspaces' = RemoveFirst(_ram_dataspaces, ds)
      /\ _destroyed_ram_dataspaces' = Tail(_destroyed_ram_dataspaces)
      /\ dst' = [dst EXCEPT ![ds] = Null]
      /\ late' = late \ {ds}
  BY DEF DestroyDataspace
<1>. HIDE DEF ds
<1>4. ds \in ToSet(_ram_dataspaces)
  BY <1>1, <1>2 DEF Records
<1>5. /\ RemoveFirst(_ram_dataspaces, ds) = RemoveAt(_ram_dataspaces, IndexOf(_ram_dataspaces, ds))
      /\ IndexOf(_ram_dataspaces, ds) \in DOMAIN _ram_dataspaces
      /\ IsInjective(RemoveFirst(_ram_dataspaces, ds))
      /\ ToSet(RemoveFirst(_ram_dataspaces, ds)) = ToSet(_ram_dataspaces) \ {ds}
  BY <1>1, <1>4, RemoveFirstAtPlace
<1>6. RemoveFirst(_ram_dataspaces, ds) \in Seq(Blocks)
  BY <1>1, <1>5, RemoveAtPlace
<1>7. \A x, y : Before(_ram_dataspaces', x, y) => Before(_ram_dataspaces, x, y)
  BY <1>1, <1>3, <1>4, BeforeOfRemove
<1>8. ds \in Blocks
  BY <1>1, <1>4, ListPlaces
<1>9. Records' = Records \ {ds} /\ Queued' = Queued \ {ds}
  BY <1>2, <1>3, <1>5 DEF Records, Queued
<1>. QED
  BY <1>2, <1>3, <1>5, <1>6, <1>7, <1>8, <1>9

\* A step that leaves the list alone.
LEMMA ListKept ==
  ASSUME UNCHANGED _ram_dataspaces
  PROVE  Records' = Records /\ First' = First
  BY DEF Records, First

-----------------------------------------------------------------------------
(* Records are destroyed once, and the snapshot stays what it was. *)

LEMMA RecordInvInit == Init => RecordInv
<1>. SUFFICES ASSUME Init PROVE RecordInv
  OBVIOUS
<1>1. Records = {} /\ Queued = {}
  BY DEF Init, Records, Queued, ToSet
<1>2. IsInjective(_ram_dataspaces)
  BY DEF Init, IsInjective
<1>3. RamTypeOK
  <2>1. _ram_dataspaces \in Seq(Blocks) /\ _destroyed_ram_dataspaces \in Seq(Blocks)
    BY DEF Init
  <2>2. src \in [Blocks -> Contents] /\ dst \in [Blocks -> Contents \cup {Null}]
    BY RamAssumption DEF Init
  <2>3. disturbed \in BOOLEAN /\ late \in SUBSET Blocks /\ published \in Snapshots \cup {Null}
    BY DEF Init
  <2>. QED
    BY <1>2, <2>1, <2>2, <2>3 DEF Init, RamTypeOK
<1>4. RecordsDieOnce
  BY <1>1 DEF Init, RecordsDieOnce
<1>5. UndisturbedIsPurged /\ SnapshotIsKept
  BY DEF Init, UndisturbedIsPurged, Purged, SnapshotIsKept
<1>. QED
  BY <1>3, <1>4, <1>5 DEF RecordInv

\* What a reader finds is part of the list.
LEMMA FoundAreRecords ==
  ASSUME RecordInv, i_ram_dataspaces \in Records \cup {Null}
  PROVE  AheadOf(_ram_dataspaces, i_ram_dataspaces) \subseteq Records
BY WalkLeavesOne, NothingAheadOfNull

LEMMA AllocKeepsRecordInv ==
  ASSUME RecordInv, NEW r \in Blocks, Alloc(r)
  PROVE  RecordInv'
<1>1. /\ src' = [src EXCEPT ![r] = Blank] /\ dst' = [dst EXCEPT ![r] = Null]
      /\ UNCHANGED <<_destroyed_ram_dataspaces, i_ram_dataspaces, pc, dataspace, published>>
      /\ disturbed' = (disturbed \/ Purged)
      /\ late' \in {late, late \cup {r}}
  BY DEF Alloc, ChildDisturbs, ComesLate
<1>2. /\ _ram_dataspaces' \in Seq(Blocks) /\ IsInjective(_ram_dataspaces')
      /\ r \notin Records /\ Records' = Records \cup {r}
      /\ \A x : x # r => AheadOf(_ram_dataspaces', x) = AheadOf(_ram_dataspaces, x)
  BY AllocEffect
<1>3. RamTypeOK'
  BY <1>1, <1>2, RamAssumption DEF RecordInv, RamTypeOK
<1>4. RecordsDieOnce'
  BY <1>1, <1>2 DEF RecordInv, RecordsDieOnce, Queued
<1>5. UndisturbedIsPurged'
  BY <1>1 DEF RecordInv, UndisturbedIsPurged, Purged, Queued
<1>6. SnapshotIsKept'
  <2>. SUFFICES ASSUME pc = "idle", published # Null
                PROVE  SnapshotIsKept'
    BY <1>1 DEF SnapshotIsKept
  <2>1. /\ i_ram_dataspaces \in Records \cup {Null}
        /\ published # <<>> => i_ram_dataspaces \in Records
        /\ [x \in AheadOf(_ram_dataspaces, i_ram_dataspaces) |-> dst[x]] = published
    BY DEF RecordInv, SnapshotIsKept
  <2>2. i_ram_dataspaces # r
    BY <1>2, <2>1, RamAssumption
  <2>3. AheadOf(_ram_dataspaces', i_ram_dataspaces) = AheadOf(_ram_dataspaces, i_ram_dataspaces)
    BY <1>2, <2>2
  <2>4. \A x \in AheadOf(_ram_dataspaces, i_ram_dataspaces) : dst'[x] = dst[x]
    BY <1>1, <1>2, <2>1, FoundAreRecords, RecordsAreBlocks DEF RecordInv, RamTypeOK
  <2>5. [x \in AheadOf(_ram_dataspaces', i_ram_dataspaces) |-> dst'[x]] = published
    BY <2>1, <2>3, <2>4
  <2>. QED
    BY <1>1, <1>2, <2>1, <2>5 DEF SnapshotIsKept
<1>. QED
  BY <1>3, <1>4, <1>5, <1>6 DEF RecordInv

LEMMA ChildKeepsRecordInv ==
  ASSUME RecordInv, NEW r \in Blocks, Free(r) \/ \E c \in Contents : Write(r, c)
  PROVE  RecordInv'
<1>1. /\ UNCHANGED <<_ram_dataspaces, i_ram_dataspaces, dst, pc, dataspace, published, late>>
      /\ disturbed' = (disturbed \/ Purged)
      /\ src' \in [Blocks -> Contents]
  BY DEF Free, Write, listVars, ChildDisturbs, RecordInv, RamTypeOK
<1>2. /\ _destroyed_ram_dataspaces' \in Seq(Blocks)
      /\ IsInjective(_destroyed_ram_dataspaces')
      /\ Queued' \subseteq Records
  <2>1. CASE Free(r)
    BY <2>1, FreeQueues
  <2>2. CASE \E c \in Contents : Write(r, c)
    BY <2>2 DEF Write, listVars, RecordInv, RamTypeOK, RecordsDieOnce, IsInjective, Queued
  <2>. QED
    BY <2>1, <2>2
<1>3. RamTypeOK'
  BY <1>1, <1>2 DEF RecordInv, RamTypeOK
<1>4. RecordsDieOnce'
  BY <1>1, <1>2 DEF RecordInv, RecordsDieOnce, Records, IsInjective
<1>5. UndisturbedIsPurged'
  <2>1. ~ Purged => Queued' = Queued \/ ~ Purged'
    BY <1>1 DEF Purged
  <2>. QED
    BY <1>1, <2>1 DEF RecordInv, UndisturbedIsPurged, Purged
<1>6. SnapshotIsKept'
  BY <1>1 DEF RecordInv, SnapshotIsKept, Records
<1>. QED
  BY <1>3, <1>4, <1>5, <1>6 DEF RecordInv

LEMMA DestroyKeepsRecordInv ==
  ASSUME RecordInv, DestroyDataspace
  PROVE  RecordInv'
<1>1. /\ pc = "purge"
      /\ UNCHANGED <<i_ram_dataspaces, src, pc, dataspace, published, disturbed>>
  BY DEF DestroyDataspace
<1>2. PICK ds \in Queued :
        /\ _ram_dataspaces' \in Seq(Blocks) /\ IsInjective(_ram_dataspaces')
        /\ Records' = Records \ {ds}
        /\ _destroyed_ram_dataspaces' \in Seq(Blocks)
        /\ IsInjective(_destroyed_ram_dataspaces')
        /\ Queued' = Queued \ {ds}
        /\ ds \in Blocks
        /\ dst' = [dst EXCEPT ![ds] = Null]
        /\ late' = late \ {ds}
  BY DestroyEffect
<1>3. RamTypeOK'
  BY <1>1, <1>2 DEF RecordInv, RamTypeOK
<1>4. RecordsDieOnce'
  BY <1>1, <1>2 DEF RecordInv, RecordsDieOnce, IsInjective
<1>5. UndisturbedIsPurged' /\ SnapshotIsKept'
  BY <1>1 DEF RecordInv, UndisturbedIsPurged, Purged, SnapshotIsKept
<1>. QED
  BY <1>3, <1>4, <1>5 DEF RecordInv

\* What a set of records holds is a state of Snapshot, and not the null pointer.
LEMMA MemoryIsSnapshot ==
  ASSUME RecordInv, NEW R \in SUBSET Records
  PROVE  [r \in R |-> dst[r]] \in Snapshots /\ [r \in R |-> dst[r]] # Null
<1>1. R \in SUBSET Blocks /\ \A r \in R : dst[r] \in Contents \cup {Null}
  BY RecordsAreBlocks DEF RecordInv, RamTypeOK
<1>2. [r \in R |-> dst[r]] \in [R -> Contents \cup {Null}]
  BY <1>1
<1>. QED
  BY <1>1, <1>2, NullAssumption DEF Snapshots

LEMMA PublishKeepsRecordInv ==
  ASSUME RecordInv, Publish
  PROVE  RecordInv'
<1>1. /\ pc' = "idle" /\ i_ram_dataspaces' = First /\ disturbed' = FALSE
      /\ published' = [r \in Records |-> dst[r]]
      /\ UNCHANGED <<_ram_dataspaces, _destroyed_ram_dataspaces, src, dst, dataspace, late>>
  BY DEF Publish, listVars
<1>2. /\ First \in Records \cup {Null} /\ AheadOf(_ram_dataspaces, First) = Records
      /\ Records # {} => First \in Records
  BY FirstIsRecord
<1>3. Records' = Records /\ Queued' = Queued
  BY <1>1 DEF Records, Queued
<1>4. RamTypeOK'
  <2>1. published' \in Snapshots
    BY <1>1, MemoryIsSnapshot
  <2>2. First \in Blocks \cup {Null}
    BY <1>2, RecordsAreBlocks
  <2>. QED
    BY <1>1, <2>1, <2>2 DEF RecordInv, RamTypeOK
<1>5. RecordsDieOnce'
  BY <1>1, <1>3 DEF RecordInv, RecordsDieOnce
<1>6. UndisturbedIsPurged'
  BY <1>1 DEF UndisturbedIsPurged, Purged
<1>7. SnapshotIsKept'
  <2>1. Records = {} => [r \in Records |-> dst[r]] = <<>>
    <3>1. [r \in {} |-> dst[r]] = <<>>
      OBVIOUS
    <3>. QED
      BY <3>1
  <2>. QED
    BY <1>1, <1>2, <1>3, <2>1 DEF SnapshotIsKept
<1>. QED
  BY <1>4, <1>5, <1>6, <1>7 DEF RecordInv

\* The steps of the checkpoint that leave the list and the queue alone.
LEMMA WalkKeepsRecordInv ==
  ASSUME RecordInv,
         \/ Begin \/ PurgeDone \/ AllocDataspace \/ AllocDone \/ CopyDataspace \/ CopyDone
         \/ UNCHANGED vars
  PROVE  RecordInv'
<1>1. /\ UNCHANGED <<_ram_dataspaces, _destroyed_ram_dataspaces, i_ram_dataspaces, src,
                     published, disturbed>>
      /\ late' \subseteq late
  BY DEF Begin, PurgeDone, AllocDataspace, AllocDone, CopyDataspace, CopyDone, vars, listVars,
         historyVars
<1>2. Records' = Records /\ Queued' = Queued
  BY <1>1 DEF Records, Queued
<1>3. /\ dataspace' \in Records \cup {Null} \/ (UNCHANGED <<pc, dataspace>>)
           \/ (dataspace' = dataspace /\ (pc' = "fault" => pc = "copy"))
      /\ dst' \in [Blocks -> Contents \cup {Null}]
      /\ pc' \in {"idle", "purge", "alloc", "copy", "publish", "fault"}
  <2>1. CASE Begin \/ CopyDone \/ UNCHANGED vars
    BY <2>1 DEF Begin, CopyDone, vars, RecordInv, RamTypeOK
  <2>2. CASE PurgeDone \/ AllocDone
    BY <2>2, FirstIsRecord DEF PurgeDone, AllocDone, RecordInv, RamTypeOK
  <2>3. CASE AllocDataspace
    <3>1. dataspace \in Records
      BY <2>3 DEF AllocDataspace, RecordInv, RecordsDieOnce
    <3>2. NextOf(dataspace) \in Records \cup {Null}
      BY <3>1, WalkLeavesOne
    <3>. QED
      BY <2>3, <3>2, RamAssumption DEF AllocDataspace, RecordInv, RamTypeOK
  <2>4. CASE CopyDataspace
    <3>1. dataspace \in Records
      BY <2>4 DEF CopyDataspace, RecordInv, RecordsDieOnce
    <3>2. NextOf(dataspace) \in Records \cup {Null} /\ dataspace \in Blocks
      BY <3>1, WalkLeavesOne, RecordsAreBlocks
    <3>3. src[dataspace] \in Contents
      BY <3>2 DEF RecordInv, RamTypeOK
    <3>. QED
      BY <2>4, <3>2, <3>3 DEF CopyDataspace, RecordInv, RamTypeOK
  <2>. QED
    BY <2>1, <2>2, <2>3, <2>4
<1>4. RamTypeOK'
  BY <1>1, <1>3, RecordsAreBlocks DEF RecordInv, RamTypeOK
<1>5. RecordsDieOnce'
  <2>1. pc' \in {"alloc", "copy", "fault"} /\ dataspace' # Null => dataspace' \in Records
    <3>1. CASE Begin \/ CopyDone \/ UNCHANGED vars
      BY <3>1 DEF Begin, CopyDone, vars, RecordInv, RecordsDieOnce
    <3>2. CASE PurgeDone \/ AllocDone
      BY <3>2, FirstIsRecord DEF PurgeDone, AllocDone
    <3>3. CASE AllocDataspace
      BY <3>3, WalkLeavesOne DEF AllocDataspace, RecordInv, RecordsDieOnce
    <3>4. CASE CopyDataspace
      BY <3>4, WalkLeavesOne DEF CopyDataspace, RecordInv, RecordsDieOnce
    <3>. QED
      BY <3>1, <3>2, <3>3, <3>4
  <2>. QED
    BY <1>1, <1>2, <2>1 DEF RecordInv, RecordsDieOnce
<1>6. UndisturbedIsPurged'
  <2>1. _destroyed_ram_dataspaces = <<>> => Queued = {}
    BY DEF Queued, ToSet
  <2>2. /\ Purged' => Purged \/ Queued = {}
        /\ Purged => Purged' \/ pc' = "fault"
        /\ pc = "fault" => pc' = "fault"
    BY <2>1 DEF Begin, PurgeDone, AllocDataspace, AllocDone, CopyDataspace, CopyDone, vars, Purged
  <2>. QED
    BY <1>1, <1>2, <2>2 DEF RecordInv, UndisturbedIsPurged
<1>7. SnapshotIsKept'
  <2>1. pc' = "idle" => pc = "idle" /\ dst' = dst
    BY DEF Begin, PurgeDone, AllocDataspace, AllocDone, CopyDataspace, CopyDone, vars
  <2>. QED
    BY <1>1, <1>2, <2>1 DEF RecordInv, SnapshotIsKept
<1>. QED
  BY <1>4, <1>5, <1>6, <1>7 DEF RecordInv

LEMMA RecordInvStep ==
  ASSUME RecordInv, [Next]_vars
  PROVE  RecordInv'
BY AllocKeepsRecordInv, ChildKeepsRecordInv, DestroyKeepsRecordInv, PublishKeepsRecordInv,
   WalkKeepsRecordInv
DEF Next, _checkpoint_ram_dataspaces

-----------------------------------------------------------------------------
(* Which records have a cold dataspace. *)

LEMMA CopyInvInit == Init => CopyInv
<1>. SUFFICES ASSUME Init PROVE CopyInv
  OBVIOUS
<1>1. RecordInv
  BY RecordInvInit
<1>2. Records = {} /\ late = {} /\ pc = "idle"
  BY DEF Init, Records, ToSet
<1>3. WalkInv
  BY <1>2 DEF WalkInv, LateHaveNone, PublishedAreServed, NewHaveNone, WalkMeetsPublished,
              PassedAreServed, Purged, LateComesFirst, WalkIsOver, FaultIsLate
<1>4. PassedAreCopied
  BY <1>2 DEF PassedAreCopied
<1>. QED
  BY <1>1, <1>3, <1>4 DEF CopyInv

LEMMA AllocKeepsCopyInv ==
  ASSUME CopyInv, NEW r \in Blocks, Alloc(r)
  PROVE  CopyInv'
<1>. USE DEF CopyInv
<1>1. /\ src' = [src EXCEPT ![r] = Blank] /\ dst' = [dst EXCEPT ![r] = Null]
      /\ UNCHANGED <<_destroyed_ram_dataspaces, i_ram_dataspaces, pc, dataspace, published>>
      /\ disturbed' = (disturbed \/ Purged)
      /\ late' = IF Purged \/ r = i_ram_dataspaces THEN late \cup {r} ELSE late
  BY DEF Alloc, ChildDisturbs, ComesLate
<1>2. /\ r \notin Records /\ Records' = Records \cup {r}
      /\ \A x : x # r => AheadOf(_ram_dataspaces', x) = AheadOf(_ram_dataspaces, x)
      /\ \A x, y : Before(_ram_dataspaces', x, y) =>
           (x = r /\ y \in Records) \/ Before(_ram_dataspaces, x, y)
      /\ \A x, y : Before(_ram_dataspaces, x, y) => Before(_ram_dataspaces', x, y)
  BY AllocEffect
<1>3. RecordInv'
  BY AllocKeepsRecordInv
<1>4. /\ \A x \in Records : dst'[x] = dst[x] /\ src'[x] = src[x] /\ x # r
      /\ dst'[r] = Null
  BY <1>1, <1>2, RecordsAreBlocks DEF RecordInv, RamTypeOK
<1>5. late \subseteq Records
  BY DEF WalkInv, LateHaveNone
<1>6. /\ \A x \in Records : x \in late' <=> x \in late
      /\ \A x \in Records : Served(x)' <=> Served(x)
      /\ r \in late' <=> (Purged \/ r = i_ram_dataspaces)
  BY <1>1, <1>2, <1>4, <1>5 DEF Served
<1>7. Purged \/ pc = "fault" => Ahead' = Ahead
  <2>1. pc \in {"alloc", "copy"} => dataspace # r
    BY <1>2, RamAssumption DEF RecordInv, RecordsDieOnce
  <2>2. pc = "publish" => dataspace # r
    BY RamAssumption DEF WalkInv, WalkIsOver
  <2>3. pc = "fault" => dataspace # r
    BY <1>2, RamAssumption DEF RecordInv, RecordsDieOnce
  <2>. QED
    BY <1>1, <1>2, <2>1, <2>2, <2>3 DEF Ahead, Purged
<1>8. LateHaveNone'
  BY <1>1, <1>2, <1>4, <1>5 DEF WalkInv, LateHaveNone
<1>9. PublishedStands' => PublishedStands /\ i_ram_dataspaces # r
  BY <1>1, <1>2, <1>6 DEF PublishedStands
<1>10. PublishedAreServed'
  <2>. SUFFICES ASSUME PublishedStands', NEW x \in Records',
                       x = i_ram_dataspaces \/ Before(_ram_dataspaces', i_ram_dataspaces, x)
                PROVE  Served(x)'
    BY <1>1 DEF PublishedAreServed
  <2>1. PublishedStands /\ i_ram_dataspaces # r /\ i_ram_dataspaces \in Records
    BY <1>9 DEF PublishedStands
  <2>2. x = i_ram_dataspaces \/ Before(_ram_dataspaces, i_ram_dataspaces, x)
    BY <1>2, <2>1
  <2>3. x \in Records
    BY <2>1, <2>2, OrderOfRecords
  <2>. QED
    BY <1>6, <2>1, <2>2, <2>3 DEF WalkInv, PublishedAreServed
<1>11. NewHaveNone'
  <2>. SUFFICES ASSUME PublishedStands', NEW x \in Records',
                       Before(_ram_dataspaces', x, i_ram_dataspaces),
                       pc = "alloc" => x \in Ahead'
                PROVE  dst'[x] = Null
    BY <1>1 DEF NewHaveNone
  <2>1. CASE x = r
    BY <1>4, <2>1
  <2>2. CASE x # r
    <3>1. x \in Records /\ Before(_ram_dataspaces, x, i_ram_dataspaces) /\ PublishedStands
      BY <1>2, <1>9, <2>2
    <3>2. pc = "alloc" => x \in Ahead
      BY <1>7 DEF Purged
    <3>. QED
      BY <1>4, <3>1, <3>2 DEF WalkInv, NewHaveNone
  <2>. QED
    BY <2>1, <2>2
<1>12. WalkMeetsPublished'
  BY <1>1, <1>7, <1>9 DEF WalkInv, WalkMeetsPublished, Purged
<1>13. PassedAreServed'
  <2>. SUFFICES ASSUME Purged, NEW x \in Records' \ Ahead PROVE Served(x)'
    BY <1>1, <1>7 DEF PassedAreServed, Purged
  <2>1. x \in Records => Served(x)
    BY DEF WalkInv, PassedAreServed
  <2>. QED
    BY <1>2, <1>6, <2>1 DEF Served
<1>14. LateComesFirst'
  <2>. SUFFICES ASSUME pc = "copy", NEW x \in Ahead
                PROVE  Served(x)' \/ \E q \in late' \cap Ahead : Before(_ram_dataspaces', q, x)
    BY <1>1, <1>7 DEF LateComesFirst, Purged
  <2>1. x \in Records
    BY WalkLeavesOne, NothingAheadOfNull DEF Ahead, RecordInv, RecordsDieOnce
  <2>. QED
    BY <1>1, <1>2, <1>6, <2>1 DEF WalkInv, LateComesFirst
<1>15. WalkIsOver' /\ FaultIsLate'
  BY <1>1 DEF WalkInv, WalkIsOver, FaultIsLate
<1>16. PassedAreCopied'
  BY <1>1 DEF PassedAreCopied, Purged, RecordInv, RamTypeOK
<1>. QED
  BY <1>3, <1>8, <1>10, <1>11, <1>12, <1>13, <1>14, <1>15, <1>16 DEF WalkInv

LEMMA ChildKeepsCopyInv ==
  ASSUME CopyInv, NEW r \in Blocks, Free(r) \/ \E c \in Contents : Write(r, c)
  PROVE  CopyInv'
<1>1. /\ UNCHANGED <<_ram_dataspaces, i_ram_dataspaces, dst, pc, dataspace, late>>
      /\ disturbed' = (disturbed \/ Purged)
  BY DEF Free, Write, listVars, ChildDisturbs
<1>2. RecordInv'
  BY ChildKeepsRecordInv DEF CopyInv
<1>3. WalkInv'
  BY <1>1 DEF CopyInv, WalkInv, LateHaveNone, PublishedAreServed, NewHaveNone, WalkMeetsPublished,
     PassedAreServed, LateComesFirst, WalkIsOver, FaultIsLate, PublishedStands, Purged, Served,
     Ahead, Records
<1>4. PassedAreCopied'
  BY <1>1 DEF CopyInv, PassedAreCopied, Purged, RecordInv, RamTypeOK
<1>. QED
  BY <1>2, <1>3, <1>4 DEF CopyInv

LEMMA BeginKeepsCopyInv ==
  ASSUME CopyInv, Begin \/ UNCHANGED vars
  PROVE  CopyInv'
<1>1. /\ UNCHANGED <<_ram_dataspaces, i_ram_dataspaces, src, dst, dataspace, late, disturbed>>
      /\ pc' = pc \/ (pc = "idle" /\ pc' = "purge")
  BY DEF Begin, vars, listVars, historyVars
<1>2. RecordInv'
  BY WalkKeepsRecordInv DEF CopyInv
<1>3. WalkInv'
  BY <1>1 DEF CopyInv, WalkInv, LateHaveNone, PublishedAreServed, NewHaveNone, WalkMeetsPublished,
     PassedAreServed, LateComesFirst, WalkIsOver, FaultIsLate, PublishedStands, Purged, Served,
     Ahead, Records
<1>4. PassedAreCopied'
  BY <1>1 DEF CopyInv, PassedAreCopied, Ahead, Records
<1>. QED
  BY <1>2, <1>3, <1>4 DEF CopyInv

LEMMA DestroyKeepsCopyInv ==
  ASSUME CopyInv, DestroyDataspace
  PROVE  CopyInv'
<1>. USE DEF CopyInv
<1>1. pc = "purge" /\ pc' = pc /\ i_ram_dataspaces' = i_ram_dataspaces
  BY DEF DestroyDataspace
<1>2. PICK ds \in Queued :
        /\ Records' = Records \ {ds}
        /\ \A x, y : Before(_ram_dataspaces', x, y) => Before(_ram_dataspaces, x, y)
        /\ ds \in Blocks
        /\ dst' = [dst EXCEPT ![ds] = Null]
        /\ late' = late \ {ds}
  BY DestroyEffect
<1>3. RecordInv'
  BY DestroyKeepsRecordInv
<1>4. \A x \in Records' : x \in Records /\ dst'[x] = dst[x] /\ (x \in late' <=> x \in late)
  BY <1>2, RecordsAreBlocks DEF RecordInv, RamTypeOK
<1>5. LateHaveNone'
  BY <1>2, <1>4 DEF WalkInv, LateHaveNone
<1>6. PublishedStands' => PublishedStands
  BY <1>1, <1>4 DEF PublishedStands
<1>7. PublishedAreServed'
  BY <1>1, <1>2, <1>4, <1>6 DEF WalkInv, PublishedAreServed, Served
<1>8. NewHaveNone'
  BY <1>1, <1>2, <1>4, <1>6 DEF WalkInv, NewHaveNone
<1>9. /\ WalkMeetsPublished' /\ PassedAreServed' /\ LateComesFirst' /\ WalkIsOver' /\ FaultIsLate'
      /\ PassedAreCopied'
  BY <1>1 DEF WalkMeetsPublished, PassedAreServed, Purged, LateComesFirst, WalkIsOver, FaultIsLate,
              PassedAreCopied
<1>. QED
  BY <1>3, <1>5, <1>7, <1>8, <1>9 DEF WalkInv

LEMMA PurgeDoneKeepsCopyInv ==
  ASSUME CopyInv, PurgeDone
  PROVE  CopyInv'
<1>. USE DEF CopyInv
<1>1. /\ pc = "purge" /\ pc' = "alloc" /\ dataspace' = First
      /\ UNCHANGED <<_ram_dataspaces, i_ram_dataspaces, src, dst, late>>
  BY DEF PurgeDone, listVars, historyVars
<1>2. RecordInv'
  BY WalkKeepsRecordInv
<1>3. Records' = Records /\ Ahead' = Records
  BY <1>1, FirstIsRecord DEF Ahead, Records
<1>4. PublishedStands' <=> PublishedStands
  BY <1>1, <1>3 DEF PublishedStands
<1>5. LateHaveNone' /\ PublishedAreServed' /\ NewHaveNone'
  BY <1>1, <1>3, <1>4 DEF WalkInv, LateHaveNone, PublishedAreServed, NewHaveNone, Served
<1>6. WalkMeetsPublished'
  BY <1>1, <1>3, <1>4 DEF WalkMeetsPublished, PublishedStands
<1>7. PassedAreServed' /\ LateComesFirst' /\ WalkIsOver' /\ FaultIsLate' /\ PassedAreCopied'
  BY <1>1, <1>3 DEF PassedAreServed, LateComesFirst, WalkIsOver, FaultIsLate, PassedAreCopied
<1>. QED
  BY <1>2, <1>5, <1>6, <1>7 DEF WalkInv

LEMMA AllocDataspaceKeepsCopyInv ==
  ASSUME CopyInv, AllocDataspace
  PROVE  CopyInv'
<1>. USE DEF CopyInv
<1>1. /\ pc = "alloc" /\ pc' = pc /\ dataspace \notin {Null, i_ram_dataspaces}
      /\ dst' = [dst EXCEPT ![dataspace] = Blank]
      /\ late' = late \ {dataspace}
      /\ dataspace' = NextOf(dataspace)
      /\ UNCHANGED <<_ram_dataspaces, i_ram_dataspaces, src>>
  BY DEF AllocDataspace, listVars
<1>2. RecordInv'
  BY WalkKeepsRecordInv
<1>3. dataspace \in Records /\ Records' = Records
  BY <1>1 DEF RecordInv, RecordsDieOnce, Records
<1>4. /\ Ahead' = Ahead \ {dataspace} /\ dataspace \in Ahead /\ Ahead \subseteq Records
  BY <1>1, <1>3, WalkLeavesOne DEF Ahead
<1>5. /\ \A x \in Records : x # dataspace => dst'[x] = dst[x] /\ (x \in late' <=> x \in late)
      /\ dst'[dataspace] # Null
  BY <1>1, <1>3, RecordsAreBlocks, RamAssumption DEF RecordInv, RamTypeOK
<1>6. \A x \in Records : Served(x) => Served(x)'
  BY <1>5 DEF Served
<1>7. LateHaveNone'
  BY <1>1, <1>3, <1>5 DEF WalkInv, LateHaveNone
<1>8. PublishedStands' => PublishedStands
  BY <1>1, <1>3, <1>5 DEF PublishedStands
<1>9. PublishedAreServed'
  BY <1>1, <1>3, <1>6, <1>8 DEF WalkInv, PublishedAreServed
<1>10. NewHaveNone'
  BY <1>1, <1>3, <1>4, <1>5, <1>8 DEF WalkInv, NewHaveNone
<1>11. WalkMeetsPublished'
  BY <1>1, <1>4, <1>8 DEF WalkInv, WalkMeetsPublished
<1>12. PassedAreServed'
  <2>1. \A x \in Records \ Ahead' : x = dataspace \/ x \in Records \ Ahead
    BY <1>4
  <2>2. \A x \in Records \ Ahead : Served(x)
    BY <1>1 DEF WalkInv, PassedAreServed, Purged
  <2>3. \A x \in Records \ Ahead : Served(x)'
    BY <1>6, <2>2
  <2>. SUFFICES ASSUME NEW x \in Records \ Ahead' PROVE Served(x)'
    BY <1>3 DEF PassedAreServed
  <2>4. CASE x = dataspace
    BY <1>5, <2>4 DEF Served
  <2>. QED
    BY <2>1, <2>3, <2>4
<1>13. LateComesFirst' /\ WalkIsOver' /\ FaultIsLate' /\ PassedAreCopied'
  BY <1>1 DEF LateComesFirst, WalkIsOver, FaultIsLate, PassedAreCopied
<1>. QED
  BY <1>2, <1>7, <1>9, <1>10, <1>11, <1>12, <1>13 DEF WalkInv

\* Where the walk of step 2 ends, by the end of the list or by the record published last,
\* the records that it has not served lie behind one that came late.
LEMMA AllocDoneKeepsCopyInv ==
  ASSUME CopyInv, AllocDone
  PROVE  CopyInv'
<1>. USE DEF CopyInv
<1>1. /\ pc = "alloc" /\ pc' = "copy" /\ dataspace \in {Null, i_ram_dataspaces}
      /\ dataspace' = First
      /\ UNCHANGED <<_ram_dataspaces, i_ram_dataspaces, src, dst, late>>
  BY DEF AllocDone, listVars, historyVars
<1>2. RecordInv'
  BY WalkKeepsRecordInv
<1>3. Records' = Records /\ Ahead' = Records
  BY <1>1, FirstIsRecord DEF Ahead, Records
<1>4. \A x \in Records \ Ahead : Served(x)
  BY <1>1 DEF WalkInv, PassedAreServed, Purged
<1>5. LateComesFirst'
  <2>. SUFFICES ASSUME NEW x \in Records
                PROVE  Served(x) \/ \E q \in late \cap Records : Before(_ram_dataspaces, q, x)
    BY <1>1, <1>3 DEF LateComesFirst, Served
  <2>1. CASE x \notin Ahead
    BY <1>4, <2>1
  <2>2. CASE x \in Ahead
    <3>1. dataspace # Null
      BY <2>2, NothingAheadOfNull DEF Ahead
    <3>2. dataspace = i_ram_dataspaces /\ i_ram_dataspaces \in Records
      BY <1>1, <3>1 DEF RecordInv, RecordsDieOnce
    <3>3. x = i_ram_dataspaces \/ Before(_ram_dataspaces, i_ram_dataspaces, x)
      BY <2>2, <3>2, AheadIs DEF Ahead
    <3>4. CASE i_ram_dataspaces \in late
      BY <3>2, <3>3, <3>4 DEF Served
    <3>5. CASE i_ram_dataspaces \notin late
      <4>1. PublishedStands
        BY <1>1, <3>2, <3>5 DEF PublishedStands
      <4>. QED
        BY <3>3, <4>1 DEF WalkInv, PublishedAreServed
    <3>. QED
      BY <3>4, <3>5
  <2>. QED
    BY <2>1, <2>2
<1>6. LateHaveNone'
  BY <1>1, <1>3 DEF WalkInv, LateHaveNone
<1>7. PassedAreServed' /\ PassedAreCopied'
  BY <1>3 DEF PassedAreServed, PassedAreCopied
<1>8. PublishedAreServed' /\ NewHaveNone' /\ WalkMeetsPublished' /\ WalkIsOver' /\ FaultIsLate'
  BY <1>1 DEF PublishedAreServed, NewHaveNone, WalkMeetsPublished, PublishedStands, WalkIsOver,
              FaultIsLate
<1>. QED
  BY <1>2, <1>5, <1>6, <1>7, <1>8 DEF WalkInv

LEMMA CopyDataspaceKeepsCopyInv ==
  ASSUME CopyInv, CopyDataspace
  PROVE  CopyInv'
<1>. USE DEF CopyInv
<1>1. /\ pc = "copy" /\ dataspace # Null
      /\ UNCHANGED <<_ram_dataspaces, i_ram_dataspaces, src, late, disturbed>>
  BY DEF CopyDataspace, listVars, historyVars
<1>2. RecordInv'
  BY WalkKeepsRecordInv
<1>3. dataspace \in Records /\ Records' = Records
  BY <1>1 DEF RecordInv, RecordsDieOnce, Records
<1>4. \A x \in Ahead : x = dataspace \/ Before(_ram_dataspaces, dataspace, x)
  BY <1>3, AheadIs DEF Ahead
<1>5. dataspace \in Ahead /\ Ahead \subseteq Records
  BY <1>3, WalkLeavesOne DEF Ahead
<1>6. CASE dst[dataspace] = Null
  <2>1. pc' = "fault" /\ dst' = dst /\ dataspace' = dataspace
    BY <1>6 DEF CopyDataspace
  <2>2. dataspace \in late
    <3>1. \A q \in Ahead : ~ Before(_ram_dataspaces, q, dataspace)
      BY <1>4, OrderOfRecords
    <3>2. Served(dataspace)
      BY <1>1, <1>5, <3>1 DEF WalkInv, LateComesFirst
    <3>. QED
      BY <1>6, <3>2 DEF Served
  <2>3. LateHaveNone' /\ FaultIsLate'
    BY <1>1, <1>3, <2>1, <2>2 DEF WalkInv, LateHaveNone, FaultIsLate
  <2>4. /\ PublishedAreServed' /\ NewHaveNone' /\ WalkMeetsPublished' /\ PassedAreServed'
        /\ LateComesFirst' /\ WalkIsOver' /\ PassedAreCopied'
    BY <2>1 DEF PublishedAreServed, NewHaveNone, WalkMeetsPublished, PublishedStands,
                PassedAreServed, Purged, LateComesFirst, WalkIsOver, PassedAreCopied
  <2>. QED
    BY <1>2, <2>3, <2>4 DEF WalkInv
<1>7. CASE dst[dataspace] # Null
  <2>1. /\ pc' = pc /\ dst' = [dst EXCEPT ![dataspace] = src[dataspace]]
        /\ dataspace' = NextOf(dataspace)
    BY <1>7 DEF CopyDataspace
  <2>2. Ahead' = Ahead \ {dataspace}
    BY <1>1, <1>3, <2>1, WalkLeavesOne DEF Ahead
  <2>3. dataspace \notin late
    BY <1>7 DEF WalkInv, LateHaveNone
  <2>4. /\ \A x \in Records : x # dataspace => dst'[x] = dst[x]
        /\ dst'[dataspace] = src[dataspace] /\ src[dataspace] # Null
    BY <1>3, <2>1, RecordsAreBlocks, RamAssumption DEF RecordInv, RamTypeOK
  <2>5. \A x \in Records : Served(x) => Served(x)'
    BY <1>1, <2>4 DEF Served
  <2>6. LateHaveNone'
    BY <1>1, <1>3, <2>3, <2>4 DEF WalkInv, LateHaveNone
  <2>7. PassedAreServed'
    <3>. SUFFICES ASSUME NEW x \in Records \ Ahead' PROVE Served(x)'
      BY <1>3 DEF PassedAreServed
    <3>1. CASE x = dataspace
      BY <2>4, <3>1 DEF Served
    <3>2. CASE x # dataspace
      <4>1. x \in Records \ Ahead
        BY <2>2, <3>2
      <4>. QED
        BY <1>1, <2>5, <4>1 DEF WalkInv, PassedAreServed, Purged
    <3>. QED
      BY <3>1, <3>2
  <2>8. LateComesFirst'
    <3>. SUFFICES ASSUME NEW x \in Ahead'
                  PROVE  Served(x)' \/ \E q \in late \cap Ahead' : Before(_ram_dataspaces, q, x)
      BY <1>1 DEF LateComesFirst
    <3>1. x \in Ahead /\ x \in Records
      BY <1>5, <2>2
    <3>2. Served(x) \/ \E q \in late \cap Ahead : Before(_ram_dataspaces, q, x)
      BY <1>1, <3>1 DEF WalkInv, LateComesFirst
    <3>3. late \cap Ahead \subseteq Ahead'
      BY <2>2, <2>3
    <3>. QED
      BY <2>5, <3>1, <3>2, <3>3
  <2>9. PassedAreCopied'
    <3>. SUFFICES ASSUME ~ disturbed, NEW x \in Records \ Ahead' PROVE dst'[x] = src[x]
      BY <1>1, <1>3 DEF PassedAreCopied
    <3>1. CASE x = dataspace
      BY <2>4, <3>1
    <3>2. CASE x # dataspace
      <4>1. x \in Records \ Ahead
        BY <2>2, <3>2
      <4>. QED
        BY <1>1, <2>4, <3>2, <4>1 DEF PassedAreCopied
    <3>. QED
      BY <3>1, <3>2
  <2>10. PublishedAreServed' /\ NewHaveNone' /\ WalkMeetsPublished' /\ WalkIsOver' /\ FaultIsLate'
    BY <1>1, <2>1 DEF PublishedAreServed, NewHaveNone, WalkMeetsPublished, PublishedStands,
                      WalkIsOver, FaultIsLate
  <2>. QED
    BY <1>2, <2>6, <2>7, <2>8, <2>9, <2>10 DEF WalkInv
<1>. QED
  BY <1>6, <1>7

LEMMA CopyDoneKeepsCopyInv ==
  ASSUME CopyInv, CopyDone
  PROVE  CopyInv'
<1>. USE DEF CopyInv
<1>1. /\ pc = "copy" /\ pc' = "publish" /\ dataspace = Null
      /\ UNCHANGED <<_ram_dataspaces, i_ram_dataspaces, src, dst, dataspace, late, disturbed>>
  BY DEF CopyDone, listVars, historyVars
<1>2. RecordInv'
  BY WalkKeepsRecordInv
<1>3. WalkInv'
  BY <1>1 DEF WalkInv, LateHaveNone, PublishedAreServed, NewHaveNone, WalkMeetsPublished,
     PassedAreServed, LateComesFirst, WalkIsOver, FaultIsLate, PublishedStands, Purged, Served,
     Ahead, Records
<1>4. PassedAreCopied'
  BY <1>1 DEF PassedAreCopied, Ahead, Records
<1>. QED
  BY <1>2, <1>3, <1>4

\* The walk of step 3 is over: no record is ahead of it.
LEMMA AllArePassed ==
  ASSUME CopyInv, pc = "publish"
  PROVE  Ahead = {}
BY NothingAheadOfNull DEF CopyInv, WalkInv, WalkIsOver, Ahead

LEMMA PublishKeepsCopyInv ==
  ASSUME CopyInv, Publish
  PROVE  CopyInv'
<1>. USE DEF CopyInv
<1>1. /\ pc = "publish" /\ pc' = "idle" /\ i_ram_dataspaces' = First
      /\ UNCHANGED <<_ram_dataspaces, src, dst, late>>
  BY DEF Publish, listVars
<1>2. RecordInv'
  BY PublishKeepsRecordInv
<1>3. Records' = Records
  BY <1>1 DEF Records
<1>4. \A x \in Records : Served(x)
  BY <1>1, AllArePassed DEF WalkInv, PassedAreServed, Purged
<1>5. PublishedAreServed'
  BY <1>1, <1>3, <1>4 DEF PublishedAreServed, Served
<1>6. NewHaveNone'
  <2>1. \A x \in Records : ~ Before(_ram_dataspaces, x, First)
    <3>. SUFFICES ASSUME NEW x \in Records, Before(_ram_dataspaces, x, First) PROVE FALSE
      OBVIOUS
    <3>1. First \in Records /\ x \in AheadOf(_ram_dataspaces, First)
      BY FirstIsRecord, OrderOfRecords
    <3>. QED
      BY <3>1, AheadIs, OrderOfRecords
  <2>. QED
    BY <1>1, <1>3, <2>1 DEF NewHaveNone
<1>7. LateHaveNone'
  BY <1>1, <1>3 DEF WalkInv, LateHaveNone
<1>8. /\ WalkMeetsPublished' /\ PassedAreServed' /\ LateComesFirst' /\ WalkIsOver' /\ FaultIsLate'
      /\ PassedAreCopied'
  BY <1>1 DEF WalkMeetsPublished, PassedAreServed, Purged, LateComesFirst, WalkIsOver, FaultIsLate,
              PassedAreCopied
<1>. QED
  BY <1>2, <1>5, <1>6, <1>7, <1>8 DEF WalkInv

LEMMA CopyInvStep ==
  ASSUME CopyInv, [Next]_vars
  PROVE  CopyInv'
BY AllocKeepsCopyInv, ChildKeepsCopyInv, BeginKeepsCopyInv, DestroyKeepsCopyInv,
   PurgeDoneKeepsCopyInv, AllocDataspaceKeepsCopyInv, AllocDoneKeepsCopyInv,
   CopyDataspaceKeepsCopyInv, CopyDoneKeepsCopyInv, PublishKeepsCopyInv
DEF Next, _checkpoint_ram_dataspaces

-----------------------------------------------------------------------------
(* Each step of the session is one of Snapshot, or none. *)

Snapshot ==
  CASE published = Null -> <<>>
    [] published # Null /\ pc = "idle" -> ColdMemory
    [] published # Null /\ pc # "idle" -> published

\* Between checkpoints and during one, it is what was published last.
LEMMA SnapshotIsPublished ==
  ASSUME RecordInv
  PROVE  Snapshot = IF published = Null THEN <<>> ELSE published
<1>1. CASE published = Null
  BY <1>1 DEF Snapshot
<1>2. CASE published # Null /\ pc # "idle"
  BY <1>2 DEF Snapshot
<1>3. CASE published # Null /\ pc = "idle"
  <2>1. Snapshot = [r \in AheadOf(_ram_dataspaces, i_ram_dataspaces) |-> dst[r]]
    BY <1>3, ListIsWalk DEF Snapshot, ColdMemory, AheadOf
  <2>. QED
    BY <1>3, <2>1 DEF RecordInv, SnapshotIsKept
<1>. QED
  BY <1>1, <1>2, <1>3

LEMMA PromiseInit == Init => Promise!SnapshotInit
<1>. SUFFICES ASSUME Init
              PROVE  ChildMemory = <<>> /\ Snapshot = <<>> /\ disturbed = FALSE
  BY DEF Promise!SnapshotInit, Snapshot
<1>1. published = Null /\ disturbed = FALSE /\ Recorded = {}
  BY DEF Init, Recorded, Records, ToSet
<1>2. ChildMemory = [r \in {} |-> src[r]]
  BY <1>1 DEF ChildMemory
<1>3. [r \in {} |-> src[r]] = <<>>
  OBVIOUS
<1>. QED
  BY <1>1, <1>2, <1>3 DEF Snapshot

\* What the child owns is a state of Snapshot.
LEMMA MemoryIsState ==
  ASSUME RecordInv'
  PROVE  Promise!IsState(ChildMemory')
<1>1. Recorded' \subseteq Blocks /\ src' \in [Blocks -> Contents]
  <2>1. Records' \subseteq Blocks
    BY ListPlaces DEF RecordInv, RamTypeOK, Records
  <2>. QED
    BY <2>1 DEF RecordInv, RamTypeOK, Recorded
<1>2. ChildMemory' = [x \in Recorded' |-> src'[x]]
  BY DEF ChildMemory
<1>. QED
  BY <1>1, <1>2 DEF Promise!IsState

\* The child's steps are ChildStep, the publication is TakeSnapshot, the rest stutters.
LEMMA PromiseStep ==
  ASSUME CopyInv, [Next]_vars
  PROVE  [Promise!SnapshotNext]_(Promise!snapshotVars)
<1>. USE DEF CopyInv
<1>0. RecordInv'
  BY RecordInvStep
<1>1. Promise!IsState(ChildMemory')
  BY <1>0, MemoryIsState
<1>2. Snapshot' = IF published' = Null THEN <<>> ELSE published'
  <2>1. CASE published' = Null
    BY <2>1 DEF Snapshot
  <2>2. CASE published' # Null /\ pc' # "idle"
    BY <2>2 DEF Snapshot
  <2>3. CASE published' # Null /\ pc' = "idle"
    <3>1. ListFrom(i_ram_dataspaces)' = SuffixFrom(_ram_dataspaces', i_ram_dataspaces')
      BY DEF ListFrom, Place, Records, SuffixFrom, IndexOf, SelectInSeq
    <3>2. Snapshot' = [r \in AheadOf(_ram_dataspaces', i_ram_dataspaces') |-> dst'[r]]
      BY <2>3, <3>1 DEF Snapshot, ColdMemory, AheadOf
    <3>. QED
      BY <1>0, <2>3, <3>2 DEF RecordInv, SnapshotIsKept
  <2>. QED
    BY <2>1, <2>2, <2>3
<1>3. CASE UNCHANGED published /\ disturbed' \in {disturbed, TRUE} /\ Promise!IsState(ChildMemory')
  <2>1. Snapshot' = Snapshot
    BY <1>2, <1>3, SnapshotIsPublished
  <2>. QED
    BY <1>3, <2>1
    DEF Promise!SnapshotNext, Promise!ChildStep, Promise!snapshotVars, Snapshot
<1>4. CASE Publish
  <2>1. /\ published' = [r \in Records |-> dst[r]] /\ disturbed' = FALSE /\ pc = "publish"
        /\ UNCHANGED <<_ram_dataspaces, _destroyed_ram_dataspaces, src>>
    BY <1>4 DEF Publish, listVars
  <2>2. ChildMemory' = ChildMemory
    BY <2>1 DEF ChildMemory, Recorded, Records, Queued
  <2>3. Snapshot' = [r \in Records |-> dst[r]]
    BY <1>2, <2>1, MemoryIsSnapshot
  <2>4. CASE disturbed
    <3>1. Records \subseteq Blocks /\ \A r \in Records : dst[r] \in Contents \cup {Null}
      BY RecordsAreBlocks DEF RecordInv, RamTypeOK
    <3>2. Promise!IsState(Snapshot')
      BY <2>3, <3>1 DEF Promise!IsState
    <3>. QED
      BY <2>1, <2>2, <2>4, <3>2
      DEF Promise!SnapshotNext, Promise!TakeSnapshot, Promise!snapshotVars, Snapshot
  <2>5. CASE ~ disturbed
    <3>1. Recorded = Records
      BY <2>1, <2>5 DEF RecordInv, UndisturbedIsPurged, Recorded, Purged
    <3>2. dataspace = Null
      BY <2>1 DEF WalkInv, WalkIsOver
    <3>3. Ahead = {}
      BY <3>2, NothingAheadOfNull DEF Ahead
    <3>4. \A r \in Records : dst[r] = src[r]
      BY <2>1, <2>5, <3>3 DEF PassedAreCopied
    <3>5. Snapshot' = ChildMemory
      BY <2>3, <3>1, <3>4 DEF ChildMemory
    <3>. QED
      BY <2>1, <2>2, <2>5, <3>5
      DEF Promise!SnapshotNext, Promise!TakeSnapshot, Promise!snapshotVars, Snapshot
  <2>. QED
    BY <2>4, <2>5
<1>5. Publish \/ (UNCHANGED published /\ disturbed' \in {disturbed, TRUE})
  <2>1. disturbed \in BOOLEAN
    BY DEF RecordInv, RamTypeOK
  <2>. QED
    BY <2>1
    DEF Next, Alloc, Free, Write, ChildDisturbs, Begin, _checkpoint_ram_dataspaces,
        DestroyDataspace, PurgeDone, AllocDataspace, AllocDone, CopyDataspace, CopyDone, vars,
        historyVars
<1>. QED
  BY <1>1, <1>3, <1>4, <1>5

-----------------------------------------------------------------------------
(* The theorems. *)

\* The inductive invariant of the checkpoint: list and queue, the snapshot a reader finds,
\* and which records have a cold dataspace; for a child that calls at any time and any
\* value in the pointer that no constructor sets.
THEOREM CopyInvariant == Spec => []CopyInv
<1>1. CopyInv /\ [Next]_vars => CopyInv'
  BY CopyInvStep
<1>. QED
  BY <1>1, CopyInvInit, PTL DEF Spec

\* The purge destroys each queued record once, and the checkpoint stands at no destroyed
\* record. (pd_session.cc 163-166, 457-470)
THEOREM PurgeDestroysOnce == Spec => []RecordsDieOnce
<1>1. CopyInv => RecordsDieOnce
  BY DEF CopyInv, RecordInv
<1>. QED
  BY <1>1, CopyInvariant, PTL

\* Between checkpoints the pointer does not dangle. (pd_session.cc 163-166, 185)
THEOREM PointerStaysAlive == Spec => []PointerIsAlive
<1>1. CopyInv => PointerIsAlive
  BY DEF CopyInv, RecordInv, SnapshotIsKept, PointerIsAlive
<1>. QED
  BY <1>1, CopyInvariant, PTL

\* A record gets a second cold dataspace only if the record published last is gone, and
\* lacks one in step 3 only if it came late. (pd_session.cc 168-182)
THEOREM CopiesHaveTheirCause == Spec => []CopiesAreExplained
<1>1. ASSUME CopyInv, pc = "alloc", dataspace \notin {Null, i_ram_dataspaces},
             i_ram_dataspaces \in Records \ late
      PROVE  dst[dataspace] = Null
  <2>. USE <1>1 DEF CopyInv
  <2>1. dataspace \in Records /\ PublishedStands
    BY DEF RecordInv, RecordsDieOnce, PublishedStands
  <2>2. i_ram_dataspaces \in Ahead /\ dataspace \in Ahead
    BY <2>1, WalkLeavesOne DEF WalkInv, WalkMeetsPublished, Ahead
  <2>3. Before(_ram_dataspaces, dataspace, i_ram_dataspaces)
    BY <2>1, <2>2, AheadIs DEF Ahead
  <2>. QED
    BY <2>1, <2>2, <2>3 DEF WalkInv, NewHaveNone
<1>2. CopyInv => CopiesAreExplained
  BY <1>1 DEF CopyInv, WalkInv, FaultIsLate, CopiesAreExplained
<1>. QED
  BY <1>2, CopyInvariant, PTL

\* The session implements Snapshot: from one checkpoint to the next a reader finds what the
\* child's memory was at the first, unless the child has acted during it.
\* (pd_session.cc 157-186)
THEOREM SessionKeepsPromise == Spec => KeepsSnapshotPromise
<1>1. CopyInv /\ [Next]_vars => [Promise!SnapshotNext]_(Promise!snapshotVars)
  BY PromiseStep
<1>. QED
  BY <1>1, PromiseInit, CopyInvariant, PTL
  DEF Spec, KeepsSnapshotPromise, Promise!SnapshotSpec
=============================================================================
