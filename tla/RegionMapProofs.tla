---------------------------- MODULE RegionMapProofs ----------------------------
(***************************************************************************)
(* The records of a region map, for every number of records and pages,     *)
(* with a child that calls at any time and the lookup beside the purge.    *)
(*                                                                         *)
(* The test of find_by_addr() takes the end of a region for a part of it.  *)
(* Whatever comes before the record of an attached region was attached     *)
(* after it, and so beside it: the search finds the right record, or that  *)
(* of a region that ends where the other one begins.  As long as this has  *)
(* not happened, the records outside of the queue are the attached         *)
(* regions, and a lookup that does not stand on a destroyed record has     *)
(* ahead of it the record of every region that has been attached since it  *)
(* began.                                                                  *)
(***************************************************************************)
EXTENDS RegionMap, SequenceLemmas

Snapshots == UNION {[S -> Regions] : S \in SUBSET Blocks}

RegionMapTypeOK ==
  /\ _attached_regions \in Seq(Blocks)
  /\ _destroyed_attached_regions \in Seq(Blocks)
  /\ i_attached_regions \in Blocks \cup {Null}
  /\ region \in [Blocks -> Regions \cup {NoRegion}]
  /\ attached \in SUBSET Regions
  /\ pc \in {"idle", "purge", "publish", "done"}
  /\ lookup \in {"idle", "first", "test", "done", "wild", "fault"}
  /\ ar_info \in Blocks \cup {Null}
  /\ published \in Snapshots \cup {Null}
  /\ disturbed \in BOOLEAN
  /\ stray \in SUBSET [meant : Regions, hit : Regions]
  /\ IsInjective(_attached_regions)

\* The queue holds records of the list, each once.
QueueIsSound ==
  /\ IsInjective(_destroyed_attached_regions)
  /\ Queued \subseteq Records

RecordsHaveRegions == \A r \in Records : region[r] \in Regions

\* Before the first stray detach every attached region has one record.
RecordsAreTheAttached ==
  stray = {} =>
    /\ DetachDestroysItsRecord
    /\ \A q, r \in Recorded : region[q] = region[r] => q = r

\* What was attached after a region that is still attached lies beside it.
LaterRegionsAreApart ==
  stray = {} =>
    \A q, r \in Blocks :
      Before(_attached_regions, q, r) /\ r \in Recorded => Apart(region[r], region[q])

StraysHitNeighbours == \A c \in stray : c.hit.i_rel_addr + c.hit.i_size = c.meant.i_rel_addr

\* Only a call between purge and publication queues a record there.
UndisturbedIsPurged ==
  /\ disturbed => pc = "publish"
  /\ pc = "publish" /\ ~ disturbed => Queued = {}

SnapshotIsKept ==
  published # Null /\ pc \notin {"purge", "publish"} =>
    /\ i_attached_regions \in Records \cup {Null}
    /\ [r \in AheadOf(_attached_regions, i_attached_regions) |-> region[r]] = published

RecordInv ==
  /\ RegionMapTypeOK
  /\ QueueIsSound
  /\ RecordsHaveRegions
  /\ RecordsAreTheAttached
  /\ LaterRegionsAreApart
  /\ StraysHitNeighbours
  /\ UndisturbedIsPurged
  /\ SnapshotIsKept

\* The record of what has been attached at CapAddr since the lookup began is ahead of
\* it, unless it stands on a record that was destroyed.
SoughtIsAhead ==
  stray = {} /\ lookup = "test" /\ ar_info \in Records =>
    \A s \in sought :
      \E r \in Recorded \cap AheadOf(_attached_regions, ar_info) : region[r] = s

SoughtIsAttached ==
  /\ sought \subseteq attached
  /\ \A s \in sought : s.i_rel_addr <= CapAddr /\ CapAddr < s.i_rel_addr + s.i_size

LookupInv == RecordInv /\ SoughtIsAttached /\ SoughtIsAhead

-----------------------------------------------------------------------------
(* The operations on the list. *)

\* The walk of a reader or of the lookup, as a walk of the list.
LEMMA ListIsWalk ==
  /\ \A r : ListFrom(r) = SuffixFrom(_attached_regions, r)
  /\ \A r : NextOf(r) = NextIn(_attached_regions, r, Null)
<1>1. \A r : ListFrom(r) = SuffixFrom(_attached_regions, r)
  BY DEF ListFrom, Place, Records, SuffixFrom, IndexOf
<1>. QED
  BY <1>1 DEF NextOf, NextIn

\* A region takes space.
LEMMA RegionTypes ==
  ASSUME NEW s \in Regions
  PROVE  s.i_rel_addr \in Nat /\ s.i_size \in Nat /\ s.i_size > 0
<1>1. /\ s.i_rel_addr \in {2 * p : p \in 0 .. Pages - 1}
      /\ s.i_size \in {2 * p : p \in Sizes}
  BY DEF Regions
<1>2. PICK p \in 0 .. Pages - 1 : s.i_rel_addr = 2 * p
  BY <1>1
<1>3. PICK q \in Sizes : s.i_size = 2 * q
  BY <1>1
<1>4. p \in Nat /\ q \in Nat /\ q > 0
  BY RegionMapAssumption
<1>. QED
  BY <1>2, <1>3, <1>4

\* A region that covers the begin of another one, which lies beside it, ends there.
LEMMA CoveredFromBelow ==
  ASSUME NEW s \in Regions, NEW t \in Regions, Apart(s, t), Covers(t, s.i_rel_addr)
  PROVE  t.i_rel_addr + t.i_size = s.i_rel_addr /\ t # s
<1>1. /\ s.i_rel_addr \in Nat /\ s.i_size \in Nat /\ s.i_size > 0
      /\ t.i_rel_addr \in Nat /\ t.i_size \in Nat /\ t.i_size > 0
  BY RegionTypes
<1>. QED
  BY <1>1 DEF Apart, Covers

\* The record of an attached region is found by the region's address, or the record of a
\* region that ends there. (attached_region_info.h 72-77)
LEMMA DetachFinds ==
  ASSUME RecordInv, stray = {}, NEW s \in attached
  PROVE  \E r \in Recorded, found \in Records :
           /\ region[r] = s /\ find_by_addr(s.i_rel_addr) = found
           /\ \/ found = r
              \/ region[found].i_rel_addr + region[found].i_size = s.i_rel_addr /\ region[found] # s
<1> DEFINE addr == s.i_rel_addr
           T == {x \in Blocks : Covers(region[x], addr)}
           i == FirstOf(_attached_regions, T)
<1>0. PICK r \in Recorded : region[r] = s
  BY DEF RecordInv, RecordsAreTheAttached, DetachDestroysItsRecord
<1>1. /\ _attached_regions \in Seq(Blocks) /\ r \in ToSet(_attached_regions) /\ r \in Records
      /\ region[r] \in Regions
  BY <1>0 DEF RecordInv, RegionMapTypeOK, RecordsHaveRegions, Recorded, Records
<1>2. /\ Len(_attached_regions) \in Nat /\ r \in Blocks
      /\ \A j \in 1 .. Len(_attached_regions) :
           _attached_regions[j] \in Blocks /\ _attached_regions[j] \in Records
  BY <1>1, ListPlaces DEF Records
<1>3. Covers(region[r], addr)
  BY <1>0, <1>1, RegionTypes DEF Covers
<1>. HIDE DEF addr
<1>4. i = SelectInSeq(_attached_regions, LAMBDA x : Covers(region[x], addr))
  <2>1. \A j \in 1 .. Len(_attached_regions) :
          _attached_regions[j] \in T <=> Covers(region[_attached_regions[j]], addr)
    BY <1>2
  <2>. HIDE DEF T
  <2>2. {j \in 1 .. Len(_attached_regions) : _attached_regions[j] \in T}
          = {j \in 1 .. Len(_attached_regions) : Covers(region[_attached_regions[j]], addr)}
    BY <2>1
  <2>. QED
    BY <2>2 DEF FirstOf, SelectInSeq
<1>5. find_by_addr(addr) = IF i = 0 THEN Null ELSE _attached_regions[i]
  BY <1>4 DEF find_by_addr
<1>6. r \in ToSet(_attached_regions) \cap T
  BY <1>1, <1>2, <1>3
<1>7. /\ i \in 1 .. Len(_attached_regions)
      /\ _attached_regions[i] \in ToSet(_attached_regions) \cap T
      /\ r = _attached_regions[i] \/ Before(_attached_regions, _attached_regions[i], r)
  <2>. HIDE DEF T
  <2>. QED
    BY <1>1, <1>6, FirstOfIsFirst
<1>8. i # 0
  BY <1>2, <1>7
<1> DEFINE found == _attached_regions[i]
<1>9. /\ found \in Records /\ found \in Blocks /\ Covers(region[found], addr)
      /\ region[found] \in Regions
  BY <1>7 DEF RecordInv, RecordsHaveRegions, Records
<1>10. r = found \/ Before(_attached_regions, found, r)
  BY <1>7
<1>. HIDE DEF found, i, T
<1>11. CASE Before(_attached_regions, found, r)
  <2>1. Apart(region[r], region[found])
    BY <1>0, <1>2, <1>9, <1>11 DEF RecordInv, LaterRegionsAreApart
  <2>2. /\ region[found].i_rel_addr + region[found].i_size = s.i_rel_addr
        /\ region[found] # s
    BY <1>0, <1>1, <1>9, <2>1, CoveredFromBelow DEF addr
  <2>. QED
    BY <1>0, <1>5, <1>8, <1>9, <2>2 DEF addr, found
<1>. QED
  BY <1>0, <1>5, <1>8, <1>9, <1>10, <1>11 DEF addr, found

\* What a search by address finds is a record.
LEMMA FindFindsRecords ==
  ASSUME RecordInv, NEW addr
  PROVE  find_by_addr(addr) \in Records \cup {Null}
<1> DEFINE T == {j \in 1 .. Len(_attached_regions) : Covers(region[_attached_regions[j]], addr)}
           i == SelectInSeq(_attached_regions, LAMBDA r : Covers(region[r], addr))
<1>1. /\ Len(_attached_regions) \in Nat
      /\ \A j \in 1 .. Len(_attached_regions) : _attached_regions[j] \in Records
  BY ListPlaces DEF RecordInv, RegionMapTypeOK, Records
<1>2. i = IF T # {} THEN Min(T) ELSE 0
  BY DEF SelectInSeq
<1>3. i = 0 \/ i \in 1 .. Len(_attached_regions)
  <2>1. CASE T = {}
    BY <1>2, <2>1
  <2>2. CASE T # {}
    <3>1. T \in SUBSET Nat
      BY <1>1
    <3>2. T \subseteq 1 .. Len(_attached_regions)
      OBVIOUS
    <3>. HIDE DEF T
    <3>3. PICK x \in T : \A y \in T : x <= y
      BY <2>2, <3>1, NatHasLeast
    <3>4. Min(T) \in T
      BY <3>3 DEF Min
    <3>. QED
      BY <1>2, <2>2, <3>2, <3>4
  <2>. QED
    BY <2>1, <2>2
<1>4. find_by_addr(addr) = IF i = 0 THEN Null ELSE _attached_regions[i]
  BY DEF find_by_addr
<1>. HIDE DEF i
<1>. QED
  BY <1>1, <1>3, <1>4

\* A new record becomes the head of the list.
LEMMA AttachEffect ==
  ASSUME RecordInv, NEW r \in Blocks, NEW s \in Regions, Attach(r, s)
  PROVE  /\ _attached_regions' = <<r>> \o _attached_regions
         /\ _attached_regions' \in Seq(Blocks)
         /\ IsInjective(_attached_regions')
         /\ r \notin Records /\ r \notin Queued /\ r \in Recorded'
         /\ Records' = {r} \cup Records /\ Queued' = Queued
         /\ Recorded' = {r} \cup Recorded
         /\ region'[r] = s /\ \A q \in Records : region'[q] = region[q]
<1>1. /\ _attached_regions' = <<r>> \o _attached_regions /\ r \notin Records
      /\ region' = [region EXCEPT ![r] = s]
      /\ UNCHANGED _destroyed_attached_regions
  BY DEF Attach
<1>2. /\ _attached_regions' \in Seq(Blocks) /\ IsInjective(_attached_regions')
      /\ Records' = {r} \cup Records
  BY <1>1, ConsAtPlace, ConsOfInjective DEF RecordInv, RegionMapTypeOK, Records
<1>3. Queued' = Queued /\ r \notin Queued
  BY <1>1 DEF Queued, RecordInv, QueueIsSound
<1>4. Recorded' = {r} \cup Recorded
  BY <1>1, <1>2, <1>3 DEF Recorded
<1>5. region'[r] = s /\ \A q \in Records : region'[q] = region[q]
  BY <1>1 DEF RecordInv, RegionMapTypeOK
<1>. QED
  BY <1>1, <1>2, <1>3, <1>4, <1>5

\* A detach queues a record of the list, and leaves the queue sound.
LEMMA DetachQueues ==
  ASSUME RecordInv, NEW s \in Regions, Detach(s)
  PROVE  /\ _destroyed_attached_regions' \in Seq(Blocks)
         /\ IsInjective(_destroyed_attached_regions')
         /\ Queued' \subseteq Records
         /\ s \in attached /\ attached' = attached \ {s}
         /\ UNCHANGED <<_attached_regions, i_attached_regions, region, pc, lookup, ar_info,
                        published>>
<1> DEFINE found == find_by_addr(s.i_rel_addr)
           queue == _destroyed_attached_regions
<1>1. /\ _destroyed_attached_regions' = IF found = Null THEN queue ELSE enqueue(queue, found)
      /\ s \in attached /\ attached' = attached \ {s}
      /\ UNCHANGED <<_attached_regions, i_attached_regions, region, pc, lookup, ar_info, published>>
  BY DEF Detach, lookupVars
<1>2. found \in Records \cup {Null}
  BY FindFindsRecords
<1>3. Records \subseteq Blocks /\ queue \in Seq(Blocks) /\ IsInjective(queue)
  BY ListPlaces DEF RecordInv, RegionMapTypeOK, QueueIsSound, Records
<1>. HIDE DEF found
<1>4. CASE found = Null
  BY <1>1, <1>3, <1>4 DEF RecordInv, QueueIsSound, Queued
<1>5. CASE found # Null
  <2>1. found \in Records /\ found \in Blocks
    BY <1>2, <1>3, <1>5
  <2>2. /\ enqueue(queue, found) \in Seq(Blocks)
        /\ IsInjective(enqueue(queue, found))
        /\ ToSet(enqueue(queue, found)) \subseteq ToSet(queue) \cup {found}
    BY <1>3, <2>1, EnqueueOfInjective
  <2>3. Queued' = ToSet(enqueue(queue, found))
    BY <1>1, <1>5 DEF Queued
  <2>4. ToSet(queue) \subseteq Records
    BY DEF RecordInv, QueueIsSound, Queued
  <2>. QED
    BY <1>1, <1>5, <2>1, <2>2, <2>3, <2>4
<1>. QED
  BY <1>4, <1>5

\* Until the first stray it queues the record of the region, or it is the first stray,
\* which hits a neighbour.
LEMMA DetachStrays ==
  ASSUME RecordInv, NEW s \in Regions, Detach(s)
  PROVE  /\ stray' \in SUBSET [meant : Regions, hit : Regions]
         /\ \A c \in stray' : c.hit.i_rel_addr + c.hit.i_size = c.meant.i_rel_addr
         /\ stray' = {} =>
              /\ stray = {}
              /\ \E r \in Recorded : region[r] = s /\ Recorded' = Recorded \ {r}
<1> DEFINE found == find_by_addr(s.i_rel_addr)
<1>1. stray' = IF stray = {} /\ found # Null /\ region[found] # s
               THEN {[meant |-> s, hit |-> region[found]]} ELSE stray
  BY DEF Detach
<1>2. _destroyed_attached_regions' =
        IF found = Null THEN _destroyed_attached_regions
                        ELSE enqueue(_destroyed_attached_regions, found)
  BY DEF Detach
<1>. HIDE DEF found
<1>3. CASE stray # {}
  BY <1>1, <1>3 DEF RecordInv, RegionMapTypeOK, StraysHitNeighbours
<1>4. CASE stray = {}
  <2>0. s \in attached
    BY DEF Detach
  <2>1. PICK r \in Recorded, f \in Records :
          /\ region[r] = s /\ found = f
          /\ \/ f = r
             \/ region[f].i_rel_addr + region[f].i_size = s.i_rel_addr /\ region[f] # s
    BY <1>4, <2>0, DetachFinds DEF found
  <2>2. /\ found # Null /\ found \in Records /\ found \in Blocks /\ region[found] \in Regions
    BY <2>1, ListPlaces, RegionMapAssumption
    DEF RecordInv, RegionMapTypeOK, RecordsHaveRegions, Records
  <2>3. CASE f = r
    <3>1. stray' = {}
      BY <1>1, <1>4, <2>1, <2>3
    <3>2. _destroyed_attached_regions \in Seq(Blocks) /\ IsInjective(_destroyed_attached_regions)
      BY DEF RecordInv, RegionMapTypeOK, QueueIsSound
    <3>3. r \notin ToSet(_destroyed_attached_regions) /\ r \in Blocks /\ r \in Records
      BY <2>1, <2>2, <2>3 DEF Recorded, Queued
    <3>4. Queued' = Queued \cup {r}
      BY <1>2, <2>1, <2>2, <2>3, <3>2, <3>3, EnqueueOfInjective DEF Queued
    <3>5. Records' = Records
      BY DEF Detach, Records
    <3>6. Recorded' = Recorded \ {r}
      BY <3>4, <3>5 DEF Recorded
    <3>. QED
      BY <1>4, <2>1, <3>1, <3>6
  <2>4. CASE f # r
    <3>1. stray' = {[meant |-> s, hit |-> region[found]]}
      BY <1>1, <1>4, <2>1, <2>2, <2>4
    <3>2. region[found].i_rel_addr + region[found].i_size = s.i_rel_addr
      BY <2>1, <2>4
    <3> DEFINE c == [meant |-> s, hit |-> region[found]]
    <3>3. c \in [meant : Regions, hit : Regions]
      BY <2>2
    <3>4. c.hit = region[found] /\ c.meant = s
      OBVIOUS
    <3>5. c.hit.i_rel_addr + c.hit.i_size = c.meant.i_rel_addr
      BY <3>2, <3>4
    <3>6. stray' = {c}
      BY <3>1
    <3>. HIDE DEF c
    <3>. QED
      BY <3>3, <3>5, <3>6
  <2>. QED
    BY <2>3, <2>4
<1>. QED
  BY <1>3, <1>4

\* The purge takes the head of the queue out of the list.
LEMMA DestroyEffect ==
  ASSUME RecordInv, DestroyRegion
  PROVE  \E r \in Queued :
           /\ r \in Records /\ r \in Blocks
           /\ _attached_regions' = RemoveFirst(_attached_regions, r)
           /\ _attached_regions' \in Seq(Blocks) /\ IsInjective(_attached_regions')
           /\ _destroyed_attached_regions' \in Seq(Blocks)
           /\ IsInjective(_destroyed_attached_regions')
           /\ Records' = Records \ {r} /\ Queued' = Queued \ {r} /\ Recorded' = Recorded
           /\ \A x, y \in Blocks :
                Before(_attached_regions', x, y) => Before(_attached_regions, x, y)
           /\ region' = [region EXCEPT ![r] = NoRegion]
           /\ pc = "purge"
           /\ UNCHANGED <<i_attached_regions, attached, pc, lookup, ar_info, published, disturbed,
                          stray, sought>>
<1> DEFINE r == Head(_destroyed_attached_regions)
           list == _attached_regions
<1>1. /\ _destroyed_attached_regions \in Seq(Blocks) /\ IsInjective(_destroyed_attached_regions)
      /\ _destroyed_attached_regions # <<>>
      /\ list \in Seq(Blocks) /\ IsInjective(list)
  BY DEF RecordInv, RegionMapTypeOK, QueueIsSound, DestroyRegion
<1>2. /\ r \in Queued
      /\ Tail(_destroyed_attached_regions) \in Seq(Blocks)
      /\ IsInjective(Tail(_destroyed_attached_regions))
      /\ ToSet(Tail(_destroyed_attached_regions)) = Queued \ {r}
  BY <1>1, TailOfInjective DEF Queued
<1>3. /\ _attached_regions' = RemoveFirst(list, r)
      /\ _destroyed_attached_regions' = Tail(_destroyed_attached_regions)
      /\ region' = [region EXCEPT ![r] = NoRegion]
      /\ pc = "purge"
      /\ UNCHANGED <<i_attached_regions, attached, pc, lookup, ar_info, published, disturbed,
                     stray, sought>>
  BY DEF DestroyRegion, lookupVars, historyVars
<1>. HIDE DEF r
<1>4. r \in ToSet(list) /\ r \in Blocks
  <2>1. r \in ToSet(list)
    BY <1>2 DEF RecordInv, QueueIsSound, Records
  <2>. QED
    BY <1>1, <2>1, ListPlaces
<1>5. /\ IsInjective(RemoveFirst(list, r))
      /\ ToSet(RemoveFirst(list, r)) = ToSet(list) \ {r}
      /\ RemoveFirst(list, r) \in Seq(Blocks)
  <2>1. IndexOf(list, r) \in DOMAIN list /\ RemoveFirst(list, r) = RemoveAt(list, IndexOf(list, r))
    BY <1>1, <1>4, RemoveFirstAtPlace
  <2>. QED
    BY <1>1, <1>4, <2>1, RemoveFirstAtPlace, RemoveAtPlace
<1>6. \A x, y \in Blocks : Before(RemoveFirst(list, r), x, y) => Before(list, x, y)
  BY <1>1, <1>4, BeforeOfRemove
<1>7. Records' = Records \ {r} /\ Queued' = Queued \ {r}
  BY <1>2, <1>3, <1>5 DEF Records, Queued
<1>8. Recorded' = Recorded
  BY <1>2, <1>7 DEF Recorded
<1>. QED
  BY <1>2, <1>3, <1>4, <1>5, <1>6, <1>7, <1>8 DEF Records

-----------------------------------------------------------------------------
(* The records. *)

LEMMA RecordInvInit == Init => RecordInv
<1>. SUFFICES ASSUME Init PROVE RecordInv
  OBVIOUS
<1>1. Records = {} /\ Queued = {} /\ Recorded = {}
  BY DEF Init, Records, Queued, Recorded, ToSet
<1>2. IsInjective(_attached_regions) /\ IsInjective(_destroyed_attached_regions)
  BY DEF Init, IsInjective
<1>3. RegionMapTypeOK
  <2>1. region \in [Blocks -> Regions \cup {NoRegion}]
    BY DEF Init
  <2>2. attached \in SUBSET Regions /\ stray \in SUBSET [meant : Regions, hit : Regions]
    BY DEF Init
  <2>3. /\ _attached_regions \in Seq(Blocks) /\ _destroyed_attached_regions \in Seq(Blocks)
        /\ i_attached_regions \in Blocks \cup {Null} /\ ar_info = Null /\ published = Null
        /\ pc = "idle" /\ lookup = "idle"
    BY DEF Init
  <2>4. disturbed \in BOOLEAN
    BY DEF Init
  <2>. QED
    BY <1>2, <2>1, <2>2, <2>3, <2>4 DEF RegionMapTypeOK
<1>4. QueueIsSound /\ RecordsHaveRegions
  BY <1>1, <1>2 DEF QueueIsSound, RecordsHaveRegions
<1>5. RecordsAreTheAttached
  BY <1>1 DEF Init, RecordsAreTheAttached, DetachDestroysItsRecord
<1>6. LaterRegionsAreApart /\ StraysHitNeighbours /\ UndisturbedIsPurged /\ SnapshotIsKept
  BY <1>1 DEF Init, LaterRegionsAreApart, StraysHitNeighbours, UndisturbedIsPurged, SnapshotIsKept
<1>. QED
  BY <1>3, <1>4, <1>5, <1>6 DEF RecordInv

LEMMA AttachKeepsRecordInv ==
  ASSUME RecordInv, NEW r \in Blocks, NEW s \in Regions, Attach(r, s)
  PROVE  RecordInv'
<1>0. /\ region' = [region EXCEPT ![r] = s]
      /\ attached' = attached \cup {s}
      /\ \A t \in attached : Apart(t, s)
      /\ disturbed' = (disturbed \/ pc = "publish")
      /\ UNCHANGED <<_destroyed_attached_regions, i_attached_regions, pc, lookup, ar_info,
                     published, stray>>
  BY DEF Attach, ChildDisturbs, lookupVars
<1>1. /\ _attached_regions' = <<r>> \o _attached_regions
      /\ _attached_regions' \in Seq(Blocks)
      /\ IsInjective(_attached_regions')
      /\ r \notin Records /\ r \notin Queued /\ r \in Recorded'
      /\ Records' = {r} \cup Records /\ Queued' = Queued
      /\ Recorded' = {r} \cup Recorded
      /\ region'[r] = s /\ \A q \in Records : region'[q] = region[q]
  BY AttachEffect
<1>2. Recorded \subseteq Records
  BY DEF Recorded
<1>3. RegionMapTypeOK'
  <2>1. disturbed' \in BOOLEAN
    BY <1>0
  <2>. QED
    BY <1>0, <1>1, <2>1 DEF RecordInv, RegionMapTypeOK
<1>4. QueueIsSound' /\ StraysHitNeighbours'
  BY <1>0, <1>1 DEF RecordInv, QueueIsSound, StraysHitNeighbours
<1>5. RecordsHaveRegions'
  BY <1>1 DEF RecordInv, RecordsHaveRegions
<1>6. RecordsAreTheAttached'
  <2>. SUFFICES ASSUME stray = {}
                PROVE  /\ attached' = {region'[q] : q \in Recorded'}
                       /\ \A q, x \in Recorded' : region'[q] = region'[x] => q = x
    BY <1>0 DEF RecordsAreTheAttached, DetachDestroysItsRecord
  <2>1. /\ attached = {region[q] : q \in Recorded}
        /\ \A q, x \in Recorded : region[q] = region[x] => q = x
    BY DEF RecordInv, RecordsAreTheAttached, DetachDestroysItsRecord
  <2>2. {region'[q] : q \in Recorded'} = {region[q] : q \in Recorded} \cup {s}
    BY <1>1, <1>2
  <2>3. s \notin attached
    <3>1. s.i_rel_addr \in Nat /\ s.i_size \in Nat /\ s.i_size > 0
      BY RegionTypes
    <3>2. ~ Apart(s, s)
      BY <3>1 DEF Apart
    <3>. QED
      BY <1>0, <3>2
  <2>4. \A q \in Recorded : region[q] # s
    BY <2>1, <2>3
  <2>. QED
    BY <1>0, <1>1, <1>2, <2>1, <2>2, <2>4
<1>7. LaterRegionsAreApart'
  <2>. SUFFICES ASSUME stray = {}, NEW q \in Blocks, NEW x \in Blocks,
                       Before(_attached_regions', q, x), x \in Recorded'
                PROVE  Apart(region'[x], region'[q])
    BY <1>0 DEF LaterRegionsAreApart, Apart
  <2>1. (q = r /\ x \in Records) \/ Before(_attached_regions, q, x)
    BY <1>1, BeforeOfCons DEF RecordInv, RegionMapTypeOK, Records
  <2>2. CASE q = r /\ x \in Records
    <3>1. x \in Recorded
      BY <1>1, <2>2
    <3>2. region[x] \in attached
      BY <3>1 DEF RecordInv, RecordsAreTheAttached, DetachDestroysItsRecord
    <3>. QED
      BY <1>0, <1>1, <2>2, <3>2
  <2>3. CASE Before(_attached_regions, q, x)
    <3>1. q \in Records /\ x \in Records
      BY <2>3 DEF Before, Records, ToSet
    <3>2. x \in Recorded
      BY <1>1, <3>1
    <3>3. Apart(region[x], region[q])
      BY <2>3, <3>2 DEF RecordInv, LaterRegionsAreApart
    <3>. QED
      BY <1>1, <3>1, <3>3
  <2>. QED
    BY <2>1, <2>2, <2>3
<1>8. UndisturbedIsPurged'
  BY <1>0, <1>1 DEF RecordInv, UndisturbedIsPurged
<1>9. SnapshotIsKept'
  <2>. SUFFICES ASSUME published # Null, pc \notin {"purge", "publish"}
                PROVE  /\ i_attached_regions \in Records' \cup {Null}
                       /\ [q \in AheadOf(_attached_regions', i_attached_regions) |-> region'[q]]
                            = published
    BY <1>0 DEF SnapshotIsKept
  <2>1. /\ i_attached_regions \in Records \cup {Null}
        /\ [q \in AheadOf(_attached_regions, i_attached_regions) |-> region[q]] = published
    BY DEF RecordInv, SnapshotIsKept
  <2>2. i_attached_regions # r
    BY <1>1, <2>1, RegionMapAssumption
  <2>3. /\ _attached_regions \in Seq(Blocks) /\ IsInjective(_attached_regions)
        /\ IsInjective(<<r>> \o _attached_regions)
    BY <1>1 DEF RecordInv, RegionMapTypeOK
  <2>4. AheadOf(_attached_regions', i_attached_regions)
          = AheadOf(_attached_regions, i_attached_regions)
    BY <1>1, <2>2, <2>3, SuffixOfCons DEF AheadOf
  <2>5. AheadOf(_attached_regions, i_attached_regions) \subseteq Records
    <3>1. CASE i_attached_regions \in Records
      BY <2>3, <3>1, WalkSteps, RegionMapAssumption DEF Records
    <3>2. CASE i_attached_regions \notin Records
      BY <3>2 DEF AheadOf, SuffixFrom, Records, ToSet
    <3>. QED
      BY <3>1, <3>2
  <2>. QED
    BY <1>1, <2>1, <2>4, <2>5
<1>. QED
  BY <1>3, <1>4, <1>5, <1>6, <1>7, <1>8, <1>9 DEF RecordInv

LEMMA DetachKeepsRecordInv ==
  ASSUME RecordInv, NEW s \in Regions, Detach(s)
  PROVE  RecordInv'
<1>1. /\ _destroyed_attached_regions' \in Seq(Blocks)
      /\ IsInjective(_destroyed_attached_regions')
      /\ Queued' \subseteq Records
      /\ s \in attached /\ attached' = attached \ {s}
      /\ UNCHANGED <<_attached_regions, i_attached_regions, region, pc, lookup, ar_info, published>>
  BY DetachQueues
<1>2. /\ stray' \in SUBSET [meant : Regions, hit : Regions]
      /\ \A c \in stray' : c.hit.i_rel_addr + c.hit.i_size = c.meant.i_rel_addr
      /\ stray' = {} =>
           /\ stray = {}
           /\ \E r \in Recorded : region[r] = s /\ Recorded' = Recorded \ {r}
  BY DetachStrays
<1>3. Records' = Records /\ disturbed' = (disturbed \/ pc = "publish")
  BY <1>1 DEF Records, Detach, ChildDisturbs
<1>4. RegionMapTypeOK'
  <2>1. disturbed' \in BOOLEAN
    BY <1>3
  <2>. QED
    BY <1>1, <1>2, <2>1 DEF RecordInv, RegionMapTypeOK
<1>5. QueueIsSound' /\ RecordsHaveRegions' /\ StraysHitNeighbours'
  BY <1>1, <1>2, <1>3 DEF RecordInv, QueueIsSound, RecordsHaveRegions, StraysHitNeighbours
<1>6. RecordsAreTheAttached'
  <2>. SUFFICES ASSUME stray' = {}
                PROVE  /\ attached' = {region[q] : q \in Recorded'}
                       /\ \A q, x \in Recorded' : region[q] = region[x] => q = x
    BY <1>1 DEF RecordsAreTheAttached, DetachDestroysItsRecord
  <2>1. PICK r \in Recorded : region[r] = s /\ Recorded' = Recorded \ {r}
    BY <1>2
  <2>2. /\ attached = {region[q] : q \in Recorded}
        /\ \A q, x \in Recorded : region[q] = region[x] => q = x
    BY <1>2 DEF RecordInv, RecordsAreTheAttached, DetachDestroysItsRecord
  <2>3. \A q \in Recorded : region[q] # s <=> q \in Recorded'
    BY <2>1, <2>2
  <2>. QED
    BY <1>1, <2>1, <2>2, <2>3
<1>7. LaterRegionsAreApart'
  <2>1. stray' = {} => stray = {} /\ Recorded' \subseteq Recorded
    BY <1>2
  <2>. QED
    BY <1>1, <2>1 DEF RecordInv, LaterRegionsAreApart, Apart
<1>8. UndisturbedIsPurged'
  BY <1>1, <1>3 DEF RecordInv, UndisturbedIsPurged
<1>9. SnapshotIsKept'
  BY <1>1, <1>3 DEF RecordInv, SnapshotIsKept
<1>. QED
  BY <1>4, <1>5, <1>6, <1>7, <1>8, <1>9 DEF RecordInv

LEMMA DestroyKeepsRecordInv ==
  ASSUME RecordInv, DestroyRegion
  PROVE  RecordInv'
<1>1. PICK r \in Queued :
        /\ r \in Records /\ r \in Blocks
        /\ _attached_regions' \in Seq(Blocks) /\ IsInjective(_attached_regions')
        /\ _destroyed_attached_regions' \in Seq(Blocks)
        /\ IsInjective(_destroyed_attached_regions')
        /\ Records' = Records \ {r} /\ Queued' = Queued \ {r} /\ Recorded' = Recorded
        /\ \A x, y \in Blocks :
             Before(_attached_regions', x, y) => Before(_attached_regions, x, y)
        /\ region' = [region EXCEPT ![r] = NoRegion]
        /\ pc = "purge"
        /\ UNCHANGED <<i_attached_regions, attached, pc, lookup, ar_info, published, disturbed,
                       stray, sought>>
  BY DestroyEffect
<1>2. Records \subseteq Blocks /\ Recorded \subseteq Records'
  BY <1>1, ListPlaces DEF RecordInv, RegionMapTypeOK, Records, Recorded
<1>3. \A q \in Records' : region'[q] = region[q]
  BY <1>1, <1>2 DEF RecordInv, RegionMapTypeOK
<1>4. RegionMapTypeOK'
  BY <1>1 DEF RecordInv, RegionMapTypeOK
<1>5. QueueIsSound' /\ StraysHitNeighbours' /\ UndisturbedIsPurged' /\ SnapshotIsKept'
  BY <1>1 DEF RecordInv, QueueIsSound, StraysHitNeighbours, UndisturbedIsPurged, SnapshotIsKept
<1>6. RecordsHaveRegions'
  BY <1>1, <1>3 DEF RecordInv, RecordsHaveRegions
<1>7. RecordsAreTheAttached'
  <2>1. \A q \in Recorded : region'[q] = region[q]
    BY <1>2, <1>3
  <2>2. {region'[q] : q \in Recorded} = {region[q] : q \in Recorded}
    BY <2>1
  <2>. QED
    BY <1>1, <2>1, <2>2 DEF RecordInv, RecordsAreTheAttached, DetachDestroysItsRecord
<1>8. LaterRegionsAreApart'
  <2>. SUFFICES ASSUME stray = {}, NEW q \in Blocks, NEW x \in Blocks,
                       Before(_attached_regions', q, x), x \in Recorded
                PROVE  Apart(region'[x], region'[q])
    BY <1>1 DEF LaterRegionsAreApart, Apart
  <2>1. Apart(region[x], region[q])
    BY <1>1 DEF RecordInv, LaterRegionsAreApart
  <2>2. q \in Records' /\ x \in Records'
    BY DEF Before, Records, ToSet
  <2>. QED
    BY <1>3, <2>1, <2>2
<1>. QED
  BY <1>4, <1>5, <1>6, <1>7, <1>8 DEF RecordInv

\* The pointer moves to the head of the list.
LEMMA PublishTakes ==
  ASSUME RecordInv
  PROVE  /\ First \in Records \cup {Null}
         /\ AheadOf(_attached_regions, First) = Records
<1>1. _attached_regions \in Seq(Blocks) /\ IsInjective(_attached_regions)
  BY DEF RecordInv, RegionMapTypeOK
<1>2. CASE _attached_regions = <<>>
  <2>1. Records = {} /\ First = Null
    BY <1>1, <1>2, ListPlaces DEF Records, First
  <2>2. AheadOf(_attached_regions, Null) = {}
    BY <1>2, <2>1 DEF AheadOf, SuffixFrom, Records, ToSet
  <2>. QED
    BY <2>1, <2>2
<1>3. CASE _attached_regions # <<>>
  BY <1>1, <1>3, WalkStarts DEF First, Records
<1>. QED
  BY <1>2, <1>3

\* What a set of records says is a state of Snapshot, and not the null pointer.
LEMMA MemoryIsSnapshot ==
  ASSUME RecordInv, NEW R \in SUBSET Records
  PROVE  [r \in R |-> region[r]] \in Snapshots /\ [r \in R |-> region[r]] # Null
<1>1. R \in SUBSET Blocks /\ \A r \in R : region[r] \in Regions
  BY ListPlaces DEF RecordInv, RegionMapTypeOK, RecordsHaveRegions, Records
<1>2. [r \in R |-> region[r]] \in [R -> Regions]
  BY <1>1
<1>. QED
  BY <1>1, <1>2, NullAssumption DEF Snapshots

LEMMA PublishKeepsRecordInv ==
  ASSUME RecordInv, Publish
  PROVE  RecordInv'
<1>1. /\ i_attached_regions' = First /\ published' = [r \in Records |-> region[r]]
      /\ pc' = "done" /\ disturbed' = FALSE
      /\ UNCHANGED <<_attached_regions, _destroyed_attached_regions, region, attached, lookup,
                     ar_info, stray>>
  BY DEF Publish, lookupVars
<1>2. First \in Records \cup {Null} /\ AheadOf(_attached_regions, First) = Records
  BY PublishTakes
<1>3. published' \in Snapshots
  BY <1>1, MemoryIsSnapshot
<1>4. Records \subseteq Blocks /\ Records' = Records /\ Queued' = Queued /\ Recorded' = Recorded
  BY <1>1, ListPlaces DEF RecordInv, RegionMapTypeOK, Records, Queued, Recorded
<1>5. RegionMapTypeOK'
  BY <1>1, <1>2, <1>3, <1>4 DEF RecordInv, RegionMapTypeOK
<1>6. QueueIsSound' /\ RecordsHaveRegions' /\ StraysHitNeighbours' /\ UndisturbedIsPurged'
  BY <1>1, <1>4
  DEF RecordInv, QueueIsSound, RecordsHaveRegions, StraysHitNeighbours, UndisturbedIsPurged
<1>7. RecordsAreTheAttached'
  BY <1>1, <1>4 DEF RecordInv, RecordsAreTheAttached, DetachDestroysItsRecord
<1>8. LaterRegionsAreApart'
  BY <1>1, <1>4 DEF RecordInv, LaterRegionsAreApart, Apart
<1>9. SnapshotIsKept'
  BY <1>1, <1>2, <1>4 DEF SnapshotIsKept
<1>. QED
  BY <1>5, <1>6, <1>7, <1>8, <1>9 DEF RecordInv

\* The lookup goes from record to record.
LEMMA NextIsRecord ==
  ASSUME RecordInv, NEW r \in Records
  PROVE  /\ r \in AheadOf(_attached_regions, r)
         /\ AheadOf(_attached_regions, r) \subseteq Records
         /\ NextOf(r) = Null => AheadOf(_attached_regions, r) = {r}
         /\ NextOf(r) # Null =>
              /\ NextOf(r) \in Records
              /\ AheadOf(_attached_regions, NextOf(r)) = AheadOf(_attached_regions, r) \ {r}
BY ListIsWalk, WalkSteps, RegionMapAssumption DEF RecordInv, RegionMapTypeOK, Records

LEMMA OtherStepsKeepRecordInv ==
  ASSUME RecordInv, Begin \/ End \/ Purged \/ find_attached_region_by_addr \/ UNCHANGED vars
  PROVE  RecordInv'
<1>1. /\ UNCHANGED <<_attached_regions, _destroyed_attached_regions, i_attached_regions,
                     region, attached, published, disturbed, stray>>
      /\ pc' # pc => \/ pc = "idle" /\ pc' = "purge"
                     \/ pc = "purge" /\ pc' = "publish" /\ _destroyed_attached_regions = <<>>
                     \/ pc = "done" /\ pc' = "idle"
  BY DEF Begin, End, Purged, find_attached_region_by_addr, LookupFirst, LookupNext, LookupDangles,
         vars, listVars, lookupVars, historyVars
<1>2. /\ lookup' \in {"idle", "first", "test", "done", "wild", "fault"}
      /\ ar_info' \in Blocks \cup {Null}
  <2>1. Records \subseteq Blocks
    BY ListPlaces DEF RecordInv, RegionMapTypeOK, Records
  <2>2. CASE Begin \/ End \/ Purged \/ UNCHANGED vars
    BY <2>2 DEF Begin, End, Purged, vars, lookupVars, RecordInv, RegionMapTypeOK
  <2>3. CASE LookupFirst
    BY <2>1, <2>3, PublishTakes DEF LookupFirst
  <2>4. CASE LookupNext
    BY <2>1, <2>4, NextIsRecord DEF LookupNext, RecordInv, RegionMapTypeOK
  <2>5. CASE LookupDangles
    BY <2>5 DEF LookupDangles, RecordInv, RegionMapTypeOK
  <2>. QED
    BY <2>2, <2>3, <2>4, <2>5 DEF find_attached_region_by_addr
<1>3. Records' = Records /\ Queued' = Queued /\ Recorded' = Recorded
  BY <1>1 DEF Records, Queued, Recorded
<1>4. RegionMapTypeOK'
  BY <1>1, <1>2 DEF RecordInv, RegionMapTypeOK
<1>5. QueueIsSound' /\ RecordsHaveRegions' /\ StraysHitNeighbours'
  BY <1>1, <1>3 DEF RecordInv, QueueIsSound, RecordsHaveRegions, StraysHitNeighbours
<1>6. RecordsAreTheAttached'
  BY <1>1, <1>3 DEF RecordInv, RecordsAreTheAttached, DetachDestroysItsRecord
<1>7. LaterRegionsAreApart'
  BY <1>1, <1>3 DEF RecordInv, LaterRegionsAreApart, Apart
<1>8. UndisturbedIsPurged'
  <2>1. _destroyed_attached_regions = <<>> => Queued = {}
    BY DEF Queued, ToSet
  <2>. QED
    BY <1>1, <1>3, <2>1 DEF RecordInv, UndisturbedIsPurged
<1>9. SnapshotIsKept'
  BY <1>1, <1>3 DEF RecordInv, SnapshotIsKept
<1>. QED
  BY <1>4, <1>5, <1>6, <1>7, <1>8, <1>9 DEF RecordInv

LEMMA RecordInvStep ==
  ASSUME RecordInv, [Next]_vars
  PROVE  RecordInv'
BY AttachKeepsRecordInv, DetachKeepsRecordInv, DestroyKeepsRecordInv, PublishKeepsRecordInv,
   OtherStepsKeepRecordInv
DEF Next, checkpoint

-----------------------------------------------------------------------------
(* The lookup of the capability mapping, with the purge beside it. *)

LEMMA LookupInvInit == Init => LookupInv
BY RecordInvInit DEF Init, LookupInv, SoughtIsAttached, SoughtIsAhead

LEMMA AttachKeepsLookupInv ==
  ASSUME LookupInv, NEW r \in Blocks, NEW s \in Regions, Attach(r, s)
  PROVE  SoughtIsAttached' /\ SoughtIsAhead'
<1>0. RecordInv /\ RecordInv'
  BY AttachKeepsRecordInv DEF LookupInv
<1>1. /\ _attached_regions' = <<r>> \o _attached_regions
      /\ IsInjective(_attached_regions')
      /\ r \notin Records
      /\ Records' = {r} \cup Records
      /\ Recorded' = {r} \cup Recorded
      /\ \A q \in Records : region'[q] = region[q]
  BY <1>0, AttachEffect
<1>2. attached' = attached \cup {s} /\ UNCHANGED <<lookup, ar_info, stray, sought>>
  BY DEF Attach, lookupVars
<1>3. SoughtIsAttached'
  BY <1>2 DEF LookupInv, SoughtIsAttached
<1>4. SoughtIsAhead'
  <2>. SUFFICES ASSUME stray = {}, lookup = "test", ar_info \in Records', NEW t \in sought
                PROVE  \E x \in Recorded' \cap AheadOf(_attached_regions', ar_info) :
                         region'[x] = t
    BY <1>2 DEF SoughtIsAhead
  <2>1. _attached_regions \in Seq(Blocks) /\ IsInjective(_attached_regions)
    BY <1>0 DEF RecordInv, RegionMapTypeOK
  <2>2. CASE ar_info = r
    <3>1. PICK x \in Recorded : region[x] = t
      BY <1>0 DEF LookupInv, SoughtIsAttached, RecordInv, RecordsAreTheAttached,
                  DetachDestroysItsRecord
    <3>2. x \in Records /\ region'[x] = t
      BY <1>1, <3>1 DEF Recorded
    <3>3. AheadOf(_attached_regions', r) = Records'
      <4>1. /\ _attached_regions' \in Seq(Blocks) /\ _attached_regions' # <<>>
            /\ Head(_attached_regions') = r
        BY <1>1, <2>1, ConsAtPlace
      <4>. QED
        BY <1>1, <4>1, WalkStarts DEF Records
    <3>. QED
      BY <1>1, <2>2, <3>1, <3>2, <3>3
  <2>3. CASE ar_info # r
    <3>1. ar_info \in Records
      BY <1>1, <2>3
    <3>2. PICK x \in Recorded \cap AheadOf(_attached_regions, ar_info) : region[x] = t
      BY <3>1 DEF LookupInv, SoughtIsAhead
    <3>3. AheadOf(_attached_regions', ar_info) = AheadOf(_attached_regions, ar_info)
      BY <1>1, <2>1, <2>3, SuffixOfCons DEF AheadOf
    <3>4. x \in Records
      BY <3>2 DEF Recorded
    <3>. QED
      BY <1>1, <3>2, <3>3, <3>4
  <2>. QED
    BY <2>2, <2>3
<1>. QED
  BY <1>3, <1>4

LEMMA DetachKeepsLookupInv ==
  ASSUME LookupInv, NEW s \in Regions, Detach(s)
  PROVE  SoughtIsAttached' /\ SoughtIsAhead'
<1>0. RecordInv
  BY DEF LookupInv
<1>1. /\ attached' = attached \ {s} /\ sought' = sought \ {s}
      /\ UNCHANGED <<_attached_regions, region, lookup, ar_info>>
  BY DEF Detach, lookupVars
<1>2. stray' = {} =>
        /\ stray = {}
        /\ \E r \in Recorded : region[r] = s /\ Recorded' = Recorded \ {r}
  BY <1>0, DetachStrays
<1>3. SoughtIsAttached'
  BY <1>1 DEF LookupInv, SoughtIsAttached
<1>4. SoughtIsAhead'
  <2>. SUFFICES ASSUME stray' = {}, lookup = "test", ar_info \in Records,
                       NEW t \in sought \ {s}
                PROVE  \E x \in Recorded' \cap AheadOf(_attached_regions, ar_info) :
                         region[x] = t
    BY <1>1 DEF SoughtIsAhead, Records
  <2>1. PICK x \in Recorded \cap AheadOf(_attached_regions, ar_info) : region[x] = t
    BY <1>2 DEF LookupInv, SoughtIsAhead
  <2>. QED
    BY <1>2, <2>1
<1>. QED
  BY <1>3, <1>4

LEMMA DestroyKeepsLookupInv ==
  ASSUME LookupInv, DestroyRegion
  PROVE  SoughtIsAttached' /\ SoughtIsAhead'
<1>0. RecordInv
  BY DEF LookupInv
<1>1. PICK r \in Queued :
        /\ r \in Records
        /\ _attached_regions' = RemoveFirst(_attached_regions, r)
        /\ Records' = Records \ {r} /\ Recorded' = Recorded
        /\ region' = [region EXCEPT ![r] = NoRegion]
        /\ UNCHANGED <<attached, lookup, ar_info, stray, sought>>
  BY <1>0, DestroyEffect
<1>2. SoughtIsAttached'
  BY <1>1 DEF LookupInv, SoughtIsAttached
<1>3. SoughtIsAhead'
  <2>. SUFFICES ASSUME stray = {}, lookup = "test", ar_info \in Records', NEW t \in sought
                PROVE  \E x \in Recorded \cap AheadOf(_attached_regions', ar_info) :
                         region'[x] = t
    BY <1>1 DEF SoughtIsAhead
  <2>1. ar_info \in Records /\ ar_info # r
    BY <1>1
  <2>2. PICK x \in Recorded \cap AheadOf(_attached_regions, ar_info) : region[x] = t
    BY <2>1 DEF LookupInv, SoughtIsAhead
  <2>3. _attached_regions \in Seq(Blocks) /\ IsInjective(_attached_regions)
    BY <1>0 DEF RecordInv, RegionMapTypeOK
  <2>4. AheadOf(_attached_regions, ar_info) \ {r} \subseteq AheadOf(_attached_regions', ar_info)
    BY <1>1, <2>1, <2>3, AheadAfterRemove DEF Records
  <2>5. x # r /\ region'[x] = region[x]
    <3>1. x # r
      BY <2>2 DEF Recorded
    <3>2. x \in Blocks
      BY <2>2, <2>3, ListPlaces DEF Recorded, Records
    <3>. QED
      BY <1>0, <1>1, <3>1, <3>2 DEF RecordInv, RegionMapTypeOK
  <2>. QED
    BY <2>2, <2>4, <2>5
<1>. QED
  BY <1>2, <1>3

LEMMA LookupKeepsLookupInv ==
  ASSUME LookupInv, find_attached_region_by_addr
  PROVE  SoughtIsAttached' /\ SoughtIsAhead'
<1>0. RecordInv
  BY DEF LookupInv
<1>1. /\ UNCHANGED <<_attached_regions, _destroyed_attached_regions, region, attached, stray>>
      /\ Records' = Records /\ Recorded' = Recorded
  BY DEF find_attached_region_by_addr, LookupFirst, LookupNext, LookupDangles, listVars,
         historyVars, Records, Recorded, Queued
<1>2. CASE LookupFirst
  <2>1. /\ ar_info' = First
        /\ sought' = {s \in attached : s.i_rel_addr <= CapAddr
                                         /\ CapAddr < s.i_rel_addr + s.i_size}
    BY <1>2 DEF LookupFirst
  <2>2. AheadOf(_attached_regions, First) = Records
    BY <1>0, PublishTakes
  <2>3. SoughtIsAttached'
    BY <1>1, <2>1 DEF SoughtIsAttached
  <2>4. stray = {} => \A s \in sought' : \E r \in Recorded : region[r] = s
    BY <1>0, <2>1 DEF RecordInv, RecordsAreTheAttached, DetachDestroysItsRecord
  <2>5. Recorded \cap Records = Recorded
    BY DEF Recorded
  <2>. QED
    BY <1>1, <2>1, <2>2, <2>3, <2>4, <2>5 DEF SoughtIsAhead
<1>3. CASE LookupNext
  <2>1. lookup = "test" /\ ar_info \in Records /\ sought' = sought
    BY <1>3 DEF LookupNext, historyVars
  <2>2. SoughtIsAttached'
    BY <1>1, <2>1 DEF LookupInv, SoughtIsAttached
  <2>3. SoughtIsAhead'
    <3>. SUFFICES ASSUME stray = {}, lookup' = "test", ar_info' \in Records, NEW t \in sought
                  PROVE  \E x \in Recorded \cap AheadOf(_attached_regions, ar_info') :
                           region[x] = t
      BY <1>1, <2>1 DEF SoughtIsAhead
    <3>1. ~ Covers(region[ar_info], CapAddr) /\ ar_info' = NextOf(ar_info) /\ ar_info' # Null
      BY <1>3 DEF LookupNext
    <3>2. PICK x \in Recorded \cap AheadOf(_attached_regions, ar_info) : region[x] = t
      BY <2>1 DEF LookupInv, SoughtIsAhead
    <3>3. Covers(t, CapAddr)
      <4>1. /\ t \in Regions
            /\ t.i_rel_addr <= CapAddr /\ CapAddr < t.i_rel_addr + t.i_size
        BY <1>0 DEF LookupInv, SoughtIsAttached, RecordInv, RegionMapTypeOK
      <4>2. t.i_rel_addr \in Nat /\ t.i_size \in Nat
        BY <4>1, RegionTypes
      <4>. QED
        BY <4>1, <4>2, RegionMapAssumption DEF Covers
    <3>4. x # ar_info
      BY <3>1, <3>2, <3>3
    <3>5. AheadOf(_attached_regions, ar_info') = AheadOf(_attached_regions, ar_info) \ {ar_info}
      BY <1>0, <2>1, <3>1, NextIsRecord
    <3>. QED
      BY <3>2, <3>4, <3>5
  <2>. QED
    BY <2>2, <2>3
<1>4. CASE LookupDangles
  <2>1. lookup' = "wild" /\ sought' = sought
    BY <1>4 DEF LookupDangles, historyVars
  <2>. QED
    BY <1>1, <2>1 DEF LookupInv, SoughtIsAttached, SoughtIsAhead
<1>. QED
  BY <1>2, <1>3, <1>4 DEF find_attached_region_by_addr

LEMMA LookupInvStep ==
  ASSUME LookupInv, [Next]_vars
  PROVE  LookupInv'
<1>0. RecordInv'
  BY RecordInvStep DEF LookupInv
<1>1. CASE Begin \/ End \/ Purged \/ UNCHANGED vars
  <2>1. /\ UNCHANGED <<_attached_regions, _destroyed_attached_regions, region, attached, stray,
                       sought>>
        /\ lookup' = "test" => lookup = "test" /\ ar_info' = ar_info
    BY <1>1 DEF Begin, End, Purged, vars, listVars, lookupVars, historyVars
  <2>2. Records' = Records /\ Recorded' = Recorded
    BY <2>1 DEF Records, Recorded, Queued
  <2>. QED
    BY <1>0, <2>1, <2>2 DEF LookupInv, SoughtIsAttached, SoughtIsAhead
<1>2. CASE Publish
  <2>1. UNCHANGED <<_attached_regions, _destroyed_attached_regions, region, attached, lookup,
                    ar_info, stray, sought>>
    BY <1>2 DEF Publish, lookupVars
  <2>2. Records' = Records /\ Recorded' = Recorded
    BY <2>1 DEF Records, Recorded, Queued
  <2>. QED
    BY <1>0, <2>1, <2>2 DEF LookupInv, SoughtIsAttached, SoughtIsAhead
<1>. QED
  BY <1>0, <1>1, <1>2, AttachKeepsLookupInv, DetachKeepsLookupInv, DestroyKeepsLookupInv,
     LookupKeepsLookupInv
  DEF LookupInv, Next, checkpoint

\* The step that ends a lookup, seen from the record it stands on.
LEMMA LookupEnds ==
  ASSUME LookupInv, [Next]_vars, lookup = "test", lookup' = "done", stray = {}, NEW s \in sought
  PROVE  /\ ar_info' # Null
         /\ \/ region[ar_info'] = s
            \/ region[ar_info'].i_rel_addr + region[ar_info'].i_size = CapAddr
<1>0. RecordInv
  BY DEF LookupInv
<1>1. LookupNext
  BY DEF Next, Attach, Detach, Begin, End, checkpoint, DestroyRegion, Purged, Publish,
         find_attached_region_by_addr, LookupFirst, LookupDangles, vars, lookupVars
<1>2. /\ ar_info \in Records
      /\ \/ Covers(region[ar_info], CapAddr) /\ ar_info' = ar_info
         \/ ~ Covers(region[ar_info], CapAddr) /\ NextOf(ar_info) = Null
  BY <1>1 DEF LookupNext
<1>3. PICK x \in Recorded \cap AheadOf(_attached_regions, ar_info) : region[x] = s
  BY <1>2 DEF LookupInv, SoughtIsAhead
<1>4. /\ s \in Regions /\ s.i_rel_addr \in Nat /\ s.i_size \in Nat /\ CapAddr \in Nat
      /\ s.i_rel_addr <= CapAddr /\ CapAddr < s.i_rel_addr + s.i_size
  BY <1>0, RegionTypes, RegionMapAssumption
  DEF LookupInv, SoughtIsAttached, RecordInv, RegionMapTypeOK
<1>5. Covers(s, CapAddr)
  BY <1>4 DEF Covers
<1>6. /\ _attached_regions \in Seq(Blocks) /\ IsInjective(_attached_regions)
      /\ ar_info \in Blocks /\ x \in Blocks /\ x \in Records /\ ar_info # Null
      /\ region[ar_info] \in Regions
  BY <1>0, <1>2, <1>3, ListPlaces, RegionMapAssumption
  DEF RecordInv, RegionMapTypeOK, RecordsHaveRegions, Records, Recorded
<1>7. CASE Covers(region[ar_info], CapAddr) /\ ar_info' = ar_info
  <2>1. CASE x = ar_info
    BY <1>3, <1>6, <1>7, <2>1
  <2>2. CASE x # ar_info
    <3>1. Before(_attached_regions, ar_info, x)
      BY <1>2, <1>3, <1>6, <2>2, AheadIsAfter DEF Records
    <3>2. Apart(s, region[ar_info])
      BY <1>0, <1>3, <1>6, <3>1 DEF RecordInv, LaterRegionsAreApart
    <3> DEFINE t == region[ar_info]
    <3>3. t.i_rel_addr \in Nat /\ t.i_size \in Nat /\ Apart(s, t) /\ Covers(t, CapAddr)
      BY <1>6, <1>7, <3>2, RegionTypes
    <3>. HIDE DEF t
    <3>4. t.i_rel_addr + t.i_size = CapAddr
      BY <1>4, <3>3 DEF Apart, Covers
    <3>. QED
      BY <1>6, <1>7, <3>4 DEF t
  <2>. QED
    BY <2>1, <2>2
<1>8. CASE ~ Covers(region[ar_info], CapAddr) /\ NextOf(ar_info) = Null
  <2>1. AheadOf(_attached_regions, ar_info) = {ar_info}
    BY <1>0, <1>2, <1>8, NextIsRecord
  <2>. QED
    BY <1>3, <1>5, <1>8, <2>1
<1>. QED
  BY <1>2, <1>7, <1>8

-----------------------------------------------------------------------------
(* The region map implements Snapshot. *)

\* What the reader finds, by the mapping of Promise.
Snapshot ==
  CASE published = Null -> <<>>
    [] published # Null /\ pc \in {"purge", "publish"} -> published
    [] published # Null /\ pc \notin {"purge", "publish"} ->
         [r \in ToSet(ListFrom(i_attached_regions)) |-> region[r]]

\* It is the snapshot that was published last.
LEMMA SnapshotIsPublished ==
  ASSUME RecordInv
  PROVE  Snapshot = IF published = Null THEN <<>> ELSE published
<1>1. CASE published = Null
  BY <1>1 DEF Snapshot
<1>2. CASE published # Null /\ pc \in {"purge", "publish"}
  BY <1>2 DEF Snapshot
<1>3. CASE published # Null /\ pc \notin {"purge", "publish"}
  <2>1. Snapshot = [r \in AheadOf(_attached_regions, i_attached_regions) |-> region[r]]
    BY <1>3, ListIsWalk DEF Snapshot, AheadOf
  <2>. QED
    BY <1>3, <2>1 DEF RecordInv, SnapshotIsKept
<1>. QED
  BY <1>1, <1>2, <1>3

LEMMA PromiseInit == Init => Promise!SnapshotInit
<1>. SUFFICES ASSUME Init PROVE RecordedMemory = <<>> /\ Snapshot = <<>> /\ disturbed = FALSE
  BY DEF Promise!SnapshotInit, Snapshot
<1>1. Recorded = {}
  BY DEF Init, Recorded, Records, ToSet
<1>2. RecordedMemory = [r \in {} |-> region[r]]
  BY <1>1 DEF RecordedMemory
<1>3. [r \in {} |-> region[r]] = <<>>
  OBVIOUS
<1>4. Snapshot = <<>>
  BY DEF Init, Snapshot
<1>. QED
  BY <1>2, <1>3, <1>4 DEF Init

LEMMA PromiseStep ==
  ASSUME RecordInv, [Next]_vars
  PROVE  [Promise!SnapshotNext]_(Promise!snapshotVars)
<1>0. RecordInv'
  BY RecordInvStep
<1>1. Promise!IsState(RecordedMemory')
  <2>1. Recorded' \subseteq Blocks /\ \A r \in Recorded' : region'[r] \in Regions
    <3>1. Records' \subseteq Blocks
      BY <1>0, ListPlaces DEF RecordInv, RegionMapTypeOK, Records
    <3>. QED
      BY <1>0, <3>1 DEF RecordInv, RecordsHaveRegions, Recorded
  <2>. QED
    BY <2>1 DEF Promise!IsState, RecordedMemory
<1>2. Snapshot' = IF published' = Null THEN <<>> ELSE published'
  <2>1. CASE published' = Null
    BY <2>1 DEF Snapshot
  <2>2. CASE published' # Null /\ pc' \in {"purge", "publish"}
    BY <2>2 DEF Snapshot
  <2>3. CASE published' # Null /\ pc' \notin {"purge", "publish"}
    <3>1. ListFrom(i_attached_regions)' = SuffixFrom(_attached_regions', i_attached_regions')
      BY DEF ListFrom, Place, Records, SuffixFrom, IndexOf, SelectInSeq
    <3>2. Snapshot' = [r \in AheadOf(_attached_regions', i_attached_regions') |-> region'[r]]
      BY <2>3, <3>1 DEF Snapshot, AheadOf
    <3>. QED
      BY <1>0, <2>3, <3>2 DEF RecordInv, SnapshotIsKept
  <2>. QED
    BY <2>1, <2>2, <2>3
<1>3. CASE UNCHANGED published /\ disturbed' \in {disturbed, TRUE}
  <2>1. Snapshot' = Snapshot
    BY <1>2, <1>3, SnapshotIsPublished
  <2>. QED
    BY <1>1, <1>3, <2>1
    DEF Promise!SnapshotNext, Promise!ChildStep, Promise!snapshotVars, Snapshot
<1>4. CASE Publish
  <2>1. /\ published' = [r \in Records |-> region[r]] /\ disturbed' = FALSE /\ pc = "publish"
        /\ UNCHANGED <<_attached_regions, _destroyed_attached_regions, region>>
    BY <1>4 DEF Publish
  <2>2. RecordedMemory' = RecordedMemory
    BY <2>1 DEF RecordedMemory, Recorded, Records, Queued
  <2>3. Snapshot' = [r \in Records |-> region[r]]
    BY <1>2, <2>1, MemoryIsSnapshot
  <2>4. CASE disturbed
    <3>1. Records \subseteq Blocks /\ \A r \in Records : region[r] \in Regions
      BY ListPlaces DEF RecordInv, RegionMapTypeOK, RecordsHaveRegions, Records
    <3>2. Promise!IsState(Snapshot')
      BY <2>3, <3>1 DEF Promise!IsState
    <3>. QED
      BY <2>1, <2>2, <2>4, <3>2
      DEF Promise!SnapshotNext, Promise!TakeSnapshot, Promise!snapshotVars, Snapshot
  <2>5. CASE ~ disturbed
    <3>1. Recorded = Records
      BY <2>1, <2>5 DEF RecordInv, UndisturbedIsPurged, Recorded
    <3>2. Snapshot' = RecordedMemory
      BY <2>3, <3>1 DEF RecordedMemory
    <3>. QED
      BY <2>1, <2>2, <2>5, <3>2
      DEF Promise!SnapshotNext, Promise!TakeSnapshot, Promise!snapshotVars, Snapshot
  <2>. QED
    BY <2>4, <2>5
<1>5. Publish \/ (UNCHANGED published /\ disturbed' \in {disturbed, TRUE})
  <2>1. disturbed \in BOOLEAN
    BY DEF RecordInv, RegionMapTypeOK
  <2>. QED
    BY <2>1
    DEF Next, Attach, Detach, ChildDisturbs, Begin, End, checkpoint, DestroyRegion, Purged,
        find_attached_region_by_addr, LookupFirst, LookupNext, LookupDangles, vars, historyVars
<1>. QED
  BY <1>3, <1>4, <1>5

-----------------------------------------------------------------------------
(* The theorems. *)

\* The inductive invariant of the list and its queue, for a child that calls at any time
\* and workers in sequence or in parallel.
THEOREM RecordInvariant == Spec => []RecordInv
<1>1. RecordInv /\ [Next]_vars => RecordInv'
  BY RecordInvStep
<1>. QED
  BY <1>1, RecordInvInit, PTL DEF Spec

\* A detach queues the record of its region, or that of a region that ends where the other
\* begins; until this happens the records are the attached regions, and no record is ever
\* destroyed twice. (region_map.cc 162-180, attached_region_info.h 73)
THEOREM OnlyNeighboursGetConfused == Spec => []OnlyNeighboursAreConfused
<1>1. RecordInv => OnlyNeighboursAreConfused
  <2>1. RecordInv => \A c \in stray : c.hit.i_rel_addr + c.hit.i_size = c.meant.i_rel_addr
    BY DEF RecordInv, StraysHitNeighbours
  <2>2. RecordInv /\ stray = {} =>
          /\ DetachDestroysItsRecord
          /\ \A q, r \in Recorded : region[q] = region[r] => q = r
    BY DEF RecordInv, RecordsAreTheAttached
  <2>3. RecordInv =>
          /\ Queued \subseteq Records
          /\ \A i, j \in DOMAIN _destroyed_attached_regions :
               _destroyed_attached_regions[i] = _destroyed_attached_regions[j] => i = j
    BY DEF RecordInv, QueueIsSound, IsInjective
  <2>. QED
    BY <2>1, <2>2, <2>3 DEF OnlyNeighboursAreConfused
<1>. QED
  BY <1>1, RecordInvariant, PTL

\* A lookup that ends, beside the purge and a running child, has found what has been attached
\* at the address since it began, or a region that ends there. (region_map.cc 75-82)
THEOREM LookupsFindWhatStays == Spec => LookupFindsWhatStays
<1>1. LookupInv /\ [Next]_vars => LookupInv'
  BY LookupInvStep
<1>2. LookupInv /\ [Next]_vars =>
        [lookup = "test" /\ lookup' = "done" /\ stray = {} =>
           \A s \in sought :
             /\ ar_info' # Null
             /\ \/ region[ar_info'] = s
                \/ region[ar_info'].i_rel_addr + region[ar_info'].i_size = CapAddr]_vars
  BY LookupEnds
<1>. QED
  BY <1>1, <1>2, LookupInvInit, PTL DEF Spec, LookupFindsWhatStays

\* The region map implements Snapshot: from one checkpoint to the next a reader finds what
\* the list held at the first. (region_map.cc 57-72)
THEOREM RegionMapKeepsPromise == Spec => KeepsSnapshotPromise
<1>1. RecordInv /\ [Next]_vars => [Promise!SnapshotNext]_(Promise!snapshotVars)
  BY PromiseStep
<1>. QED
  BY <1>1, PromiseInit, RecordInvariant, PTL
  DEF Spec, KeepsSnapshotPromise, Promise!SnapshotSpec
=============================================================================
