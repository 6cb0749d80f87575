---------------------------- MODULE PdSessionProofs ----------------------------
(***************************************************************************)
(* The capabilities of the Pd_session, for every number of records and     *)
(* badges.                                                                 *)
(*                                                                         *)
(* A badge is given again while the record of its earlier object waits in  *)
(* the queue, so that several records of a list hold it.  What makes a     *)
(* free find the right one is an order: the record of a live object comes  *)
(* before every other record of its badge.  The snapshots of the three     *)
(* kinds are taken one after the other while the child runs.  They fit     *)
(* together, up to what the child has allocated or freed meanwhile,        *)
(* because the sources are published before the contexts: what is live and *)
(* untouched when the contexts are published was live when the sources     *)
(* were.                                                                   *)
(***************************************************************************)
EXTENDS PdSession, SequenceLemmas

PdTypeOK ==
  /\ list \in [Kinds -> Seq(Blocks)]
  /\ destroyed \in [Kinds -> Seq(Blocks)]
  /\ info \in [Kinds -> Blocks \cup {Null}]
  /\ i_badge \in [Blocks -> Badges \cup {NoBadge}]
  /\ i_refers \in [Blocks -> Badges \cup {NoBadge}]
  /\ live \in SUBSET Blocks
  /\ stage \in Kinds \cup {"idle"}
  /\ purged \in BOOLEAN
  /\ published \in [Kinds -> (SUBSET Blocks) \cup {Null}]
  /\ touched \in SUBSET Blocks

\* A heap block is a record of one list, at one place.
ListsAreDisjoint ==
  /\ \A k \in Kinds : IsInjective(list[k])
  /\ \A k, l \in Kinds : k # l => Records(k) \cap Records(l) = {}

Queued(k) == ToSet(destroyed[k])

QueuesHoldTheDead ==
  /\ live \subseteq AllRecords
  /\ \A k \in Kinds : IsInjective(destroyed[k]) /\ Queued(k) = Records(k) \ live

\* The record of a live object is the first that holds its badge.
LiveComesFirst ==
  \A k \in Kinds : \A q, r \in Blocks :
    Before(list[k], q, r) /\ r \in live => i_badge[q] # i_badge[r]

BadgesAreUnique ==
  \A q, r \in live : i_badge[q] = i_badge[r] => q = r

\* A kind that was published and whose list is not being purged.
IsTaken(k) == published[k] # Null /\ stage # k

SnapshotsAreKept ==
  \A k \in Kinds : IsTaken(k) =>
    /\ info[k] \in Records(k) \cup {Null}
    /\ AheadOf(list[k], info[k]) = published[k]

\* After the purge the queue holds only what the child has freed since.
PurgeIsDone ==
  /\ stage = "idle" => ~purged
  /\ \A k \in Kinds : stage = k /\ purged => Queued(k) \subseteq touched

RecordInv ==
  /\ PdTypeOK
  /\ ListsAreDisjoint
  /\ QueuesHoldTheDead
  /\ LiveComesFirst
  /\ BadgesAreUnique
  /\ SnapshotsAreKept
  /\ PurgeIsDone

-----------------------------------------------------------------------------
(* The operations on the lists. *)

\* What a reader finds, as a suffix of the list.
LEMMA SnapshotIsSuffix ==
  ASSUME NEW k \in Kinds
  PROVE  SnapshotOf(k) = AheadOf(list[k], info[k])
BY DEF SnapshotOf, ListFrom, Records, AheadOf, SuffixFrom, IndexOf

\* The record of a live object is found by its badge, although records of earlier
\* objects may hold the same one. (pd_session.cc 276-360)
LEMMA FreeFinds ==
  ASSUME RecordInv, NEW k \in Kinds, NEW r \in LiveOf(k)
  PROVE  find_by_badge(k, i_badge[r]) = r
<1> DEFINE T == {x \in Blocks : i_badge[x] = i_badge[r]}
           i == FirstOf(list[k], T)
<1>1. list[k] \in Seq(Blocks) /\ r \in ToSet(list[k]) /\ r \in live /\ r \in Blocks
  BY DEF RecordInv, PdTypeOK, LiveOf, Records
<1>2. /\ Len(list[k]) \in Nat
      /\ \A j \in 1 .. Len(list[k]) : list[k][j] \in Blocks
  BY <1>1, ListPlaces
<1>3. i = SelectInSeq(list[k], LAMBDA x : i_badge[x] = i_badge[r])
  <2>1. \A j \in 1 .. Len(list[k]) : list[k][j] \in T <=> i_badge[list[k][j]] = i_badge[r]
    BY <1>2
  <2>. HIDE DEF T
  <2>2. {j \in 1 .. Len(list[k]) : list[k][j] \in T}
          = {j \in 1 .. Len(list[k]) : i_badge[list[k][j]] = i_badge[r]}
    BY <2>1
  <2>. QED
    BY <2>2 DEF FirstOf, SelectInSeq
<1>4. find_by_badge(k, i_badge[r]) = IF i = 0 THEN Null ELSE list[k][i]
  BY <1>3 DEF find_by_badge
<1>5. r \in ToSet(list[k]) \cap T
  BY <1>1
<1>6. /\ i \in 1 .. Len(list[k])
      /\ list[k][i] \in ToSet(list[k]) \cap T
      /\ r = list[k][i] \/ Before(list[k], list[k][i], r)
  <2>. HIDE DEF T
  <2>. QED
    BY <1>1, <1>5, FirstOfIsFirst
<1>7. i # 0
  BY <1>2, <1>6
<1>. HIDE DEF i
<1>8. list[k][i] \in Blocks /\ i_badge[list[k][i]] = i_badge[r]
  BY <1>6
<1>9. ~ Before(list[k], list[k][i], r)
  BY <1>1, <1>8 DEF RecordInv, LiveComesFirst
<1>. QED
  BY <1>4, <1>6, <1>7, <1>9

\* The list of kind k gets a head, the others are left alone.
LEMMA InsertEffect ==
  ASSUME RecordInv, NEW k \in Kinds, NEW r \in Blocks, NEW b \in Badges,
         NEW s \in Badges \cup {NoBadge}, Insert(k, r, b, s)
  PROVE  /\ list'[k] = <<r>> \o list[k] /\ \A l \in Kinds : l # k => list'[l] = list[l]
         /\ list' \in [Kinds -> Seq(Blocks)]
         /\ \A l \in Kinds : IsInjective(list'[l])
         /\ \A l \in Kinds : ToSet(list'[l]) = IF l = k THEN {r} \cup ToSet(list[l])
                                                         ELSE ToSet(list[l])
         /\ \A l \in Kinds : r \notin ToSet(list[l])
         /\ r \notin live
<1>1. /\ list' = [list EXCEPT ![k] = <<r>> \o list[k]]
      /\ r \notin AllRecords
  BY DEF Insert
<1>2. list[k] \in Seq(Blocks) /\ IsInjective(list[k])
  BY DEF RecordInv, PdTypeOK, ListsAreDisjoint
<1>3. \A l \in Kinds : r \notin ToSet(list[l])
  BY <1>1 DEF AllRecords, Records
<1>4. /\ <<r>> \o list[k] \in Seq(Blocks)
      /\ ToSet(<<r>> \o list[k]) = {r} \cup ToSet(list[k])
      /\ IsInjective(<<r>> \o list[k])
  BY <1>2, <1>3, ConsAtPlace, ConsOfInjective
<1>5. list'[k] = <<r>> \o list[k] /\ \A l \in Kinds : l # k => list'[l] = list[l]
  BY <1>1 DEF RecordInv, PdTypeOK
<1>6. list' \in [Kinds -> Seq(Blocks)]
  BY <1>1, <1>4 DEF RecordInv, PdTypeOK
<1>7. \A l \in Kinds : IsInjective(list'[l])
  BY <1>4, <1>5 DEF RecordInv, ListsAreDisjoint
<1>8. r \notin live
  BY <1>1 DEF RecordInv, QueuesHoldTheDead
<1>. QED
  BY <1>3, <1>4, <1>5, <1>6, <1>7, <1>8

\* A free queues the record of its object.
LEMMA RememberEffect ==
  ASSUME RecordInv, NEW k \in Kinds, NEW r \in Blocks, Remember(k, r)
  PROVE  /\ r \in Records(k) /\ r \in live /\ live' = live \ {r}
         /\ destroyed' \in [Kinds -> Seq(Blocks)]
         /\ \A l \in Kinds : IsInjective(destroyed'[l])
         /\ \A l \in Kinds : ToSet(destroyed'[l]) = IF l = k THEN Queued(l) \cup {r} ELSE Queued(l)
         /\ touched' = (IF stage = "idle" THEN touched ELSE touched \cup {r})
         /\ UNCHANGED <<list, info, i_badge, i_refers, stage, purged, published, loose>>
<1>1. r \in LiveOf(k)
  BY DEF Remember
<1>2. destroyed' = [destroyed EXCEPT ![k] = Append(destroyed[k], r)]
  BY <1>1, FreeFinds DEF Remember
<1>3. r \notin ToSet(destroyed[k]) /\ IsInjective(destroyed[k]) /\ destroyed[k] \in Seq(Blocks)
  BY <1>1 DEF RecordInv, QueuesHoldTheDead, LiveOf, Queued, PdTypeOK
<1>4. /\ Append(destroyed[k], r) \in Seq(Blocks)
      /\ IsInjective(Append(destroyed[k], r))
      /\ ToSet(Append(destroyed[k], r)) = ToSet(destroyed[k]) \cup {r}
  BY <1>3, AppendOfInjective
<1>5. destroyed'[k] = Append(destroyed[k], r)
      /\ \A l \in Kinds : l # k => destroyed'[l] = destroyed[l]
  BY <1>2 DEF RecordInv, PdTypeOK
<1>6. destroyed' \in [Kinds -> Seq(Blocks)]
  BY <1>2, <1>4 DEF RecordInv, PdTypeOK
<1>7. \A l \in Kinds : IsInjective(destroyed'[l])
  BY <1>4, <1>5 DEF RecordInv, QueuesHoldTheDead
<1>8. \A l \in Kinds : ToSet(destroyed'[l]) = IF l = k THEN Queued(l) \cup {r} ELSE Queued(l)
  BY <1>4, <1>5 DEF Queued
<1>. QED
  BY <1>1, <1>6, <1>7, <1>8 DEF Remember, LiveOf, recordVars, walkVars, Touch

\* The purge takes the head of the queue out of its list.
LEMMA DestroyEffect ==
  ASSUME RecordInv, NEW k \in Kinds, DestroyRecord(k)
  PROVE  \E r \in Queued(k) :
           /\ r \in Records(k) /\ r \notin live
           /\ list' \in [Kinds -> Seq(Blocks)] /\ destroyed' \in [Kinds -> Seq(Blocks)]
           /\ \A l \in Kinds : IsInjective(list'[l]) /\ IsInjective(destroyed'[l])
           /\ \A l \in Kinds : ToSet(list'[l]) = IF l = k THEN Records(l) \ {r} ELSE Records(l)
           /\ \A l \in Kinds : ToSet(destroyed'[l]) = IF l = k THEN Queued(l) \ {r} ELSE Queued(l)
           /\ \A l \in Kinds, x, y \in Blocks : Before(list'[l], x, y) => Before(list[l], x, y)
           /\ \A l \in Kinds : l # k => list'[l] = list[l]
           /\ i_badge' = [i_badge EXCEPT ![r] = NoBadge]
           /\ i_refers' = [i_refers EXCEPT ![r] = NoBadge]
           /\ touched' = touched \ {r} /\ orphans' = orphans \ {r}
           /\ stage = k /\ ~purged /\ UNCHANGED <<info, live, stage, purged, published, loose>>
<1> DEFINE r == Head(destroyed[k])
<1>1. /\ destroyed[k] \in Seq(Blocks) /\ IsInjective(destroyed[k]) /\ destroyed[k] # <<>>
      /\ list[k] \in Seq(Blocks) /\ IsInjective(list[k])
  BY DEF RecordInv, PdTypeOK, ListsAreDisjoint, QueuesHoldTheDead, DestroyRecord
<1>2. /\ r \in ToSet(destroyed[k])
      /\ Tail(destroyed[k]) \in Seq(Blocks) /\ IsInjective(Tail(destroyed[k]))
      /\ ToSet(Tail(destroyed[k])) = ToSet(destroyed[k]) \ {r}
  BY <1>1, TailOfInjective
<1>3. /\ list' = [list EXCEPT ![k] = RemoveFirst(list[k], r)]
      /\ destroyed' = [destroyed EXCEPT ![k] = Tail(destroyed[k])]
      /\ i_badge' = [i_badge EXCEPT ![r] = NoBadge]
      /\ i_refers' = [i_refers EXCEPT ![r] = NoBadge]
      /\ touched' = touched \ {r} /\ orphans' = orphans \ {r}
      /\ stage = k /\ ~purged /\ UNCHANGED <<info, live, stage, purged, published, loose>>
  BY DEF DestroyRecord, walkVars
<1>. HIDE DEF r
<1>4. r \in Queued(k) /\ r \in ToSet(list[k]) /\ r \notin live
  BY <1>2 DEF RecordInv, QueuesHoldTheDead, Queued, Records
<1>5. /\ IsInjective(RemoveFirst(list[k], r))
      /\ ToSet(RemoveFirst(list[k], r)) = ToSet(list[k]) \ {r}
      /\ RemoveFirst(list[k], r) \in Seq(Blocks)
  <2>1. /\ IndexOf(list[k], r) \in DOMAIN list[k]
        /\ RemoveFirst(list[k], r) = RemoveAt(list[k], IndexOf(list[k], r))
    BY <1>1, <1>4, RemoveFirstAtPlace
  <2>. QED
    BY <1>1, <1>4, <2>1, RemoveFirstAtPlace, RemoveAtPlace
<1>6. /\ list'[k] = RemoveFirst(list[k], r) /\ destroyed'[k] = Tail(destroyed[k])
      /\ \A l \in Kinds : l # k => list'[l] = list[l] /\ destroyed'[l] = destroyed[l]
  BY <1>3 DEF RecordInv, PdTypeOK
<1>7. list' \in [Kinds -> Seq(Blocks)] /\ destroyed' \in [Kinds -> Seq(Blocks)]
  BY <1>2, <1>3, <1>5 DEF RecordInv, PdTypeOK
<1>8. \A l \in Kinds : IsInjective(list'[l]) /\ IsInjective(destroyed'[l])
  BY <1>2, <1>5, <1>6 DEF RecordInv, ListsAreDisjoint, QueuesHoldTheDead
<1>9. \A l \in Kinds : ToSet(list'[l]) = IF l = k THEN Records(l) \ {r} ELSE Records(l)
  BY <1>5, <1>6 DEF Records
<1>10. \A l \in Kinds : ToSet(destroyed'[l]) = IF l = k THEN Queued(l) \ {r} ELSE Queued(l)
  BY <1>2, <1>6 DEF Queued
<1>11. ASSUME NEW l \in Kinds, NEW x \in Blocks, NEW y \in Blocks, Before(list'[l], x, y)
       PROVE  Before(list[l], x, y)
  <2>1. CASE l = k
    <3>1. Before(RemoveFirst(list[k], r), x, y)
      BY <1>6, <1>11, <2>1
    <3>. QED
      BY <1>1, <1>4, <2>1, <3>1, BeforeOfRemove
  <2>2. CASE l # k
    BY <1>6, <1>11, <2>2
  <2>. QED
    BY <2>1, <2>2
<1>. QED
  BY <1>3, <1>4, <1>6, <1>7, <1>8, <1>9, <1>10, <1>11 DEF Records

-----------------------------------------------------------------------------
(* The records. *)

LEMMA RecordInvInit == Init => RecordInv
<1>. SUFFICES ASSUME Init PROVE RecordInv
  OBVIOUS
<1>0. purged \in BOOLEAN
  BY DEF Init
<1>1. PdTypeOK
  BY <1>0 DEF Init, PdTypeOK
<1>2. \A k \in Kinds : ToSet(list[k]) = {} /\ ToSet(destroyed[k]) = {}
  BY DEF Init, ToSet
<1>3. \A k \in Kinds : IsInjective(list[k]) /\ IsInjective(destroyed[k])
  BY DEF Init, IsInjective
<1>4. ListsAreDisjoint
  BY <1>2, <1>3 DEF ListsAreDisjoint, Records
<1>5. QueuesHoldTheDead
  BY <1>2, <1>3 DEF QueuesHoldTheDead, Records, Queued, Init
<1>6. LiveComesFirst /\ BadgesAreUnique
  BY DEF Init, LiveComesFirst, BadgesAreUnique
<1>7. SnapshotsAreKept
  BY DEF Init, SnapshotsAreKept, IsTaken
<1>8. PurgeIsDone
  BY DEF Init, PurgeIsDone, Kinds
<1>. QED
  BY <1>1, <1>4, <1>5, <1>6, <1>7, <1>8 DEF RecordInv

LEMMA InsertKeepsRecordInv ==
  ASSUME RecordInv, NEW k \in Kinds, NEW r \in Blocks, NEW b \in Badges,
         NEW s \in Badges \cup {NoBadge}, Insert(k, r, b, s)
  PROVE  RecordInv'
<1>0. /\ i_badge' = [i_badge EXCEPT ![r] = b] /\ i_refers' = [i_refers EXCEPT ![r] = s]
      /\ live' = live \cup {r}
      /\ \A q \in live : i_badge[q] # b
      /\ touched' = (IF stage = "idle" THEN touched ELSE touched \cup {r})
      /\ UNCHANGED <<destroyed, info, stage, purged, published>>
  BY DEF Insert, InUse, Touch, walkVars
<1>1. /\ list'[k] = <<r>> \o list[k] /\ \A l \in Kinds : l # k => list'[l] = list[l]
      /\ list' \in [Kinds -> Seq(Blocks)]
      /\ \A l \in Kinds : IsInjective(list'[l])
      /\ \A l \in Kinds : Records(l)' = IF l = k THEN {r} \cup Records(l) ELSE Records(l)
      /\ \A l \in Kinds : r \notin Records(l)
      /\ r \notin live
  BY InsertEffect DEF Records
<1>2. PdTypeOK'
  BY <1>0, <1>1 DEF RecordInv, PdTypeOK
<1>3. ListsAreDisjoint'
  <2>1. ASSUME NEW l \in Kinds, NEW m \in Kinds, l # m PROVE Records(l)' \cap Records(m)' = {}
    <3>1. Records(l) \cap Records(m) = {}
      BY <2>1 DEF RecordInv, ListsAreDisjoint
    <3>2. r \notin Records(l) /\ r \notin Records(m)
      BY <1>1
    <3>3. CASE l = k
      <4>1. Records(l)' = {r} \cup Records(l) /\ Records(m)' = Records(m)
        BY <1>1, <2>1, <3>3
      <4>. QED
        BY <3>1, <3>2, <4>1
    <3>4. CASE m = k
      <4>1. Records(m)' = {r} \cup Records(m) /\ Records(l)' = Records(l)
        BY <1>1, <2>1, <3>4
      <4>. QED
        BY <3>1, <3>2, <4>1
    <3>5. CASE l # k /\ m # k
      <4>1. Records(l)' = Records(l) /\ Records(m)' = Records(m)
        BY <1>1, <3>5
      <4>. QED
        BY <3>1, <4>1
    <3>. QED
      BY <3>3, <3>4, <3>5
  <2>2. \A l \in Kinds : IsInjective(list'[l])
    BY <1>1
  <2>. QED
    BY <2>1, <2>2 DEF ListsAreDisjoint
<1>4. QueuesHoldTheDead'
  <2>1. \A l \in Kinds : Queued(l)' = Queued(l) /\ Queued(l) = Records(l) \ live
    BY <1>0 DEF RecordInv, QueuesHoldTheDead, Queued
  <2>2. \A l \in Kinds : Records(l)' \ live' = Records(l) \ live
    BY <1>0, <1>1
  <2>3. live' \subseteq AllRecords'
    <3>1. ASSUME NEW q \in live PROVE \E l \in Kinds : q \in Records(l)
      BY DEF RecordInv, QueuesHoldTheDead, AllRecords
    <3>2. \A q \in live' : \E l \in Kinds : q \in Records(l)'
      BY <1>0, <1>1, <3>1
    <3>. QED
      BY <3>2 DEF AllRecords
  <2>. QED
    BY <1>0, <2>1, <2>2, <2>3 DEF RecordInv, QueuesHoldTheDead
<1>5. LiveComesFirst'
  <2>. SUFFICES ASSUME NEW l \in Kinds, NEW q \in Blocks, NEW x \in Blocks,
                       Before(list'[l], q, x), x \in live'
                PROVE  i_badge'[q] # i_badge'[x]
    BY DEF LiveComesFirst
  <2>1. CASE l # k
    <3>1. Before(list[l], q, x) /\ q \in Records(l) /\ x \in Records(l)
      BY <1>1, <2>1 DEF Before, Records, ToSet
    <3>. QED
      BY <1>0, <1>1, <3>1 DEF RecordInv, LiveComesFirst, PdTypeOK
  <2>2. CASE l = k
    <3>1. (q = r /\ x \in Records(k)) \/ Before(list[k], q, x)
      BY <1>1, <2>2, BeforeOfCons DEF RecordInv, PdTypeOK, Records
    <3>2. CASE q = r /\ x \in Records(k)
      BY <1>0, <1>1, <3>2 DEF RecordInv, PdTypeOK
    <3>3. CASE Before(list[k], q, x)
      <4>1. q \in Records(k) /\ x \in Records(k)
        BY <3>3 DEF Before, Records, ToSet
      <4>. QED
        BY <1>0, <1>1, <3>3, <4>1 DEF RecordInv, LiveComesFirst, PdTypeOK
    <3>. QED
      BY <3>1, <3>2, <3>3
  <2>. QED
    BY <2>1, <2>2
<1>6. BadgesAreUnique'
  BY <1>0, <1>1 DEF RecordInv, BadgesAreUnique, PdTypeOK
<1>7. SnapshotsAreKept'
  <2>. SUFFICES ASSUME NEW l \in Kinds, IsTaken(l)
                PROVE  /\ info[l] \in Records(l)' \cup {Null}
                       /\ AheadOf(list'[l], info[l]) = published[l]
    BY <1>0 DEF SnapshotsAreKept, IsTaken
  <2>1. info[l] \in Records(l) \cup {Null} /\ AheadOf(list[l], info[l]) = published[l]
    BY DEF RecordInv, SnapshotsAreKept
  <2>2. info[l] # r
    BY <1>1, <2>1, PdAssumption
  <2>3. CASE l = k
    <3>1. AheadOf(<<r>> \o list[k], info[k]) = AheadOf(list[k], info[k])
      <4>1. /\ list[k] \in Seq(Blocks) /\ IsInjective(list[k])
            /\ IsInjective(<<r>> \o list[k])
        BY <1>1 DEF RecordInv, PdTypeOK, ListsAreDisjoint
      <4>. QED
        BY <2>2, <2>3, <4>1, SuffixOfCons DEF AheadOf
    <3>. QED
      BY <1>1, <2>1, <2>3, <3>1
  <2>4. CASE l # k
    BY <1>1, <2>1, <2>4
  <2>. QED
    BY <2>3, <2>4
<1>8. PurgeIsDone'
  BY <1>0 DEF RecordInv, PurgeIsDone, Queued
<1>. QED
  BY <1>2, <1>3, <1>4, <1>5, <1>6, <1>7, <1>8 DEF RecordInv

LEMMA RememberKeepsRecordInv ==
  ASSUME RecordInv, NEW k \in Kinds, NEW r \in Blocks, Remember(k, r)
  PROVE  RecordInv'
<1>1. /\ r \in Records(k) /\ r \in live /\ live' = live \ {r}
      /\ destroyed' \in [Kinds -> Seq(Blocks)]
      /\ \A l \in Kinds : IsInjective(destroyed'[l])
      /\ \A l \in Kinds : Queued(l)' = IF l = k THEN Queued(l) \cup {r} ELSE Queued(l)
      /\ touched' = (IF stage = "idle" THEN touched ELSE touched \cup {r})
      /\ UNCHANGED <<list, info, i_badge, i_refers, stage, purged, published>>
  BY RememberEffect DEF Queued
<1>2. /\ \A l \in Kinds : Records(l)' = Records(l)
      /\ AllRecords' = AllRecords
  BY <1>1 DEF Records, AllRecords
<1>3. PdTypeOK' /\ ListsAreDisjoint'
  BY <1>1, <1>2 DEF RecordInv, PdTypeOK, ListsAreDisjoint
<1>4. QueuesHoldTheDead'
  <2>1. \A l \in Kinds : l # k => r \notin Records(l)
    BY <1>1 DEF RecordInv, ListsAreDisjoint
  <2>2. \A l \in Kinds : Queued(l)' = Records(l) \ live'
    BY <1>1, <2>1 DEF RecordInv, QueuesHoldTheDead
  <2>. QED
    BY <1>1, <1>2, <2>2 DEF RecordInv, QueuesHoldTheDead
<1>5. LiveComesFirst' /\ BadgesAreUnique'
  BY <1>1 DEF RecordInv, LiveComesFirst, BadgesAreUnique
<1>6. SnapshotsAreKept'
  BY <1>1, <1>2 DEF RecordInv, SnapshotsAreKept, IsTaken
<1>7. PurgeIsDone'
  <2>. SUFFICES ASSUME NEW l \in Kinds, stage = l, purged PROVE Queued(l)' \subseteq touched'
    BY <1>1 DEF RecordInv, PurgeIsDone
  <2>1. Queued(l) \subseteq touched /\ stage # "idle"
    BY DEF RecordInv, PurgeIsDone, Kinds
  <2>. QED
    BY <1>1, <2>1
<1>. QED
  BY <1>3, <1>4, <1>5, <1>6, <1>7 DEF RecordInv

LEMMA DestroyKeepsRecordInv ==
  ASSUME RecordInv, NEW k \in Kinds, DestroyRecord(k)
  PROVE  RecordInv'
<1>1. PICK r \in Queued(k) :
        /\ r \in Records(k) /\ r \notin live
        /\ list' \in [Kinds -> Seq(Blocks)] /\ destroyed' \in [Kinds -> Seq(Blocks)]
        /\ \A l \in Kinds : IsInjective(list'[l]) /\ IsInjective(destroyed'[l])
        /\ \A l \in Kinds : ToSet(list'[l]) = IF l = k THEN Records(l) \ {r} ELSE Records(l)
        /\ \A l \in Kinds : ToSet(destroyed'[l]) = IF l = k THEN Queued(l) \ {r} ELSE Queued(l)
        /\ \A l \in Kinds, x, y \in Blocks : Before(list'[l], x, y) => Before(list[l], x, y)
        /\ \A l \in Kinds : l # k => list'[l] = list[l]
        /\ i_badge' = [i_badge EXCEPT ![r] = NoBadge]
        /\ i_refers' = [i_refers EXCEPT ![r] = NoBadge]
        /\ touched' = touched \ {r}
        /\ stage = k /\ ~purged /\ UNCHANGED <<info, live, stage, purged, published>>
  BY DestroyEffect
<1>2. /\ \A l \in Kinds : Records(l)' = IF l = k THEN Records(l) \ {r} ELSE Records(l)
      /\ \A l \in Kinds : Queued(l)' = IF l = k THEN Queued(l) \ {r} ELSE Queued(l)
  BY <1>1 DEF Records, Queued
<1>3. PdTypeOK'
  BY <1>1 DEF RecordInv, PdTypeOK
<1>4. ListsAreDisjoint'
  <2>1. \A l \in Kinds : Records(l)' \subseteq Records(l)
    BY <1>2
  <2>2. \A l, m \in Kinds : l # m => Records(l)' \cap Records(m)' = {}
    BY <2>1 DEF RecordInv, ListsAreDisjoint
  <2>. QED
    BY <1>1, <2>2 DEF ListsAreDisjoint
<1>5. QueuesHoldTheDead'
  <2>1. live' \subseteq AllRecords'
    <3>1. ASSUME NEW q \in live PROVE \E l \in Kinds : q \in Records(l)'
      <4>1. PICK l \in Kinds : q \in Records(l)
        BY DEF RecordInv, QueuesHoldTheDead, AllRecords
      <4>. QED
        BY <1>1, <1>2, <4>1
    <3>. QED
      BY <1>1, <3>1 DEF AllRecords
  <2>2. \A l \in Kinds : Queued(l)' = Records(l)' \ live'
    BY <1>1, <1>2 DEF RecordInv, QueuesHoldTheDead
  <2>. QED
    BY <1>1, <2>1, <2>2 DEF QueuesHoldTheDead
<1>6. LiveComesFirst'
  <2>. SUFFICES ASSUME NEW l \in Kinds, NEW q \in Blocks, NEW x \in Blocks,
                       Before(list'[l], q, x), x \in live'
                PROVE  i_badge'[q] # i_badge'[x]
    BY DEF LiveComesFirst
  <2>1. Before(list[l], q, x) /\ x \in live
    BY <1>1
  <2>2. q # r
    <3>1. q \in Records(l)' /\ x \in Records(l)'
      BY DEF Before, Records, ToSet
    <3>2. l # k => r \notin Records(l)
      BY <1>1 DEF RecordInv, ListsAreDisjoint
    <3>. QED
      BY <1>2, <3>1, <3>2
  <2>3. i_badge'[q] = i_badge[q] /\ i_badge'[x] = i_badge[x]
    BY <1>1, <2>1, <2>2 DEF RecordInv, PdTypeOK
  <2>. QED
    BY <2>1, <2>3 DEF RecordInv, LiveComesFirst
<1>7. BadgesAreUnique'
  BY <1>1 DEF RecordInv, BadgesAreUnique, PdTypeOK
<1>8. SnapshotsAreKept'
  BY <1>1, <1>2 DEF RecordInv, SnapshotsAreKept, IsTaken
<1>9. PurgeIsDone'
  BY <1>1 DEF PurgeIsDone, Kinds
<1>. QED
  BY <1>3, <1>4, <1>5, <1>6, <1>7, <1>8, <1>9 DEF RecordInv

\* The pointer of kind k moves to the head of its list.
LEMMA PublishTakes ==
  ASSUME RecordInv, NEW k \in Kinds, Publish(k)
  PROVE  /\ First(k) \in Records(k) \cup {Null}
         /\ AheadOf(list[k], First(k)) = PublishedNow(k)
         /\ PublishedNow(k) = Records(k)
<1>1. list[k] \in Seq(Blocks) /\ IsInjective(list[k])
  BY DEF RecordInv, PdTypeOK, ListsAreDisjoint
<1>2. PublishedNow(k) = Records(k)
  <2>1. Queued(k) \subseteq touched
    BY DEF Publish, RecordInv, PurgeIsDone
  <2>2. Queued(k) = Records(k) \ live
    BY DEF RecordInv, QueuesHoldTheDead
  <2>. QED
    BY <2>1, <2>2 DEF PublishedNow
<1>3. CASE list[k] = <<>>
  <2>1. Records(k) = {} /\ First(k) = Null
    BY <1>1, <1>3, ListPlaces DEF Records, First
  <2>2. AheadOf(list[k], Null) = {}
    BY <1>3, <2>1 DEF AheadOf, SuffixFrom, Records, ToSet
  <2>. QED
    BY <1>2, <2>1, <2>2
<1>4. CASE list[k] # <<>>
  BY <1>1, <1>2, <1>4, WalkStarts DEF First, Records
<1>. QED
  BY <1>2, <1>3, <1>4

LEMMA PublishKeepsRecordInv ==
  ASSUME RecordInv, NEW k \in Kinds, Publish(k)
  PROVE  RecordInv'
<1>1. /\ info' = [info EXCEPT ![k] = First(k)]
      /\ published' = [published EXCEPT ![k] = PublishedNow(k)]
      /\ stage = k /\ stage' = NextStage(k) /\ purged' = FALSE
      /\ UNCHANGED <<list, destroyed, i_badge, i_refers, live, touched>>
  BY DEF Publish, EndPart, recordVars
<1>2. /\ First(k) \in Records(k) \cup {Null}
      /\ AheadOf(list[k], First(k)) = PublishedNow(k)
      /\ Records(k) \subseteq Blocks
  <2>1. Records(k) \subseteq Blocks
    BY ListPlaces DEF RecordInv, PdTypeOK, Records
  <2>. QED
    BY <2>1, PublishTakes
<1>3. NextStage(k) \in Kinds \cup {"idle"}
  BY DEF NextStage, Kinds
<1>4. PdTypeOK'
  BY <1>1, <1>2, <1>3 DEF RecordInv, PdTypeOK, PublishedNow
<1>5. \A l \in Kinds : Records(l)' = Records(l) /\ Queued(l)' = Queued(l)
  BY <1>1 DEF Records, Queued
<1>6. ListsAreDisjoint' /\ LiveComesFirst' /\ BadgesAreUnique'
  BY <1>1, <1>5 DEF RecordInv, ListsAreDisjoint, LiveComesFirst, BadgesAreUnique
<1>7. QueuesHoldTheDead'
  <2>1. AllRecords' = AllRecords
    BY <1>5 DEF AllRecords
  <2>. QED
    BY <1>1, <1>5, <2>1 DEF RecordInv, QueuesHoldTheDead
<1>8. SnapshotsAreKept'
  <2>. SUFFICES ASSUME NEW l \in Kinds, IsTaken(l)'
                PROVE  /\ info'[l] \in Records(l) \cup {Null}
                       /\ AheadOf(list[l], info'[l]) = published'[l]
    BY <1>1, <1>5 DEF SnapshotsAreKept
  <2>1. CASE l = k
    BY <1>1, <1>2, <2>1 DEF RecordInv, PdTypeOK
  <2>2. CASE l # k
    <3>1. info'[l] = info[l] /\ published'[l] = published[l]
      BY <1>1, <2>2 DEF RecordInv, PdTypeOK
    <3>2. IsTaken(l)
      BY <1>1, <2>2, <3>1 DEF IsTaken
    <3>. QED
      BY <3>1, <3>2 DEF RecordInv, SnapshotsAreKept
  <2>. QED
    BY <2>1, <2>2
<1>9. PurgeIsDone'
  BY <1>1 DEF PurgeIsDone
<1>. QED
  BY <1>4, <1>6, <1>7, <1>8, <1>9 DEF RecordInv

\* The queue is empty when the purge ends.
LEMMA PurgeDoneKeepsRecordInv ==
  ASSUME RecordInv, NEW k \in Kinds, PurgeDone(k)
  PROVE  RecordInv'
<1>1. /\ stage = k /\ destroyed[k] = <<>> /\ purged' = TRUE
      /\ UNCHANGED <<list, destroyed, info, i_badge, i_refers, live, stage, published, touched>>
  BY DEF PurgeDone, recordVars, historyVars
<1>2. PdTypeOK'
  BY <1>1 DEF RecordInv, PdTypeOK
<1>3. ListsAreDisjoint' /\ QueuesHoldTheDead' /\ LiveComesFirst' /\ BadgesAreUnique'
  BY <1>1 DEF RecordInv, ListsAreDisjoint, QueuesHoldTheDead, LiveComesFirst, BadgesAreUnique,
              Records, AllRecords, Queued
<1>4. SnapshotsAreKept'
  BY <1>1 DEF RecordInv, SnapshotsAreKept, IsTaken, Records
<1>5. PurgeIsDone'
  <2>1. Queued(k) = {}
    BY <1>1 DEF Queued, ToSet
  <2>2. Queued(k)' = {} /\ stage' = k
    BY <1>1, <2>1 DEF Queued
  <2>. QED
    BY <2>2 DEF PurgeIsDone, Kinds
<1>. QED
  BY <1>2, <1>3, <1>4, <1>5 DEF RecordInv

\* An allocation is an insertion of some kind; a context takes the badge of a live source.
LEMMA AllocInserts ==
  ASSUME RecordInv, NEW r \in Blocks, NEW b \in Badges, Alloc(r, b)
  PROVE  \E k \in Kinds : \E s \in Badges \cup {NoBadge} :
           /\ Insert(k, r, b, s)
           /\ k = "signal_contexts" =>
                \E q \in LiveOf("signal_sources") : s = i_badge[q]
<1>1. CASE alloc_signal_source(r, b) \/ alloc_rpc_cap(r, b)
  BY <1>1 DEF alloc_signal_source, alloc_rpc_cap, Kinds
<1>2. CASE alloc_context(r, b)
  <2>1. PICK q \in LiveOf("signal_sources") : Insert("signal_contexts", r, b, i_badge[q])
    BY <1>2 DEF alloc_context
  <2>2. i_badge[q] \in Badges \cup {NoBadge}
    BY <2>1 DEF RecordInv, PdTypeOK, LiveOf
  <2>. QED
    BY <2>1, <2>2 DEF Kinds
<1>. QED
  BY <1>1, <1>2 DEF Alloc

LEMMA FreeRemembers ==
  ASSUME NEW r \in Blocks, Free(r)
  PROVE  \E k \in Kinds :
           /\ Remember(k, r)
           /\ orphans' = IF k = "signal_sources"
                THEN orphans \cup {c \in LiveOf("signal_contexts") : i_refers[c] = i_badge[r]}
                ELSE orphans
BY DEF Free, free_signal_source, free_rpc_cap, free_context, Kinds

LEMMA CheckpointSteps ==
  ASSUME checkpoint
  PROVE  \E k \in Kinds : DestroyRecord(k) \/ PurgeDone(k) \/ Publish(k)
BY DEF checkpoint, _checkpoint_native_capabilities, _checkpoint_signal_sources,
       _checkpoint_signal_contexts, CheckpointPart, Kinds

LEMMA RecordInvStep ==
  ASSUME RecordInv, [Next]_vars
  PROVE  RecordInv'
<1>1. ASSUME NEW r \in Blocks, NEW b \in Badges, Alloc(r, b) PROVE RecordInv'
  BY <1>1, AllocInserts, InsertKeepsRecordInv
<1>2. ASSUME NEW r \in Blocks, Free(r) PROVE RecordInv'
  BY <1>2, FreeRemembers, RememberKeepsRecordInv
<1>3. CASE Begin
  <2>1. /\ UNCHANGED <<list, destroyed, info, i_badge, i_refers, live, purged, published>>
        /\ stage = "idle" /\ stage' = "native_caps" /\ touched' = {}
    BY <1>3 DEF Begin, recordVars
  <2>2. PdTypeOK'
    BY <2>1 DEF RecordInv, PdTypeOK, Kinds
  <2>3. ListsAreDisjoint' /\ QueuesHoldTheDead' /\ LiveComesFirst' /\ BadgesAreUnique'
    BY <2>1 DEF RecordInv, ListsAreDisjoint, QueuesHoldTheDead, LiveComesFirst, BadgesAreUnique,
                Records, AllRecords, Queued
  <2>4. SnapshotsAreKept'
    BY <2>1 DEF RecordInv, SnapshotsAreKept, IsTaken, Records, Kinds
  <2>5. PurgeIsDone'
    BY <2>1 DEF RecordInv, PurgeIsDone
  <2>. QED
    BY <2>2, <2>3, <2>4, <2>5 DEF RecordInv
<1>4. CASE checkpoint
  BY <1>4, CheckpointSteps, DestroyKeepsRecordInv, PurgeDoneKeepsRecordInv,
     PublishKeepsRecordInv
<1>5. CASE UNCHANGED vars
  <2>1. UNCHANGED <<list, destroyed, info, i_badge, i_refers, live, stage, purged, published,
                   touched>>
    BY <1>5 DEF vars, recordVars, walkVars, historyVars
  <2>2. PdTypeOK'
    BY <2>1 DEF RecordInv, PdTypeOK
  <2>3. ListsAreDisjoint' /\ QueuesHoldTheDead' /\ LiveComesFirst' /\ BadgesAreUnique'
    BY <2>1 DEF RecordInv, ListsAreDisjoint, QueuesHoldTheDead, LiveComesFirst, BadgesAreUnique,
                Records, AllRecords, Queued
  <2>4. SnapshotsAreKept'
    BY <2>1 DEF RecordInv, SnapshotsAreKept, IsTaken, Records
  <2>5. PurgeIsDone'
    BY <2>1 DEF RecordInv, PurgeIsDone, Queued
  <2>. QED
    BY <2>2, <2>3, <2>4, <2>5 DEF RecordInv
<1>. QED
  BY <1>1, <1>2, <1>3, <1>4, <1>5 DEF Next

-----------------------------------------------------------------------------
(* The three snapshots together. *)

ContextsHaveSources ==
  \A c \in LiveOf("signal_contexts") \ orphans :
    \E s \in LiveOf("signal_sources") : i_badge[s] = i_refers[c]

\* What the current checkpoint has published is live or was touched since.
PublishedIsFresh ==
  /\ stage \in {"signal_sources", "signal_contexts"} =>
       published["native_caps"] \subseteq live \cup touched
  /\ stage = "signal_contexts" => published["signal_sources"] \subseteq live \cup touched

\* The sources of the contexts that are published next have been published.
SourcesAreAhead ==
  stage = "signal_contexts" =>
    \A c \in LiveOf("signal_contexts") \ (touched \cup orphans) :
      \E s \in LiveOf("signal_sources") \cap published["signal_sources"] :
        i_badge[s] = i_refers[c]

\* Who has the badge of a touched record is touched.
TouchedShareBadges ==
  stage # "idle" =>
    \A q \in touched, r \in live : i_badge[q] = i_badge[r] => q = r \/ r \in touched

PublishedIsClosed ==
  IsReadable =>
    /\ \A c \in published["signal_contexts"] \ (touched \cup loose) :
         \E s \in published["signal_sources"] : i_badge[s] = i_refers[c]
    /\ \A r, q \in UNION {published[k] : k \in Kinds} :
         i_badge[r] = i_badge[q] => r = q \/ {r, q} \subseteq touched

ClosedInv ==
  /\ RecordInv
  /\ ContextsHaveSources
  /\ PublishedIsFresh
  /\ SourcesAreAhead
  /\ TouchedShareBadges
  /\ PublishedIsClosed

LEMMA ClosedInvInit == Init => ClosedInv
<1>. SUFFICES ASSUME Init PROVE ClosedInv
  OBVIOUS
<1>1. ContextsHaveSources
  BY DEF Init, ContextsHaveSources, LiveOf
<1>2. PublishedIsFresh /\ SourcesAreAhead /\ TouchedShareBadges
  BY DEF Init, PublishedIsFresh, SourcesAreAhead, TouchedShareBadges
<1>3. PublishedIsClosed
  BY DEF Init, PublishedIsClosed, IsReadable, Kinds
<1>. QED
  BY <1>1, <1>2, <1>3, RecordInvInit DEF ClosedInv

\* The records of a snapshot are in the list until the next purge of their kind.
LEMMA TakenIsKept ==
  ASSUME RecordInv, NEW k \in Kinds, IsTaken(k)
  PROVE  SnapshotOf(k) = published[k] /\ published[k] \subseteq Records(k)
<1>1. info[k] \in Records(k) \cup {Null} /\ AheadOf(list[k], info[k]) = published[k]
  BY DEF RecordInv, SnapshotsAreKept
<1>2. AheadOf(list[k], info[k]) \subseteq Records(k)
  <2>1. CASE info[k] \in Records(k)
    BY <2>1, PdAssumption, WalkSteps DEF RecordInv, PdTypeOK, ListsAreDisjoint, Records
  <2>2. CASE info[k] \notin Records(k)
    BY <2>2 DEF AheadOf, SuffixFrom, Records, ToSet
  <2>. QED
    BY <2>1, <2>2
<1>. QED
  BY <1>1, <1>2, SnapshotIsSuffix

LEMMA ReadableIsKept ==
  ASSUME RecordInv, IsReadable, NEW k \in Kinds
  PROVE  SnapshotOf(k) = published[k] /\ published[k] \subseteq Records(k)
<1>1. IsTaken(k)
  BY DEF IsReadable, IsTaken, Kinds
<1>. QED
  BY <1>1, TakenIsKept

\* The session's records are blocks, and those of live objects are records.
LEMMA RecordsAreBlocks ==
  ASSUME RecordInv
  PROVE  /\ \A k \in Kinds : Records(k) \subseteq Blocks /\ LiveOf(k) \subseteq Records(k) \cap live
         /\ live \subseteq Blocks
         /\ {"native_caps", "signal_sources", "signal_contexts"} \subseteq Kinds
<1>1. \A k \in Kinds : Records(k) \subseteq Blocks
  BY ListPlaces DEF RecordInv, PdTypeOK, Records
<1>. QED
  BY <1>1 DEF RecordInv, PdTypeOK, LiveOf, Kinds

LEMMA InsertKeepsClosedInv ==
  ASSUME ClosedInv, NEW k \in Kinds, NEW r \in Blocks, NEW b \in Badges,
         NEW s \in Badges \cup {NoBadge}, Insert(k, r, b, s),
         k = "signal_contexts" => \E q \in LiveOf("signal_sources") : s = i_badge[q]
  PROVE  ClosedInv'
<1>0. /\ i_badge' = [i_badge EXCEPT ![r] = b] /\ i_refers' = [i_refers EXCEPT ![r] = s]
      /\ live' = live \cup {r}
      /\ \A q \in live : i_badge[q] # b
      /\ touched' = (IF stage = "idle" THEN touched ELSE touched \cup {r})
      /\ UNCHANGED <<stage, published, orphans, loose>>
  BY DEF Insert, InUse, Touch, walkVars
<1>1. /\ \A l \in Kinds : Records(l)' = IF l = k THEN {r} \cup Records(l) ELSE Records(l)
      /\ \A l \in Kinds : r \notin Records(l)
      /\ r \notin live
  BY InsertEffect DEF Records, ClosedInv
<1>2. \A l \in Kinds : LiveOf(l)' = IF l = k THEN {r} \cup LiveOf(l) ELSE LiveOf(l)
  BY <1>0, <1>1 DEF LiveOf
<1>3. \A l \in Kinds : r \notin LiveOf(l)
  BY <1>1 DEF LiveOf
<1>4. \A q \in Blocks : q # r => i_badge'[q] = i_badge[q] /\ i_refers'[q] = i_refers[q]
  BY <1>0 DEF ClosedInv, RecordInv, PdTypeOK
<1>5. /\ \A l \in Kinds : Records(l) \subseteq Blocks /\ LiveOf(l) \subseteq Blocks
      /\ live \subseteq Blocks
      /\ {"native_caps", "signal_sources", "signal_contexts"} \subseteq Kinds
  BY RecordsAreBlocks DEF ClosedInv
<1>6. i_badge'[r] = b /\ i_refers'[r] = s
  BY <1>0 DEF ClosedInv, RecordInv, PdTypeOK
<1>7. ContextsHaveSources'
  <2>. SUFFICES ASSUME NEW c \in LiveOf("signal_contexts")', c \notin orphans
                PROVE  \E q \in LiveOf("signal_sources")' : i_badge'[q] = i_refers'[c]
    BY <1>0 DEF ContextsHaveSources
  <2>1. CASE c = r
    <3>1. k = "signal_contexts"
      BY <1>2, <1>3, <1>5, <2>1
    <3>2. PICK q \in LiveOf("signal_sources") : s = i_badge[q]
      BY <3>1
    <3>3. q # r /\ q \in Blocks /\ q \in LiveOf("signal_sources")'
      BY <1>2, <1>3, <1>5
    <3>. QED
      BY <1>4, <1>6, <2>1, <3>2, <3>3
  <2>2. CASE c # r
    <3>1. c \in LiveOf("signal_contexts") /\ c \in Blocks
      BY <1>2, <1>5, <2>2
    <3>2. PICK q \in LiveOf("signal_sources") : i_badge[q] = i_refers[c]
      BY <3>1 DEF ClosedInv, ContextsHaveSources
    <3>3. q # r /\ q \in Blocks /\ q \in LiveOf("signal_sources")'
      BY <1>2, <1>3, <1>5
    <3>. QED
      BY <1>4, <2>2, <3>1, <3>2, <3>3
  <2>. QED
    BY <2>1, <2>2
<1>8. PublishedIsFresh'
  BY <1>0 DEF ClosedInv, PublishedIsFresh
<1>9. SourcesAreAhead'
  <2>. SUFFICES ASSUME stage = "signal_contexts",
                       NEW c \in LiveOf("signal_contexts")', c \notin touched', c \notin orphans
                PROVE  \E q \in LiveOf("signal_sources")' \cap published["signal_sources"] :
                         i_badge'[q] = i_refers'[c]
    BY <1>0 DEF SourcesAreAhead
  <2>1. c # r /\ c \notin touched
    BY <1>0
  <2>2. c \in LiveOf("signal_contexts") /\ c \in Blocks
    BY <1>2, <1>5, <2>1
  <2>3. PICK q \in LiveOf("signal_sources") \cap published["signal_sources"] :
          i_badge[q] = i_refers[c]
    BY <2>1, <2>2 DEF ClosedInv, SourcesAreAhead
  <2>4. q # r /\ q \in Blocks /\ q \in LiveOf("signal_sources")'
    BY <1>2, <1>3, <1>5
  <2>. QED
    BY <1>4, <2>1, <2>2, <2>3, <2>4
<1>10. TouchedShareBadges'
  <2>. SUFFICES ASSUME stage # "idle", NEW q \in touched', NEW x \in live',
                       i_badge'[q] = i_badge'[x]
                PROVE  q = x \/ x \in touched'
    BY <1>0 DEF TouchedShareBadges
  <2>1. CASE x = r
    BY <1>0, <2>1
  <2>2. CASE x # r /\ q = r
    <3>1. x \in live /\ i_badge'[x] = i_badge[x]
      BY <1>0, <1>4, <1>5, <2>2
    <3>. QED
      BY <1>0, <1>6, <2>2, <3>1
  <2>3. CASE x # r /\ q # r
    <3>1. /\ x \in live /\ i_badge'[x] = i_badge[x]
          /\ q \in touched /\ q \in Blocks
      BY <1>0, <1>4, <1>5, <2>3 DEF ClosedInv, RecordInv, PdTypeOK
    <3>2. i_badge[q] = i_badge[x]
      BY <1>4, <2>3, <3>1
    <3>. QED
      BY <1>0, <3>1, <3>2 DEF ClosedInv, TouchedShareBadges
  <2>. QED
    BY <2>1, <2>2, <2>3
<1>11. PublishedIsClosed'
  <2>. SUFFICES ASSUME IsReadable
                PROVE  /\ \A c \in published["signal_contexts"] \ (touched \cup loose) :
                            \E q \in published["signal_sources"] : i_badge'[q] = i_refers'[c]
                       /\ \A x, q \in UNION {published[l] : l \in Kinds} :
                            i_badge'[x] = i_badge'[q] => x = q \/ {x, q} \subseteq touched
    <3>1. IsReadable' => IsReadable /\ touched' = touched
      BY <1>0 DEF IsReadable
    <3>. QED
      BY <1>0, <3>1 DEF PublishedIsClosed
  <2>1. \A l \in Kinds : published[l] \subseteq Records(l)
    BY ReadableIsKept DEF ClosedInv
  <2>2. \A l \in Kinds : \A q \in published[l] :
          i_badge'[q] = i_badge[q] /\ i_refers'[q] = i_refers[q]
    BY <1>1, <1>4, <1>5, <2>1
  <2>3. PublishedIsClosed
    BY DEF ClosedInv
  <2>4. \A c \in published["signal_contexts"] \ (touched \cup loose) :
          \E q \in published["signal_sources"] : i_badge'[q] = i_refers'[c]
    BY <1>5, <2>2, <2>3 DEF PublishedIsClosed
  <2>5. \A x, q \in UNION {published[l] : l \in Kinds} :
          i_badge'[x] = i_badge'[q] => x = q \/ {x, q} \subseteq touched
    BY <2>2, <2>3 DEF PublishedIsClosed
  <2>. QED
    BY <2>4, <2>5
<1>12. RecordInv'
  BY InsertKeepsRecordInv DEF ClosedInv
<1>. QED
  BY <1>7, <1>8, <1>9, <1>10, <1>11, <1>12 DEF ClosedInv

\* The contexts of a source that is freed become orphans; a record that is freed while the
\* checkpoint runs is touched.
LEMMA RememberKeepsClosedInv ==
  ASSUME ClosedInv, NEW k \in Kinds, NEW r \in Blocks, Remember(k, r),
         orphans' = IF k = "signal_sources"
           THEN orphans \cup {c \in LiveOf("signal_contexts") : i_refers[c] = i_badge[r]}
           ELSE orphans
  PROVE  ClosedInv'
<1>1. /\ r \in Records(k) /\ live' = live \ {r}
      /\ touched' = (IF stage = "idle" THEN touched ELSE touched \cup {r})
      /\ UNCHANGED <<list, i_badge, i_refers, stage, published, loose>>
  BY RememberEffect DEF ClosedInv
<1>2. /\ \A l \in Kinds : LiveOf(l)' = LiveOf(l) \ {r}
      /\ {"native_caps", "signal_sources", "signal_contexts"} \subseteq Kinds
  BY <1>1 DEF LiveOf, Records, Kinds
<1>3. k # "signal_sources" => r \notin Records("signal_sources")
  BY <1>1, <1>2 DEF ClosedInv, RecordInv, ListsAreDisjoint
\* The source of a context that is no orphan afterwards is not the record that is freed.
<1>4. ASSUME NEW c \in LiveOf("signal_contexts")', c \notin orphans',
             NEW q \in LiveOf("signal_sources"), i_badge[q] = i_refers[c]
      PROVE  c \in LiveOf("signal_contexts") /\ c \notin orphans /\ q \in LiveOf("signal_sources")'
  <2>1. c \in LiveOf("signal_contexts")
    BY <1>2, <1>4
  <2>2. q # r
    <3>1. CASE k = "signal_sources"
      BY <1>4, <2>1, <3>1
    <3>2. CASE k # "signal_sources"
      BY <1>3, <3>2 DEF LiveOf
    <3>. QED
      BY <3>1, <3>2
  <2>. QED
    BY <1>2, <1>4, <2>1, <2>2
<1>5. \A c \in LiveOf("signal_contexts")' : c \notin orphans' =>
        c \in LiveOf("signal_contexts") /\ c \notin orphans
  BY <1>2
<1>6. ContextsHaveSources'
  <2>. SUFFICES ASSUME NEW c \in LiveOf("signal_contexts")', c \notin orphans'
                PROVE  \E q \in LiveOf("signal_sources")' : i_badge[q] = i_refers[c]
    BY <1>1 DEF ContextsHaveSources
  <2>1. PICK q \in LiveOf("signal_sources") : i_badge[q] = i_refers[c]
    BY <1>5 DEF ClosedInv, ContextsHaveSources
  <2>. QED
    BY <1>4, <2>1
<1>7. SourcesAreAhead'
  <2>. SUFFICES ASSUME stage = "signal_contexts",
                       NEW c \in LiveOf("signal_contexts")', c \notin touched', c \notin orphans'
                PROVE  \E q \in LiveOf("signal_sources")' \cap published["signal_sources"] :
                         i_badge[q] = i_refers[c]
    BY <1>1 DEF SourcesAreAhead
  <2>1. c \notin touched
    BY <1>1
  <2>2. PICK q \in LiveOf("signal_sources") \cap published["signal_sources"] :
          i_badge[q] = i_refers[c]
    BY <1>5, <2>1 DEF ClosedInv, SourcesAreAhead
  <2>3. q \in LiveOf("signal_sources")'
    BY <1>4, <2>2
  <2>. QED
    BY <2>2, <2>3
<1>8. PublishedIsFresh'
  <2>1. stage # "idle" => live \cup touched \subseteq live' \cup touched'
    BY <1>1
  <2>. QED
    BY <1>1, <2>1 DEF ClosedInv, PublishedIsFresh
<1>9. TouchedShareBadges'
  <2>. SUFFICES ASSUME stage # "idle", NEW q \in touched', NEW x \in live',
                       i_badge[q] = i_badge[x]
                PROVE  q = x \/ x \in touched'
    BY <1>1 DEF TouchedShareBadges
  <2>1. x \in live /\ (q \in touched \/ q = r)
    BY <1>1
  <2>2. CASE q \in touched
    BY <1>1, <2>1, <2>2 DEF ClosedInv, TouchedShareBadges
  <2>3. CASE q = r
    <3>1. r \in live
      BY RememberEffect DEF ClosedInv
    <3>. QED
      BY <2>1, <2>3, <3>1 DEF ClosedInv, RecordInv, BadgesAreUnique
  <2>. QED
    BY <2>1, <2>2, <2>3
<1>10. PublishedIsClosed'
  <2>1. IsReadable' => IsReadable /\ touched' = touched
    BY <1>1 DEF IsReadable
  <2>. QED
    BY <1>1, <2>1 DEF ClosedInv, PublishedIsClosed
<1>11. RecordInv'
  BY RememberKeepsRecordInv DEF ClosedInv
<1>. QED
  BY <1>6, <1>7, <1>8, <1>9, <1>10, <1>11 DEF ClosedInv

\* The record that is destroyed belongs to no live object, and to no part of the snapshot that
\* the checkpoint has published.
LEMMA DestroyKeepsClosedInv ==
  ASSUME ClosedInv, NEW k \in Kinds, DestroyRecord(k)
  PROVE  ClosedInv'
<1>1. PICK r \in Queued(k) :
        /\ r \in Records(k) /\ r \notin live
        /\ \A l \in Kinds : ToSet(list'[l]) = IF l = k THEN Records(l) \ {r} ELSE Records(l)
        /\ i_badge' = [i_badge EXCEPT ![r] = NoBadge]
        /\ i_refers' = [i_refers EXCEPT ![r] = NoBadge]
        /\ touched' = touched \ {r} /\ orphans' = orphans \ {r}
        /\ stage = k /\ UNCHANGED <<live, stage, published, loose>>
  BY DestroyEffect DEF ClosedInv
<1>2. \A l \in Kinds : LiveOf(l)' = LiveOf(l)
  BY <1>1 DEF LiveOf, Records
<1>3. \A q \in Blocks : q # r => i_badge'[q] = i_badge[q] /\ i_refers'[q] = i_refers[q]
  BY <1>1 DEF ClosedInv, RecordInv, PdTypeOK
<1>4. \A q \in live : q # r /\ i_badge'[q] = i_badge[q] /\ i_refers'[q] = i_refers[q]
  BY <1>1, <1>3 DEF ClosedInv, RecordInv, PdTypeOK
<1>5. ContextsHaveSources'
  BY <1>1, <1>2, <1>4 DEF ClosedInv, ContextsHaveSources, LiveOf, Kinds
<1>6. SourcesAreAhead'
  <2>. SUFFICES ASSUME stage = "signal_contexts",
                       NEW c \in LiveOf("signal_contexts"), c \notin touched', c \notin orphans'
                PROVE  \E q \in LiveOf("signal_sources") \cap published["signal_sources"] :
                         i_badge'[q] = i_refers'[c]
    BY <1>1, <1>2 DEF SourcesAreAhead, Kinds
  <2>1. c # r /\ c \in live
    BY <1>1 DEF LiveOf
  <2>2. c \notin touched /\ c \notin orphans
    BY <1>1, <2>1
  <2>3. PICK q \in LiveOf("signal_sources") \cap published["signal_sources"] :
          i_badge[q] = i_refers[c]
    BY <2>2 DEF ClosedInv, SourcesAreAhead
  <2>4. q \in live
    BY DEF LiveOf
  <2>. QED
    BY <1>4, <2>1, <2>3, <2>4
<1>7. \A l \in Kinds : IsTaken(l) => r \notin published[l]
  <2>. SUFFICES ASSUME NEW l \in Kinds, IsTaken(l) PROVE r \notin published[l]
    OBVIOUS
  <2>1. published[l] \subseteq Records(l)
    BY TakenIsKept DEF ClosedInv
  <2>2. l # k
    BY <1>1 DEF IsTaken
  <2>3. Records(l) \cap Records(k) = {}
    BY <2>2 DEF ClosedInv, RecordInv, ListsAreDisjoint
  <2>. QED
    BY <1>1, <2>1, <2>3
<1>8. PublishedIsFresh'
  <2>1. ASSUME NEW l \in Kinds, l # stage, published[l] \subseteq live \cup touched
        PROVE  published[l] \subseteq live \cup touched'
    <3>1. published[l] # Null => r \notin published[l]
      BY <1>7, <2>1 DEF IsTaken
    <3>2. CASE published[l] = Null
      <4>1. live \cup touched \in SUBSET Blocks
        BY DEF ClosedInv, RecordInv, PdTypeOK
      <4>2. published[l] \in SUBSET Blocks
        BY <2>1, <4>1
      <4>. QED
        BY <3>2, <4>2, PdAssumption
    <3>. QED
      BY <1>1, <2>1, <3>1, <3>2
  <2>. QED
    BY <1>1, <2>1 DEF ClosedInv, PublishedIsFresh, Kinds
<1>9. TouchedShareBadges'
  <2>. SUFFICES ASSUME stage # "idle", NEW q \in touched', NEW x \in live,
                       i_badge'[q] = i_badge'[x]
                PROVE  q = x \/ x \in touched'
    BY <1>1 DEF TouchedShareBadges
  <2>1. q \in touched /\ q # r /\ q \in Blocks
    BY <1>1 DEF ClosedInv, RecordInv, PdTypeOK
  <2>2. x # r /\ i_badge[q] = i_badge[x]
    BY <1>3, <1>4, <2>1
  <2>3. q = x \/ x \in touched
    BY <2>1, <2>2 DEF ClosedInv, TouchedShareBadges
  <2>. QED
    BY <1>1, <2>2, <2>3
<1>10. PublishedIsClosed'
  BY <1>1 DEF PublishedIsClosed, IsReadable, Kinds
<1>11. RecordInv'
  BY DestroyKeepsRecordInv DEF ClosedInv
<1>. QED
  BY <1>5, <1>6, <1>8, <1>9, <1>10, <1>11 DEF ClosedInv

LEMMA PurgeDoneKeepsClosedInv ==
  ASSUME ClosedInv, NEW k \in Kinds, PurgeDone(k)
  PROVE  ClosedInv'
<1>1. UNCHANGED <<list, i_badge, i_refers, live, stage, published, touched, orphans, loose>>
  BY DEF PurgeDone, recordVars, historyVars
<1>2. ContextsHaveSources' /\ SourcesAreAhead'
  BY <1>1 DEF ClosedInv, ContextsHaveSources, SourcesAreAhead, LiveOf, Records
<1>3. PublishedIsFresh' /\ TouchedShareBadges' /\ PublishedIsClosed'
  BY <1>1 DEF ClosedInv, PublishedIsFresh, TouchedShareBadges, PublishedIsClosed, IsReadable
<1>4. RecordInv'
  BY PurgeDoneKeepsRecordInv DEF ClosedInv
<1>. QED
  BY <1>2, <1>3, <1>4 DEF ClosedInv

\* The sources are ahead when the contexts come; with the contexts the snapshot is complete.
LEMMA PublishKeepsClosedInv ==
  ASSUME ClosedInv, NEW k \in Kinds, Publish(k)
  PROVE  ClosedInv'
<1>1. /\ published' = [published EXCEPT ![k] = PublishedNow(k)]
      /\ stage = k /\ stage' = NextStage(k)
      /\ loose' = (IF k = "signal_contexts" THEN orphans ELSE loose)
      /\ UNCHANGED <<list, i_badge, i_refers, live, touched, orphans>>
  BY DEF Publish, EndPart, recordVars
<1>2. \A l \in Kinds : LiveOf(l)' = LiveOf(l)
  BY <1>1 DEF LiveOf, Records
<1>3. /\ published'[k] = PublishedNow(k)
      /\ \A l \in Kinds : l # k => published'[l] = published[l]
      /\ PublishedNow(k) = Records(k)
      /\ PublishedNow(k) \subseteq live \cup touched
  <2>1. PublishedNow(k) = Records(k)
    BY PublishTakes DEF ClosedInv
  <2>2. PublishedNow(k) \subseteq live \cup touched
    BY DEF PublishedNow
  <2>. QED
    BY <1>1, <2>1, <2>2 DEF ClosedInv, RecordInv, PdTypeOK
<1>4. ContextsHaveSources'
  BY <1>1, <1>2 DEF ClosedInv, ContextsHaveSources, Kinds
<1>5. PublishedIsFresh'
  BY <1>1, <1>3 DEF ClosedInv, PublishedIsFresh, NextStage, Kinds
<1>6. SourcesAreAhead'
  <2>. SUFFICES ASSUME stage' = "signal_contexts",
                       NEW c \in LiveOf("signal_contexts"), c \notin touched, c \notin orphans
                PROVE  \E q \in LiveOf("signal_sources") \cap published'["signal_sources"] :
                         i_badge[q] = i_refers[c]
    BY <1>1, <1>2 DEF SourcesAreAhead, Kinds
  <2>1. k = "signal_sources"
    BY <1>1 DEF NextStage, Kinds
  <2>2. PICK q \in LiveOf("signal_sources") : i_badge[q] = i_refers[c]
    BY DEF ClosedInv, ContextsHaveSources
  <2>3. q \in published'["signal_sources"]
    BY <1>3, <2>1 DEF LiveOf
  <2>. QED
    BY <2>2, <2>3
<1>7. TouchedShareBadges'
  <2>1. stage # "idle"
    BY <1>1 DEF Kinds
  <2>. QED
    BY <1>1, <2>1 DEF ClosedInv, TouchedShareBadges
<1>8. PublishedIsClosed'
  <2>. SUFFICES ASSUME stage' = "idle"
                PROVE  /\ \A c \in published'["signal_contexts"] \ (touched \cup loose') :
                            \E q \in published'["signal_sources"] : i_badge[q] = i_refers[c]
                       /\ \A x, q \in UNION {published'[l] : l \in Kinds} :
                            i_badge[x] = i_badge[q] => x = q \/ {x, q} \subseteq touched
    BY <1>1 DEF PublishedIsClosed, IsReadable
  <2>1. k = "signal_contexts" /\ stage = "signal_contexts"
    BY <1>1 DEF NextStage, Kinds
  <2>2. ASSUME NEW c \in published'["signal_contexts"] \ (touched \cup loose')
        PROVE  \E q \in published'["signal_sources"] : i_badge[q] = i_refers[c]
    <3>1. c \in LiveOf("signal_contexts") /\ c \notin touched /\ c \notin orphans
      BY <1>1, <1>3, <2>1 DEF LiveOf
    <3>2. PICK q \in LiveOf("signal_sources") \cap published["signal_sources"] :
            i_badge[q] = i_refers[c]
      BY <2>1, <3>1 DEF ClosedInv, SourcesAreAhead
    <3>3. published'["signal_sources"] = published["signal_sources"]
      BY <1>3, <2>1 DEF Kinds
    <3>. QED
      BY <3>2, <3>3
  <2>3. \A l \in Kinds : published'[l] \subseteq live \cup touched
    BY <1>3, <2>1 DEF ClosedInv, PublishedIsFresh, Kinds
  <2>4. ASSUME NEW x \in live \cup touched, NEW q \in live \cup touched, i_badge[x] = i_badge[q]
        PROVE  x = q \/ {x, q} \subseteq touched
    <3>1. CASE x \in live /\ q \in live
      BY <2>4, <3>1 DEF ClosedInv, RecordInv, BadgesAreUnique
    <3>2. CASE x \in touched /\ q \in live
      BY <2>1, <2>4, <3>2 DEF ClosedInv, TouchedShareBadges
    <3>3. CASE x \in live /\ q \in touched
      BY <2>1, <2>4, <3>3 DEF ClosedInv, TouchedShareBadges
    <3>4. CASE x \in touched /\ q \in touched
      BY <3>4
    <3>. QED
      BY <3>1, <3>2, <3>3, <3>4
  <2>5. \A x, q \in UNION {published'[l] : l \in Kinds} :
          i_badge[x] = i_badge[q] => x = q \/ {x, q} \subseteq touched
    BY <2>3, <2>4
  <2>. QED
    BY <2>2, <2>5
<1>9. RecordInv'
  BY PublishKeepsRecordInv DEF ClosedInv
<1>. QED
  BY <1>4, <1>5, <1>6, <1>7, <1>8, <1>9 DEF ClosedInv

LEMMA ClosedInvStep ==
  ASSUME ClosedInv, [Next]_vars
  PROVE  ClosedInv'
<1>1. ASSUME NEW r \in Blocks, NEW b \in Badges, Alloc(r, b) PROVE ClosedInv'
  <2>. RecordInv
    BY DEF ClosedInv
  <2>. QED
    BY <1>1, AllocInserts, InsertKeepsClosedInv
<1>2. ASSUME NEW r \in Blocks, Free(r) PROVE ClosedInv'
  BY <1>2, FreeRemembers, RememberKeepsClosedInv
<1>3. CASE Begin
  <2>1. /\ UNCHANGED <<list, i_badge, i_refers, live, published, orphans>>
        /\ stage' = "native_caps" /\ touched' = {}
    BY <1>3 DEF Begin, recordVars
  <2>2. ContextsHaveSources'
    BY <2>1 DEF ClosedInv, ContextsHaveSources, LiveOf, Records
  <2>3. PublishedIsFresh' /\ SourcesAreAhead' /\ TouchedShareBadges' /\ PublishedIsClosed'
    BY <2>1 DEF PublishedIsFresh, SourcesAreAhead, TouchedShareBadges, PublishedIsClosed,
                IsReadable
  <2>. QED
    BY <1>3, <2>2, <2>3, RecordInvStep DEF ClosedInv, Next
<1>4. CASE checkpoint
  BY <1>4, CheckpointSteps, DestroyKeepsClosedInv, PurgeDoneKeepsClosedInv,
     PublishKeepsClosedInv
<1>5. CASE UNCHANGED vars
  <2>1. UNCHANGED <<list, i_badge, i_refers, live, stage, published, touched, orphans, loose>>
    BY <1>5 DEF vars, recordVars, walkVars, historyVars
  <2>2. ContextsHaveSources' /\ SourcesAreAhead'
    BY <2>1 DEF ClosedInv, ContextsHaveSources, SourcesAreAhead, LiveOf, Records
  <2>3. PublishedIsFresh' /\ TouchedShareBadges' /\ PublishedIsClosed'
    BY <2>1 DEF ClosedInv, PublishedIsFresh, TouchedShareBadges, PublishedIsClosed, IsReadable
  <2>. QED
    BY <1>5, <2>2, <2>3, RecordInvStep DEF ClosedInv
<1>. QED
  BY <1>1, <1>2, <1>3, <1>4, <1>5 DEF Next

-----------------------------------------------------------------------------
(* The theorems. *)

\* The inductive invariant of the three lists: a list holds a record once, its queue holds
\* those of dead objects, the live one of a badge comes first, and a snapshot is a tail of
\* its list.
THEOREM RecordInvariant == Spec => []RecordInv
<1>1. RecordInv /\ [Next]_vars => RecordInv'
  BY RecordInvStep
<1>. QED
  BY <1>1, RecordInvInit, PTL DEF Spec

\* A free destroys the record of the object that was freed, once, although the badge may
\* have been given to several objects before. (pd_session.cc 276-360)
THEOREM FreesFindTheirRecords == Spec => []FreeFindsItsRecord
<1>1. RecordInv => FreeFindsItsRecord
  <2>. SUFFICES ASSUME RecordInv, NEW k \in Kinds
                PROVE  /\ LiveOf(k) = Records(k) \ ToSet(destroyed[k])
                       /\ \A i, j \in DOMAIN destroyed[k] :
                            destroyed[k][i] = destroyed[k][j] => i = j
    BY DEF FreeFindsItsRecord
  <2>1. ToSet(destroyed[k]) = Records(k) \ live
    BY DEF RecordInv, QueuesHoldTheDead, Queued
  <2>2. IsInjective(destroyed[k])
    BY DEF RecordInv, QueuesHoldTheDead
  <2>. QED
    BY <2>1, <2>2 DEF LiveOf, IsInjective
<1>. QED
  BY <1>1, RecordInvariant, PTL

\* Between checkpoints each of the three snapshots is what its checkpoint found live, and what
\* the child freed while it ran: an object that is freed later stays in it, a new one is not
\* in it. (pd_session.cc 107-155)
THEOREM SnapshotsArePublished == Spec => []SnapshotIsPublished
<1>1. RecordInv => SnapshotIsPublished
  BY ReadableIsKept DEF SnapshotIsPublished
<1>. QED
  BY <1>1, RecordInvariant, PTL

\* The inductive invariant of the three snapshots together: the sources of the contexts that
\* are published next have been published, and what was published is live or touched.
THEOREM ClosedInvariant == Spec => []ClosedInv
<1>1. ClosedInv /\ [Next]_vars => ClosedInv'
  BY ClosedInvStep
<1>. QED
  BY <1>1, ClosedInvInit, PTL DEF Spec

\* The source of every signal context in the snapshot is in it, unless the child touched the
\* context while the checkpoint ran or had freed the source before it, and a badge names one
\* object in it, unless the child freed one and allocated the other while the checkpoint ran.
\* (pd_session.cc 193-195, 276-290)
THEOREM SnapshotsAreClosed == Spec => []SnapshotIsClosed
<1>1. ClosedInv => SnapshotIsClosed
  <2>. SUFFICES ASSUME ClosedInv, IsReadable
                PROVE  /\ \A c \in SnapshotOf("signal_contexts") \ (touched \cup loose) :
                            \E s \in SnapshotOf("signal_sources") : i_badge[s] = i_refers[c]
                       /\ \A r, q \in UNION {SnapshotOf(k) : k \in Kinds} :
                            i_badge[r] = i_badge[q] => r = q \/ {r, q} \subseteq touched
    BY DEF SnapshotIsClosed
  <2>1. \A k \in Kinds : SnapshotOf(k) = published[k]
    BY ReadableIsKept DEF ClosedInv
  <2>2. PublishedIsClosed
    BY DEF ClosedInv
  <2>3. UNION {SnapshotOf(k) : k \in Kinds} = UNION {published[k] : k \in Kinds}
    BY <2>1
  <2>. QED
    BY <2>1, <2>2, <2>3 DEF PublishedIsClosed, Kinds
<1>. QED
  BY <1>1, ClosedInvariant, PTL
=============================================================================
