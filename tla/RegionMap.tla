------------------------------- MODULE RegionMap -------------------------------
(***************************************************************************)
(* Rtcr::Region_map (src/rtcr/region_map.cc): a record is kept for every   *)
(* dataspace the child attaches to one of its region maps.                 *)
(*                                                                         *)
(* attach() and detach() run in the entrypoint, at any time: nothing       *)
(* pauses the child.  checkpoint() runs in the thread of Pd_checkpointable *)
(* and destroys the records that detach() has queued.                      *)
(* find_attached_region_by_addr() walks the list without a lock in the     *)
(* thread of Capability_mapping, which Init_module starts together with    *)
(* the former or, without _parallel, after all other workers.              *)
(*                                                                         *)
(* A record is named by the heap block it lives in.  Addresses count half  *)
(* pages: regions begin and end at even addresses, and the data structure  *)
(* the capability mapping looks for lies where it pleases.                 *)
(***************************************************************************)
EXTENDS Naturals, Sequences, SequencesExt, Fifo

CONSTANTS
  Blocks,      \* heap blocks for records
  Null,        \* the null pointer
  Pages,       \* the number of pages of the address space
  Sizes,       \* the numbers of pages a region can have
  CapAddr,     \* cap_idx_alloc_addr
  Parallel     \* _parallel of Init_module

ASSUME RegionMapAssumption ==
  /\ Null \notin Blocks
  /\ Pages \in Nat /\ CapAddr \in Nat
  /\ Sizes \subseteq Nat \ {0}
  /\ Parallel \in BOOLEAN

VARIABLES
  _attached_regions,            \* the list, head first
  _destroyed_attached_regions,  \* the queue of records to destroy
  i_attached_regions,           \* the first record of the snapshot
  region,                       \* region[r]: i_rel_addr and i_size of a record
  attached,                     \* the regions the parent has attached
  pc,                           \* what checkpoint() does next
  lookup,                       \* what find_attached_region_by_addr() does next
  ar_info,                      \* the record it looks at, or its result
  published,                    \* history: what the last checkpoint has published, Null before
  disturbed,                    \* history: the child called between purge and publication
  stray,                        \* history: the first detach that queued another's record
  sought                        \* history: what was attached at CapAddr when the lookup
                                \* began, and has been since

listVars == <<_attached_regions, _destroyed_attached_regions, i_attached_regions>>
lookupVars == <<lookup, ar_info>>
historyVars == <<published, disturbed, stray, sought>>
vars == <<listVars, region, attached, pc, lookupVars, historyVars>>

\* What a record says of its region.
Regions == {s \in [i_rel_addr : {2 * p : p \in 0 .. Pages - 1}, i_size : {2 * p : p \in Sizes}] :
              s.i_rel_addr + s.i_size <= 2 * Pages}

\* The null pointer is told from a snapshot.
ASSUME NullAssumption == \A S \in SUBSET Blocks : \A f \in [S -> Regions] : f # Null

Records == ToSet(_attached_regions)
Queued == ToSet(_destroyed_attached_regions)
First == IF _attached_regions = <<>> THEN Null ELSE Head(_attached_regions)
Place(r) == SelectInSeq(_attached_regions, LAMBDA x : x = r)
ListFrom(r) == IF r \in Records
               THEN SubSeq(_attached_regions, Place(r), Len(_attached_regions)) ELSE <<>>
NextOf(r) == IF Len(ListFrom(r)) > 1 THEN ListFrom(r)[2] ELSE Null

\* The content of a heap block without a record.
NoRegion == [i_rel_addr |-> 0, i_size |-> 2]

\* What the records say, those aside that wait for their end.
Recorded == Records \ Queued
RecordedMemory == [r \in Recorded |-> region[r]]

\* No constructor sets i_attached_regions: it holds what the memory held.
Init ==
  /\ _attached_regions = <<>>
  /\ _destroyed_attached_regions = <<>>
  /\ i_attached_regions \in Blocks \cup {Null}
  /\ region = [r \in Blocks |-> NoRegion]
  /\ attached = {}
  /\ pc = "idle" /\ lookup = "idle" /\ ar_info = Null
  /\ published = Null /\ disturbed = FALSE /\ stray = {} /\ sought = {}

-----------------------------------------------------------------------------
(* The child, through the entrypoint. *)

Apart(s, t) ==
  \/ s.i_rel_addr + s.i_size <= t.i_rel_addr
  \/ t.i_rel_addr + t.i_size <= s.i_rel_addr

ChildDisturbs == disturbed' = (disturbed \/ pc = "publish")

\* Mutant of Attach: the record is inserted at the end of the list.
AttachAtTail(r, s) ==
  /\ r \notin Records
  /\ \A t \in attached : Apart(t, s)
  /\ region' = [region EXCEPT ![r] = s]
  /\ attached' = attached \cup {s}
  /\ _attached_regions' = Append(_attached_regions, r)
  /\ ChildDisturbs
  /\ UNCHANGED <<_destroyed_attached_regions, i_attached_regions, pc, lookupVars, published,
                 stray, sought>>

\* The parent attaches a region where it overlaps no other.
Attach(r, s) ==
  /\ r \notin Records
  /\ \A t \in attached : Apart(t, s)
  /\ region' = [region EXCEPT ![r] = s]
  /\ attached' = attached \cup {s}
  /\ _attached_regions' = <<r>> \o _attached_regions
  /\ ChildDisturbs
  /\ UNCHANGED <<_destroyed_attached_regions, i_attached_regions, pc, lookupVars, published,
                 stray, sought>>

\* The test of find_by_addr(): both ends belong to the region.
Covers(s, addr) == s.i_rel_addr <= addr /\ addr <= s.i_rel_addr + s.i_size

find_by_addr(addr) ==
  LET i == SelectInSeq(_attached_regions, LAMBDA r : Covers(region[r], addr))
  IN  IF i = 0 THEN Null ELSE _attached_regions[i]

\* The child detaches a region by its address; the record is looked up.
Detach(s) ==
  /\ s \in attached
  /\ attached' = attached \ {s}
  /\ LET found == find_by_addr(s.i_rel_addr)
     IN  /\ _destroyed_attached_regions' =
              IF found = Null THEN _destroyed_attached_regions
                              ELSE enqueue(_destroyed_attached_regions, found)
         /\ stray' = IF stray = {} /\ found # Null /\ region[found] # s
                     THEN {[meant |-> s, hit |-> region[found]]} ELSE stray
  /\ ChildDisturbs
  /\ sought' = sought \ {s}
  /\ UNCHANGED <<_attached_regions, i_attached_regions, region, pc, lookupVars, published>>

-----------------------------------------------------------------------------
(* The checkpoint of a child: checkpoint() and the lookup. *)

Begin ==
  /\ pc = "idle" /\ lookup = "idle"
  /\ pc' = "purge" /\ lookup' = "first"
  /\ UNCHANGED <<listVars, region, attached, ar_info, historyVars>>

\* Mutant of DestroyRegion: the rest of the list is lost with the record.
DestroyWithRest ==
  /\ pc = "purge"
  /\ _destroyed_attached_regions # <<>>
  /\ LET destroyed == Head(_destroyed_attached_regions)
     IN  /\ _attached_regions' = SubSeq(_attached_regions, 1, Place(destroyed) - 1)
         /\ region' = [region EXCEPT ![destroyed] = NoRegion]
  /\ _destroyed_attached_regions' = Tail(_destroyed_attached_regions)
  /\ UNCHANGED <<i_attached_regions, attached, pc, lookupVars, historyVars>>

\* One record of the queue.
DestroyRegion ==
  /\ pc = "purge"
  /\ _destroyed_attached_regions # <<>>
  /\ LET destroyed == Head(_destroyed_attached_regions)
     IN  /\ _attached_regions' = RemoveFirst(_attached_regions, destroyed)
         /\ region' = [region EXCEPT ![destroyed] = NoRegion]
  /\ _destroyed_attached_regions' = Tail(_destroyed_attached_regions)
  /\ UNCHANGED <<i_attached_regions, attached, pc, lookupVars, historyVars>>

\* Mutant of Purged: one record is destroyed at most.
PurgedTooEarly ==
  /\ pc = "purge"
  /\ pc' = "publish"
  /\ UNCHANGED <<listVars, region, attached, lookupVars, historyVars>>

\* dequeue_all() finds the queue empty.
Purged ==
  /\ pc = "purge"
  /\ _destroyed_attached_regions = <<>>
  /\ pc' = "publish"
  /\ UNCHANGED <<listVars, region, attached, lookupVars, historyVars>>

\* The first record is read after the purge; the child may have called meanwhile.
Publish ==
  /\ pc = "publish"
  /\ i_attached_regions' = First
  /\ published' = [r \in Records |-> region[r]]
  /\ pc' = "done"
  /\ disturbed' = FALSE
  /\ UNCHANGED <<_attached_regions, _destroyed_attached_regions, region, attached, lookupVars,
                 stray, sought>>

checkpoint == DestroyRegion \/ Purged \/ Publish

\* find_attached_region_by_addr(CapAddr) dereferences the first record
\* without a test; a null pointer is a page fault and the thread stops.
LookupFirst ==
  /\ lookup = "first"
  /\ Parallel \/ pc = "done"
  /\ ar_info' = First
  /\ lookup' = IF First = Null THEN "fault" ELSE "test"
  /\ sought' = {s \in attached : s.i_rel_addr <= CapAddr /\ CapAddr < s.i_rel_addr + s.i_size}
  /\ UNCHANGED <<listVars, region, attached, pc, published, disturbed, stray>>

\* find_by_addr() of one record, which calls that of the next.  A search
\* without a result ends with the null pointer.
LookupNext ==
  /\ lookup = "test"
  /\ ar_info \in Records
  /\ IF Covers(region[ar_info], CapAddr)
     THEN lookup' = "done" /\ UNCHANGED ar_info
     ELSE /\ ar_info' = NextOf(ar_info)
          /\ lookup' = IF NextOf(ar_info) = Null THEN "done" ELSE "test"
  /\ UNCHANGED <<listVars, region, attached, pc, historyVars>>

\* The record has been destroyed since the lookup came to it.  What it reads is
\* no longer its own; where it goes from there is not modelled.
LookupDangles ==
  /\ lookup = "test"
  /\ ar_info \notin Records
  /\ lookup' = "wild"
  /\ UNCHANGED <<listVars, region, attached, pc, ar_info, historyVars>>

find_attached_region_by_addr == LookupFirst \/ LookupNext \/ LookupDangles

\* Init_module has joined both workers.
End ==
  /\ pc = "done" /\ lookup = "done"
  /\ pc' = "idle" /\ lookup' = "idle" /\ ar_info' = Null
  /\ UNCHANGED <<listVars, region, attached, historyVars>>

Next ==
  \/ \E s \in Regions : Detach(s) \/ \E r \in Blocks : Attach(r, s)
  \/ Begin \/ End
  \/ checkpoint \/ find_attached_region_by_addr

Spec == Init /\ [][Next]_vars

-----------------------------------------------------------------------------
(* Properties *)

\* The regions the parent has attached are those with a record that is not in the
\* queue. (region_map.h 128-129: detach() "Detaches the dataspace from parent's
\* region map and destroys the information about the attachment".)  TLC refutes it; what
\* holds is OnlyNeighboursAreConfused.
DetachDestroysItsRecord == attached = {region[r] : r \in Recorded}

\* The only way a detach queues the record of another region is that the other
\* ends where the detached one begins, and until it happens every attached region
\* has one record, and only queued records have none.  Even after it the queue
\* holds records of the list, each once: none is destroyed twice.
\* (region_map.cc 170-176, attached_region_info.h 73)
OnlyNeighboursAreConfused ==
  /\ \A c \in stray : c.hit.i_rel_addr + c.hit.i_size = c.meant.i_rel_addr
  /\ stray = {} =>
       /\ DetachDestroysItsRecord
       /\ \A q, r \in Recorded : region[q] = region[r] => q = r
  /\ Queued \subseteq Records
  /\ \A i, j \in DOMAIN _destroyed_attached_regions :
       _destroyed_attached_regions[i] = _destroyed_attached_regions[j] => i = j

\* The region map keeps the promise of Snapshot: between two checkpoints, the
\* records from i_attached_regions on are those that were in the list, and not in
\* the queue, at the first, unless the child called between purge and publication.
\* Nobody reads them before there was one. (region_map.cc 57-72)
Promise == INSTANCE Snapshot WITH
  Names <- Blocks, Values <- Regions,
  live <- RecordedMemory,
  snapshot <- CASE published = Null -> <<>>
                [] published # Null /\ pc \in {"purge", "publish"} -> published
                [] published # Null /\ pc \notin {"purge", "publish"} ->
                     [r \in ToSet(ListFrom(i_attached_regions)) |-> region[r]]
KeepsSnapshotPromise == Promise!SnapshotSpec

\* The lookup of the capability mapping never stands on a record that has been
\* destroyed. (region_map.cc 77-78: "no lock needed, as we are looking for
\* something, which will not be deleted".)  TLC refutes it; what holds is
\* LookupFindsWhatStays.
LookupIsAlive == lookup = "test" => ar_info \in Records

\* A lookup that comes to an end, with the child running and the purge beside it,
\* has found the region that has been attached at the address since it began, or
\* one that ends there.  It misses the region only if its record was queued by a
\* stray detach. (region_map.cc 75-82, init_module.cc 124-126)
LookupFindsWhatStays ==
  [][lookup = "test" /\ lookup' = "done" /\ stray = {} =>
       \A s \in sought :
         /\ ar_info' # Null
         /\ \/ region[ar_info'] = s
            \/ region[ar_info'].i_rel_addr + region[ar_info'].i_size = CapAddr]_vars
=============================================================================
