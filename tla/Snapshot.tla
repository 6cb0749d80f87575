------------------------------- MODULE Snapshot -------------------------------
(***************************************************************************)
(* What a session component promises to whoever reads its *_info object:   *)
(* the objects the child owns change as the child pleases, and the         *)
(* snapshot changes only when a checkpoint completes, from one consistent  *)
(* state of the child to a later one.                                      *)
(*                                                                         *)
(* Nothing keeps the child from running during a checkpoint.  If it has    *)
(* disturbed one, the snapshot holds objects with values, but it need not  *)
(* be a state the child was ever in; the next checkpoint starts afresh.    *)
(*                                                                         *)
(* An object is a name with a value: live and snapshot are functions from  *)
(* the names that exist to their values.                                   *)
(***************************************************************************)
CONSTANTS Names, Values

VARIABLES live, snapshot,
          disturbed  \* the child has interfered with the checkpoint under way

snapshotVars == <<live, snapshot, disturbed>>

IsState(f) ==
  /\ DOMAIN f \subseteq Names
  /\ \A n \in DOMAIN f : f[n] \in Values

SnapshotTypeOK == IsState(live) /\ IsState(snapshot) /\ disturbed \in BOOLEAN

SnapshotInit == live = <<>> /\ snapshot = <<>> /\ disturbed = FALSE

\* The child allocates, frees or writes.
ChildStep ==
  /\ IsState(live')
  /\ disturbed' \in {disturbed, TRUE}
  /\ UNCHANGED snapshot

TakeSnapshot ==
  /\ IF disturbed THEN IsState(snapshot') ELSE snapshot' = live
  /\ disturbed' = FALSE
  /\ UNCHANGED live

SnapshotNext == ChildStep \/ TakeSnapshot

SnapshotSpec == SnapshotInit /\ [][SnapshotNext]_snapshotVars
=============================================================================
