--------------------------- MODULE MCCheckpointable ---------------------------
(***************************************************************************)
(* Instances of Checkpointable for TLC: one client and two workers, of     *)
(* which only the second may throw, or one worker that does not.           *)
(***************************************************************************)
EXTENDS Checkpointable, TLC

CONSTANTS w1, w2, client

MCWorkers == {w1, w2}
MCThrowing == {w2}
OneWorker == {w1}
NoWorker == {}
=============================================================================
