----------------------------- MODULE MCCpuSession -----------------------------
(***************************************************************************)
(* Instances of CpuSession for TLC: two threads.  The badge in a record    *)
(* that nobody has set may be that of either thread; the flags are copied  *)
(* and nothing depends on them, so that one value is enough.               *)
(***************************************************************************)
EXTENDS CpuSession, TLC

CONSTANTS t1, t2

TwoBlocks == {t1, t2}
OneFlag == {FALSE}
Symmetry == Permutations(TwoBlocks)
AnyThread == TwoBlocks
=============================================================================
