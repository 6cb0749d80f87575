-------------------------- MODULE MCOptionalSessions --------------------------
(***************************************************************************)
(* An instance of OptionalSessions for TLC: two threads of a child, an     *)
(* unsigned int of 16 values and a thousand of 3.                          *)
(***************************************************************************)
EXTENDS OptionalSessions, TLC

CONSTANTS t1, t2

Symmetry == Permutations(Threads) \cup Permutations(Contexts)
=============================================================================
