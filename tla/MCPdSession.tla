------------------------------ MODULE MCPdSession ------------------------------
(***************************************************************************)
(* Instances of PdSession for TLC: four heap blocks and two badges, so     *)
(* that a source and a context can be live while the records of two dead   *)
(* objects wait, and both the blocks and the badges are used again.  The   *)
(* badges can be exchanged for each other, and so can the blocks.          *)
(***************************************************************************)
EXTENDS PdSession, TLC

CONSTANTS r1, r2, r3, r4, b1, b2

MCBlocks == {r1, r2, r3, r4}
MCBadges == {b1, b2}
Symmetry == Permutations(MCBlocks) \cup Permutations(MCBadges)
=============================================================================
