--------------------------- MODULE MCRamDataspaces ---------------------------
(***************************************************************************)
(* Instances of RamDataspaces for TLC: three heap blocks and two contents. *)
(***************************************************************************)
EXTENDS RamDataspaces, TLC

CONSTANTS r1, r2, r3

MCBlocks == {r1, r2, r3}
MCContents == {"blank", "data"}

\* No definition tells one block from another.
Symmetry == Permutations(MCBlocks)
=============================================================================
