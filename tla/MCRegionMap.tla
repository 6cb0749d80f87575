------------------------------ MODULE MCRegionMap ------------------------------
(***************************************************************************)
(* Instances of RegionMap for TLC: heap blocks for three records and an    *)
(* address space of a few pages; the capability mapping looks for an       *)
(* address at the border of two pages.                                     *)
(***************************************************************************)
EXTENDS RegionMap, TLC

CONSTANTS r1, r2, r3

MCBlocks == {r1, r2, r3}

\* No definition tells one block from another.
Symmetry == Permutations(MCBlocks)
=============================================================================
