------------------------- MODULE MCContentWorkflow -------------------------
(***************************************************************************)
(* One content item and four calls: regenerations and exports, in any mix. *)
(***************************************************************************)
EXTENDS ContentWorkflow, TLC

CONSTANTS r1, r2, r3, r4

MCRequests == {r1, r2, r3, r4}
Symmetry   == Permutations(MCRequests)
=============================================================================
