--------------------------- MODULE MCNestedOutput ---------------------------
(* Three renders of gen/models and two, one after the other, of gen. *)
EXTENDS NestedOutput, TLC

CONSTANTS d1, d2, d3

Renders == {d1, d2, d3}
Symmetry == Permutations(Renders)
=============================================================================
