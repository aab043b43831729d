--------------------------- MODULE MCIdentifiers ---------------------------
(* A small tenant: a few requests at once, one tag, one old asset. *)
EXTENDS Identifiers, TLC

Symmetry == Permutations(Workers)
=============================================================================
