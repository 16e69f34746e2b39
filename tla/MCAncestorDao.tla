--------------------------- MODULE MCAncestorDao ---------------------------
(* AncestorDao for TLC. *)
EXTENDS AncestorDao, TLC

Symmetry == Permutations(Name)
=============================================================================
