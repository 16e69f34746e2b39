----------------------------- MODULE MCKeyMgmt -----------------------------
(* Instance of KeyMgmt for TLC. *)
EXTENDS KeyMgmt, TLC

CONSTANTS root, everyone, g

MCGroupLists == {{g}, {root}}
Symmetry == {p @@ n @@ a : p \in Permutations(Pass), n \in Permutations(Name),
                           a \in Permutations(Admin)}
=============================================================================
