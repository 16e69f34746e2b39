---------------------------- MODULE MCServerDir ----------------------------
(* ServerDir for TLC. *)
EXTENDS ServerDir, TLC

\* Interchangeable values.
Symmetry == Permutations(Client) \cup Permutations(Id) \cup Permutations(Name)

\* Several names in one directory, or one name and subdirectories.
SmallScope ==
    {[names |-> N, ids |-> I, ops |-> 4 - Cardinality(I)] :
        N \in SUBSET Name, I \in SUBSET Id}
MCScope ==
    {s \in SmallScope : \/ Cardinality(s.names) = 2 /\ s.ids = {}
                        \/ Cardinality(s.names) = 1 /\ s.ids # {}}
=============================================================================
