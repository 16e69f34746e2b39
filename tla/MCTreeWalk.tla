----------------------------- MODULE MCTreeWalk -----------------------------
(* TreeWalk for TLC. *)
EXTENDS TreeWalk, TLC

CONSTANTS a, b

\* A directory with two subdirectories, and a chain of three.
Fork == [d \in {a, b} |-> Root]
Chain == [d \in {a, b} |-> IF d = a THEN Root ELSE a]
ForkOrChain == {Fork, Chain}

Symmetry == Permutations(Worker)
=============================================================================
