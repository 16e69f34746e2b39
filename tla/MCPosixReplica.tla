--------------------------- MODULE MCPosixReplica ---------------------------
(* PosixReplica for TLC. *)
EXTENDS PosixReplica, TLC

\* Two edits anywhere in two syncs of three operations together; an edit and
\* perhaps a crash in two syncs of three, and in three of two.
Small ==
    {[edits |-> 2, crashes |-> 0, syncs |-> 2, ops |-> 3],
     [edits |-> 1, crashes |-> 1, syncs |-> 2, ops |-> 3],
     [edits |-> 1, crashes |-> 1, syncs |-> 3, ops |-> 2]}

Symmetry == Permutations(Name) \cup Permutations(Content)
=============================================================================
