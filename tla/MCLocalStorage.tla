--------------------------- MODULE MCLocalStorage ---------------------------
(* LocalStorage for TLC, and that it implements Storage. *)
EXTENDS LocalStorage, TLC

CONSTANT MaxLinks   \* bound on the blocks of one file

\* Interchangeable values.
Symmetry == Permutations(Session) \cup Permutations(Link)

\* A bound on the size of one transaction.
SmallTx ==
    \A s \in Session : tx[s] # None => Cardinality(tx[s].link) <= MaxLinks

\* The commits of local_storage.rs are those of storage.rs: a transaction takes
\* effect at its SQL COMMIT, as a whole, and at no other time.
Abstract == INSTANCE Storage WITH
    data  <- [d \in Dir |->
                IF dirs[d] = None THEN None
                ELSE [ver |-> dirs[d].ver,
                      content |-> Content(dirFile[<<d, dirs[d].ver>>], dirs[d].len)]],
    links <- [o \in Obj |-> Refs(objs[o])],
    avail <- objFile,
    txns  <- [s \in Session |->
                IF pc[s] \in {"open", "put", "commit", "apply"}
                THEN [unlink |-> tx[s].unlink, link |-> tx[s].link,
                      dirops |-> tx[s].dirops]
                ELSE None]

\* Commits are atomic and linearisable, in spite of the steps they consist of.
ImplementsStorage == Abstract!Spec
=============================================================================
