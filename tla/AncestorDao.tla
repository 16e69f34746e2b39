---------------------------- MODULE AncestorDao ----------------------------
(***************************************************************************)
(* The ancestor replica (ancestor/replica.rs) over its two SQLite tables   *)
(* (ancestor/dao.rs, schema.sql): `file`, a tree of rows, and              *)
(* `condemnation`, the names whose entries the next listing of their       *)
(* directory must drop.  Several threads hold handles on directories; each *)
(* call is one transaction, but what a handle refers to may be gone by the *)
(* time it is used.                                                        *)
(***************************************************************************)
EXTENDS Integers, FiniteSets

CONSTANTS
    Name,       \* file names
    Content,    \* what regular files contain
    Directory,  \* the data of a directory
    MaxId,      \* bound on row ids
    MaxHandle,  \* bound on handles
    MaxCondemned, \* bound on names condemned at once
    None

ASSUME DaoAssumption ==
    /\ {MaxId, MaxHandle, MaxCondemned} \subseteq Nat \ {0}
    /\ Directory \notin Content

VARIABLES
    file,       \* table `file`: None or a row for each id; the root's is implied
    nextId,     \* the AUTOINCREMENT counter
    condemned,  \* table `condemnation`
    handle      \* the DirHandles in use

vars == <<file, nextId, condemned, handle>>

Root == 0
Id == 1 .. MaxId
Handle == 1 .. MaxHandle
Data == Content \cup {Directory}

\* `birth`, not a column, tells a row from any other there ever was.
Row == [parent : Id \cup {Root}, name : Name, data : Data, birth : 1 .. MaxId]

\* A DirHandle: a real directory, or a synthetic one with the handle and name
\* it is to be created from, which has no id until then.  `birth` is that of the
\* row the id meant when the handle was made.
DirHandle == [id : Id \cup {Root, None}, parent : Handle \cup {None},
              name : Name \cup {None}, birth : 0 .. MaxId]

RootHandle == [id |-> Root, parent |-> None, name |-> None, birth |-> 0]

-----------------------------------------------------------------------------
Children(d) == {i \in Id : file[i] # None /\ file[i].parent = d}

\* The row with a parent and a name, as a set of at most one.
Entry(d, n) == {i \in Children(d) : file[i].name = n}

\* Rows with all that is below them: `ON DELETE CASCADE`.
Cascade(S) ==
    LET closed == {T \in SUBSET Id : S \subseteq T /\ \A j \in T : Children(j) \subseteq T}
    IN  {i \in Id : \A T \in closed : i \in T}

Deleted(S) ==
    LET gone == Cascade(S) IN [i \in Id |-> IF i \in gone THEN None ELSE file[i]]

\* A foreign key is satisfied.
Exists(d) == d = Root \/ (d \in Id /\ file[d] # None)

\* Faulty variant: the smallest ids not in use, as without AUTOINCREMENT.
NewIdReused(k) ==
    CHOOSE i \in Id : file[i] = None /\ Cardinality({j \in 1 .. i : file[j] = None}) = k

\* The id of the k-th row inserted from now on.
NewId(k) == nextId + k - 1

-----------------------------------------------------------------------------
(* Handles. *)

Real(h) == handle[h] # None /\ handle[h].id # None
Deferred(h) == handle[h] # None /\ handle[h].id = None

\* The directories that mk_h has to create for h, itself included, and how many
\* there are for each: the outermost is created first.
Lineage(h) ==
    LET closed == {S \in SUBSET Handle :
                      h \in S /\ \A x \in S : Deferred(x) => handle[x].parent \in S}
    IN  {g \in Handle : Deferred(g) /\ \A S \in closed : g \in S}

Depth(h) == Cardinality(Lineage(h))

\* Where the next handle is kept: the first place that is free.
Unused == {g \in Handle : handle[g] = None /\ \A x \in 1 .. g - 1 : handle[x] # None}

\* chdir.
Chdir(h, n) ==
    /\ Real(h)
    /\ \E g \in Unused, i \in Entry(handle[h].id, n) :
         /\ file[i].data = Directory
         /\ handle' = [handle EXCEPT ![g] =
               [id |-> i, parent |-> None, name |-> None, birth |-> file[i].birth]]
    /\ UNCHANGED <<file, nextId, condemned>>

\* synthdir.
Synthdir(h, n) ==
    /\ handle[h] # None
    /\ \E g \in Unused : handle' = [handle EXCEPT ![g] =
          [id |-> None, parent |-> h, name |-> n, birth |-> 0]]
    /\ UNCHANGED <<file, nextId, condemned>>

\* A handle and those made from it are dropped.
Drop(h) ==
    /\ handle[h] # None /\ h # 1 /\ \A g \in Handle : handle[g] # None => handle[g].parent # h
    /\ handle' = [handle EXCEPT ![h] = None]
    /\ UNCHANGED <<file, nextId, condemned>>

-----------------------------------------------------------------------------
(* Operations on a directory. *)

\* The listing of a directory purges it first: entries with condemned names go,
\* with all that is below them, and the condemnations of the directory are lifted.
\* (The subquery's `parent` is the column of the outer table, so it selects the
\* names condemned anywhere.)
ListPurging(d) ==
    /\ file' = Deleted({i \in Children(d) : \E c \in condemned : c[2] = file[i].name})
    /\ condemned' = {c \in condemned : c[1] # d /\ (c[1] = Root \/ file'[c[1]] # None)}

\* list.  A directory that is not there yet is empty, and nothing is purged.
List(h) ==
    /\ Real(h)
    /\ ListPurging(handle[h].id)
    /\ UNCHANGED <<nextId, handle>>

\* The row an entry of a directory is stored as.
AsEntry(d, n, data, birth) == [parent |-> d, name |-> n, data |-> data, birth |-> birth]

\* The place of the k-th row a create of n in h inserts: the directories mk_h
\* creates, then the entry itself.
Place(h, n, k) ==
    LET above == {g \in Lineage(h) : Depth(g) = k}
        idOf(g) == IF Real(g) THEN handle[g].id ELSE NewId(Depth(g))
    IN  IF above = {} THEN <<idOf(h), n>>
        ELSE LET g == CHOOSE g \in above : TRUE IN <<idOf(handle[g].parent), handle[g].name>>

\* create, which keeps the database to itself.  It fails if the first row's place
\* is taken or its directory gone.  Every row is a transaction, so that a failure
\* or the end of the process may let the first m be all there is.
Create(h, n, data) ==
    /\ handle[h] # None
    /\ LET last == Depth(h) + 1
           first == Place(h, n, 1)
       IN  /\ Exists(first[1]) /\ Entry(first[1], first[2]) = {}
           /\ \E m \in 1 .. last :
                /\ nextId + m <= MaxId + 1
                /\ file' = [i \in Id |->
                     LET k == {x \in 1 .. m : NewId(x) = i} IN
                     IF k = {} THEN file[i]
                     ELSE LET x == CHOOSE x \in k : TRUE IN
                          AsEntry(Place(h, n, x)[1], Place(h, n, x)[2],
                                  IF x = last THEN data ELSE Directory, nextId + x - 1)]
                /\ nextId' = nextId + m
                /\ handle' = [g \in Handle |->
                     IF g \in Lineage(h) /\ Depth(g) <= m
                     THEN [handle[g] EXCEPT !.id = NewId(Depth(g)),
                                            !.birth = nextId + Depth(g) - 1]
                     ELSE handle[g]]
    /\ UNCHANGED condemned

\* Faulty variant: the new name is not looked up.
RenameRowOver(d, old, new) ==
    /\ old # new
    /\ \E i \in Entry(d, old) : file' = [file EXCEPT ![i].name = new]

\* Nothing is renamed to a name that is taken.
RenameRow(d, old, new) ==
    /\ Entry(d, new) = {}
    /\ \E i \in Entry(d, old) : file' = [file EXCEPT ![i].name = new]

Rename(h, old, new) ==
    /\ Real(h)
    /\ RenameRow(handle[h].id, old, new)
    /\ UNCHANGED <<nextId, condemned, handle>>

\* Faulty variant: the children are left to the cascade.
DeleteRawCascading(i) ==
    /\ file' = Deleted({i})
    /\ condemned' = {c \in condemned : c[1] \notin Cascade({i})}

\* delete_raw_impl: only what has no children is deleted.
DeleteRaw(i) ==
    /\ Children(i) = {}
    /\ file' = Deleted({i})
    /\ condemned' = {c \in condemned : c[1] # i}

\* The row that matches is deleted.
DeleteRow(d, n) == \E i \in Entry(d, n) : DeleteRaw(i)

\* remove, and the first half of an update that puts something
\* else in the place of a directory: then the database is let go of, and a create
\* follows.
Remove(h, n) ==
    /\ Real(h)
    /\ DeleteRow(handle[h].id, n)
    /\ UNCHANGED <<nextId, handle>>

\* A row that is updated keeps its id.
UpdateRow(i, data) == file' = [file EXCEPT ![i].data = data]

\* update.  A directory that gives way to something else is removed instead, and
\* the other created.
Update(h, n, data) ==
    /\ Real(h)
    /\ \E i \in Entry(handle[h].id, n) :
         /\ file[i].data = Directory => data = Directory
         /\ UpdateRow(i, data)
    /\ UNCHANGED <<nextId, condemned, handle>>

\* rmdir: succeeds quietly if the directory is gone already.
Rmdir(h) ==
    /\ Real(h) /\ handle[h].id # Root
    /\ IF Exists(handle[h].id) THEN DeleteRaw(handle[h].id) ELSE UNCHANGED <<file, condemned>>
    /\ UNCHANGED <<nextId, handle>>

\* The condemnation table has one row for a directory that exists and a name.
InsertCondemned(d, n) ==
    /\ Exists(d) /\ <<d, n>> \notin condemned
    /\ condemned' = condemned \cup {<<d, n>>}

DeleteCondemned(d, n) == condemned' = condemned \ {<<d, n>>}

\* condemn: fails if the directory is gone or the name is condemned already.
Condemn(h, n) ==
    /\ Real(h) /\ Cardinality(condemned) < MaxCondemned
    /\ InsertCondemned(handle[h].id, n)
    /\ UNCHANGED <<file, nextId, handle>>

Uncondemn(h, n) ==
    /\ Real(h)
    /\ DeleteCondemned(handle[h].id, n)
    /\ UNCHANGED <<file, nextId, handle>>

NoHandles == [h \in Handle |-> IF h = 1 THEN RootHandle ELSE None]

\* The process ends, by itself or not.  If the database is found corrupt it is
\* created anew.
Restart ==
    /\ handle' = NoHandles
    /\ \/ UNCHANGED <<file, nextId, condemned>>
       \/ file' = [i \in Id |-> None] /\ nextId' = 1 /\ condemned' = {}

-----------------------------------------------------------------------------
Init ==
    /\ file = [i \in Id |-> None] /\ nextId = 1 /\ condemned = {}
    /\ handle = NoHandles

Use(h) ==
    \/ List(h) \/ Rmdir(h) \/ Drop(h)
    \/ \E n \in Name :
         \/ Remove(h, n) \/ Condemn(h, n) \/ Uncondemn(h, n)
         \/ \E data \in Data : Create(h, n, data) \/ Update(h, n, data)
         \/ \E m \in Name : Rename(h, n, m)
         \/ Chdir(h, n) \/ Synthdir(h, n)

Next == Restart \/ \E h \in Handle : Use(h)

Spec == Init /\ [][Next]_vars

-----------------------------------------------------------------------------
(* Properties. *)

\* The rows are a tree: every row is in the root or in a row that is a
\* directory, and no two have the same place.  Threads that remove, replace and
\* recreate a directory while others hold it never leave entries below a file.
TreeShaped ==
    \A i \in Id : file[i] # None =>
        /\ file[i].parent = Root \/ (Exists(file[i].parent) /\ file[file[i].parent].data = Directory)
        /\ Entry(file[i].parent, file[i].name) = {i}

\* A handle whose directory was removed never comes to mean another one
\* (`id` is AUTOINCREMENT, update does not turn a directory into a file).
StaleHandlesStayStale ==
    \A h \in Handle :
        Real(h) /\ handle[h].id # Root /\ Exists(handle[h].id) =>
            /\ file[handle[h].id].birth = handle[h].birth
            /\ file[handle[h].id].data = Directory

\* Only a listing deletes more than one row: removing something that has
\* meanwhile been given children fails instead of losing them.
OneAtATime ==
    [][Cardinality({i \in Id : file[i] # None /\ file'[i] = None}) > 1
        => Restart \/ \E h \in Handle : List(h)]_vars

\* "any condemned names in the directory are deleted recursively" (Dao::list):
\* names that are not condemned in the directory stay.
PurgesOnlyCondemned ==
    [][\A h \in Handle : List(h) =>
         \A i \in Children(handle[h].id) :
            file'[i] = None => <<handle[h].id, file[i].name>> \in condemned]_vars
=============================================================================
