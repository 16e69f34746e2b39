---------------------------- MODULE PosixReplica ----------------------------
(* The POSIX replica (src/posix): one directory of the client's tree, its users
   and the syncs that work on it.

   A file is its content (named by its hash) and the `InodeStatus` that the
   replica takes to identify that content.  The status is one time: a user's
   write keeps the inode and the size and moves the time, which is the hardest
   change for the cache to notice.  Two changes of a file never leave the same
   status (two writes within a second can: the heuristic of schema.sql).

   A sync opens the database, prepares, lists the directory, applies the
   operations the reconciler asks for and marks the directory clean.  Every
   system call between which a user's change makes a difference is a step of
   its own.  Modes, symlinks and synthetic directories are left out. *)
EXTENDS Naturals, FiniteSets

CONSTANTS
    Name,           \* names in the directory
    Content,        \* contents of regular files, that is their hashes
    Folder,         \* what a name that is a directory holds
    Unknown,        \* UNKNOWN_HASH
    None,           \* no file, no row, no operation
    Scope           \* the bounds an instance may take: see Bounds

VARIABLES
    scope,          \* the bounds of this behaviour
    fs,             \* the file of each path
    cache,          \* hash_cache: the row of each path
    row,            \* clean_dirs: the hash the directory was marked clean with
    above,          \* clean_dirs: whether the parent directory is marked ("set"), or
                    \* is still although this one was found changed ("torn")
    pc,             \* how far the sync is
    listed,         \* the listing the reconciler works from
    sum,            \* DirContentMut.hash, the sum of the entries in the handle
    todo,           \* names still to list, or still to be reconciled
    op,             \* the operation under way
    ok,             \* no operation has failed
    known,          \* history: what the caller of the replica has been told
    marked,         \* history: `known` when the directory was marked clean
    lost,           \* history: a step destroyed what nobody allowed it to
    quiet,          \* history: no user has touched the directory since it was
                    \* listed
    left            \* the edits, crashes, syncs and operations still to come

disk == <<fs, cache, row, above>>
mem == <<pc, listed, sum, todo, op, ok, known>>
vars == <<scope, disk, mem, marked, lost, quiet, left>>

\* The bounds of an instance: the users' edits, the crashes, the syncs and the
\* operations of the reconciler.
Bounds == [edits : Nat, crashes : Nat, syncs : Nat, ops : Nat]
ASSUME ScopeAssumption == Scope \subseteq Bounds

Hidden(n) == <<n>>                  \* scratch-<ix> in the private directory
Scratch == {Hidden(n) : n \in Name}
Path == Name \cup Scratch

Dir == [c |-> Folder, t |-> 0, x |-> "no"]
File(c, t, x) == [c |-> c, t |-> t, x |-> x]
Entry(c, t) == [c |-> c, t |-> t, used |-> TRUE]
Data(c, t) == [c |-> c, t |-> t]

\* The files, the rows of the cache, what the reconciler is told, and its
\* operations.
Files == [c : Content, t : Nat \ {0}, x : {"no", "check", "stat", "read"}]
Rows == [c : Content, t : Nat, used : BOOLEAN]
Told == [c : Content \cup {Folder}, t : Nat]
Operations ==
    [do : {"hash", "put", "remove", "touch", "rename", "send", "rmdir"},
     n : Name, m : Name, old : Told \cup {None}, c : Content \cup {Folder, None},
     at : {"hash", "xfer", "check", "shunt", "move", "do", "stat", "tidy", "read",
           "finish", "rmdir"},
     got : Content \cup {Folder, Unknown, None}, t : Nat]

\* The constants are what they stand for, and nothing else.
ASSUME ConstantsAssumption ==
    /\ IsFiniteSet(Name) /\ \A n \in Name : Hidden(n) \notin Name
    /\ {None, Folder, Unknown} \cap Content = {}
    /\ None # Folder /\ None # Unknown /\ Folder # Unknown
    /\ None # Dir /\ None \notin Files /\ None \notin Rows
    /\ None \notin Told /\ None \notin Operations

IsFile(e) == e # None /\ e.c # Folder
ContentOf(e) == IF e = None THEN None ELSE e.c

\* A status no file has, and no row and no handle remembers.
TimesIn(f) == {f[p].t : p \in {q \in DOMAIN f : f[q] # None}}
NewTime ==
    LET used == TimesIn(fs) \cup TimesIn(cache) \cup TimesIn(listed)
                \cup (IF op = None THEN {} ELSE {op.t})
    IN  CHOOSE t \in 1 .. Cardinality(used) + 1 : t \notin used

-----------------------------------------------------------------------------
(* The hash cache and the hash of the directory. *)

\* cached_file_hash.
\* Faulty variant: the status of the file is not compared.
HitAnyStatus(n) == IsFile(fs[n]) /\ cache[n] # None
Hit(n) == IsFile(fs[n]) /\ cache[n] # None /\ cache[n].t = fs[n].t

\* metadata_to_fd without computing a hash.
Fd(n) ==
    CASE fs[n] = None -> None
      [] ContentOf(fs[n]) = Folder -> Data(Folder, 0)
      [] OTHER -> Data(IF Hit(n) THEN cache[n].c ELSE Unknown, fs[n].t)

\* The rows after metadata_to_fd: a row that was used joins this generation.
Used(rows, S) ==
    [p \in Path |-> IF p \in S /\ Hit(p) /\ rows[p] # None
                    THEN [rows[p] EXCEPT !.used = TRUE] ELSE rows[p]]

RenameCache(rows, p, q) ==
    IF rows[p] = None \/ rows[q] # None     \* `path` is UNIQUE
    THEN rows
    ELSE [rows EXCEPT ![q] = rows[p], ![p] = None]

DeleteCache(rows, S) == [p \in Path |-> IF p \in S THEN None ELSE rows[p]]

CacheFileHashes(rows, p, c, t) == [rows EXCEPT ![p] = Entry(c, t)]

UpdateCacheMtime(rows, p, t) ==
    IF rows[p] = None THEN rows ELSE [rows EXCEPT ![p].t = t]

\* next_generation: no row has been used yet in the new one.
NextGeneration(rows) ==
    [p \in Path |-> IF rows[p] = None THEN None ELSE [rows[p] EXCEPT !.used = FALSE]]

PruneHashCache(rows) ==
    DeleteCache(rows, {p \in Path : rows[p] # None /\ ~rows[p].used})

\* find_file_with_hash: any of these.
WithHash(rows, c) == {p \in Path : rows[p] # None /\ rows[p].c = c}

\* The sum is an exclusive or: an entry that is toggled twice is gone.
Toggle(s, e) == (s \ {e}) \cup ({e} \ s)
Replaced(s, n, old, new) ==
    LET out == IF old = None THEN s ELSE Toggle(s, <<n, old>>)
    IN  IF new = None THEN out ELSE Toggle(out, <<n, new>>)

\* The sum prepare computes for the directory as it is.
Present == {n \in Name : fs[n] # None}
Rehash == {<<n, Fd(n).c>> : n \in Present}

\* clean_scratch.
CleanScratch(f) == [p \in Path |-> IF p \in Scratch THEN None ELSE f[p]]

-----------------------------------------------------------------------------
Nothing == [n \in Name |-> None]

Init ==
    /\ scope \in Scope
    /\ \E c \in Content, S \in SUBSET Name, t \in [Name -> 1 .. Cardinality(Name)] :
         /\ \A n, m \in Name : n # m => t[n] # t[m]
         /\ fs = [p \in Path |-> IF p \in S THEN File(c, t[p], "no") ELSE None]
    /\ cache = [p \in Path |-> None] /\ row = None /\ above = "no"
    /\ pc = "off" /\ listed = Nothing /\ sum = {} /\ todo = {} /\ op = None
    /\ ok = TRUE /\ known = Nothing
    /\ marked = Nothing /\ lost = FALSE /\ quiet = FALSE /\ left = scope

\* is_dir_clean: the directory or one above it is marked.
IsDirClean == row # None \/ above # "no"

\* new and prepare: a new generation; the scratch files go; Scrub drops the
\* hashes, Clean and Scrub every mark, Fast the mark of a directory that does
\* not look the way it was marked: first its own (set_dir_dirty goes upwards).
\* The parent directory may have changed by itself.
Prepare(typ) ==
    /\ pc = "off" /\ left.syncs > 0
    /\ left' = [left EXCEPT !.syncs = @ - 1]
    /\ LET opened == DeleteCache(NextGeneration(cache), Scratch)
           looks == row # None /\ typ = "Fast"
       IN  /\ cache' = IF typ = "Scrub" THEN DeleteCache(opened, Path)
                       ELSE Used(opened, IF looks THEN Name ELSE {})
           /\ row' = IF looks /\ row = Rehash THEN row ELSE None
           /\ above' \in IF typ = "Fast" THEN {above, "no"} ELSE {"no"}
           /\ pc' = IF looks /\ row # Rehash THEN "dirty" ELSE "ready"
    /\ fs' = CleanScratch(fs) /\ ok' = TRUE
    /\ UNCHANGED <<scope, listed, sum, todo, op, known, marked, lost, quiet>>

\* set_dir_dirty: the mark of the parent directory goes too, by a statement of
\* its own.
SetParentDirty ==
    /\ pc = "dirty"
    /\ above' = "no" /\ pc' = "ready"
    /\ UNCHANGED <<scope, fs, cache, row, listed, sum, todo, op, ok, known, marked, lost, quiet, left>>

\* A directory that is clean on every side is not visited.
Pass ==
    /\ pc = "ready" /\ IsDirClean
    /\ pc' = "done"
    /\ UNCHANGED <<scope, disk, listed, sum, todo, op, ok, known, marked, lost, quiet, left>>

\* list: read_dir.
List ==
    /\ pc = "ready"
    /\ sum' = {} /\ listed' = Nothing /\ known' = Nothing
    /\ pc' = IF Present = {} THEN "work" ELSE "list"
    /\ todo' = IF Present = {} THEN Name ELSE Present
    /\ quiet' = TRUE
    /\ UNCHANGED <<scope, disk, op, ok, marked, lost, left>>

\* An entry of the listing, with the status and the hash reported for it.
Listed(n, fd) ==
    /\ listed' = [listed EXCEPT ![n] = fd]
    /\ known' = [known EXCEPT ![n] = fd.c]
    /\ sum' = Toggle(sum, <<n, fd.c>>)
    /\ todo' = IF todo = {n} THEN Name ELSE todo \ {n}
    /\ pc' = IF todo = {n} THEN "work" ELSE pc
    /\ op' = None

\* An error ends the listing, and the sync of the directory with it.
ListFails ==
    /\ pc' = "done" /\ ok' = FALSE /\ op' = None /\ todo' = {} /\ listed' = Nothing
    /\ sum' = {} /\ known' = Nothing /\ quiet' = FALSE

Operation(do, n, m, old, c, at) ==
    [do |-> do, n |-> n, m |-> m, old |-> old, c |-> c, at |-> at,
     got |-> None, t |-> 0]

\* list: the metadata of an entry; the hash if the cache has it.
ListStat(n) ==
    /\ pc = "list" /\ op = None /\ n \in todo
    /\ \/ fs[n] = None /\ ListFails /\ UNCHANGED cache
       \/ /\ fs[n] # None /\ Fd(n).c # Unknown
          /\ Listed(n, Fd(n)) /\ cache' = Used(cache, {n}) /\ UNCHANGED <<ok, quiet>>
       \/ /\ fs[n] # None /\ Fd(n).c = Unknown
          /\ op' = [Operation("hash", n, n, None, None, "hash") EXCEPT !.t = fs[n].t]
          /\ UNCHANGED <<cache, pc, listed, sum, todo, ok, known, quiet>>
    /\ UNCHANGED <<scope, fs, row, above, marked, lost, left>>

\* get_or_compute_hash: the file is read, and its hash is cached for the status
\* that was taken before.
ListHash ==
    /\ op # None /\ op.do = "hash"
    /\ IF IsFile(fs[op.n])
       THEN /\ cache' = CacheFileHashes(cache, op.n, fs[op.n].c, op.t)
            /\ Listed(op.n, Data(fs[op.n].c, op.t)) /\ UNCHANGED <<ok, quiet>>
       ELSE ListFails /\ UNCHANGED cache
    /\ UNCHANGED <<scope, fs, row, above, marked, lost, left>>

-----------------------------------------------------------------------------
(* The operations of the reconciler.  It asks at most one of each name it
   listed; an error leaves the directory dirty. *)

Begin(n, o) ==
    /\ pc = "work" /\ op = None /\ n \in todo /\ left.ops > 0
    /\ op' = o /\ todo' = todo \ {n, o.m}
    /\ left' = [left EXCEPT !.ops = @ - 1]
    /\ UNCHANGED <<scope, disk, pc, listed, sum, ok, known, marked, lost, quiet>>

BeginRemove(n) ==
    listed[n] # None /\ Begin(n, Operation("remove", n, n, listed[n], None, "check"))

\* create, and update to another content: a file is transferred first.
BeginPut(n, c) ==
    /\ c # ContentOf(listed[n])
    /\ Begin(n, Operation("put", n, n, listed[n], c,
                          IF c = Folder THEN "check" ELSE "xfer"))

\* update to the same content: a new modification time.
BeginTouch(n) ==
    /\ IsFile(listed[n])
    /\ Begin(n, Operation("touch", n, n, listed[n], listed[n].c, "check"))

BeginRename(n, m) ==
    /\ listed[n] # None /\ listed[m] = None /\ m \in todo \ {n}
    /\ Begin(n, Operation("rename", n, m, listed[n], None, "check"))

\* transfer: the file is opened to be sent to the other side.
BeginSend(n) ==
    IsFile(listed[n]) /\ Begin(n, Operation("send", n, n, listed[n], None, "read"))

BeginRmdir(n) ==
    /\ ContentOf(listed[n]) = Folder
    /\ Begin(n, Operation("rmdir", n, n, listed[n], None, "rmdir"))

At(do, at) == op # None /\ op.do \in do /\ op.at = at

Fail == op' = None /\ ok' = FALSE /\ UNCHANGED <<sum, known>>

\* The operation is done: n holds c as far as the caller and the sum know.
Done(n, old, c) ==
    /\ op' = None /\ UNCHANGED ok
    /\ sum' = Replaced(sum, n, old, c)
    /\ known' = [known EXCEPT ![n] = c]

GoOn(at) == op' = [op EXCEPT !.at = at] /\ UNCHANGED <<sum, ok, known>>

NoMark == UNCHANGED <<scope, row, above, pc, listed, todo, marked, quiet, left>>

\* What an operation may destroy is what it was told is there.  Anything else
\* is a loss, unless a user put it there in the moment no check can cover.
Loses(e) ==
    lost' = (lost \/ (IsFile(e) /\ e.c # ContentOf(op.old) /\ e.x = "no"))

\* copy_file_local: the content, or None, and the rows.  The cache may be wrong:
\* what was read is hashed, and a row that lied is deleted.
\* Faulty variant: what the cache says is believed.
CopyFileLocalTrusting(rows, c) ==
    LET rs == {p \in WithHash(rows, c) : IsFile(fs[p])}
    IN  IF rs = {} THEN {<<None, rows>>} ELSE {<<fs[p].c, rows>> : p \in rs}
CopyFileLocal(rows, c) ==
    LET rs == WithHash(rows, c)
    IN  IF rs = {} THEN {<<None, rows>>}
        ELSE {IF ContentOf(fs[p]) = c THEN <<c, rows>>
              ELSE <<None, DeleteCache(rows, {p})>> : p \in rs}

\* fetch_block_local does the same for a block; a file here is one block.
FetchBlockLocal(rows, c) == CopyFileLocal(rows, c)

\* xfer_file: from a local file with this hash, else block by block from local
\* files, else (xfer_block) from the other replica.
Xfer ==
    /\ At({"put"}, "xfer")
    /\ \E whole \in CopyFileLocal(cache, op.c) :
       \E block \in IF whole[1] = None THEN FetchBlockLocal(whole[2], op.c) ELSE {whole} :
          /\ cache' = block[2]
          /\ op' = [op EXCEPT !.at = "check",
                              !.got = IF block[1] = None THEN op.c ELSE block[1]]
    /\ UNCHANGED <<fs, sum, ok, known, lost>> /\ NoMark

\* Fetching from the other replica fails.
XferFails ==
    /\ At({"put"}, "xfer") /\ Fail
    /\ UNCHANGED <<fs, cache, lost>> /\ NoMark

\* check_matches, or that a new name is free.
\* Faulty variant: the hash is not compared.
AsExpectedKind ==
    CASE op.do = "rename" -> fs[op.m] = None /\ fs[op.n] # None
      [] op.do # "rename" /\ op.old = None -> fs[op.n] = None
      [] OTHER -> fs[op.n] # None /\ IsFile(fs[op.n]) = IsFile(op.old)
AsExpected ==
    CASE op.do = "rename" -> fs[op.m] = None /\ fs[op.n] # None
      [] op.do # "rename" /\ op.old = None -> fs[op.n] = None
      [] OTHER -> fs[op.n] # None /\ Fd(op.n) = op.old

NeedsShunt == op.do = "put" /\ op.old # None /\ Folder \in {op.old.c, op.c}

Check ==
    /\ op # None /\ op.at = "check"
    /\ IF AsExpected
       THEN /\ op' = [op EXCEPT !.at = IF NeedsShunt THEN "shunt" ELSE "do",
                                !.got = IF op.do = "rename" THEN Fd(op.n).c ELSE @]
            /\ UNCHANGED <<sum, ok, known>>
       ELSE Fail
    /\ cache' = Used(cache, {op.n})
    /\ UNCHANGED <<fs, lost>> /\ NoMark

\* shunt_file: a name that is free is looked for ...
ShuntLook ==
    /\ At({"put"}, "shunt")
    /\ \/ \E m \in Name \ (Present \cup {op.n}) :
            op' = [op EXCEPT !.at = "move", !.m = m] /\ UNCHANGED <<sum, ok, known>>
       \/ Name \ {op.n} \subseteq Present /\ Fail
    /\ UNCHANGED <<fs, cache, lost>> /\ NoMark

\* rename(2) from n to m: over a file, or a directory over a directory, which
\* must be empty.
MayRename(n, m) ==
    /\ fs[n] # None
    /\ fs[m] = None \/ IsFile(fs[n]) = IsFile(fs[m])
MayNotRename(n, m) == ~MayRename(n, m) \/ ContentOf(fs[m]) = Folder
Moved(n, m) == [fs EXCEPT ![m] = fs[n], ![n] = None]

\* ... and the old file steps aside to it, over what a user has put there since.
ShuntMove ==
    /\ At({"put"}, "move")
    /\ \/ /\ MayRename(op.n, op.m)
          /\ fs' = Moved(op.n, op.m) /\ Loses(fs[op.m])
          /\ cache' = RenameCache(cache, op.n, op.m)
          /\ GoOn("do")
       \/ MayNotRename(op.n, op.m) /\ Fail /\ UNCHANGED <<fs, cache, lost>>
    /\ NoMark

\* shunted_name: an old file waits to be removed.
\* Faulty variant: it is forgotten.
ShuntedForgotten == FALSE
Shunted == op.m # op.n

\* put_file: a file is renamed into place, a directory is made.
PutFile ==
    /\ At({"put"}, "do") /\ op.c # Folder
    /\ IF ContentOf(fs[op.n]) = Folder
       THEN Fail /\ UNCHANGED <<fs, lost>>
       ELSE /\ Loses(fs[op.n])
            /\ fs' = [fs EXCEPT ![op.n] = File(op.got, NewTime, "no")]
            /\ GoOn("stat")
    /\ UNCHANGED cache /\ NoMark

PutFolder ==
    /\ At({"put"}, "do") /\ op.c = Folder
    /\ IF fs[op.n] # None
       THEN Fail /\ UNCHANGED fs
       ELSE /\ fs' = [fs EXCEPT ![op.n] = Dir]
            /\ IF Shunted THEN GoOn("tidy") ELSE Done(op.n, ContentOf(op.old), op.c)
    /\ UNCHANGED <<cache, lost>> /\ NoMark

\* update_cache: for the status the file has now, if it is there.
UpdateCache(rows, n, c) ==
    IF fs[n] = None THEN rows ELSE CacheFileHashes(rows, n, c, fs[n].t)

\* put_file, after the rename.
PutStat ==
    /\ At({"put"}, "stat")
    /\ cache' = UpdateCache(cache, op.n, op.c)
    /\ IF Shunted THEN GoOn("tidy") ELSE Done(op.n, ContentOf(op.old), op.c)
    /\ UNCHANGED <<fs, lost>> /\ NoMark

\* hide_file: to the scratch files, or unlinked when it cannot be moved.
HideFile(p) ==
    {<<[fs EXCEPT ![p] = None, ![Hidden(op.n)] = fs[p]],
       RenameCache(cache, p, Hidden(op.n))>>,
     <<[fs EXCEPT ![p] = None], DeleteCache(cache, {p})>>}

\* remove_general of what op.old says is at p, by what is there: the outcomes,
\* none on an error.
RemoveGeneral(p) ==
    CASE fs[p] = None /\ op.old.c # Folder -> {<<fs, DeleteCache(cache, {p})>>}
      [] IsFile(fs[p]) /\ op.old.c # Folder -> HideFile(p)
      [] ContentOf(fs[p]) = Folder /\ op.old.c = Folder -> {<<[fs EXCEPT ![p] = None], cache>>}
      [] OTHER -> {}

\* It fails, too, for a directory that is not empty.
MayNotRemove(p) == RemoveGeneral(p) = {} \/ ContentOf(fs[p]) = Folder

PutTidy ==
    /\ At({"put"}, "tidy")
    /\ \/ \E r \in RemoveGeneral(op.m) :
            fs' = r[1] /\ cache' = r[2] /\ Loses(fs[op.m])
            /\ Done(op.n, op.old.c, op.c)
       \/ MayNotRemove(op.m) /\ Fail /\ UNCHANGED <<fs, cache, lost>>
    /\ NoMark

Remove ==
    /\ At({"remove"}, "do")
    /\ \/ \E r \in RemoveGeneral(op.n) :
            fs' = r[1] /\ cache' = DeleteCache(r[2], {op.n}) /\ Loses(fs[op.n])
            /\ Done(op.n, op.old.c, None)
       \/ MayNotRemove(op.n) /\ Fail /\ UNCHANGED <<fs, cache, lost>>
    /\ NoMark

\* update, when only the time differs: set_mtime_path and update_cache_mtime.
Touch ==
    /\ At({"touch"}, "do")
    /\ IF fs[op.n] = None
       THEN Fail /\ UNCHANGED <<fs, cache>>
       ELSE LET t == IF IsFile(fs[op.n]) THEN NewTime ELSE 0
            IN  /\ fs' = [fs EXCEPT ![op.n].t = t]
                /\ cache' = UpdateCacheMtime(cache, op.n, t)
                /\ Done(op.n, op.old.c, op.c)
    /\ UNCHANGED lost /\ NoMark

\* rename: the row of the old name stays behind.
Rename ==
    /\ At({"rename"}, "do")
    /\ \/ /\ MayRename(op.n, op.m)
          /\ fs' = Moved(op.n, op.m) /\ Loses(fs[op.m])
          /\ op' = None /\ UNCHANGED ok
          /\ sum' = Toggle(Toggle(sum, <<op.n, op.got>>), <<op.m, op.got>>)
          /\ known' = [known EXCEPT ![op.m] = known[op.n], ![op.n] = None]
       \/ MayNotRename(op.n, op.m) /\ Fail /\ UNCHANGED <<fs, lost>>
    /\ UNCHANGED cache /\ NoMark

\* FileStreamSource: the content goes to the other side ...
SendRead ==
    /\ At({"send"}, "read")
    /\ IF IsFile(fs[op.n])
       THEN /\ op' = [op EXCEPT !.at = "finish", !.got = fs[op.n].c]
            /\ UNCHANGED <<sum, ok, known>>
       ELSE Fail
    /\ UNCHANGED <<fs, cache, lost>> /\ NoMark

\* ... and finish() caches its hash, for the status the file has by then.
SendFinish ==
    /\ At({"send"}, "finish")
    /\ cache' = UpdateCache(cache, op.n, op.got)
    /\ Done(op.n, op.old.c, op.got)
    /\ UNCHANGED <<fs, lost>> /\ NoMark

Rmdir ==
    /\ At({"rmdir"}, "rmdir")
    /\ \/ /\ fs[op.n] = None
          /\ op' = None /\ known' = [known EXCEPT ![op.n] = None]
          /\ UNCHANGED <<fs, sum, ok>>
       \/ /\ ContentOf(fs[op.n]) = Folder
          /\ fs' = [fs EXCEPT ![op.n] = None] /\ Done(op.n, Folder, None)
       \/ fs[op.n] # None /\ Fail /\ UNCHANGED fs
    /\ UNCHANGED <<cache, lost>> /\ NoMark

-----------------------------------------------------------------------------
(* The end of a sync, crashes and users. *)

\* What is only of use to the sync of the directory is forgotten after it.
Forget ==
    /\ listed' = Nothing /\ sum' = {} /\ todo' = {} /\ op' = None
    /\ known' = Nothing /\ quiet' = FALSE

\* mark_clean, when nothing failed: set_dir_clean.
Mark ==
    /\ pc = "work" /\ op = None
    /\ row' = IF ok THEN sum ELSE row
    /\ above' = IF ok /\ above = "torn" THEN "set" ELSE above
    /\ marked' = IF ok THEN known ELSE marked
    /\ pc' = "done" /\ Forget
    /\ UNCHANGED <<scope, fs, cache, ok, lost, left>>

\* The same for the parent directory, when nothing failed there either.
MarkParent ==
    /\ pc = "done" /\ ok /\ above = "no"
    /\ above' = "set"
    /\ UNCHANGED <<scope, fs, cache, row, mem, marked, lost, quiet, left>>

\* clean_up: scratch files go, and the rows no one used in this generation.
CleanUp ==
    /\ pc = "done"
    /\ fs' = CleanScratch(fs)
    /\ cache' = PruneHashCache(DeleteCache(cache, Scratch))
    /\ pc' = "off"
    /\ UNCHANGED <<scope, row, above, listed, sum, todo, op, ok, known, marked, lost, quiet, left>>

\* The process dies.  The database has no journal; when it does not pass the
\* integrity check of the next start, VolatileConnection begins an empty one.
Crash ==
    /\ pc # "off" /\ left.crashes > 0
    /\ left' = [left EXCEPT !.crashes = @ - 1]
    /\ pc' = "off" /\ Forget
    /\ \/ /\ above' = IF pc = "dirty" /\ above = "set" THEN "torn" ELSE above
          /\ UNCHANGED <<cache, row, marked>>
       \/ /\ cache' = DeleteCache(cache, Path) /\ row' = None /\ above' = "no"
          /\ marked' = Nothing
    /\ UNCHANGED <<scope, fs, ok, lost>>

\* The moments in which the code works on a name after its last look at it:
\* between a check and the rename, a rename and the stat, a read and the stat,
\* and between the search for a free name and the rename to it.
Window(n) ==
    CASE op = None -> "no"
      [] op # None /\ n = op.n /\ op.at \in {"shunt", "move", "do"} /\ op.do # "rename" -> "check"
      [] op # None /\ n = op.m /\ op.at \in {"move", "do", "tidy"} /\ n # op.n -> "check"
      [] op # None /\ n = op.n /\ op.at = "stat" -> "stat"
      [] op # None /\ n = op.n /\ op.at = "finish" -> "read"
      [] OTHER -> "no"

Edit(n, e) ==
    /\ left.edits > 0 /\ fs[n] # e
    /\ left' = [left EXCEPT !.edits = @ - 1]
    /\ fs' = [fs EXCEPT ![n] = e] /\ quiet' = FALSE
    /\ UNCHANGED <<scope, cache, row, above, mem, marked, lost>>

Write(n, c) ==
    /\ ContentOf(fs[n]) \notin {c, Folder}
    /\ Edit(n, File(c, NewTime, Window(n)))

Delete(n) == Edit(n, None)

Mkdir(n) == fs[n] = None /\ Edit(n, Dir)

User == \E n \in Name : (\E c \in Content : Write(n, c)) \/ Delete(n) \/ Mkdir(n)

Ask(n) ==
    \/ BeginRemove(n) \/ BeginTouch(n) \/ BeginSend(n) \/ BeginRmdir(n)
    \/ \E c \in Content \cup {Folder} : BeginPut(n, c)
    \/ \E m \in Name : BeginRename(n, m)

Replica ==
    \/ \E typ \in {"Fast", "Clean", "Scrub"} : Prepare(typ)
    \/ SetParentDirty \/ Pass \/ List \/ ListHash \/ \E n \in Name : ListStat(n) \/ Ask(n)
    \/ Xfer \/ XferFails \/ Check \/ ShuntLook \/ ShuntMove \/ PutFile \/ PutFolder \/ PutStat
    \/ PutTidy \/ Remove \/ Touch \/ Rename \/ SendRead \/ SendFinish \/ Rmdir
    \/ Mark \/ MarkParent \/ CleanUp

Next == Replica \/ Crash \/ User

Spec == Init /\ [][Next]_vars

-----------------------------------------------------------------------------
(* Properties. *)

\* A sync never destroys a file it was not told about, however a user's edit
\* falls between its steps: only what was written after the last look at the
\* name (the race that rename and create admit to) can be lost.  A cached hash
\* is trusted by that look, so this rests on the cache being right.
LostOnlyInWindow == ~lost

\* When prepare leaves a directory clean, by its own mark or by that of the
\* directory above, it holds what it held when it was marked, as far as the
\* reconciler had been told, whatever users did since; except for writes that
\* fell into a window, and if no crash came between the two statements of
\* set_dir_dirty.
CleanMeansSame ==
    [][pc # "ready" /\ pc' = "ready" /\ IsDirClean' /\ above' # "torn" =>
       \A n \in Name : ContentOf(fs'[n]) = marked[n]
                       \/ (fs'[n] # None /\ fs'[n].x # "no")]_vars

\* The file that is put in place is the one that was asked for, even when it was
\* copied from a local file whose cached hash was out of date.
PutAsAsked ==
    op # None /\ op.do = "put" /\ op.at \in {"stat", "tidy"} /\ op.c # Folder =>
        op.got = op.c

\* The caller's picture of n is right, or a window had spoilt the hash it was
\* given.
Agrees(n) == ContentOf(fs[n]) = known[n] \/ (fs[n] # None /\ fs[n].x # "no")

\* What the caller believes to be at n is still there: at n, at the name it was
\* moved aside to, or replaced by what the operation under way puts there.
Survives(n) ==
    \/ Agrees(n)
    \/ \E m \in Name : fs[m] # None /\ (fs[m].c = known[n] \/ fs[m].x # "no")
    \/ op # None /\ op.do = "put" /\ op.n = n /\ ContentOf(fs[n]) = op.c

\* As long as no user interferes, a sync that stops anywhere, by a crash or a
\* failed step of an operation that takes several (a file for a directory, a
\* directory for a file), has destroyed nothing that is not replaced: old
\* files and directories are there under some name.  And between two operations,
\* none of which has failed, the directory is what the caller believes, to the
\* last name: nothing that was moved aside is left behind.
NothingVanishes ==
    pc = "work" /\ quiet =>
        /\ \A n \in Name : known[n] # None => Survives(n)
        /\ op = None /\ ok => \A n \in Name : Agrees(n)
=============================================================================
