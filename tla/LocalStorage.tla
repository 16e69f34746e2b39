---------------------------- MODULE LocalStorage ----------------------------
(***************************************************************************)
(* server/local_storage.rs: the server-side store, one SQLite database     *)
(* (tables `dirs` and `objs`) beside plain files, one per directory        *)
(* version and one per object.  Only the database is transactional.  The   *)
(* files are written while the database transaction is still open, are not *)
(* undone by a rollback, and are read without holding any lock.            *)
(*                                                                         *)
(* The transactions are the ones server/dir.rs builds.  A directory is a   *)
(* log of entries.  Each directory holds one file here, and an entry       *)
(* carries the links to the blocks that file has once the entry is         *)
(* appended.  A commit is the sequence of steps the code takes, and every  *)
(* session may fail or die between any two of them.                        *)
(***************************************************************************)
EXTENDS Integers, Sequences, FiniteSets

CONSTANTS
    Session,    \* processes with the store open, each running transactions
    Reader,     \* threads that call `getdir`
    Dir,        \* directory ids
    Fixed,      \* the well-known ids (pseudo-root): created by whoever is first
    Obj,        \* object ids (HMACs of blocks)
    Link,       \* link ids: random, so no id is drawn twice
    None,       \* no row, no file, no transaction, no lock holder
    MaxVer,     \* bound on directory versions
    MaxLen      \* bound on directory lengths, in entries (u32::MAX bytes)

ASSUME ConstantsAssumption ==
    /\ Fixed \subseteq Dir
    /\ MaxVer \in Nat \ {0}
    /\ MaxLen \in Nat \ {0}

VARIABLES
    dirs,       \* table `dirs` as committed: None or [ver, len]
    objs,       \* table `objs` as committed: None or the set of links (`refs`)
    wdirs,      \* `dirs` as the holder of the write lock sees it
    wobjs,      \* `objs` as the holder of the write lock sees it
    lock,       \* the session with the open write transaction, or None
    dirFile,    \* the file of each (id, version): None or its entries
    objFile,    \* the objects that have a file
    pc,         \* where each session is
    tx,         \* the open transaction of each session (`txns`)
    drawn,      \* link ids already drawn
    minted,     \* random directory ids already drawn
    reading     \* `getdir` in progress: None or the row it read

vars == <<dirs, objs, wdirs, wobjs, lock, dirFile, objFile, pc, tx, drawn,
          minted, reading>>

Ver == 1 .. MaxVer
Block == Obj \X Link                         \* a link to an object
Entry == [live : SUBSET Block, by : Session] \* `by`: no two writers' bytes agree
File == [1 .. MaxLen -> Entry \cup {None}]   \* None beyond the end of the file
Row == [ver : Ver, len : 1 .. MaxLen]

\* An edit of a directory.  `len` is the length it expects, `ent` what it adds.
DirOp == [op : {"mkdir", "updir", "rmdir"}, id : Dir, ver : Ver,
          len : 0 .. MaxLen, ent : Entry]

\* A transaction: unlinkobj, linkobj and directory edits, executed in that
\* order, the order in which dir.rs schedules them.  `id`, `ver` and `len` name
\* the directory content it was built from.  `put` is the upload in progress
\* and `next` counts the directory edits already executed.
Transaction == [id : Dir, ver : Ver, len : 0 .. MaxLen,
                unlink : SUBSET Block, link : SUBSET Block,
                todo : SUBSET Block, put : Block \cup {None},
                dirops : Seq(DirOp), next : Nat]

ASSUME NoneAssumption ==
    /\ None \notin Session /\ None \notin File
    /\ None \notin [ver : Ver, len : 0 .. MaxLen]

storeVars == <<dirs, objs>>
writerVars == <<wdirs, wobjs, lock>>
files == <<dirFile, objFile>>

-----------------------------------------------------------------------------
\* `refs` of a row that may be missing.
Refs(row) == IF row = None THEN {} ELSE row

\* XOR of reference vectors.
Xor(A, B) == (A \ B) \cup (B \ A)

\* The links the committed content of a directory holds.
LiveOf(id) == dirFile[<<id, dirs[id].ver>>][dirs[id].len].live

\* Faulty variant: the append starts one entry early, over committed bytes.
WriteAtEarly(file, len, ent) == [file EXCEPT ![len] = ent, ![len + 1] = ent]

\* `seek(old_len)` and `write_all`: later bytes of the file, if any, stay.
WriteAt(file, len, ent) == [file EXCEPT ![len + 1] = ent]

\* A file created with one entry.
Created(ent) == [i \in 1 .. MaxLen |-> IF i = 1 THEN ent ELSE None]

\* What a directory of the given length has in its file.
Content(file, len) == [i \in 1 .. len |-> file[i]]

NewTx(id, ver, len, unlink, dirops) ==
    [id |-> id, ver |-> ver, len |-> len, unlink |-> unlink, link |-> {},
     todo |-> {}, put |-> None, dirops |-> dirops, next |-> 0]

Op(op, id, ver, len, live, s) ==
    [op |-> op, id |-> id, ver |-> ver, len |-> len,
     ent |-> [live |-> live, by |-> s]]

-----------------------------------------------------------------------------
\* An empty, just created store.
Init ==
    /\ dirs = [d \in Dir |-> None]
    /\ objs = [o \in Obj |-> None]
    /\ wdirs = dirs
    /\ wobjs = objs
    /\ lock = None
    /\ dirFile = [p \in Dir \X Ver |-> None]
    /\ objFile = {}
    /\ pc = [s \in Session |-> "idle"]
    /\ tx = [s \in Session |-> None]
    /\ drawn = {}
    /\ minted = {}
    /\ reading = [r \in Reader |-> None]

-----------------------------------------------------------------------------
(* Building a transaction (dir.rs). *)

\* Dir::root: the well-known directory does not exist yet, so create it.
CreateRoot(s, d) ==
    /\ pc[s] = "idle" /\ d \in Fixed /\ dirs[d] = None
    /\ tx' = [tx EXCEPT ![s] = NewTx(d, 1, 0, {}, <<Op("mkdir", d, 1, 0, {}, s)>>)]
    /\ pc' = [pc EXCEPT ![s] = "commit"]
    /\ UNCHANGED <<storeVars, writerVars, files, drawn, minted, reading>>

\* Dir::edit, up to the old version's `unlinkobj` calls.
StartEdit(s, d) ==
    /\ pc[s] = "idle" /\ dirs[d] # None
    /\ tx' = [tx EXCEPT ![s] = NewTx(d, dirs[d].ver, dirs[d].len, LiveOf(d), <<>>)]
    /\ pc' = [pc EXCEPT ![s] = "open"]
    /\ UNCHANGED <<storeVars, writerVars, files, drawn, minted, reading>>

\* linkobj: the object has a file, and the handle just opened keeps its data.
LinkObj(s, o, l) ==
    /\ pc[s] = "open" /\ o \in objFile /\ l \notin drawn
    /\ tx' = [tx EXCEPT ![s].link = @ \cup {<<o, l>>}]
    /\ drawn' = drawn \cup {l}
    /\ UNCHANGED <<storeVars, writerVars, files, pc, minted, reading>>

\* putobj, after linkobj found no file (by now there may be one): register the
\* object without links, in a write transaction of its own.
PutObjInsert(s, o, l) ==
    /\ pc[s] = "open" /\ l \notin drawn /\ lock = None
    /\ objs' = [objs EXCEPT ![o] = IF @ = None THEN {} ELSE @]
    /\ wobjs' = objs'
    /\ tx' = [tx EXCEPT ![s].put = <<o, l>>]
    /\ pc' = [pc EXCEPT ![s] = "put"]
    /\ drawn' = drawn \cup {l}
    /\ UNCHANGED <<dirs, wdirs, lock, files, minted, reading>>

\* putobj, the rest: move the data into place, no lock held, and add the link.
PutObjPersist(s) ==
    /\ pc[s] = "put"
    /\ objFile' = objFile \cup {tx[s].put[1]}
    /\ tx' = [tx EXCEPT ![s].link = @ \cup {tx[s].put}, ![s].put = None]
    /\ pc' = [pc EXCEPT ![s] = "open"]
    /\ UNCHANGED <<storeVars, writerVars, dirFile, drawn, minted, reading>>

\* add_entry: append to the directory, or replace it by its next version.
AddEntry(s, d, ver, len, live) ==
    {<<Op("updir", d, ver, len, live, s)>>} \cup
    (IF ver < MaxVer
     THEN {<<Op("rmdir", d, ver, len, live, s), Op("mkdir", d, ver + 1, 0, live, s)>>}
     ELSE {})

\* The end of Dir::edit: add the new entry and ask for the commit.
FinishEdit(s) ==
    /\ pc[s] = "open"
    /\ \E e \in AddEntry(s, tx[s].id, tx[s].ver, tx[s].len, tx[s].link) :
         tx' = [tx EXCEPT ![s].dirops = e, ![s].todo = tx[s].unlink \cup tx[s].link]
    /\ pc' = [pc EXCEPT ![s] = "commit"]
    /\ UNCHANGED <<storeVars, writerVars, files, drawn, minted, reading>>

\* Dir::edit with a directory as the new value: create the directory under a
\* random id and enter it in its parent, in place of the file or beside it.
MakeSubdir(s, c, p) ==
    /\ pc[s] = "idle" /\ c \notin Fixed \cup minted /\ dirs[p] # None
    /\ \E keep \in {LiveOf(p), {}} :
       \E e \in AddEntry(s, p, dirs[p].ver, dirs[p].len, keep) :
         tx' = [tx EXCEPT ![s] =
                  [NewTx(p, dirs[p].ver, dirs[p].len, LiveOf(p) \ keep,
                         <<Op("mkdir", c, 1, 0, {}, s)>> \o e)
                   EXCEPT !.todo = LiveOf(p) \ keep]]
    /\ pc' = [pc EXCEPT ![s] = "commit"]
    /\ minted' = minted \cup {c}
    /\ UNCHANGED <<storeVars, writerVars, files, drawn, reading>>

\* Dir::rename: the entry under the old name goes, the one under the new name
\* comes, in one transaction; at most one of the two rewrites the directory.
Rename(s, d) ==
    /\ pc[s] = "idle" /\ dirs[d] # None
    /\ \E e1 \in AddEntry(s, d, dirs[d].ver, dirs[d].len, {}) :
         LET ver == e1[Len(e1)].ver
             len == e1[Len(e1)].len + 1
         IN  \E e2 \in AddEntry(s, d, ver, len, LiveOf(d)) :
               /\ Len(e1) + Len(e2) < 4 /\ len <= MaxLen
               /\ tx' = [tx EXCEPT ![s] =
                           NewTx(d, dirs[d].ver, dirs[d].len, {}, e1 \o e2)]
    /\ pc' = [pc EXCEPT ![s] = "commit"]
    /\ UNCHANGED <<storeVars, writerVars, files, drawn, minted, reading>>

\* Dir::remove_subdir: remove an empty directory and its entry in the parent.
RemoveSubdir(s, c, p) ==
    /\ pc[s] = "idle" /\ c \notin Fixed /\ c # p
    /\ dirs[c] # None /\ dirs[p] # None /\ LiveOf(c) = {}
    /\ \E e \in AddEntry(s, p, dirs[p].ver, dirs[p].len, LiveOf(p)) :
         tx' = [tx EXCEPT ![s] =
                  NewTx(p, dirs[p].ver, dirs[p].len, {},
                        <<Op("rmdir", c, dirs[c].ver, dirs[c].len, {}, s)>> \o e)]
    /\ pc' = [pc EXCEPT ![s] = "commit"]
    /\ UNCHANGED <<storeVars, writerVars, files, drawn, minted, reading>>

\* abort, or an error before the commit: the buffered edits are dropped.
Abort(s) ==
    /\ pc[s] \in {"open", "put"}
    /\ tx' = [tx EXCEPT ![s] = None]
    /\ pc' = [pc EXCEPT ![s] = "idle"]
    /\ UNCHANGED <<storeVars, writerVars, files, drawn, minted, reading>>

-----------------------------------------------------------------------------
(* LocalStorage::commit. *)

\* Faulty variant: the error path returns without ending the transaction.
RollbackKeepsLock == UNCHANGED <<dirs, objs, wdirs, wobjs, lock>>

\* The write lock goes back; what the transaction did to the tables is undone.
Rollback ==
    /\ lock' = None /\ wdirs' = dirs /\ wobjs' = objs
    /\ UNCHANGED storeVars

Forget(s) ==
    /\ tx' = [tx EXCEPT ![s] = None]
    /\ pc' = [pc EXCEPT ![s] = "idle"]

\* `DELETE FROM lock`: the write lock comes before any read.
BeginCommit(s) ==
    /\ pc[s] = "commit" /\ lock = None
    /\ lock' = s
    /\ pc' = [pc EXCEPT ![s] = "apply"]
    /\ UNCHANGED <<storeVars, wdirs, wobjs, files, tx, drawn, minted, reading>>

\* The write lock did not come within the busy timeout: commit returns an error.
LockTimeout(s) ==
    /\ pc[s] = "commit" /\ lock # None
    /\ Forget(s)
    /\ UNCHANGED <<storeVars, writerVars, files, drawn, minted, reading>>

\* update_ref: XOR the link into the row, which is inserted if it is missing.
UpdateRef(b) == wobjs' = [wobjs EXCEPT ![b[1]] = Xor(Refs(@), {b[2]})]

\* Faulty variant: an object the cleaner took is not reconstituted.
ApplyLinkNoData(s, b) ==
    /\ pc[s] = "apply" /\ b \in tx[s].todo
    /\ b \in tx[s].link => tx[s].unlink \cap tx[s].todo = {}
    /\ UpdateRef(b)
    /\ tx' = [tx EXCEPT ![s].todo = @ \ {b}]
    /\ UNCHANGED <<storeVars, wdirs, lock, files, pc, drawn, minted, reading>>

\* do_commit, LinkObj and UnlinkObj.  A linked object without a file, lost to a
\* cleaner, gets its file back from the handle the transaction holds.
ApplyLink(s, b) ==
    /\ pc[s] = "apply" /\ b \in tx[s].todo
    /\ b \in tx[s].link => tx[s].unlink \cap tx[s].todo = {}
    /\ UpdateRef(b)
    /\ objFile' = IF b \in tx[s].link THEN objFile \cup {b[1]} ELSE objFile
    /\ tx' = [tx EXCEPT ![s].todo = @ \ {b}]
    /\ UNCHANGED <<storeVars, wdirs, lock, dirFile, pc, drawn, minted, reading>>

\* The directory edit do_commit is at.
CurrentOp(s) == tx[s].dirops[tx[s].next + 1]

AtDirOp(s) == pc[s] = "apply" /\ tx[s].todo = {} /\ tx[s].next < Len(tx[s].dirops)

\* Faulty variant: the length is not part of the condition.
AdmitsAnyLength(op) ==
    IF op.op = "mkdir" THEN wdirs[op.id] = None
    ELSE wdirs[op.id] # None /\ wdirs[op.id].ver = op.ver

\* get_ver_for_modify, and the existence check of Mkdir.
Admits(op) ==
    IF op.op = "mkdir" THEN wdirs[op.id] = None
    ELSE wdirs[op.id] = [ver |-> op.ver, len |-> op.len]

\* The row an edit leaves.
RowAfter(op) ==
    CASE op.op = "mkdir" -> [ver |-> op.ver, len |-> 1]
      [] op.op = "updir" -> [ver |-> op.ver, len |-> op.len + 1]
      [] op.op = "rmdir" -> None

\* Faulty variant: the file of a removed directory goes before the COMMIT.
DirFileAfterEager(op) ==
    CASE op.op = "mkdir" -> [dirFile EXCEPT ![<<op.id, op.ver>>] = Created(op.ent)]
      [] op.op = "updir" ->
            [dirFile EXCEPT ![<<op.id, op.ver>>] = WriteAt(@, op.len, op.ent)]
      [] op.op = "rmdir" -> [dirFile EXCEPT ![<<op.id, op.ver>>] = None]

\* What an edit does to the files.  The file of a removed directory stays.
DirFileAfter(op) ==
    CASE op.op = "mkdir" -> [dirFile EXCEPT ![<<op.id, op.ver>>] = Created(op.ent)]
      [] op.op = "updir" ->
            [dirFile EXCEPT ![<<op.id, op.ver>>] = WriteAt(@, op.len, op.ent)]
      [] op.op = "rmdir" -> dirFile

\* do_commit, Mkdir, Updir and Rmdir when the condition holds.
ApplyDirOp(s) ==
    /\ AtDirOp(s) /\ Admits(CurrentOp(s))
    /\ CurrentOp(s).op = "updir" => CurrentOp(s).len < MaxLen
    /\ wdirs' = [wdirs EXCEPT ![CurrentOp(s).id] = RowAfter(CurrentOp(s))]
    /\ dirFile' = DirFileAfter(CurrentOp(s))
    /\ tx' = [tx EXCEPT ![s].next = @ + 1]
    /\ UNCHANGED <<storeVars, wobjs, lock, objFile, pc, drawn, minted, reading>>

\* Faulty variant: a rejected transaction keeps the edits before the rejection.
RejectCommitPartly(s) ==
    /\ AtDirOp(s) /\ ~Admits(CurrentOp(s))
    /\ dirs' = wdirs /\ objs' = wobjs /\ lock' = None
    /\ Forget(s)
    /\ UNCHANGED <<wdirs, wobjs, files, drawn, minted, reading>>

\* do_commit returns Ok(false): the condition of an edit does not hold.
RejectCommit(s) ==
    /\ AtDirOp(s) /\ ~Admits(CurrentOp(s))
    /\ Rollback /\ Forget(s)
    /\ UNCHANGED <<files, drawn, minted, reading>>

\* COMMIT: every edit has been executed.
CommitTx(s) ==
    /\ pc[s] = "apply" /\ tx[s].todo = {} /\ tx[s].next = Len(tx[s].dirops)
    /\ dirs' = wdirs /\ objs' = wobjs /\ lock' = None
    /\ pc' = [pc EXCEPT ![s] = "post"]
    /\ UNCHANGED <<wdirs, wobjs, files, tx, drawn, minted, reading>>

\* An I/O or database error anywhere in do_commit, DirectoryTooLarge included:
\* roll back.  What was written to the files stays.
FailCommit(s) ==
    /\ pc[s] = "apply"
    /\ Rollback /\ Forget(s)
    /\ UNCHANGED <<files, drawn, minted, reading>>

\* The files of the directories the transaction removed.
Removed(s) ==
    {<<tx[s].dirops[i].id, tx[s].dirops[i].ver>> :
        i \in {j \in 1 .. Len(tx[s].dirops) : tx[s].dirops[j].op = "rmdir"}}

\* postcommit_cleanup, the write lock already released.  Errors are ignored:
\* any of the files may stay.
PostCommit(s) ==
    /\ pc[s] = "post"
    /\ \E gone \in SUBSET Removed(s) :
         dirFile' = [p \in Dir \X Ver |-> IF p \in gone THEN None ELSE dirFile[p]]
    /\ Forget(s)
    /\ UNCHANGED <<storeVars, writerVars, objFile, drawn, minted, reading>>

-----------------------------------------------------------------------------
(* LocalStorage::clean_up. *)

BeginClean(s) ==
    /\ pc[s] = "idle" /\ lock = None
    /\ lock' = s
    /\ pc' = [pc EXCEPT ![s] = "clean"]
    /\ UNCHANGED <<storeVars, wdirs, wobjs, files, tx, drawn, minted, reading>>

\* One unreferenced object: its row goes in the transaction, its file at once
\* (or not, if the removal fails).
CleanObject(s, o) ==
    /\ pc[s] = "clean" /\ wobjs[o] = {}
    /\ wobjs' = [wobjs EXCEPT ![o] = None]
    /\ objFile' \in {objFile \ {o}, objFile}
    /\ UNCHANGED <<storeVars, wdirs, lock, dirFile, pc, tx, drawn, minted, reading>>

EndClean(s) ==
    /\ pc[s] = "clean" /\ \A o \in Obj : wobjs[o] # {}
    /\ objs' = wobjs /\ lock' = None
    /\ pc' = [pc EXCEPT ![s] = "idle"]
    /\ UNCHANGED <<dirs, wdirs, wobjs, files, tx, drawn, minted, reading>>

FailClean(s) ==
    /\ pc[s] = "clean"
    /\ Rollback /\ Forget(s)
    /\ UNCHANGED <<files, drawn, minted, reading>>

\* The process dies.  SQLite rolls back its open transaction when the database
\* is next used; buffered edits are gone; files stay as they are.
Crash(s) ==
    /\ pc[s] # "idle"
    /\ IF lock = s THEN Rollback ELSE UNCHANGED <<storeVars, writerVars>>
    /\ Forget(s)
    /\ UNCHANGED <<files, drawn, minted, reading>>

-----------------------------------------------------------------------------
(* LocalStorage::getdir. *)

\* Read the row.  `want` is what the directory holds at this moment.
GetDirRow(r, d) ==
    /\ reading[r] = None /\ dirs[d] # None
    /\ LET file == dirFile[<<d, dirs[d].ver>>]
       IN  reading' = [reading EXCEPT ![r] =
              [id |-> d, ver |-> dirs[d].ver, len |-> dirs[d].len,
               want |-> IF file = None THEN <<>> ELSE Content(file, dirs[d].len)]]
    /\ UNCHANGED <<storeVars, writerVars, files, pc, tx, drawn, minted>>

\* Open and read the file: its first `len` entries are the answer.
GetDirReturn(r) ==
    /\ reading[r] # None /\ dirFile[<<reading[r].id, reading[r].ver>>] # None
    /\ reading' = [reading EXCEPT ![r] = None]
    /\ UNCHANGED <<storeVars, writerVars, files, pc, tx, drawn, minted>>

\* There is no such file: start over from the row.
GetDirRetry(r) ==
    /\ reading[r] # None /\ dirFile[<<reading[r].id, reading[r].ver>>] = None
    /\ reading' = [reading EXCEPT ![r] = None]
    /\ UNCHANGED <<storeVars, writerVars, files, pc, tx, drawn, minted>>

-----------------------------------------------------------------------------
Build(s) ==
    \/ \E d \in Dir : CreateRoot(s, d) \/ StartEdit(s, d) \/ Rename(s, d)
    \/ \E c, p \in Dir : MakeSubdir(s, c, p) \/ RemoveSubdir(s, c, p)
    \/ \E o \in Obj, l \in Link : LinkObj(s, o, l) \/ PutObjInsert(s, o, l)
    \/ PutObjPersist(s) \/ FinishEdit(s) \/ Abort(s)

Commit(s) ==
    \/ BeginCommit(s) \/ LockTimeout(s)
    \/ \E b \in Block : ApplyLink(s, b)
    \/ ApplyDirOp(s) \/ RejectCommit(s) \/ CommitTx(s) \/ FailCommit(s)
    \/ PostCommit(s)

Clean(s) ==
    \/ BeginClean(s) \/ EndClean(s) \/ FailClean(s)
    \/ \E o \in Obj : CleanObject(s, o)

GetDir(r) == GetDirReturn(r) \/ GetDirRetry(r) \/ \E d \in Dir : GetDirRow(r, d)

Next ==
    \/ \E s \in Session : Build(s) \/ Commit(s) \/ Clean(s) \/ Crash(s)
    \/ \E r \in Reader : GetDir(r)

Spec == Init /\ [][Next]_vars

-----------------------------------------------------------------------------
(* Properties. *)

\* The tables, files, transactions and reads have the shapes described above,
\* and a session is inside a write transaction exactly when it has the lock.
TypeOK ==
    /\ dirs \in [Dir -> Row \cup {None}]
    /\ wdirs \in [Dir -> Row \cup {None}]
    /\ objs \in [Obj -> (SUBSET Link) \cup {None}]
    /\ wobjs \in [Obj -> (SUBSET Link) \cup {None}]
    /\ lock \in Session \cup {None}
    /\ dirFile \in [Dir \X Ver -> File \cup {None}]
    /\ objFile \subseteq Obj
    /\ pc \in [Session -> {"idle", "open", "put", "commit", "apply", "post", "clean"}]
    /\ tx \in [Session -> Transaction \cup {None}]
    /\ drawn \subseteq Link
    /\ minted \subseteq Dir
    /\ reading \in [Reader -> [id : Dir, ver : Ver, len : 1 .. MaxLen,
                              want : Seq(Entry)] \cup {None}]
    /\ \A s \in Session : (lock = s) <=> (pc[s] \in {"apply", "clean"})

\* An object with a nonzero committed reference vector has its data, whatever
\* the cleaner removed, transactions rolled back or processes died in between
\* (do_commit reconstitutes, do_clean_up deletes under the lock).
LinkedObjectsHaveData ==
    \A o \in Obj : Refs(objs[o]) # {} => o \in objFile

\* The committed reference vector of every object is the XOR of exactly the
\* links in committed directories: an unlink never hits a link twice and never
\* survives a rejected commit, so nothing in use is ever collected.
RefsMatchDirectories ==
    \A o \in Obj :
        Refs(objs[o]) =
            {l \in Link : \E d \in Dir : dirs[d] # None /\ <<o, l>> \in LiveOf(d)}

\* A getdir that has read its row and finds the file returns what was committed
\* when it read the row, though appends, rewrites, rollbacks and removals write
\* to the files without its knowing.
ReadersSeeCommitted ==
    \A r \in Reader : reading[r] # None =>
        LET file == dirFile[<<reading[r].id, reading[r].ver>>] IN
        file # None => Content(file, reading[r].len) = reading[r].want

\* A getdir that does not find the file has a newer row to read: the retry loop
\* is never spent on a row that will not change (DanglingServerDirectoryRef).
RetryFindsNewRow ==
    \A r \in Reader : reading[r] # None =>
        LET row == dirs[reading[r].id] IN
        dirFile[<<reading[r].id, reading[r].ver>>] = None
            => row = None \/ row.ver # reading[r].ver

=============================================================================
