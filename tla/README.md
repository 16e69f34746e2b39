# A TLA+ verification of Ensync

Ensync keeps a directory tree on a client and an encrypted copy of it on a server
in step, in both directions. This directory holds TLA+ models of the parts of it
where interleavings, failures and crashes decide whether data survives, the TLC
runs that check them on small instances, and theorems checked by TLAPS.
`PROJECT.json` maps each definition to the source lines it translates.

## 1. The system and its parts

| Part | Source (under `src/src/`) | State it changes | Modelled in |
|---|---|---|---|
| Server storage | `server/local_storage.rs`, `server/storage.rs` | SQLite tables `dirs`, `objs`; a file per directory version and per object; buffered transactions; the watch list | `LocalStorage`, `Storage`; watching in `SyncDriver` |
| Server directories | `server/dir.rs` | cached directory content, `latest_dir_ver`; builds the transactions | `ServerDir`; the objects of files in `LocalStorage` |
| Server replica | `server/replica.rs` | clean marks, prepared changes | `ServerDir` (operations, marking), `SyncDriver` (preparing, watching) |
| Choosing a reconciliation | `reconcile/compute.rs`, `rules/defs.rs` | none | `Reconcile` |
| Applying it | `reconcile/mutate.rs` | the three replicas, one file at a time | `DirSync` |
| Tree walk | `reconcile/tree_walk.rs`, `reconcile/context.rs` | per-directory counters and flags shared by threads | recursion in `TreeWalk`; listing and single files in `DirSync` |
| Work stack | `work_stack.rs` | task list, number of working threads | `TreeWalk` |
| Ancestor replica | `ancestor/` | SQLite: last state in sync, condemned names | `AncestorDao`; one directory of it inside `DirSync` |
| POSIX replica | `posix/` | the client's files, hash cache, clean marks, watcher | `PosixReplica`; its contract in `DirSync`; the watcher in `SyncDriver` |
| Key management | `server/keymgmt.rs`, key chains in `server/crypt.rs` | the key list, a directory of the store | `KeyMgmt` |
| RPC | `server/rpc.rs` | tickets, pending answers, fatal state, deferred errors | `Rpc` |
| Sync driver, interrupts | `cli/cmd_sync.rs`, `main.rs` (reconnect loop), `interrupt.rs`, `replica.rs` | recorded configuration, `WatchHandle`, reconnecting | `SyncDriver` |
| The rest | `block_xfer.rs`, `rules/engine.rs`, `dry_run_replica.rs`, `memory_replica.rs`, `cli/`, `log.rs`, `errors.rs` | see section 6 | not modelled |

How they interact: the driver asks each replica to prepare, then walks the tree
with several threads. For each directory it lists client, ancestor and server,
chooses one reconciliation per name and applies it with writes to an end replica
followed by a write to the ancestor. The server replica turns each write into a
transaction over one or two directories and the objects of the file; another
process, reached over RPC or not, commits it in the store.

## 2. The modules

### `LocalStorage`: the store

The database is transactional; the files beside it are not. Files are written while
the SQL transaction is open, stay if it is rolled back, and are read without a
lock. The model keeps the tables twice, as committed (`dirs`, `objs`) and as the
holder of the write lock sees them (`wdirs`, `wobjs`), and the files
(`dirFile`, `objFile`) once.

* A directory is a log of entries in a file named after its id and version; `len`
  of its row says how much of the file counts. One file is stored in each
  directory; an entry holds the links to that file's blocks.
* `refs` of an object is the XOR of its links, so a set of links under symmetric
  difference. Link ids and directory ids are random: each is drawn once (`drawn`,
  `minted`).
* Transactions are the ones `dir.rs` builds: `CreateRoot` (`Dir::root`), `StartEdit`,
  `LinkObj`, `PutObjInsert`, `PutObjPersist`, `FinishEdit` (`Dir::edit` with
  `linkobj` and the two halves of `putobj`), `MakeSubdir`, `Rename`, `RemoveSubdir`,
  `Abort`.
* `BeginCommit`, `ApplyLink`, `ApplyDirOp`, then `CommitTx`, `RejectCommit` or
  `FailCommit`, and `PostCommit` are `commit`; each loop iteration of `do_commit` is
  a step. `LockTimeout` is the busy timeout. `BeginClean`, `CleanObject`, `EndClean`,
  `FailClean` are `clean_up`. `GetDirRow`, `GetDirReturn`, `GetDirRetry` are `getdir`.
* `Crash` ends a process anywhere. SQLite discards its open transaction.

Reading is atomic once the file is open: a handle outlives the removal of its name,
and later appends are beyond the length that is read. A session has one transaction
at a time; several sessions stand for several transactions as well as several
processes, since `txns` is all that a process keeps.

### `Storage`: what the trait promises

`server/storage.rs` as an abstract machine: buffered edits and one atomic step that
either executes all of them or none. `MCLocalStorage` gives the refinement mapping.

### `Reconcile`: which reconciliation

`choose_reconciliation` and what it calls, as operators over files that have a kind,
a mode, a time and a content. `Half` and `SyncMode` are the settings off, on, force
for create, update and delete in both directions (729 modes).

### `DirSync`: one directory through a sync

`process_dir_impl`, `process_file` and `apply_reconciliation` with one action for each
write to a replica, in the order of the code: an end replica and then the ancestor;
for a split, condemn (or drop) the ancestor, rename the replica, rename the
ancestor, lift the condemnation, queue both names again. Names are the family of
alternates of one name, `0` for `foo.txt` and `k` for `foo~k.txt`. Users edit either
side between any two steps; any step may fail, a replica may execute an operation and
have its answer lost (`Unheard`), and the process may be killed (`Crash`), after
which the ancestor database is as it was or, if it was left corrupt,
recreated empty (`VolatileConnection`).

Abstractions: `todo` is a set taken in any order, where the code has a heap by name;
subdirectories are empty; a replica's compare-and-write is one step (the POSIX one is
not quite: that is `PosixReplica`). `precious` is a history variable: contents that a user
wrote and that no user replaced or deleted since.

### `TreeWalk`: the recursion over directories

Threads take tasks from the `WorkStack`; `pc` says where each one is. `TakeTask`,
`Wait`, `Stop` and `Push` are `run` and `push`, each a step under the mutex, and
`SpuriousWakeup` is what a condition variable may do. A task either processes a
directory (`ProcessFails`, `ProcessFiles`, then `WalkChild`, `ChildFails`,
`PushChild` for each subdirectory, `EndOfWalk`) or completes one (`Complete`,
`MarkClean`, `Rmdir`, `CompletionFails`). Both end in `finish_task_in_dir`:
`AndSuccess`, `AndEmpty`, `CountDown`, `QueueCompletion`, one step per atomic
operation. `Top` is the `DirState` that `start_root` makes above the root.

What is to become of each directory (`plan`), which directories keep files (`keeps`) and
which are marked clean (`clean`) are arbitrary initially, with one restriction: below a
directory that both sides have marked clean there is nothing to do. Keeping that true
while users edit is `prepare`'s task (`SyncDriver`, `PosixReplica`). The files of a directory
succeed or fail as a whole (`settled`); an interrupt is a failure of all that follows.

### `AncestorDao`: the ancestor's tables

`file` and `condemnation` with their primary and foreign keys, cascading deletes and the
`AUTOINCREMENT` counter. Handles are real directories or synthetic ones that
are created when something is created below them (`Create` is `mk_h` and `create`, and may
stop after any of its rows). `update` is one action where the row stays, and `Remove`
followed by `Create` where a directory gives way to something else, as in the code,
which releases the mutex between the two. `birth` numbers rows for the properties.
Calls that fail change nothing and are not steps.

### `ServerDir`: directories as clients keep them

Each client has a cached `DirContent` behind a handle (`cache`), the table
`latest_dir_ver` (`latest`) and clean marks (`clean`), and works on the machine that
`Storage` describes, through `INSTANCE Storage`. A directory's content is a log of
chunks, each with a chain of HMACs over its predecessors and the key of the version.

* `OpenRoot`, `RootMissing`, `CommitRoot` are `prepare` and `Dir::root`; `Enter` and
  `Leave` are `chdir`, `subdir` and the end of a directory in a walk (`set_dir_clean`).
* `TryEdit`, `TryRename`, `TryRemove`, `RemoveChild`, `NothingToRemove`, `Materialise` are
  the closures given to `do_tx`. The ends of a try are `Accepted`,
  `MaterialiseAccepted`, `Retry` (another client was faster) and `CommitFails`
  (the answer is an error). `Rewritten` is the compaction of a redundant log.
* `op.base` and `seen` are history: what the edit was tested against, and what the
  caller was shown.

Two steps leave a client with content the server does not have (section 5). Who took one
is in `astray`; the properties are about behaviours in which nobody has (`Sane`).

### `Rpc`: one connection, many threads

`Send` draws a ticket under the output lock, `Enter` and `Receive` wait for its turn at
the input, `Handle` interprets the answer. `Read` is the client's reader thread with
its channel of capacity 0 (`hand`), `Accept`, `RefuseSilently`, `Serve`, `ServeError`,
`Write` are the server's loop, `Notify` its watcher. Both pipes are bounded, so that
writers block. Requests without an answer leave their error in `deferred`.
The storage behind is reduced to what answers depend on. A connection may be lost anywhere
(`Disconnect`), with what was under way arriving in part.

### `KeyMgmt`: the key list

Each command of `keymgmt.rs` is one read of the list, an edit and a conditional commit:
`Begin`, then `Commit` or `Reject`, which runs the command again on the current list up
to `Tries` times. Derived and masked keys are symbolic. `secret` is history: the key
each group was created with.

### `SyncDriver`: the process

The loop in `main()`, `run` and `run_sync` as a main thread. `Connect` opens the storage and
the replicas and installs the signal handler; `SetUp` makes the `WatchHandle` and calls
`watch` on both sides. Then `Prepare`, `CheckDir` and `DropRow` (the server replica's
`prepare`, one SQL statement at a time), `WriteConfig`, the walk reduced to `Enter`, `Edit`,
`Mark`, `WalkOver`, and the watch mode: `Wait`, `Recv`, `Woken`, `Ask`, one step for each
time it takes the lock. Connecting and setting up may fail (`SetUpFails`), so may the client's
scan (`ScanFails`), and without a connection `run_sync` fails (`Fail`); any of these ends the
process or, with `--reconnect`, leads to `Reconnect`, as often as it happens.

Beside it: the polling thread of the store with its copy of the watch list
(`PollCopy`, `PollOne`), the sender of notifications (`Send`), local events, the signal
handler (`Interrupt`, `HandlerNotify`), the reader thread's report of a lost connection
(`LoseLink`, `ReaderTells`), and `Crash`. The `WatchHandle` has its flags, its lock and
the bounded socket; a sender holds the lock until there is room in the socket, as in the code.

### `PosixReplica`: the client's files

One directory, its hash cache, its clean mark and that of its parent. `Prepare`, `List`,
`ListStat`, `ListHash` look at it; `Xfer`, `Check`, `ShuntLook`, `ShuntMove`, `PutFile`,
`PutFolder`, `PutStat`, `PutTidy`, `Remove`, `Touch`, `Rename`, `SendRead`, `SendFinish`,
`Rmdir` are the system calls of create, update, remove, rename, rmdir and transfer, in the
code's order; `Mark` and `MarkParent` mark clean. `User` edits files between any two, and
`Crash` may come anywhere. A rename or removal that meets a directory may fail, since it need
not be empty. A file is a content and one number for its inode status: the code takes equal
statuses to mean equal contents. The mark `x` of a file says that a user wrote it after the
last look at its name, in one of the windows the code leaves open. `quiet` is history: no
user has interfered since `list` began.

## 3. What TLC checks

| Run | Checks | Instance | Distinct states |
|---|---|---|---|
| `storage_objects` | `TypeOK`, `LinkedObjectsHaveData`, `RefsMatchDirectories`, `ImplementsStorage` | 2 sessions, 1 directory in 2 versions, 1 object, 3 links, length 2 | 629,492 |
| `storage_dirs` | `ReadersSeeCommitted`, `RetryFindsNewRow` | 2 sessions, 1 reader, a root and a subdirectory, length 3 | 382,088 |
| `dirsync_crash` | `NoEditLost`, `Converged` | 3 edits, 1 crash, any number of failures, 3 alternates | 989,631 |
| `dirsync_modes` | `NoEditLost`, `PermissionsRespected`, `OneWay`, `Settles`, `NamedModesConverge` | all 729 modes, all states of one name over 6 files | 742,317 |
| `tree_walk` | `CleanMarksTrue`, `RemovedWasEmpty`, `SuccessIsHonest`, `PendingBalanced`, `SleepersAreWoken` | 2 threads, three directories as a fork and as a chain | 2,788,790 |
| `ancestor_dao` | `TreeShaped`, `StaleHandlesStayStale`, `OneAtATime` | 2 names, 3 rows ever, 3 handles, 2 condemnations | 142,722 |
| `server_dir` | `AlwaysReadable`, `TestedIsCurrent`, `TreeIntact`, `NeverAhead`, `CleanMeansSeen` | 2 clients, 2 names without subdirectories or 1 name with up to 2, 2 tries | 432,997 |
| `rpc` | `OwnAnswer`, `CommitHonest`, `NoticeHeard`, `EveryCallReturns` | 3 threads, pipes of 1 frame, 1 fault, 1 notification | 81,434 |
| `keymgmt` | `KeysRecoverable`, `PassphraseIdentifies`, `NoGroupLost` | 2 administrators, 2 passphrases, 2 key names, 3 groups, 2 tries | 383,656 |
| `sync_driver` | `ConfigHonoured`, `WatchedChangeIsSeen`, `InterruptStops` | 2 nested directories, 2 changes, any number of failures and lost connections, a socket of 2 datagrams, 2 configurations | 295,389 |
| `posix` | `LostOnlyInWindow`, `PutAsAsked`, `CleanMeansSame`, `NothingVanishes` | 2 names, 2 contents, up to 2 edits, 1 crash, 3 syncs, 3 operations | 2,877,455 |
| `ancestor_purge` | `PurgesOnlyCondemned`: violated, see section 5 | as `ancestor_dao` | |

The bounds and why they are enough:

* Two sessions give every pairwise race on the store. A third would need a hazard in
  which two sessions together mislead a third; the write lock orders all writers, so
  that what a third sees is what one session committed.
* Three links let one be committed, a second replace it and a third be in an
  abandoned upload. `SmallTx` bounds a file to one block. Length 2 (3 in `storage_dirs`)
  allows an append after an append that was rolled back, and the `DirectoryTooLarge`
  error. `MaxVer` stops rewriting.
* `dirsync_crash` bounds edits at 3: a conflict takes two and a third may come during its
  split. `MaxAlt` is 3 so that an alternate name is always free, and users may occupy the
  first alternate themselves. `dirsync_modes` starts in every state of one name, so one
  sync is enough for the action properties; edits during the sync are the other run's
  subject.
* `tree_walk` has the races between siblings and between a child and its parent (fork), and
  those that climb two levels (chain). Two threads can be in any two places of the code at
  once. Its initial states are every plan, every success and every clean mark.
* In `ancestor_dao`, `MaxId` bounds the rows ever inserted: 3 allow a directory, an entry
  in it and a successor of either. `MaxHandle` is the root and two more, so that a removed
  directory may still be held and a synthetic one may be below another.
* `server_dir`: `Redundant` is 1 and `Tries` 2 where the code has 16 and 16, so that
  rewriting and giving up happen within a few operations. The number of operations is 4
  less the number of subdirectories. One value is enough since edits of two clients
  are told apart by what they were tested against. The constraint `Sane` ends a behaviour where a client
  goes astray.
* `rpc`: pipes of one frame make every writer block at some point; three threads let two wait
  for their turn while one reads. The plans: a transaction or a preparation beside two readers;
  two transactions; a transaction, one that is given up, or a watch beside a preparation;
  a watch beside a reader.
* `keymgmt`: two commands at once, each run twice at most. `KeyMgmt` has no bound on
  commands: the key list is finite.
* `sync_driver`: four instances (`Instances`) share the bounds out: two changes of a watched
  directory; a local notifier that sends more than the socket takes; failures and lost
  connections without a bound, with and without `--reconnect`; single runs under two
  configurations. `Queue` is 2, the smallest socket in which one datagram can be under way while
  another is read, and small enough to be full in many states.
* `posix`: three combinations of bounds (`Small`); a race needs one edit in a sync and a second
  sync to show its effect, and two edits cover a file that is put back.
* Symmetry is used for values that no property, initial state or refinement names, and
  in no run with a liveness property.

Deadlock is checked except in `rpc`, where the threads come to the end of their calls, and
in `posix`, where the bounds on syncs and operations run out.

Fairness is assumed in three runs:

* `dirsync_modes`: weak fairness of the sync. A sync that can take a step takes one,
  and the program is run again and again, which is what the watch mode and `cron` do.
* `rpc`: weak fairness of each thread that is inside a call, of the reader and of the
  server. Nothing is assumed of notifications, faults, or of anybody making a call. Turns are
  drawn in order, so no fairness of a lock is needed.
* `sync_driver`: weak fairness of the main thread, the polling thread, the sender, the signal
  handler and the reader thread. Nothing is assumed of users, signals or crashes. Both liveness
  properties have a premise, `Favourable`: failures and lost connections stop at some time, and the
  socket is not full for ever. Neither half can be dropped. Without the first, a process with
  `--reconnect` that has been interrupted goes round between failing to connect and sleeping;
  without the second, the sender and the main thread wait for each other. TLC shows both
  behaviours, and section 5 describes them.

## 4. What is proved

Eighteen theorems in eight modules, for all values of the constants. The proofs have one
step per action and, below it, one per conjunct that the action can disturb. The invariants
were checked by TLC on small instances first. The run `storage_dirs` explores directories
of one version, where a reader meets appends, removals and new directories; that a reader is also
safe when a directory is rewritten as a new version is shown by the theorems, which cover any
number of versions.

**The store** (`LocalStorageProofs`): any number of processes, readers, directories,
objects, links, versions and lengths.

* `TypeCorrect`: `Spec => []TypeOK`;
* `ReadersSafe`: `Spec => []ReadersSeeCommitted`;
* `RetrySafe`: `Spec => []RetryFindsNewRow`.

The assumptions are those of `LocalStorage`: the well-known ids are ids, the bounds are
positive, and `None` is distinct from what it stands in for. None of the three is
inductive. A reader is only safe because of what writers are not going to do, so the
inductive invariant `Inv` is about the writers:

* `TypeOK`;
* `TxInv`: the directory edits of a transaction are consistent with each other
  (an edit that removes a version is followed by one that makes the next);
* `WriterInv`: without the lock the two copies of the tables agree; with it they
  differ as the executed edits say, and a file exists for each row in either copy;
* `EditInv`: what remains of the transaction still refers to the rows the writer sees;
* `BirthInv`: a version or id that is about to be made has no reader and no row
  (ids are drawn once, and versions only grow);
* `ReaderInv`: a read in progress is of the current version or of one that will
  not come back, and the entries it wants are before the end of the committed part;
* `PostInv`: the files to be removed after a commit belong to versions with no row.

**The walk** (`TreeWalkInvariant`, `TreeWalkProofs`): any finite tree, any number of threads.

* `WalkMarksTrue`: `Spec => []CleanMarksTrue`;
* `WalkRemovesEmpty`: `Spec => []RemovedWasEmpty`;
* `WalkSuccessHonest`: `Spec => []SuccessIsHonest`;
* `WalkPendingBalanced`: `Spec => []PendingBalanced`;
* `WalkWakesSleepers`: `Spec => []SleepersAreWoken`.

`TreeAssumption` says that from every directory the parents lead to the root, and
`WorkerAssumption` that there is at least one thread, as the command line enforces. The
properties speak of the end of a directory; the invariant says what its `DirState` means
before that:

* `Shape`: no directory is in two places, on the stack or with a thread
  (`UniqueInv`); each job is one its directory's state allows (`JobInv`); a directory
  comes into being when the walk of its parent passes it (`ParentInv`); and `pending` is the number of
  children not heard from, plus one while the directory's own walk lasts (`CountInv`);
* `Flags`: `success` and `empty` are true only of children that have reported so
  (`SuccessInv`, `EmptyInv`), also in the hands of the thread that closes the directory
  (`CloseInv`) and after it (`DoneInv`);
* `FlightInv`: `in_flight` is the number of threads that are at work.

For `PendingBalanced` the last step is that when all threads have stopped no directory can be the
lowest one that waits; for `SleepersAreWoken`, a count of the threads at work.

**Keys** (`KeyMgmtProofs`): any passphrases, names and groups, any number of administrators.

* `KeysSafe`: `Spec => []KeysRecoverable`;
* `PassphrasesSafe`: `Spec => []PassphraseIdentifies`;
* `GroupsSafe`: `Spec => NoGroupLost`, an action property.

The assumption is that `root` and `everyone` are groups. `StoreInv` says the committed list is
`Sound`: each key of an entry is masked with that entry's own derived key, entries that share a
group agree on its internal key, and no two derived keys are equal; and that the internal keys are
those in `secret`, with the root's guarding the list. `PendingInv` says that a transaction
made from the list that is there now is related to it by `EditOK` (or is a first list, `FirstOK`);
of a transaction made from an older list nothing is known, and it is rejected.

**The connection** (`RpcProofs`): any number of threads, any calls, pipes of any size.

* `AnswersOwn`: `Spec => []OwnAnswer`;
* `CommitSafe`: `Spec => []CommitHonest`;
* `NoticesSafe`: `Spec => []NoticeHeard`.

The assumptions are that plans are sequences of the calls there are and that `None` is no thread,
request or frame. The central idea is the *flow*: the requests and responses that are under way,
in the order in which they will be read. `FlowInv` says that each part of it belongs to a thread
that waits, that the order is that of the tickets (`TicketInv`), and that nothing a thread still
has to read is missing. `CommitInv` follows a transaction: its number is used once
(`NumberInv`), an edit that failed is reported before any commit is (`LostInv`), and the answer
to a commit, wherever it is under way, is true (`ToldInv`). `WatchInv` follows a `watch` call:
while it is under way no other thread uses the storage (`Alone`), and nothing is registered or notified before the function
is installed (`Quiet`, `Known`).

**The client's files** (`PosixReplicaProofs`, `PosixQuietProofs`): any finite set of names,
any contents, any number of edits, crashes, syncs and operations.

* `FilesSafe`: `Spec => []LostOnlyInWindow`;
* `PutSafe`: `Spec => []PutAsAsked`;
* `QuietSafe`: `Spec => []NothingVanishes`.

The assumptions are that the names are finitely many, that scratch names are not names, and
that `None`, `Folder` and `Unknown` are distinct and no contents. That two files never have
the same status is part of the model (`NewTime`), as the code relies on it. What makes a
destructive step safe is an earlier look at the file, and what makes the look reliable
is the cache, so `Inv` has three layers:

* `DiskInv`: statuses are distinct, and a row with the status of a file, at any path, has
  that file's hash unless the file was written in a window (`TimesInv`, `CacheInv`);
* `HashInv`: the status of a file that is being hashed belongs to no other file, so that the
  row written afterwards is either right or matches nothing;
* `OpInv`: for each kind of operation and each place in it, what has been established about
  the files it is going to overwrite (`PutInv`, `RemoveInv`, `TouchInv`, `RenameInv`,
  `SendInv`); the free name that `shunt_file` has found is free, or a user has written
  there since (`LateAt`).

`QuietSafe` adds `Calm`, which says, as long as no user has interfered, how the directory relates
to what the caller believes: while listing, the entries listed so far agree (`ListQuiet`); later,
each name that the operation does not touch is `Settled`, that is, it agrees or, once
something has failed, is a left-over the operation has put there or could not remove
(`WorkQuiet`); and each operation has changed its own names exactly as far as its place in
the code says (`PutQuiet`, `MoveQuiet`, `RestQuiet`).

**The driver** (`SyncDriverProofs`): any tree, any set of configurations, any number of
processes one after another.

* `ConfigSafe`: `Spec => []ConfigHonoured`.

It assumes only that a hash is not `None` and that a command asks for `Fast` or `Clean`. The
inductive invariant `ConfigInv` says where the rows' configuration stands at each point of
a run: between runs it is the recorded one, after `prepare` that of the process, and
from the writing of the file the file says so or nothing.

**Only model-checked:** `LinkedObjectsHaveData` and `RefsMatchDirectories` of `LocalStorage`
and its refinement of `Storage`; `CleanMeansSame` of `PosixReplica`; everything about `DirSync`,
`AncestorDao` and `ServerDir`. Liveness (`Settles`, `NamedModesConverge`, `EveryCallReturns`,
`WatchedChangeIsSeen`, `InterruptStops`) stays with TLC: the prover does not reason about
fairness. `ServerDir` folds over sequences, whose results for every input need an induction
that the prover cannot do.

## 5. Where the code and its documentation differ

One difference has a run of its own. `ancestor_purge`: listing a directory deletes the
entries whose names are condemned in any directory, because `parent` in the subquery of
`Dao::list` is a column of the outer table (`ancestor/dao.rs:149`). The documentation says
condemned names in the directory. What is lost is the memory that a file was in sync, so a
later sync takes it for new.

The others were met while modelling. The models do what the code does; where a property
excludes such a case, its comment says so.

Server side:

* `Dir::root` ignores that its commit was rejected (`server/dir.rs:311`) and goes on with
  the content it wanted to create. The other client's root is there by then; the content
  cached is not that root's. (`CommitRoot`, `astray`.)
* A commit that returns an error leaves the cached content as `do_tx` changed it
  (`server/dir.rs:1045`): the client works on with entries that the server may not have.
  (`CommitFails`, `astray`.)
* `putobj` inserts the row of an object and moves its file into place without a lock in
  between (`server/local_storage.rs:819-843`). If a cleaner removes the row there and the
  transaction is then given up, the file has no row, and the cleaner looks at rows only. The
  comment says that no orphaned data is leaked.
* After a request without an answer has failed, the server still executes the commit of
  that transaction and reports the error afterwards (`server/rpc.rs:496-524`). `CommitHonest`
  therefore promises nothing about a commit that returns an error.
* The clean marks of a directory and of its parents are deleted by separate statements, on both
  sides, the directory's own first (`server/replica.rs:351-365`, `posix/dao.rs:135-157`). A
  death in between leaves a parent marked clean above a changed directory, which then
  waits until something else changes there or for a `Clean` prepare.

Reconciliation:

* With `sync inbound create` off, a client directory in the way of a server file is renamed,
  which creates a name locally (`reconcile/compute.rs:197`); the manual says never.
* Two new files that differ in mode only are split into two names (`compute.rs:391`); the
  manual says that modes never cause a rename.
* With `trust_client_unix_mode` off, the mode that is to be ignored makes the POSIX replica
  refuse an update, because the altered entry is also used as the expected old
  state (`reconcile/tree_walk.rs:116`).

The process:

* `run_sync` takes the stronger of the type asked for and `Fast` or `Clean`
  (`MinType`), so a prepare of type `Watched` never happens.
* `set_dirty` holds the lock of the `WatchHandle` while it sends a datagram
  (`replica.rs:341-346`). If the socket is full the sender waits for the main thread to read it,
  and the main thread may be waiting for the lock. TLC shows the process stuck there when the
  second half of `Favourable` is dropped. A real socket takes more datagrams than `Queue = 2`;
  that only makes it take longer to fill.
* The loop in `main()` does not test the interrupt flag (`main.rs:1130-1155`). With `--reconnect`
  and a server that stays out of reach, an interrupted process goes on trying; it ends with the
  first connection that succeeds or at the second ^C. The handler says "Sync interrupted, stopping
  gracefully" and `clear_notify` that "the program will exit soon anyway"
  (`interrupt.rs:35,86-88`). TLC shows this when the first half of `Favourable` is dropped.
* The documentation of `WatchHandle` says that it is initially marked both `dirty` and
  `context_lost` (`replica.rs:297`); `WatchStatus::default` marks neither. The model starts with
  neither (`Idle`); the first run of `run_sync` does not depend on the flags.
* When `last-config.dat` cannot be opened for writing, the old hash stays and the walk goes
  on. `ConfigHonoured` excludes the runs after that (`kept`).
* `WatchedChangeIsSeen` is about registrations that exist while no walk is inside the directory. A
  commit removes the registrations of the directories it changed, and an edit of our own on top of
  another's leaves the directory unregistered until the next walk. Local events of a
  directory that is not registered yet are dropped.

The client's files:

* Between `check_matches` and the rename, and between the rename and the stat of
  `update_cache`, a user's write is overwritten or cached as something else; between the
  last read of a transfer and the stat of `finish` (`posix/replica.rs:1263`) it is
  hidden from later `Fast` prepares; and between the `lstat` by which `shunt_file` finds
  `name!1` free and its rename (`posix/replica.rs:819-821`) a file that a user makes there is
  overwritten. These are the windows that `x` marks.
* `update` is documented to remove an old directory first, so as never to move a whole
  tree (`replica.rs:162-169`). The code first moves it to `name!1`, puts the new file, and
  removes it then (`posix/replica.rs:495-539`); when it is not empty that fails, and the
  directory stays at `name!1` with the new file in place. A failure in between leaves it there too.
  `NothingVanishes` says that the old file or directory is then under some name.

## 6. Not modelled

* Modes, symlinks, special files, synthetic directories and errors of the database in
  `PosixReplica`: modes and kinds are in `DirSync` and `Reconcile`, where they decide
  something; the rest only adds failures to steps that may fail already.
* Block transfer (`block_xfer.rs`): splitting and hashing are sequential functions over
  bytes. Where blocks come from is `Xfer` of `PosixReplica`, for files of one block.
* The rules engine (`rules/engine.rs`): a sequential interpreter of patterns on names.
  Its difficulty is regular expressions and parsing; its result, a sync mode, is arbitrary
  in `dirsync_modes`.
* Ciphers, encodings, the byte format of directories (`server/crypt.rs`, parts of `dir.rs`),
  `dir_config.rs`: pure functions. HMAC chains and key chains are modelled symbolically.
* Framing, handshake and starting the server (`server/rpc.rs`, `cli/open_server.rs`): that
  connecting succeeds or fails is in `SyncDriver`; the bytes exchanged are not.
* Dry run (changes nothing), the in-memory replica (a test double), the configuration, the
  command line, printing, logging and error types.
* Time: two writes to a file within a second can leave the same status; the
  documentation of the hash cache names this limit, and the model assumes it away.
