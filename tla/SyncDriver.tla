----------------------------- MODULE SyncDriver -----------------------------
(***************************************************************************)
(* The sync command as a long-running process: cmd_sync's run and run_sync, *)
(* the WatchHandle the replicas wake it through, the interrupt handler, the *)
(* polling watcher of the server storage, and the table of clean            *)
(* directories the server replica keeps on the client, which decides what   *)
(* the next walk skips.                                                     *)
(*                                                                         *)
(* The walk itself is TreeWalk, the merge of a directory DirSync, and the   *)
(* call that carries a notification to the client Rpc; here a walk lists a  *)
(* directory, may edit it, and marks it clean.  The client's side of the    *)
(* walk is reduced to "the local directory may be dirty too".               *)
(***************************************************************************)
EXTENDS Naturals, FiniteSets, FiniteSetsExt

CONSTANTS
    Dir,        \* the server's directories below the root
    Parent,     \* Dir -> Dir \cup {None}; None: the parent is the root,
                \* which every walk enters
    Changing,   \* bound: the directories whose version moves
    Scope,      \* the instances to explore: records of usage, the ways the
                \* command is started (watching: --watch, reconnect:
                \* --reconnect, strategy: --strategy, config: the hash of
                \* config.toml), and the bounds ver (last version of a
                \* directory), faults (whether anything fails) and local
                \* (the local notifier adds to fewer datagrams than this)
    None,
    Queue       \* datagrams the watch socket holds before send() blocks

\* PrepareType, in the order the code derives (PartialOrd).
Watched == 0
Fast == 1
Clean == 2

\* A command is started somehow, and the hash of a file is a hash.
ASSUME ScopeAssumption ==
    \A s \in Scope :
        /\ s.usage # {}
        /\ \A u \in s.usage : u.config # None /\ u.strategy \in {Fast, Clean}

VARIABLES
    scope,  \* the instance explored; it never changes
    ver,    \* the version of each directory in the server's storage
    row,    \* clean_dir: None, or the version and the configuration that
            \* was in force when the row was written
    last,   \* last-config.dat, None when absent or unreadable
    pc,     \* where the main thread is
    proc,   \* how the process was started: a member of scope.usage
    typ,    \* the prepare type asked of run_sync
    prep,   \* of prepare: rows left to check, ids in dirty_dir_buf, the id
            \* whose row is deleted next
    walk,   \* what the walk has done with each directory
    got,    \* the version the walk has in its hands
    watch,  \* LocalStorage.watch_list
    todo,   \* what is left of the polling thread's copy of it
    handle, \* the WatchHandle: dirty, lost, datagrams queued, lock holder
    sig,    \* the handler of SIGINT: not installed, not run, flag set,
            \* watch notified
    link,   \* the connection: up, lost, or lost and the reader thread has
            \* told the watcher
    seen,   \* history: the version a walk last took into account
    kept    \* history: the old last-config.dat stayed, as it could not be
            \* opened, and no row has been cleared since

disk == <<scope, ver, row, last, kept>>
mem == <<proc, typ, prep, walk, got>>
watcher == <<watch, todo>>
vars == <<disk, pc, mem, watcher, handle, sig, link, seen>>

NoDirs == [d \in Dir |-> None]
Idle == [dirty |-> FALSE, lost |-> FALSE, queued |-> 0, held |-> None]
NoPrep == [check |-> {}, buf |-> {}, target |-> None]

Init ==
    /\ scope \in Scope
    /\ ver = [d \in Dir |-> 0] /\ seen = [d \in Dir |-> 0]
    /\ row = NoDirs /\ last = None /\ kept = FALSE
    /\ pc = "off"
    /\ proc = CHOOSE u \in scope.usage : TRUE
    /\ typ = Fast /\ prep = NoPrep
    /\ walk = [d \in Dir |-> "todo"] /\ got = [d \in Dir |-> 0]
    /\ watch = NoDirs /\ todo = {}
    /\ handle = Idle /\ sig = "default"
    /\ link = "up"

(***************************************************************************)
(* Start, reconnect, crash.                                                *)
(***************************************************************************)
\* What a new run() begins from: new replicas, a new storage without a watch
\* list, a new WatchHandle.  A polling thread of an earlier storage ends.
Anew ==
    /\ watch' = NoDirs /\ todo' = {} /\ handle' = Idle
    /\ prep' = NoPrep
    /\ walk' = [d \in Dir |-> "todo"] /\ got' = [d \in Dir |-> 0]
    /\ link' = "up"

Start ==
    /\ pc = "off"
    /\ proc' \in scope.usage /\ typ' = proc'.strategy
    /\ pc' = "connect" /\ sig' = "default"
    /\ Anew
    /\ UNCHANGED <<disk, seen>>

\* The process ends: what it holds in memory is gone.
Ended ==
    /\ pc' = "off" /\ sig' = "default" /\ typ' = Fast
    /\ proc' = CHOOSE u \in scope.usage : TRUE
    /\ Anew
    /\ UNCHANGED <<disk, seen>>

\* create_storage, the key chain and the three replicas; then the handler of
\* SIGINT is installed.  A handler that has run before does not un-run.
Connect ==
    /\ pc = "connect"
    /\ pc' = "setup" /\ sig' = IF sig = "default" THEN "none" ELSE sig
    /\ UNCHANGED <<disk, mem, watcher, handle, link, seen>>

\* With --watch: the WatchHandle, watch() on both replicas, which asks the
\* server, then notify_on_signal.
SetUp ==
    /\ pc = "setup" /\ (proc.watching => link = "up")
    /\ pc' = "prep"
    /\ UNCHANGED <<disk, mem, watcher, handle, sig, link, seen>>

\* do_run returns an error.  With --reconnect main() clears the watch of the
\* signal handler and sleeps before it calls do_run again; without, it ends.
Failed ==
    \/ ~proc.reconnect /\ Ended
    \/ /\ proc.reconnect
       /\ pc' = "retry" /\ typ' = proc.strategy
       /\ Anew
       /\ UNCHANGED <<disk, proc, sig, seen>>

\* The server cannot be reached or refuses, or a replica cannot be opened or
\* watched.
SetUpFails == scope.faults /\ pc \in {"connect", "setup"} /\ Failed

\* The client replica cannot be scanned.  The thread of the server's prepare
\* still gets through the rows above the one it is at.
ScanFails == scope.faults /\ pc = "check" /\ prep.target = None /\ Failed

\* The connection to the server breaks.
LoseLink ==
    /\ scope.faults /\ pc \notin {"off", "connect", "retry"} /\ link = "up"
    /\ link' = "lost"
    /\ UNCHANGED <<disk, pc, mem, watcher, handle, sig, seen>>

\* run_sync fails without a connection: for_dirty_dir in the prepare, or the
\* root in start_root.
Fail ==
    /\ link # "up"
    /\ \/ pc = "check" /\ prep.target = None
       \/ pc = "walk" /\ \A d \in Dir : walk[d] = "todo"
    /\ Failed

\* The sleep is over.  The loop in main() goes on for as long as do_run fails,
\* and does not ask whether the process was interrupted.
Reconnect ==
    /\ pc = "retry"
    /\ pc' = "connect"
    /\ UNCHANGED <<disk, mem, watcher, handle, sig, link, seen>>

\* A kill or a power failure at any point; a signal that nobody handles.
Crash == pc # "off" /\ Ended

(***************************************************************************)
(* run_sync.                                                               *)
(***************************************************************************)
\* The weakest prepare the recorded configuration allows.
MinType == IF last = proc.config THEN Fast ELSE Clean

\* Faulty variant: the recorded configuration is ignored.
AskedType == typ

\* max(prepare_type, min_prepare_type).  Since the minimum is Fast, the
\* directory filter of a Watched prepare is never built.
PrepareType == Max({typ, MinType})

\* The start of ServerReplica::prepare.
Prepare ==
    /\ pc = "prep"
    /\ row' = IF PrepareType >= Clean THEN NoDirs ELSE row
    /\ prep' = [NoPrep EXCEPT !.check = {d \in Dir : row'[d] # None}]
    /\ kept' = (kept /\ PrepareType < Clean)
    /\ pc' = "check" /\ typ' = Fast
    /\ UNCHANGED <<scope, ver, last, proc, walk, got, watcher, handle, sig,
                   link, seen>>

\* dir_exists_with_version.
AtVersion(d, v) == ver[d] = v

\* check_dir_dirty: the row's version is watched from now on, and the id is
\* put into the buffer if the storage has another one.
CheckDir ==
    /\ pc = "check" /\ link = "up"
    /\ \E d \in prep.check :
          /\ watch' = IF proc.watching THEN [watch EXCEPT ![d] = row[d].ver]
                                       ELSE watch
          /\ prep' = [prep EXCEPT
                        !.check = @ \ {d},
                        !.buf = IF AtVersion(d, row[d].ver) THEN @ ELSE @ \cup {d}]
    /\ UNCHANGED <<disk, pc, proc, typ, walk, got, todo, handle, sig, link, seen>>

\* Faulty variant: only the directory's own row is deleted.
NothingNext(t) == None

\* The row to delete after t's: its parent's, if t had a row at all.
NextTarget(t) == IF row[t] = None THEN None ELSE Parent[t]

\* for_dirty_dir: the ids in the buffer, each with the directories above it.
ForDirtyDir == IF prep.target # None THEN {prep.target} ELSE prep.buf

\* One DELETE, each in a transaction of its own.
DropRow ==
    /\ pc = "check" /\ prep.check = {}
    /\ prep.target # None \/ link = "up"
    /\ \E t \in ForDirtyDir :
          /\ prep' = [prep EXCEPT !.buf = @ \ {t}, !.target = NextTarget(t)]
          /\ row' = [row EXCEPT ![t] = None]
    /\ UNCHANGED <<scope, ver, last, kept, pc, proc, typ, walk, got, watcher, handle, sig,
                   link, seen>>

\* last-config.dat is rewritten; create() or write_all() may fail, which only
\* prints a message and leaves the old file or a truncated one.
WriteConfig ==
    /\ pc = "check" /\ prep = NoPrep /\ link = "up"
    /\ last' \in {proc.config, last, None}
    /\ kept' = (kept \/ last' \notin {proc.config, None})
    /\ pc' = "walk"
    /\ UNCHANGED <<scope, ver, row, mem, watcher, handle, sig,
                   link, seen>>

\* is_interrupted.
Interrupted == sig \in {"flag", "done"}

(***************************************************************************)
(* The walk.                                                               *)
(***************************************************************************)
Children(d) == {c \in Dir : Parent[c] = d}

\* ServerReplica::is_dir_dirty.
IsDirDirty(d) == row[d] = None

\* The walk has come to d: its parent is the root or is being walked.
Reached(d) == IF Parent[d] = None THEN TRUE ELSE walk[Parent[d]] \in {"listed", "stale"}

\* recurse_into_dir: a directory is entered when either side calls it dirty;
\* one that is not is skipped, and what is below it is never reached.
Enter ==
    /\ pc = "walk" /\ ~Interrupted /\ link = "up"
    /\ \E d \in Dir, localDirty \in BOOLEAN :
          /\ walk[d] = "todo" /\ Reached(d)
          /\ IF localDirty \/ IsDirDirty(d)
             THEN /\ walk' = [walk EXCEPT ![d] = "listed"]
                  /\ got' = [got EXCEPT ![d] = ver[d]]
                  /\ seen' = [seen EXCEPT ![d] = ver[d]]
             ELSE /\ walk' = [walk EXCEPT ![d] = "skipped"]
                  /\ UNCHANGED <<got, seen>>
    /\ UNCHANGED <<disk, pc, proc, typ, prep, watcher, handle, sig, link>>

\* An edit of the walk's own: on top of what it listed, or of a version it
\* had to read again, after which its listing is out of date.  The commit
\* takes the directory off the watch list (postcommit_cleanup).
Edit ==
    /\ pc = "walk" /\ ~Interrupted /\ link = "up"
    /\ \E d \in Dir :
          /\ walk[d] \in {"listed", "stale"} /\ d \in Changing /\ ver[d] < scope.ver
          /\ ver' = [ver EXCEPT ![d] = @ + 1]
          /\ got' = [got EXCEPT ![d] = ver[d] + 1]
          /\ watch' = [watch EXCEPT ![d] = None]
          /\ IF ver[d] = got[d] /\ walk[d] = "listed"
             THEN seen' = [seen EXCEPT ![d] = ver[d] + 1] /\ walk' = walk
             ELSE walk' = [walk EXCEPT ![d] = "stale"] /\ seen' = seen
    /\ UNCHANGED <<scope, row, last, kept, pc, proc, typ, prep, todo, handle, sig, link>>

\* Storage::watchdir, which fails when the connection is gone; the row that
\* was written before stays.
WatchDir(d) ==
    IF link = "up"
    THEN /\ watch' = [watch EXCEPT ![d] = got[d]]
         /\ walk' = [walk EXCEPT ![d] = "marked"]
    ELSE watch' = watch /\ walk' = [walk EXCEPT ![d] = "failed"]

\* mark_both_clean once every task below is done: ServerReplica's
\* set_dir_clean, unless something below failed, the listing is out of date,
\* or the client replica said no.
Mark ==
    /\ pc = "walk" /\ ~Interrupted
    /\ \E d \in Dir :
          /\ walk[d] \in {"listed", "stale"}
          /\ \A c \in Children(d) : walk[c] \in {"skipped", "marked", "failed"}
          /\ \/ /\ walk[d] = "listed"
                /\ \A c \in Children(d) : walk[c] # "failed"
                /\ row' = [row EXCEPT ![d] = [ver |-> got[d],
                                              config |-> proc.config]]
                /\ IF proc.watching
                   THEN WatchDir(d)
                   ELSE watch' = watch /\ walk' = [walk EXCEPT ![d] = "marked"]
             \/ /\ walk' = [walk EXCEPT ![d] = "failed"]
                /\ UNCHANGED <<row, watch>>
    /\ UNCHANGED <<scope, ver, last, kept, pc, proc, typ, prep, got, todo, handle, sig,
                   link, seen>>

\* should_stop: the process was interrupted or the connection broke.
ShouldStop == Interrupted \/ link # "up"

\* The walk is over, or gives up.  run_sync then still succeeds.
WalkOver ==
    /\ pc = "walk"
    /\ \/ ShouldStop
       \/ \A d \in Dir :
             walk[d] \in {"skipped", "marked", "failed"} \/ (walk[d] = "todo" /\ ~Reached(d))
    /\ pc' = "loop"
    /\ walk' = [d \in Dir |-> "todo"] /\ got' = [d \in Dir |-> 0]
    /\ UNCHANGED <<disk, proc, typ, prep, watcher, handle, sig, link, seen>>

(***************************************************************************)
(* The watch loop of run() and the WatchHandle.                            *)
(***************************************************************************)
Over ==
    /\ pc = "loop" /\ (~proc.watching \/ Interrupted)
    /\ Ended

\* wait(): the test takes the status lock and gives it back.
Wait ==
    /\ pc = "wait" \/ (pc = "loop" /\ proc.watching /\ ~Interrupted)
    /\ handle.held = None
    /\ pc' = IF handle.dirty \/ Interrupted THEN "woken" ELSE "recv"
    /\ UNCHANGED <<disk, mem, watcher, handle, sig, link, seen>>

Recv ==
    /\ pc = "recv" /\ handle.queued > 0
    /\ handle' = [handle EXCEPT !.queued = @ - 1]
    /\ pc' = "wait"
    /\ UNCHANGED <<disk, mem, watcher, sig, link, seen>>

\* After the pause: check_dirty, which clears the flag ...
Woken ==
    /\ pc = "woken" /\ handle.held = None
    /\ pc' = IF handle.dirty THEN "ask" ELSE "loop"
    /\ handle' = [handle EXCEPT !.dirty = FALSE]
    /\ UNCHANGED <<disk, mem, watcher, sig, link, seen>>

\* ... and check_context_lost, which clears the other.
Ask ==
    /\ pc = "ask" /\ handle.held = None
    /\ pc' = "prep"
    /\ typ' = IF handle.lost THEN Fast ELSE Watched
    /\ handle' = [handle EXCEPT !.lost = FALSE]
    /\ UNCHANGED <<disk, proc, prep, walk, got, watcher, sig, link, seen>>

\* set_dirty and set_context_lost: the flags are set under the status lock ...
Notified(who, lost) ==
    [handle EXCEPT !.dirty = TRUE, !.lost = @ \/ lost, !.held = who]

\* ... which is kept until the datagram is sent; send() blocks on a full socket.
Send ==
    /\ handle.held # None /\ handle.queued < Queue
    /\ handle' = [handle EXCEPT !.queued = @ + 1, !.held = None]
    /\ UNCHANGED <<disk, pc, mem, watcher, sig, link, seen>>

\* The storage's watcher calls back: a directory has changed, or (no id) it
\* cannot tell any more.
StorageTold(who, id) == Notified(who, id = None)

\* From notify_on_signal until run() returns.
Up == pc \notin {"off", "connect", "setup", "retry"} /\ proc.watching

\* The client replica's notifier reports a change or asks for a rescan.
LocalEvent ==
    /\ Up /\ handle.queued < scope.local /\ handle.held = None
    /\ \E lost \in BOOLEAN : handle' = Notified("local", lost)
    /\ UNCHANGED <<disk, pc, mem, watcher, sig, link, seen>>

\* RemoteStorage's reader thread meets the end of the stream.
ReaderTells ==
    /\ link = "lost" /\ Up /\ handle.held = None
    /\ link' = "told" /\ handle' = StorageTold("reader", None)
    /\ UNCHANGED <<disk, pc, mem, watcher, sig, seen>>

(***************************************************************************)
(* The polling thread of LocalStorage::watch.                              *)
(***************************************************************************)
PollCopy ==
    /\ Up /\ link = "up" /\ todo = {} /\ handle.held # "poll"
    /\ todo' = {<<d, watch[d]>> : d \in {e \in Dir : watch[e] # None}}
    /\ todo' # {}
    /\ UNCHANGED <<disk, pc, mem, watch, handle, sig, link, seen>>

\* One entry of the copy: if the storage has moved on, the id is taken off
\* the list, whatever is registered for it by now, and the watcher's callback
\* sets the handle dirty.
PollOne ==
    /\ Up /\ link = "up" /\ handle.held = None
    /\ \E e \in todo :
          /\ todo' = todo \ {e}
          /\ IF AtVersion(e[1], e[2])
             THEN UNCHANGED <<watch, handle>>
             ELSE /\ watch' = [watch EXCEPT ![e[1]] = None]
                  /\ handle' = StorageTold("poll", e[1])
    /\ UNCHANGED <<disk, pc, mem, sig, link, seen>>

(***************************************************************************)
(* Others.                                                                 *)
(***************************************************************************)
\* Another client commits a new version of d.
Change ==
    /\ \E d \in Changing : ver[d] < scope.ver /\ ver' = [ver EXCEPT ![d] = @ + 1]
    /\ UNCHANGED <<scope, row, last, kept, pc, mem, watcher, handle, sig, link, seen>>

\* SIGINT, once the handler is installed: handle_sigint sets INTERRUPTED ...
\* A second signal ends the process (Crash), or finds the handler installed
\* again by a reconnection and changes nothing.
Interrupt ==
    /\ sig = "none"
    /\ sig' = "flag"
    /\ UNCHANGED <<disk, pc, mem, watcher, handle, link, seen>>

\* Faulty variant: the handler only sets the flag.
HandlerSilent ==
    /\ sig = "flag"
    /\ sig' = "done"
    /\ UNCHANGED <<disk, pc, mem, watcher, handle, link, seen>>

\* ... and then notifies the watch, if there is one by now.
HandlerNotify ==
    /\ sig = "flag"
    /\ Up => handle.queued < Queue
    /\ sig' = "done"
    /\ handle' = IF Up THEN [handle EXCEPT !.queued = @ + 1] ELSE handle
    /\ UNCHANGED <<disk, pc, mem, watcher, link, seen>>

Main == Connect \/ SetUp \/ SetUpFails \/ Prepare \/ CheckDir \/ DropRow
        \/ WriteConfig \/ Enter \/ Mark \/ WalkOver \/ Over \/ Wait \/ Recv
        \/ Woken \/ Ask \/ Fail \/ ScanFails \/ Reconnect
Poll == PollCopy \/ PollOne

Next == Start \/ Main \/ Edit \/ Poll \/ Send \/ LocalEvent \/ Change
        \/ Interrupt \/ HandlerNotify \/ Crash \/ LoseLink \/ ReaderTells

\* Every thread of a live process runs on; nobody has to change anything.
Fairness == WF_vars(Main) /\ WF_vars(Poll) /\ WF_vars(Send)
            /\ WF_vars(HandlerNotify) /\ WF_vars(ReaderTells)

Spec == Init /\ [][Next]_vars /\ Fairness

\* What the code needs of its surroundings to get anywhere: the server and the
\* local files do not fail it again and again for ever, and the watch socket
\* does not stay full.
Favourable ==
    /\ <>[][~(SetUpFails \/ ScanFails \/ LoseLink)]_vars
    /\ []<>(handle.queued < Queue)

\* A change of a watched directory is not lost: while no walk is inside the
\* directory, a registration that has fallen behind the storage leads to a
\* walk that lists the new version, however the polls, the registrations of
\* rows, the notifications and the runs of the main thread interleave.  Nothing
\* is said of a process whose runs fail for ever, nor of one whose watch socket
\* is full: set_dirty then waits for the main thread with the lock in its
\* hands that the main thread waits for.
WatchedChangeIsSeen ==
    Favourable =>
        \A d \in Dir :
            (/\ Up /\ watch[d] # None /\ watch[d] # ver[d]
             /\ walk[d] \notin {"listed", "stale"})
                ~> (seen[d] = ver[d] \/ pc = "off" \/ Interrupted)

\* An interrupted process ends, wherever the signal finds it: in a walk, in the
\* wait for a change, between the test of the flag and the wait, in a prepare
\* or in a sleep before a reconnection.  This takes a reconnection that
\* succeeds in the end, as the loop of main() does not look at the flag, and a
\* watch socket with room for the handler's datagram.
InterruptStops == Favourable => (Interrupted ~> (pc = "off"))

\* No walk trusts a clean mark made under another configuration.
ConfigHonoured ==
    pc = "walk" /\ ~kept =>
        \A d \in Dir : row[d] # None => row[d].config = proc.config
=============================================================================
