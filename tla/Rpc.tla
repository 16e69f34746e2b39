-------------------------------- MODULE Rpc --------------------------------
(***************************************************************************)
(* The RPC layer between a client and its storage server (server/rpc.rs). *)
(*                                                                         *)
(* Several worker threads share one RemoteStorage.  Requests travel over a *)
(* bounded pipe `up`, in the order the output lock is taken; responses     *)
(* come back over a bounded pipe `down`.  Some requests have no response:  *)
(* their failure is remembered by the server and reported by the next one  *)
(* that has.  The threads queue for responses with tickets; a separate     *)
(* reader thread takes frames off the pipe, hands the responses over one   *)
(* by one, and passes notifications to the watch function.                 *)
(*                                                                         *)
(* The storage behind the server is reduced to what its answers depend on: *)
(* the open transactions, and for each what was accepted and what failed.  *)
(***************************************************************************)
EXTENDS Naturals, Sequences

CONSTANTS
    Thread,      \* threads sharing the RemoteStorage
    None,
    Pipe,        \* frames either pipe holds before a writer blocks
    Plans,       \* bound: the calls of the threads, as functions to sequences of kinds
    MaxDirty,    \* bound: directories for_dirty_dir reports
    MaxFaults,   \* bound: storage failures and lost connections
    MaxNotices   \* bound: notifications

VARIABLES
    pc, req, ticket, got,    \* per thread: position, call, place in the queue, answer
    calls, writing,          \* per thread: calls made, number of the open transaction
    sent, turn, holder,      \* RemoteStorage: sout.1, sin.1, who holds `sin`
    fatal, fun,              \* RemoteStorage: the fatal flag, watch_fun is installed
    up, down, hand,          \* the pipes; the response offered by the reader
    alive, deferred, outbox, \* server: running, fatal_error, responses to write
    txns, applied,           \* storage: open transactions, committed ones
    watching, watched,       \* storage: the watcher runs, a directory is registered
    unheard, faults, notices,
    plan                     \* the calls the threads make, one choice per behaviour

clientVars == <<pc, req, ticket, got, calls, writing, sent, turn, holder, fatal, fun,
                plan>>
serverVars == <<alive, deferred, outbox, txns, applied, watching, watched>>
vars == <<clientVars, serverVars, up, down, hand, unheard, faults, notices>>

(***************************************************************************)
(* Requests and responses.  "Get" stands for every request with a single   *)
(* answer that changes no transaction (ClientInfo, GetDir, GetObj,         *)
(* Linkobj, CleanUp); "Edit" for the silent additions to a transaction     *)
(* (Mkdir, Updir, Rmdir, Putobj, Unlinkobj); "Register" for CheckDirDirty  *)
(* and Watchdir.                                                           *)
(***************************************************************************)
Silent == {"StartTx", "Edit", "Register"}
Answered == {"Get", "ForDirtyDir", "Commit", "Abort", "Watch"}

ASSUME PlansAssumption == Plans \subseteq [Thread -> Seq(Silent \cup Answered)]
ASSUME BoundAssumption == MaxDirty \in Nat

Expected(kind) ==
    CASE kind = "Get" -> {"Data", "NotFound"}
      [] kind = "ForDirtyDir" -> {"DirtyDir", "Done"}
      [] kind = "Commit" -> {"Done", "Fail"}
      [] OTHER -> {"Done"}

Reply == {"Data", "NotFound", "DirtyDir", "Done", "Fail", "Error", "FatalError"}

Request == [kind : Silent \cup Answered, by : Thread, n : Nat, tx : Nat]
Frame == [kind : Reply \cup {"WatchNotify", "Closed"}, by : Thread \cup {None}, n : Nat]

ASSUME NoneAssumption == None \notin Thread \cup Request \cup Frame

Response(kind, r) == [kind |-> kind, by |-> r.by, n |-> r.n]
Closed == [kind |-> "Closed", by |-> None, n |-> 0]
Notice == [kind |-> "WatchNotify", by |-> None, n |-> 0]

Init ==
    /\ pc = [t \in Thread |-> "idle"] /\ req = [t \in Thread |-> None]
    /\ ticket = [t \in Thread |-> 0] /\ got = [t \in Thread |-> None]
    /\ calls = [t \in Thread |-> 0] /\ writing = [t \in Thread |-> 0]
    /\ sent = 0 /\ turn = 0 /\ holder = None /\ fatal = FALSE /\ fun = FALSE
    /\ up = <<>> /\ down = <<>> /\ hand = None
    /\ alive = TRUE /\ deferred = FALSE /\ outbox = <<>>
    /\ txns = {} /\ applied = {} /\ watching = FALSE /\ watched = FALSE
    /\ unheard = 0 /\ faults = 0 /\ notices = 0
    /\ plan \in Plans

-----------------------------------------------------------------------------
(***************************************************************************)
(* The client's threads.                                                   *)
(***************************************************************************)

\* Faulty variant: the watch is started while other threads use the storage.
MayWatchShared == ~fun

\* Storage::watch takes `&mut self`: nobody else is using the storage.
MayWatch ==
    /\ ~fun
    /\ \A t \in Thread : pc[t] = "idle"

\* Exclusive use also keeps everyone else out until Storage::watch returns.
Shared == {t \in Thread : req[t] # None /\ req[t].kind = "Watch"} = {}

\* The callers' order is kept: edits, commit and abort come inside a
\* transaction, which a thread starts one at a time (Dir::do_tx).
Call(t) ==
    /\ pc[t] = "idle" /\ calls[t] < Len(plan[t]) /\ Shared
    /\ plan[t][calls[t] + 1] = "Watch" => MayWatch
    /\ calls' = [calls EXCEPT ![t] = @ + 1]
    /\ LET kind == plan[t][calls'[t]]
           tx == IF kind = "StartTx" THEN calls'[t] ELSE writing[t]
       IN /\ req' = [req EXCEPT ![t] = [kind |-> kind, by |-> t, n |-> calls'[t], tx |-> tx]]
          /\ writing' = [writing EXCEPT ![t] = IF kind \in {"Commit", "Abort"} THEN 0 ELSE tx]
    /\ pc' = [pc EXCEPT ![t] = "sending"]
    /\ UNCHANGED <<plan, ticket, got, sent, turn, holder, fatal, fun, serverVars, up, down,
                   hand, unheard, faults, notices>>

Return(t) ==
    /\ pc' = [pc EXCEPT ![t] = "idle"]
    /\ req' = [req EXCEPT ![t] = None]
    /\ got' = [got EXCEPT ![t] = None]
    /\ ticket' = [ticket EXCEPT ![t] = 0]

\* The frame is written, and the ticket drawn, under the lock on `sout`.
Send(t) ==
    /\ pc[t] = "sending" /\ alive /\ Len(up) < Pipe
    /\ up' = Append(up, req[t])
    /\ IF req[t].kind \in Silent
       THEN Return(t) /\ UNCHANGED sent
       ELSE /\ ticket' = [ticket EXCEPT ![t] = sent]
            /\ sent' = sent + 1
            /\ pc' = [pc EXCEPT ![t] = "queued"]
            /\ UNCHANGED <<req, got>>
    /\ UNCHANGED <<plan, calls, writing, turn, holder, fatal, fun, serverVars, down, hand,
                   unheard, faults, notices>>

\* Writing to a closed pipe is a protocol error, which is fatal.
SendFails(t) ==
    /\ pc[t] = "sending" /\ ~alive
    /\ fatal' = TRUE
    /\ Return(t)
    /\ UNCHANGED <<plan, calls, writing, sent, turn, holder, fun, serverVars, up, down, hand,
                   unheard, faults, notices>>

\* Faulty variant: whoever gets the lock first reads the next response.
AdmitAny(t) ==
    /\ turn' = turn + 1 /\ holder' = t
    /\ pc' = [pc EXCEPT ![t] = "reading"]

\* Under the lock on `sin`: a thread whose turn has not come waits on `cond`.
Admit(t) ==
    IF ticket[t] = turn
    THEN /\ turn' = turn + 1 /\ holder' = t
         /\ pc' = [pc EXCEPT ![t] = "reading"]
    ELSE /\ pc' = [pc EXCEPT ![t] = "asleep"]
         /\ UNCHANGED <<turn, holder>>

Enter(t) ==
    /\ pc[t] = "queued" /\ holder = None
    /\ Admit(t)
    /\ UNCHANGED <<plan, req, ticket, got, calls, writing, sent, fatal, fun, serverVars, up,
                   down, hand, unheard, faults, notices>>

\* Faulty variant: only one waiter is woken (notify_one).
WokenOne(t, next) ==
    LET chosen == CHOOSE s \in {s \in Thread : pc[s] = "asleep"} : TRUE
    IN [s \in Thread |-> IF s = t THEN next
                         ELSE IF pc[s] = "asleep" /\ s = chosen THEN "queued" ELSE pc[s]]

\* The thread leaves with the lock released and every waiter notified.
Woken(t, next) ==
    [s \in Thread |-> IF s = t THEN next
                      ELSE IF pc[s] = "asleep" THEN "queued" ELSE pc[s]]

\* A DirtyDir is not the last response to ForDirtyDir.
MoreToRead(t) == req[t].kind = "ForDirtyDir" /\ hand.kind = "DirtyDir"

Receive(t) ==
    /\ pc[t] = "reading" /\ hand # None
    /\ got' = [got EXCEPT ![t] = hand]
    /\ hand' = None
    /\ IF MoreToRead(t)
       THEN UNCHANGED <<pc, holder>>
       ELSE pc' = Woken(t, "got") /\ holder' = None
    /\ UNCHANGED <<plan, req, ticket, calls, writing, sent, turn, fatal, fun, serverVars, up,
                   down, unheard, faults, notices>>

\* handle_response!, tryf! and, for Watch, the installation of the function.
Handle(t) ==
    /\ pc[t] = "got"
    /\ fatal' = (fatal \/ got[t].kind \notin Expected(req[t].kind) \cup {"Error"})
    /\ fun' = (fun \/ (req[t].kind = "Watch" /\ got[t].kind = "Done"))
    /\ Return(t)
    /\ UNCHANGED <<plan, calls, writing, sent, turn, holder, serverVars, up, down, hand,
                   unheard, faults, notices>>

(***************************************************************************)
(* The client's reader thread: a rendezvous channel, so it holds at most   *)
(* one response.  At the end of input every read yields the same error.    *)
(***************************************************************************)
Read ==
    /\ hand = None /\ down # <<>>
    /\ down' = Tail(down)
    /\ IF Head(down).kind = "WatchNotify"
       THEN unheard' = (IF fun THEN unheard ELSE unheard + 1) /\ UNCHANGED hand
       ELSE hand' = Head(down) /\ UNCHANGED unheard
    /\ UNCHANGED <<clientVars, serverVars, up, faults, notices>>

ReadEnd ==
    /\ hand = None /\ down = <<>> /\ ~alive
    /\ hand' = Closed
    /\ UNCHANGED <<clientVars, serverVars, up, down, unheard, faults, notices>>

-----------------------------------------------------------------------------
(***************************************************************************)
(* The server: run_server_rpc and process_frame.                           *)
(***************************************************************************)
CanServe == alive /\ outbox = <<>> /\ up # <<>>
Incoming == Head(up)
MayFail == faults < MaxFaults
Own(r) == {x \in txns : x.by = r.by /\ x.n = r.tx}

\* There is no such transaction, or the watch is already on.
Refuses(r) ==
    CASE r.kind \in {"Edit", "Commit", "Abort"} -> Own(r) = {}
      [] r.kind = "Watch" -> watching
      [] OTHER -> FALSE

\* none_or_fatal! on success: the storage buffers the operation.
Accept ==
    /\ CanServe /\ Incoming.kind \in Silent
    /\ LET r == Incoming IN
       /\ ~Refuses(r)
       /\ txns' = CASE r.kind = "StartTx" -> txns \cup {[by |-> r.by, n |-> r.tx, lost |-> FALSE]}
                    [] OTHER -> txns
       /\ watched' = (watched \/ (r.kind = "Register" /\ watching))
    /\ up' = Tail(up)
    /\ UNCHANGED <<clientVars, alive, deferred, outbox, applied, watching, down, hand,
                   unheard, faults, notices>>

\* Faulty variant: the failure of a request without response is dropped.
NowDeferredNever == deferred

\* The failure is saved away until a response is due.
NowDeferred == TRUE

\* none_or_fatal! on failure: the edit is not buffered.
RefuseSilently ==
    /\ CanServe /\ Incoming.kind \in Silent
    /\ LET r == Incoming
       IN /\ Refuses(r) \/ MayFail
          /\ faults' = IF Refuses(r) THEN faults ELSE faults + 1
          /\ txns' = IF r.kind = "Edit"
                     THEN (txns \ Own(r)) \cup {[by |-> x.by, n |-> x.n, lost |-> TRUE] : x \in Own(r)}
                     ELSE txns
    /\ deferred' = NowDeferred
    /\ up' = Tail(up)
    /\ UNCHANGED <<clientVars, alive, outbox, applied, watching, watched, down, hand,
                   unheard, notices>>

\* A deferred error replaces the response that is now due.
Due(kind, r) == Response(IF deferred THEN "FatalError" ELSE kind, r)

\* The request has been executed, whatever the client is going to be told.
Answer(r, kind) ==
    /\ up' = Tail(up)
    /\ deferred' = FALSE
    /\ \E k \in (IF r.kind = "ForDirtyDir" THEN 0..MaxDirty ELSE {0}) :
          outbox' = Append([i \in 1..k |-> Response("DirtyDir", r)], Due(kind, r))
    /\ UNCHANGED <<clientVars, alive, down, hand, unheard, notices>>

\* A transaction is removed by commit and abort, and applied by an accepted
\* commit.
Serve ==
    /\ CanServe /\ Incoming.kind \in Answered
    /\ ~Refuses(Incoming)
    /\ \E kind \in Expected(Incoming.kind) \ {"DirtyDir"} :
          /\ Answer(Incoming, kind)
          /\ applied' = IF Incoming.kind = "Commit" /\ kind = "Done"
                        THEN applied \cup Own(Incoming) ELSE applied
    /\ txns' = IF Incoming.kind \in {"Commit", "Abort"} THEN txns \ Own(Incoming) ELSE txns
    /\ watching' = (watching \/ Incoming.kind = "Watch")
    /\ UNCHANGED <<watched, faults>>

\* A failed commit has removed the transaction all the same.
ServeError ==
    /\ CanServe /\ Incoming.kind \in Answered
    /\ Refuses(Incoming) \/ MayFail
    /\ faults' = IF Refuses(Incoming) THEN faults ELSE faults + 1
    /\ Answer(Incoming, "Error")
    /\ txns' = IF Incoming.kind = "Commit" THEN txns \ Own(Incoming) ELSE txns
    /\ UNCHANGED <<applied, watching, watched>>

\* write_response, blocking while the pipe is full; a fatal error is the
\* last thing the server says.
Write ==
    /\ alive /\ outbox # <<>> /\ Len(down) < Pipe
    /\ down' = Append(down, Head(outbox))
    /\ outbox' = Tail(outbox)
    /\ alive' = (Head(outbox).kind # "FatalError")
    /\ up' = IF alive' THEN up ELSE <<>>
    /\ UNCHANGED <<clientVars, deferred, txns, applied, watching, watched, hand, unheard,
                   faults, notices>>

\* The watcher thread, sharing the output under its lock.
Notify ==
    /\ alive /\ watching /\ watched /\ notices < MaxNotices /\ Len(down) < Pipe
    /\ down' = Append(down, Notice)
    /\ notices' = notices + 1
    /\ watched' = FALSE
    /\ UNCHANGED <<clientVars, alive, deferred, outbox, txns, applied, watching, up,
                   hand, unheard, faults>>

\* The transport fails: what is under way may or may not arrive.
Disconnect ==
    /\ alive /\ MayFail
    /\ faults' = faults + 1
    /\ alive' = FALSE
    /\ up' = <<>> /\ outbox' = <<>>
    /\ \E k \in 0..Len(down) : down' = SubSeq(down, 1, k)
    /\ UNCHANGED <<clientVars, deferred, txns, applied, watching, watched, hand, unheard,
                   notices>>

-----------------------------------------------------------------------------
ThreadStep(t) == Send(t) \/ SendFails(t) \/ Enter(t) \/ Receive(t) \/ Handle(t)
ReaderStep == Read \/ ReadEnd
ServerStep == Accept \/ RefuseSilently \/ Serve \/ ServeError \/ Write

Next ==
    \/ \E t \in Thread : Call(t) \/ ThreadStep(t)
    \/ ReaderStep
    \/ ServerStep
    \/ Notify
    \/ Disconnect

Spec ==
    /\ Init /\ [][Next]_vars
    /\ \A t \in Thread : WF_vars(ThreadStep(t))
    /\ WF_vars(ReaderStep) /\ WF_vars(ServerStep)
-----------------------------------------------------------------------------
(***************************************************************************)
(* Properties.                                                             *)
(***************************************************************************)

\* Whatever the threads' order at the two locks, each response is read by
\* the thread whose request it answers: drawing the ticket under the output
\* lock and queueing for the input by ticket keep the two orders the same.
OwnAnswer ==
    \A t \in Thread : got[t] # None /\ got[t].kind # "Closed" =>
        got[t].by = t /\ got[t].n = req[t].n

\* RemoteStorage::commit tells the truth: Ok(true) only for a transaction
\* that was applied with every edit the thread put in it, although the edits
\* had no response of their own, and Ok(false) only for one that was not.
CommitHonest ==
    \A t \in Thread : pc[t] = "got" /\ req[t].kind = "Commit" =>
        LET mine == {x \in applied : x.by = t /\ x.n = req[t].tx}
        IN /\ got[t].kind = "Done" => \E x \in mine : ~x.lost
           /\ got[t].kind = "Fail" => mine = {}

\* No notification reaches the reader thread before watch_fun is installed,
\* where it would be dropped: directories are registered only after
\* Storage::watch has returned.
NoticeHeard == unheard = 0

\* Every Storage call returns: however full the pipes are, and whether the
\* server goes on, gives up or is lost, nobody waits for a response, for a
\* turn or for room in a pipe for ever.
EveryCallReturns == \A t \in Thread : pc[t] # "idle" ~> pc[t] = "idle"
=============================================================================
