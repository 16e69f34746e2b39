------------------------------ MODULE Storage ------------------------------
(***************************************************************************)
(* What the trait in server/storage.rs promises its callers: edits are     *)
(* buffered in a transaction and a commit applies all of them or none,     *)
(* atomically.  There are no rows, files, locks or cleaners here.          *)
(***************************************************************************)
EXTENDS Integers, Sequences

CONSTANTS
    Session,    \* callers, each with at most one open transaction
    Dir,        \* directory ids
    Obj,        \* object ids
    None        \* no directory, no transaction

VARIABLES
    data,       \* per directory: None, or its version and content
    links,      \* per object: its reference accumulator, a set of link ids
    avail,      \* the objects `getobj` finds
    txns        \* per session: None, or the edits buffered so far

vars == <<data, links, avail, txns>>

\* The condition an edit implies, on the directories it is applied to.
Admits(dt, op) ==
    IF op.op = "mkdir" THEN dt[op.id] = None
    ELSE /\ dt[op.id] # None
         /\ dt[op.id].ver = op.ver
         /\ Len(dt[op.id].content) = op.len

\* The directories after one edit.
After(dt, op) ==
    CASE op.op = "mkdir" ->
            [dt EXCEPT ![op.id] = [ver |-> op.ver, content |-> <<op.ent>>]]
      [] op.op = "updir" -> [dt EXCEPT ![op.id].content = Append(@, op.ent)]
      [] op.op = "rmdir" -> [dt EXCEPT ![op.id] = None]

\* The directories after a sequence of edits, or None when a condition fails.
Outcome(ops) ==
    LET after[n \in 0 .. Len(ops)] ==
            IF n = 0 THEN data
            ELSE IF after[n - 1] = None THEN None
            ELSE IF Admits(after[n - 1], ops[n]) THEN After(after[n - 1], ops[n])
            ELSE None
    IN  after[Len(ops)]

\* The accumulators after the links and unlinks of a transaction: one XOR each.
LinksAfter(t) ==
    [o \in Obj |->
        LET ids == {b[2] : b \in {c \in t.link \cup t.unlink : c[1] = o}}
        IN  (links[o] \ ids) \cup (ids \ links[o])]

-----------------------------------------------------------------------------
Init ==
    /\ data = [d \in Dir |-> None]
    /\ links = [o \in Obj |-> {}]
    /\ avail = {}
    /\ txns = [s \in Session |-> None]

\* An object with links is available; others may come and go at any time.
LinkedStayAvailable == {o \in Obj : links'[o] # {}} \subseteq avail'

\* start_tx and the calls that schedule edits.
Schedule(s) ==
    /\ txns' = [txns EXCEPT ![s] = txns'[s]]
    /\ txns'[s] # None
    /\ UNCHANGED <<data, links>>

\* abort, a rejected commit, an error or the end of the caller: no effect.
Drop(s) ==
    /\ txns[s] # None
    /\ txns' = [txns EXCEPT ![s] = None]
    /\ UNCHANGED <<data, links>>

Commit(s) ==
    /\ txns[s] # None
    /\ Outcome(txns[s].dirops) # None
    /\ data' = Outcome(txns[s].dirops)
    /\ links' = LinksAfter(txns[s])
    /\ txns' = [txns EXCEPT ![s] = None]

Next ==
    /\ \/ UNCHANGED <<data, links, txns>>
       \/ \E s \in Session : Schedule(s) \/ Drop(s) \/ Commit(s)
    /\ LinkedStayAvailable

Spec == Init /\ [][Next]_vars
=============================================================================
