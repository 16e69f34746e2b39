------------------------------ MODULE RpcProofs -----------------------------
(***************************************************************************)
(* What holds of Rpc for any number of threads, any calls and pipes of any *)
(* size: every thread reads the answers to its own requests, `commit`      *)
(* tells the truth, and no notification comes before it can be heard.      *)
(***************************************************************************)
EXTENDS Rpc, TLAPS

-----------------------------------------------------------------------------
(* Types. *)

Waiting == {"queued", "asleep", "reading"}
Place == {"idle", "sending", "got"} \cup Waiting

Transactions == [by : Thread, n : Nat, lost : BOOLEAN]

ThreadTypes ==
    /\ pc \in [Thread -> Place] /\ req \in [Thread -> Request \cup {None}]
    /\ ticket \in [Thread -> Nat] /\ got \in [Thread -> Frame \cup {None}]
    /\ calls \in [Thread -> Nat] /\ writing \in [Thread -> Nat]
    /\ plan \in [Thread -> Seq(Silent \cup Answered)]

QueueTypes ==
    sent \in Nat /\ turn \in Nat /\ holder \in Thread \cup {None} /\ fun \in BOOLEAN

ServerTypes ==
    /\ alive \in BOOLEAN /\ deferred \in BOOLEAN /\ outbox \in Seq(Frame)
    /\ txns \in SUBSET Transactions /\ applied \in SUBSET Transactions
    /\ watching \in BOOLEAN /\ watched \in BOOLEAN

WireTypes ==
    up \in Seq(Request) /\ down \in Seq(Frame) /\ hand \in Frame \cup {None}

TypeOK == ThreadTypes /\ QueueTypes /\ ServerTypes /\ WireTypes

\* What may be where, and what is gone with the connection.
FrameInv ==
    /\ \A i \in DOMAIN outbox : outbox[i].kind \in Reply
    /\ \A i \in DOMAIN outbox : i < Len(outbox) => outbox[i].kind = "DirtyDir"
    /\ \A i \in DOMAIN down : down[i].kind \in Reply \cup {"WatchNotify"}
    /\ hand # None => hand.kind \in Reply \cup {"Closed"}
    /\ hand # None /\ hand.kind = "Closed" => ~alive /\ down = <<>>
    /\ ~alive => up = <<>> /\ outbox = <<>>

\* A thread and its call.
ThreadInv ==
    \A t \in Thread :
        /\ req[t] = None <=> pc[t] = "idle"
        /\ pc[t] # "idle" => req[t].by = t /\ req[t].n = calls[t] /\ calls[t] > 0
        /\ pc[t] \in Waiting \cup {"got"} => req[t].kind \in Answered
        /\ got[t] # None => pc[t] \in {"reading", "got"}
        /\ pc[t] = "got" => got[t] # None

\* The queue for the responses.
TicketInv ==
    /\ turn <= sent
    /\ \A t \in Thread : pc[t] \in Waiting => ticket[t] < sent
    /\ \A t \in Thread : pc[t] \in {"queued", "asleep"} => turn <= ticket[t]
    /\ \A t \in Thread : pc[t] = "reading" => ticket[t] + 1 = turn
    /\ \A s, t \in Thread : pc[s] \in Waiting /\ pc[t] \in Waiting /\ ticket[s] = ticket[t]
                               => s = t
    /\ \A t \in Thread : pc[t] = "reading" <=> holder = t
-----------------------------------------------------------------------------
(* What is under way between a request and its thread. *)

\* What the reader thread holds, the responses in the pipe, those the server has
\* still to write and the requests it has still to serve, in this order.
Flow ==
    [k \in 0 .. Len(down) + Len(outbox) + Len(up) |->
        IF k = 0 THEN IF hand = None THEN Notice ELSE hand
        ELSE IF k <= Len(down) THEN down[k]
        ELSE IF k <= Len(down) + Len(outbox) THEN outbox[k - Len(down)]
        ELSE up[k - (Len(down) + Len(outbox))]]

\* Some thread waits for it.
Live(x) == x.kind \in Answered \cup Reply

Final(x) == Live(x) /\ x.kind # "DirtyDir"

\* `p`, `r` and `q` are the places, requests and tickets of the threads.
Owned(f, p, r) ==
    \A k \in DOMAIN f : Live(f[k]) =>
        /\ f[k].by \in Thread /\ p[f[k].by] \in Waiting /\ f[k].n = r[f[k].by].n
        /\ f[k].kind \in Answered => f[k] = r[f[k].by]
        /\ f[k].kind = "DirtyDir" => r[f[k].by].kind = "ForDirtyDir"

\* The order of the tickets, where only a DirtyDir is followed by another
\* response to the same request.
Ordered(f, q) ==
    \A i, j \in DOMAIN f : i < j /\ Live(f[i]) /\ Live(f[j]) =>
        q[f[i].by] < q[f[j].by] \/ (f[i].by = f[j].by /\ f[i].kind = "DirtyDir")

\* Who waits has a response coming, unless the connection was lost before that
\* and before anything for the threads behind.
Complete(f, p, q, open) ==
    \A t \in Thread :
        p[t] \in Waiting /\ (open \/ \E k \in DOMAIN f : Live(f[k]) /\ q[t] < q[f[k].by])
            => \E k \in DOMAIN f : Final(f[k]) /\ f[k].by = t

FlowInv == Owned(Flow, pc, req) /\ Ordered(Flow, ticket) /\ Complete(Flow, pc, ticket, alive)
-----------------------------------------------------------------------------
(* Transactions. *)

Unapplied(t, n) == \A x \in applied : ~(x.by = t /\ x.n = n)

\* What the answer `kind` to a commit says of the thread's transaction.
Truth(t, kind) ==
    /\ kind = "Done" => \E x \in applied : x.by = t /\ x.n = req[t].tx /\ ~x.lost
    /\ kind = "Fail" => Unapplied(t, req[t].tx)

\* Numbers of transactions are used once.
NumberInv ==
    /\ \A x \in txns \cup applied : 0 < x.n /\ x.n <= calls[x.by]
    /\ \A i \in DOMAIN up : up[i].kind = "StartTx" => 0 < up[i].tx /\ up[i].tx <= calls[up[i].by]
    /\ \A i \in DOMAIN up : up[i].kind = "Commit" => Unapplied(up[i].by, up[i].tx)
    /\ \A t \in Thread :
          /\ Unapplied(t, writing[t])
          /\ pc[t] = "sending" /\ req[t].kind = "StartTx" => req[t].tx = calls[t]
          /\ pc[t] = "sending" /\ req[t].kind = "Commit" => Unapplied(t, req[t].tx)
          /\ pc[t] # "idle" /\ req[t].kind = "Commit" => writing[t] = 0

\* A failed edit is reported before any commit is.
LostInv ==
    alive /\ (\E x \in txns : x.lost) =>
        deferred \/ (outbox # <<>> /\ outbox[Len(outbox)].kind = "FatalError")

ToldInv ==
    \A t \in Thread : \A kind : req[t].kind = "Commit" =>
        /\ \A k \in DOMAIN Flow :
              Live(Flow[k]) /\ Flow[k].by = t /\ Flow[k].kind = kind => Truth(t, kind)
        /\ pc[t] = "got" /\ got[t].kind = kind => Truth(t, kind)

CommitInv == NumberInv /\ LostInv /\ ToldInv
-----------------------------------------------------------------------------
(* The watch. *)

\* The watch that was started is about to be known.
Starting(w) ==
    /\ pc[w] # "idle" /\ req[w].kind = "Watch"
    /\ \/ /\ pc[w] \in Waiting
          /\ \A k \in DOMAIN Flow : Live(Flow[k]) /\ Flow[k].by = w =>
                Flow[k].kind \in {"Done", "FatalError"}
       \/ pc[w] = "got" /\ got[w].kind = "Done"

\* Nothing is registered or notified before the function is installed.
Quiet ==
    /\ unheard = 0
    /\ ~fun => ~watched /\ \A i \in DOMAIN down : down[i].kind # "WatchNotify"
    /\ watched => watching

\* Nobody else uses the storage while a watch is being started.
Alone ==
    \A w \in Thread : pc[w] # "idle" /\ req[w].kind = "Watch" =>
        \A t \in Thread \ {w} : pc[t] = "idle"

NothingBehind == \A i \in DOMAIN up : up[i].kind = "Watch" => i = Len(up)

\* A fatal error is the last thing the server says.
NoFatal ==
    alive => /\ hand # None => hand.kind # "FatalError"
             /\ \A i \in DOMAIN down : down[i].kind # "FatalError"

Known == watching /\ ~fun /\ alive => up = <<>> /\ \E w \in Thread : Starting(w)

WatchInv == Quiet /\ Alone /\ NothingBehind /\ NoFatal /\ Known

Inv ==
    TypeOK /\ FrameInv /\ ThreadInv /\ TicketInv /\ FlowInv /\ OwnAnswer /\ CommitInv /\ WatchInv
-----------------------------------------------------------------------------
(* Orders and owners, for any two flows. *)

\* The kinds of frames that somebody waits for, and the others.
LEMMA Kinds ==
    /\ Answered \cap Silent = {} /\ Answered \cap Reply = {} /\ Silent \cap Reply = {}
    /\ \A x : Live(x) => x.kind \notin Silent \cup {"WatchNotify", "Closed"}
    /\ ~Live(Notice) /\ ~Live(Closed)
    /\ \A k \in Answered : Expected(k) \subseteq Reply /\ "Error" \in Reply
PROOF
  BY DEF Answered, Silent, Reply, Live, Notice, Closed, Expected

\* The frames of flow `g` that somebody waits for are those of flow `f` that `m`
\* names, in the same order.
Through(f, g, m) ==
    /\ \A k \in DOMAIN g : Live(g[k]) => m[k] \in DOMAIN f /\ g[k] = f[m[k]]
    /\ \A i, j \in DOMAIN g : i < j /\ Live(g[i]) /\ Live(g[j]) => m[i] < m[j]

\* Threads that are still waited for by a frame are where they were.
Steady(g, p, r, q, p1, r1, q1) ==
    \A k \in DOMAIN g : Live(g[k]) /\ g[k].by \in Thread /\ p[g[k].by] \in Waiting =>
        p1[g[k].by] \in Waiting /\ r1[g[k].by] = r[g[k].by] /\ q1[g[k].by] = q[g[k].by]

\* A flow from which frames are taken keeps its owners and its order.
LEMMA ThroughKeeps ==
    ASSUME NEW f, NEW g, NEW m, NEW p, NEW r, NEW q, NEW p1, NEW r1, NEW q1,
           Through(f, g, m), Owned(f, p, r), Ordered(f, q), Steady(g, p, r, q, p1, r1, q1)
    PROVE  Owned(g, p1, r1) /\ Ordered(g, q1)
PROOF
  <1>1. ASSUME NEW k \in DOMAIN g, Live(g[k])
        PROVE  /\ m[k] \in DOMAIN f /\ g[k] = f[m[k]] /\ g[k].by \in Thread
               /\ p1[g[k].by] \in Waiting /\ r1[g[k].by] = r[g[k].by] /\ q1[g[k].by] = q[g[k].by]
    <2>1. m[k] \in DOMAIN f /\ g[k] = f[m[k]]
      BY Zenon, <1>1 DEF Through
    <2>2. g[k].by \in Thread /\ p[g[k].by] \in Waiting
      BY Zenon, <1>1, <2>1 DEF Owned
    <2> QED
      BY Zenon, <1>1, <2>1, <2>2 DEF Steady
  <1>2. Owned(g, p1, r1)
    <2> SUFFICES ASSUME NEW k \in DOMAIN g, Live(g[k])
                 PROVE  /\ g[k].by \in Thread /\ p1[g[k].by] \in Waiting /\ g[k].n = r1[g[k].by].n
                        /\ g[k].kind \in Answered => g[k] = r1[g[k].by]
                        /\ g[k].kind = "DirtyDir" => r1[g[k].by].kind = "ForDirtyDir"
      BY Zenon DEF Owned
    <2> DEFINE x == g[k]
    <2>1. /\ m[k] \in DOMAIN f /\ x = f[m[k]] /\ Live(x) /\ x.by \in Thread
          /\ p1[x.by] \in Waiting /\ r1[x.by] = r[x.by]
      BY Zenon, <1>1
    <2> HIDE DEF x
    <2>2. /\ x.n = r[x.by].n /\ (x.kind \in Answered => x = r[x.by])
          /\ x.kind = "DirtyDir" => r[x.by].kind = "ForDirtyDir"
      BY Zenon, <2>1 DEF Owned
    <2>3. /\ x.by \in Thread /\ p1[x.by] \in Waiting /\ x.n = r1[x.by].n
          /\ x.kind \in Answered => x = r1[x.by]
          /\ x.kind = "DirtyDir" => r1[x.by].kind = "ForDirtyDir"
      BY Zenon, <2>1, <2>2
    <2> QED
      BY Zenon, <2>3 DEF x
  <1>3. Ordered(g, q1)
    <2> SUFFICES ASSUME NEW i \in DOMAIN g, NEW j \in DOMAIN g, i < j, Live(g[i]), Live(g[j])
                 PROVE  q1[g[i].by] < q1[g[j].by] \/ (g[i].by = g[j].by /\ g[i].kind = "DirtyDir")
      BY Zenon DEF Ordered
    <2>1. /\ m[i] \in DOMAIN f /\ g[i] = f[m[i]] /\ q1[g[i].by] = q[g[i].by]
          /\ m[j] \in DOMAIN f /\ g[j] = f[m[j]] /\ q1[g[j].by] = q[g[j].by]
      BY Zenon, <1>1
    <2>2. m[i] < m[j]
      BY Zenon DEF Through
    <2>3. q[f[m[i]].by] < q[f[m[j]].by] \/ (f[m[i]].by = f[m[j]].by /\ f[m[i]].kind = "DirtyDir")
      BY Zenon, <2>1, <2>2 DEF Ordered
    <2> QED
      BY Zenon, <2>1, <2>3
  <1> QED
    BY Zenon, <1>2, <1>3

\* Who waits has waited before, and still has the last response coming.
Awaited(f, g, p, q, p1, q1) ==
    /\ \A t \in Thread : p1[t] \in Waiting => p[t] \in Waiting /\ q1[t] = q[t]
    /\ \A i \in DOMAIN f : Final(f[i]) /\ p1[f[i].by] \in Waiting => \E k \in DOMAIN g : g[k] = f[i]

\* A flow that keeps the last response to each thread that waits stays complete.
LEMMA CompleteKept ==
    ASSUME NEW f, NEW g, NEW m, NEW p, NEW r, NEW q, NEW open, NEW p1, NEW r1, NEW q1,
           Through(f, g, m), Owned(f, p, r), Steady(g, p, r, q, p1, r1, q1),
           Complete(f, p, q, open), Awaited(f, g, p, q, p1, q1)
    PROVE  Complete(g, p1, q1, open)
PROOF
  <1> SUFFICES ASSUME NEW t \in Thread, p1[t] \in Waiting,
                      open \/ \E k \in DOMAIN g : Live(g[k]) /\ q1[t] < q1[g[k].by]
               PROVE  \E k \in DOMAIN g : Final(g[k]) /\ g[k].by = t
    BY Zenon DEF Complete
  <1>1. p[t] \in Waiting /\ q1[t] = q[t]
    BY Zenon DEF Awaited
  <1>2. open \/ \E k \in DOMAIN f : Live(f[k]) /\ q[t] < q[f[k].by]
    <2>1. ASSUME NEW k \in DOMAIN g, Live(g[k]), q1[t] < q1[g[k].by]
          PROVE  \E i \in DOMAIN f : Live(f[i]) /\ q[t] < q[f[i].by]
      <3>1. m[k] \in DOMAIN f /\ g[k] = f[m[k]]
        BY Zenon, <2>1 DEF Through
      <3>2. g[k].by \in Thread /\ p[g[k].by] \in Waiting
        BY Zenon, <2>1, <3>1 DEF Owned
      <3>3. q1[g[k].by] = q[g[k].by]
        BY Zenon, <2>1, <3>2 DEF Steady
      <3>4. q[t] < q[f[m[k]].by]
        BY Zenon, <1>1, <2>1, <3>1, <3>3
      <3> QED
        BY Zenon, <2>1, <3>1, <3>4
    <2> QED
      BY Zenon, <2>1
  <1>3. PICK i \in DOMAIN f : Final(f[i]) /\ f[i].by = t
    BY Zenon, <1>1, <1>2 DEF Complete
  <1> QED
    BY Zenon, <1>3 DEF Awaited

\* A flow that is cut off stays complete for what is left.
LEMMA CompleteCut ==
    ASSUME NEW f, NEW g, NEW p, NEW r, NEW q, NEW open, NEW b \in Nat, NEW e \in Nat,
           Owned(f, p, r), Ordered(f, q), Complete(f, p, q, open),
           \A t \in Thread : q[t] \in Nat,
           DOMAIN f = 0 .. b, DOMAIN g = 0 .. e, e <= b, \A k \in 0 .. e : g[k] = f[k]
    PROVE  Complete(g, p, q, FALSE)
PROOF
  <1> SUFFICES ASSUME NEW t \in Thread, p[t] \in Waiting,
                      NEW k \in DOMAIN g, Live(g[k]), q[t] < q[g[k].by]
               PROVE  \E i \in DOMAIN g : Final(g[i]) /\ g[i].by = t
    BY Zenon DEF Complete
  <1>1. k \in DOMAIN f /\ f[k] = g[k] /\ k \in 0 .. e
    BY SMT
  <1>2. PICK i \in DOMAIN f : Final(f[i]) /\ f[i].by = t
    BY Zenon, <1>1 DEF Complete
  <1>3. g[k].by \in Thread
    BY Zenon, <1>1 DEF Owned
  <1>4. ~(q[g[k].by] < q[t]) /\ g[k].by # t
    BY <1>3
  <1>5. Live(f[i])
    BY Zenon, <1>2 DEF Final
  <1>6. ~(k < i)
    BY Zenon, <1>1, <1>2, <1>4, <1>5 DEF Ordered
  <1>7. i \in 0 .. e
    BY <1>1, <1>6
  <1> QED
    BY Zenon, <1>2, <1>7
-----------------------------------------------------------------------------
(* What the steps do to the flow. *)

Size == Len(down) + Len(outbox) + Len(up)

\* Where in the flow the frames are.
LEMMA FlowAt ==
    ASSUME TypeOK
    PROVE  /\ Len(down) \in Nat /\ Len(outbox) \in Nat /\ Len(up) \in Nat /\ Size \in Nat
           /\ DOMAIN Flow = 0 .. Size
           /\ Flow[0] = IF hand = None THEN Notice ELSE hand
           /\ \A k \in 1 .. Len(down) : Flow[k] = down[k]
           /\ \A k \in 1 .. Len(outbox) : Flow[Len(down) + k] = outbox[k]
           /\ \A k \in 1 .. Len(up) : Flow[Len(down) + Len(outbox) + k] = up[k]
PROOF
  <1>1. Len(down) \in Nat /\ Len(outbox) \in Nat /\ Len(up) \in Nat
    BY DEF TypeOK, WireTypes, ServerTypes
  <1> QED
    BY <1>1 DEF Flow, Size

\* The same in the next state.
LEMMA NextFlowAt ==
    ASSUME TypeOK'
    PROVE  /\ Len(down') \in Nat /\ Len(outbox') \in Nat /\ Len(up') \in Nat
           /\ DOMAIN Flow' = 0 .. (Len(down') + Len(outbox') + Len(up'))
           /\ Flow'[0] = IF hand' = None THEN Notice ELSE hand'
           /\ \A k \in 1 .. Len(down') : Flow'[k] = down'[k]
           /\ \A k \in 1 .. Len(outbox') : Flow'[Len(down') + k] = outbox'[k]
           /\ \A k \in 1 .. Len(up') : Flow'[Len(down') + Len(outbox') + k] = up'[k]
PROOF
  <1>1. Len(down') \in Nat /\ Len(outbox') \in Nat /\ Len(up') \in Nat
    BY DEF TypeOK, WireTypes, ServerTypes
  <1> QED
    BY <1>1 DEF Flow

LEMMA NothingSent == Len(<<>>) = 0
PROOF
  OBVIOUS

\* Taking the first of a sequence.
LEMMA TailFacts ==
    ASSUME NEW S, NEW s \in Seq(S), s # <<>>
    PROVE  /\ Len(s) \in Nat /\ Len(s) > 0 /\ Head(s) = s[1] /\ Head(s) \in S
           /\ Tail(s) \in Seq(S) /\ Len(Tail(s)) = Len(s) - 1
           /\ \A k \in 1 .. Len(Tail(s)) : Tail(s)[k] = s[k + 1]
PROOF
  OBVIOUS

\* Adding to a sequence.
LEMMA AppendFacts ==
    ASSUME NEW S, NEW s \in Seq(S), NEW x \in S
    PROVE  /\ Append(s, x) \in Seq(S) /\ Len(Append(s, x)) = Len(s) + 1 /\ Len(s) \in Nat
           /\ Append(s, x)[Len(s) + 1] = x
           /\ \A k \in 1 .. Len(s) : Append(s, x)[k] = s[k]
PROOF
  OBVIOUS

\* The beginning of a sequence.
LEMMA SubSeqFacts ==
    ASSUME NEW S, NEW s \in Seq(S), NEW k \in 0 .. Len(s)
    PROVE  SubSeq(s, 1, k) \in Seq(S)
PROOF
  <1>1. SubSeq(s, 1, k) = [i \in 1 .. k |-> s[i]] /\ k \in Nat
    OBVIOUS
  <1>2. [i \in 1 .. k |-> s[i]] \in Seq(S)
    BY <1>1
  <1> QED
    BY Zenon, <1>1, <1>2

\* All frames that somebody waits for are still there, in the same order.
Passed ==
    /\ \E m : Through(Flow, Flow', m)
    /\ \A i \in DOMAIN Flow : Live(Flow[i]) => \E k \in DOMAIN Flow' : Flow'[k] = Flow[i]

LEMMA SameFlow ==
    ASSUME UNCHANGED <<hand, down, outbox, up>>
    PROVE  Flow' = Flow
PROOF
  BY Zenon DEF Flow

LEMMA SameFlowPassed ==
    ASSUME TypeOK, Flow' = Flow
    PROVE  Passed
PROOF
  <1> DEFINE m == [k \in DOMAIN Flow |-> k]
  <1>1. \A k \in DOMAIN Flow : m[k] = k
    BY Zenon
  <1> HIDE DEF m
  <1>2. Through(Flow, Flow', m)
    BY Zenon, <1>1 DEF Through
  <1> QED
    BY Zenon, <1>2 DEF Passed

\* A request is written.
LEMMA SendFlow ==
    ASSUME TypeOK, TypeOK', NEW x \in Request, up' = Append(up, x), UNCHANGED <<hand, down, outbox>>
    PROVE  /\ DOMAIN Flow' = 0 .. (Size + 1) /\ Flow'[Size + 1] = x
           /\ \A k \in 0 .. Size : Flow'[k] = Flow[k]
PROOF
  <1>1. Len(up') = Len(up) + 1 /\ up'[Len(up) + 1] = x /\ \A k \in 1 .. Len(up) : up'[k] = up[k]
    BY DEF TypeOK, WireTypes, ServerTypes
  <1>2. Len(down) \in Nat /\ Len(outbox) \in Nat /\ Len(up) \in Nat
    BY Zenon, FlowAt
  <1> QED
    BY <1>1, <1>2 DEF Flow, Size

\* The reader thread takes a frame off the pipe.
LEMMA ReadFlow ==
    ASSUME TypeOK, TypeOK', Read
    PROVE  Passed
PROOF
  <1> DEFINE m == [k \in DOMAIN Flow' |-> k + 1]
  <1>1. /\ hand = None /\ Len(down) > 0 /\ Len(down') = Len(down) - 1 /\ Head(down) = down[1]
        /\ \A k \in 1 .. Len(down') : down'[k] = down[k + 1]
        /\ outbox' = outbox /\ up' = up /\ Head(down) \in Frame
    <2>1. down \in Seq(Frame) /\ down # <<>> /\ down' = Tail(down) /\ hand = None
      BY Zenon DEF Read, TypeOK, WireTypes
    <2>2. outbox' = outbox /\ up' = up
      BY Zenon DEF Read, serverVars
    <2> QED
      BY Zenon, <2>1, <2>2, TailFacts
  <1>2. Head(down) # None
    BY Zenon, <1>1, NoneAssumption
  <1>3. Len(down) \in Nat /\ Len(outbox) \in Nat /\ Len(up) \in Nat
    BY Zenon, FlowAt
  <1>4. /\ DOMAIN Flow = 0 .. Size /\ DOMAIN Flow' = 0 .. (Size - 1)
        /\ Size \in Nat /\ Size > 0
        /\ \A k \in 1 .. (Size - 1) : Flow'[k] = Flow[k + 1]
    BY <1>1, <1>3 DEF Flow, Size
  <1>5. Flow[0] = Notice /\ Flow[1] = down[1]
    BY <1>1, <1>3 DEF Flow
  <1>6. Flow'[0] = IF hand' = None THEN Notice ELSE hand'
    BY Zenon, NextFlowAt
  <1>7. CASE down[1].kind = "WatchNotify"
    <2>1. Flow'[0] = Notice /\ ~Live(Flow[1])
      BY Zenon, <1>1, <1>5, <1>6, <1>7, Kinds DEF Read
    <2>2. \A k \in DOMAIN Flow' : Live(Flow'[k]) => k \in 1 .. (Size - 1)
      <3>1. \A k \in 0 .. (Size - 1) : k = 0 \/ k \in 1 .. (Size - 1)
        BY <1>4
      <3> QED
        BY Zenon, <1>4, <2>1, <3>1, Kinds
    <2>3. \A k \in DOMAIN Flow' : Live(Flow'[k]) => m[k] \in DOMAIN Flow /\ Flow'[k] = Flow[m[k]]
      BY <1>4, <2>2
    <2>4. \A i, j \in DOMAIN Flow' : i < j => m[i] < m[j]
      BY <1>4
    <2>5. \A i \in DOMAIN Flow : Live(Flow[i]) => i \in 2 .. Size
      <3>1. \A i \in 0 .. Size : i = 0 \/ i = 1 \/ i \in 2 .. Size
        BY <1>4
      <3> QED
        BY Zenon, <1>4, <1>5, <2>1, <3>1, Kinds
    <2>6. \A i \in 2 .. Size : i - 1 \in DOMAIN Flow' /\ Flow'[i - 1] = Flow[i]
      BY <1>4
    <2>7. Through(Flow, Flow', m)
      BY Zenon, <2>3, <2>4 DEF Through
    <2> QED
      BY Zenon, <2>5, <2>6, <2>7 DEF Passed
  <1>8. CASE down[1].kind # "WatchNotify"
    <2>1. Flow'[0] = Flow[1]
      BY Zenon, <1>1, <1>2, <1>5, <1>6, <1>8 DEF Read
    <2>2. \A k \in 0 .. (Size - 1) : Flow'[k] = Flow[k + 1]
      BY <1>4, <2>1
    <2>3. \A k \in DOMAIN Flow' : m[k] \in DOMAIN Flow /\ Flow'[k] = Flow[m[k]]
      BY <1>4, <2>2
    <2>4. \A i, j \in DOMAIN Flow' : i < j => m[i] < m[j]
      BY <1>4
    <2>5. \A i \in DOMAIN Flow : Live(Flow[i]) => i \in 1 .. Size
      <3>1. \A i \in 0 .. Size : i = 0 \/ i \in 1 .. Size
        BY <1>4
      <3> QED
        BY Zenon, <1>4, <1>5, <3>1, Kinds
    <2>6. \A i \in 1 .. Size : i - 1 \in DOMAIN Flow' /\ Flow'[i - 1] = Flow[i]
      BY <1>4, <2>2
    <2>7. Through(Flow, Flow', m)
      BY Zenon, <2>3, <2>4 DEF Through
    <2> QED
      BY Zenon, <2>5, <2>6, <2>7 DEF Passed
  <1> QED
    BY Zenon, <1>7, <1>8

\* The server takes a request that has no response.
LEMMA SilentFlow ==
    ASSUME TypeOK, TypeOK', outbox = <<>>, up # <<>>, Head(up).kind \in Silent,
           up' = Tail(up), UNCHANGED <<hand, down, outbox>>
    PROVE  Passed
PROOF
  <1> DEFINE b == Len(down)
             m == [k \in DOMAIN Flow' |-> IF k <= b THEN k ELSE k + 1]
             h == [k \in DOMAIN Flow |-> IF k <= b THEN k ELSE k - 1]
  <1>1. /\ Len(up) > 0 /\ Len(up') = Len(up) - 1 /\ Head(up) = up[1] /\ Len(outbox) = 0
        /\ \A k \in 1 .. Len(up') : up'[k] = up[k + 1]
    <2>1. up \in Seq(Request)
      BY Zenon DEF TypeOK, WireTypes, ServerTypes
    <2>2. Len(outbox) = 0
      BY Zenon, NothingSent
    <2>3. /\ Len(up) > 0 /\ Len(Tail(up)) = Len(up) - 1 /\ Head(up) = up[1]
          /\ \A k \in 1 .. Len(Tail(up)) : Tail(up)[k] = up[k + 1]
      BY Zenon, <2>1, TailFacts
    <2> QED
      BY Zenon, <2>2, <2>3
  <1>2. b \in Nat /\ Len(up) \in Nat
    BY Zenon, FlowAt
  <1>3. /\ DOMAIN Flow = 0 .. Size /\ DOMAIN Flow' = 0 .. (Size - 1) /\ Size = b + Len(up)
        /\ \A k \in 0 .. b : Flow'[k] = Flow[k]
        /\ \A k \in (b + 1) .. (Size - 1) : Flow'[k] = Flow[k + 1]
        /\ Flow[b + 1] = up[1]
    BY <1>1, <1>2 DEF Flow, Size
  <1> HIDE DEF b
  <1>4. ~Live(Flow[b + 1])
    BY Zenon, <1>1, <1>3, Kinds
  <1>5. \A k \in DOMAIN Flow' : m[k] \in DOMAIN Flow /\ Flow'[k] = Flow[m[k]]
    BY <1>1, <1>2, <1>3
  <1>6. \A i, j \in DOMAIN Flow' : i < j => m[i] < m[j]
    BY <1>2, <1>3
  <1>7. \A i \in DOMAIN Flow : i # b + 1 => h[i] \in DOMAIN Flow' /\ Flow'[h[i]] = Flow[i]
    BY <1>1, <1>2, <1>3
  <1>8. Through(Flow, Flow', m)
    BY Zenon, <1>5, <1>6 DEF Through
  <1> QED
    BY Zenon, <1>4, <1>7, <1>8 DEF Passed

\* The watcher writes a notification into the pipe.
LEMMA NotifyFlow ==
    ASSUME TypeOK, TypeOK', down' = Append(down, Notice), UNCHANGED <<hand, outbox, up>>
    PROVE  Passed
PROOF
  <1> DEFINE b == Len(down)
             m == [k \in DOMAIN Flow' |-> IF k <= b THEN k ELSE k - 1]
             h == [k \in DOMAIN Flow |-> IF k <= b THEN k ELSE k + 1]
  <1>1. /\ Len(down') = b + 1 /\ down'[b + 1] = Notice
        /\ \A k \in 1 .. b : down'[k] = down[k]
    BY DEF TypeOK, WireTypes, ServerTypes
  <1>2. b \in Nat /\ Len(up) \in Nat /\ Len(outbox) \in Nat
    BY Zenon, FlowAt
  <1>3. /\ DOMAIN Flow = 0 .. Size /\ DOMAIN Flow' = 0 .. (Size + 1)
        /\ Size = b + Len(outbox) + Len(up)
        /\ \A k \in 0 .. b : Flow'[k] = Flow[k]
        /\ \A k \in (b + 1) .. Size : Flow'[k + 1] = Flow[k]
        /\ Flow'[b + 1] = Notice
    BY <1>1, <1>2 DEF Flow, Size
  <1> HIDE DEF b
  <1>4. \A k \in DOMAIN Flow' : k # b + 1 => m[k] \in DOMAIN Flow /\ Flow'[k] = Flow[m[k]]
    <2> SUFFICES ASSUME NEW k \in 0 .. (Size + 1), k # b + 1
                 PROVE  m[k] \in 0 .. Size /\ Flow'[k] = Flow[m[k]]
      BY Zenon, <1>3
    <2>1. m[k] = IF k <= b THEN k ELSE k - 1
      BY Zenon, <1>3
    <2> HIDE DEF m
    <2>2. CASE k <= b
      <3>1. k \in 0 .. b /\ k \in 0 .. Size
        BY <1>2, <1>3, <2>2
      <3> QED
        BY Zenon, <1>3, <2>1, <2>2, <3>1
    <2>3. CASE ~(k <= b)
      <3>1. k - 1 \in (b + 1) .. Size /\ k - 1 \in 0 .. Size /\ (k - 1) + 1 = k
        BY <1>2, <1>3, <2>3
      <3>2. Flow'[(k - 1) + 1] = Flow[k - 1]
        BY Zenon, <1>3, <3>1
      <3> QED
        BY Zenon, <2>1, <2>3, <3>1, <3>2
    <2> QED
      BY Zenon, <2>2, <2>3
  <1>5. \A i, j \in DOMAIN Flow' : i < j /\ i # b + 1 /\ j # b + 1 => m[i] < m[j]
    <2> SUFFICES ASSUME NEW i \in 0 .. (Size + 1), NEW j \in 0 .. (Size + 1), i < j, i # b + 1, j # b + 1
                 PROVE  m[i] < m[j]
      BY Zenon, <1>3
    <2>1. m[i] = (IF i <= b THEN i ELSE i - 1) /\ m[j] = IF j <= b THEN j ELSE j - 1
      BY Zenon, <1>3
    <2> HIDE DEF m
    <2> QED
      BY <1>2, <2>1
  <1>6. ASSUME NEW i \in DOMAIN Flow PROVE h[i] \in DOMAIN Flow' /\ Flow'[h[i]] = Flow[i]
    <2>1. CASE i <= b
      BY <1>2, <1>3, <2>1
    <2>2. CASE i > b
      <3>1. i \in (b + 1) .. Size /\ h[i] = i + 1 /\ i + 1 \in 0 .. (Size + 1)
        BY <1>2, <1>3, <2>2
      <3> QED
        BY Zenon, <1>3, <3>1
    <2> QED
      BY <1>2, <1>3, <2>1, <2>2
  <1>7. \A k \in DOMAIN Flow' : Live(Flow'[k]) => k # b + 1
    BY Zenon, <1>3, Kinds
  <1>8. Through(Flow, Flow', m)
    BY Zenon, <1>4, <1>5, <1>7 DEF Through
  <1> QED
    BY Zenon, <1>6, <1>8 DEF Passed

\* A thread takes what the reader thread holds.
LEMMA ReceiveFlow ==
    ASSUME TypeOK, TypeOK', hand # None, hand' = None, UNCHANGED <<down, outbox, up>>
    PROVE  /\ Flow[0] = hand /\ 0 \in DOMAIN Flow
           /\ \E m : Through(Flow, Flow', m)
           /\ DOMAIN Flow' = DOMAIN Flow /\ Flow'[0] = Notice
           /\ \A k \in DOMAIN Flow : k # 0 => Flow'[k] = Flow[k] /\ 0 < k
PROOF
  <1> DEFINE m == [k \in DOMAIN Flow |-> k]
  <1>1. Len(down) \in Nat /\ Len(outbox) \in Nat /\ Len(up) \in Nat
    BY Zenon, FlowAt
  <1>2. /\ DOMAIN Flow' = DOMAIN Flow /\ 0 \in DOMAIN Flow /\ Flow[0] = hand /\ Flow'[0] = Notice
        /\ \A k \in DOMAIN Flow : k # 0 => Flow'[k] = Flow[k] /\ 0 < k
    BY <1>1 DEF Flow
  <1>3. \A k \in DOMAIN Flow : m[k] = k
    BY Zenon
  <1> HIDE DEF m
  <1>4. Through(Flow, Flow', m)
    BY Zenon, <1>2, <1>3, Kinds DEF Through
  <1> QED
    BY Zenon, <1>2, <1>4

\* The flow is cut off at `e`.
Cut(e) ==
    e \in Nat /\ e <= Size /\ DOMAIN Flow' = 0 .. e /\ \A k \in 0 .. e : Flow'[k] = Flow[k]

LEMMA CutThrough ==
    ASSUME TypeOK, NEW e, Cut(e)
    PROVE  \E m : Through(Flow, Flow', m)
PROOF
  <1> DEFINE m == [k \in 0 .. e |-> k]
  <1>1. /\ DOMAIN Flow = 0 .. Size /\ Size \in Nat
    BY Zenon, FlowAt
  <1>2. \A k \in 0 .. e : m[k] = k /\ k \in DOMAIN Flow
    BY <1>1 DEF Cut
  <1> HIDE DEF m
  <1>3. Through(Flow, Flow', m)
    BY Zenon, <1>2 DEF Through, Cut
  <1> QED
    BY Zenon, <1>3

\* The connection is lost.
LEMMA DisconnectFlow ==
    ASSUME TypeOK, TypeOK', NEW e \in 0 .. Len(down), down' = SubSeq(down, 1, e),
           up' = <<>>, outbox' = <<>>, hand' = hand
    PROVE  Cut(e) /\ Len(down') = e /\ \A k \in 1 .. e : down'[k] = down[k]
PROOF
  <1>1. Len(down) \in Nat /\ Len(outbox) \in Nat /\ Len(up) \in Nat
    BY Zenon, FlowAt
  <1>2. Len(down') = e /\ \A k \in 1 .. e : down'[k] = down[k]
    BY <1>1 DEF TypeOK, WireTypes, ServerTypes
  <1>3. Len(up') = 0 /\ Len(outbox') = 0
    BY Zenon, NothingSent
  <1>4. Cut(e)
    BY <1>1, <1>2, <1>3 DEF Cut, Flow, Size
  <1> QED
    BY Zenon, <1>2, <1>4

\* The server writes a response: it stays where it is in the flow, and is the
\* last if it is a fatal error.
LEMMA WriteFlow ==
    ASSUME TypeOK, TypeOK', FrameInv, Write
    PROVE  /\ Head(outbox) = outbox[1] /\ outbox # <<>> /\ Len(down') = Len(down) + 1
           /\ down'[Len(down) + 1] = outbox[1] /\ \A k \in 1 .. Len(down) : down'[k] = down[k]
           /\ outbox[1].kind # "FatalError" => Flow' = Flow
           /\ outbox[1].kind = "FatalError" => Cut(Len(down) + 1) /\ outbox' = <<>>
PROOF
  <1>1. /\ outbox \in Seq(Frame) /\ down \in Seq(Frame) /\ outbox # <<>> /\ outbox' = Tail(outbox)
        /\ down' = Append(down, Head(outbox)) /\ hand' = hand
        /\ up' = IF Head(outbox).kind # "FatalError" THEN up ELSE <<>>
    BY Zenon DEF Write, TypeOK, WireTypes, ServerTypes
  <1>2. /\ Head(outbox) = outbox[1] /\ Len(outbox') = Len(outbox) - 1
        /\ Len(outbox) > 0 /\ \A k \in 1 .. Len(outbox') : outbox'[k] = outbox[k + 1]
        /\ Head(outbox) \in Frame
    BY Zenon, <1>1, TailFacts
  <1>3. /\ Len(down') = Len(down) + 1 /\ down'[Len(down) + 1] = outbox[1]
        /\ \A k \in 1 .. Len(down) : down'[k] = down[k]
    <2> DEFINE x == outbox[1]
    <2>1. down \in Seq(Frame) /\ x \in Frame /\ down' = Append(down, x)
      BY Zenon, <1>1, <1>2
    <2> HIDE DEF x
    <2>2. /\ Len(down') = Len(down) + 1 /\ down'[Len(down) + 1] = x
          /\ \A k \in 1 .. Len(down) : down'[k] = down[k]
      BY <2>1, AppendFacts
    <2> QED
      BY Zenon, <2>2 DEF x
  <1>4. Len(down) \in Nat /\ Len(outbox) \in Nat /\ Len(up) \in Nat
    BY Zenon, FlowAt
  <1>5. ASSUME outbox[1].kind # "FatalError" PROVE Flow' = Flow
    <2>1. up' = up
      BY Zenon, <1>1, <1>2, <1>5
    <2> DEFINE Old(k) == IF k = 0 THEN IF hand = None THEN Notice ELSE hand
                         ELSE IF k <= Len(down) THEN down[k]
                         ELSE IF k <= Len(down) + Len(outbox) THEN outbox[k - Len(down)]
                         ELSE up[k - (Len(down) + Len(outbox))]
               New(k) == IF k = 0 THEN IF hand' = None THEN Notice ELSE hand'
                         ELSE IF k <= Len(down') THEN down'[k]
                         ELSE IF k <= Len(down') + Len(outbox') THEN outbox'[k - Len(down')]
                         ELSE up'[k - (Len(down') + Len(outbox'))]
    <2>2. Len(down') + Len(outbox') = Len(down) + Len(outbox)
      BY <1>2, <1>3, <1>4
    <2>3. ASSUME NEW k \in 0 .. Len(down) + Len(outbox) + Len(up) PROVE New(k) = Old(k)
      <3>1. CASE k <= Len(down)
        BY <1>1, <1>3, <1>4, <3>1
      <3>2. CASE k = Len(down) + 1
        BY <1>2, <1>3, <1>4, <3>2
      <3>3. CASE k > Len(down) + 1 /\ k <= Len(down) + Len(outbox)
        <4> DEFINE j == k - Len(down')
        <4>1. j \in 1 .. Len(outbox') /\ j + 1 = k - Len(down)
          BY <1>2, <1>3, <1>4, <3>3
        <4>2. outbox'[j] = outbox[j + 1]
          BY Zenon, <1>2, <4>1
        <4>3. New(k) = outbox'[j] /\ Old(k) = outbox[k - Len(down)]
          BY <1>3, <1>4, <2>2, <3>3
        <4> HIDE DEF New, Old, j
        <4> QED
          BY Zenon, <4>1, <4>2, <4>3
      <3>4. CASE k > Len(down) + Len(outbox)
        BY <1>2, <1>3, <1>4, <2>1, <2>2, <3>4
      <3> QED
        BY <1>4, <3>1, <3>2, <3>3, <3>4
    <2>4. Flow = [k \in 0 .. Len(down) + Len(outbox) + Len(up) |-> Old(k)]
      BY Zenon DEF Flow
    <2>5. Flow' = [k \in 0 .. Len(down') + Len(outbox') + Len(up') |-> New(k)]
      BY Zenon DEF Flow
    <2> HIDE DEF Old, New
    <2> QED
      BY Zenon, <2>1, <2>2, <2>3, <2>4, <2>5
  <1>6. ASSUME outbox[1].kind = "FatalError" PROVE Cut(Len(down) + 1) /\ outbox' = <<>>
    <2>1. Len(outbox) = 1
      BY <1>2, <1>4, <1>6 DEF FrameInv
    <2>2. outbox' = <<>> /\ up' = <<>>
      BY <1>1, <1>2, <1>6, <2>1
    <2>3. Len(up') = 0 /\ Len(outbox') = 0
      BY Zenon, <2>2, NothingSent
    <2>4. /\ DOMAIN Flow' = 0 .. (Len(down) + 1) /\ Len(down) + 1 <= Size /\ Len(down) + 1 \in Nat
          /\ \A k \in 1 .. (Len(down) + 1) : Flow'[k] = down'[k]
      BY <1>3, <1>4, <2>1, <2>3, NextFlowAt DEF Size
    <2>5. Flow'[0] = Flow[0]
      BY Zenon, <1>1, FlowAt, NextFlowAt
    <2>6. \A k \in 1 .. Len(down) : Flow[k] = down[k]
      BY Zenon, FlowAt
    <2>7. Flow[Len(down) + 1] = outbox[1]
      BY <2>1, FlowAt
    <2>8. \A k \in 0 .. (Len(down) + 1) : Flow'[k] = Flow[k]
      BY <1>3, <1>4, <2>4, <2>5, <2>6, <2>7
    <2>9. Cut(Len(down) + 1)
      BY Zenon, <2>4, <2>8 DEF Cut
    <2> QED
      BY Zenon, <2>2, <2>9
  <1> QED
    BY Zenon, <1>1, <1>2, <1>3, <1>5, <1>6

\* In flow `g` the responses to a request stand where flow `f` has the request:
\* `k` times a DirtyDir, and a last one.
Expands(f, g, b, k, size) ==
    /\ DOMAIN f = 0 .. size /\ DOMAIN g = 0 .. (size + k) /\ b + 1 <= size
    /\ f[b + 1].kind \in Answered /\ (k > 0 => f[b + 1].kind = "ForDirtyDir")
    /\ \A j \in 0 .. b : g[j] = f[j]
    /\ \A j \in (b + 1) .. (b + k) :
          g[j].kind = "DirtyDir" /\ g[j].by = f[b + 1].by /\ g[j].n = f[b + 1].n
    /\ g[b + k + 1].kind \in Reply \ {"DirtyDir"}
    /\ g[b + k + 1].by = f[b + 1].by /\ g[b + k + 1].n = f[b + 1].n
    /\ \A j \in (b + k + 2) .. (size + k) : g[j] = f[j - k]

LEMMA ExpandsKeeps ==
    ASSUME NEW f, NEW g, NEW b \in Nat, NEW k \in Nat, NEW size \in Nat, Expands(f, g, b, k, size),
           NEW p, NEW r, NEW q, NEW open,
           Owned(f, p, r), Ordered(f, q), Complete(f, p, q, open)
    PROVE  Owned(g, p, r) /\ Ordered(g, q) /\ Complete(g, p, q, open)
PROOF
  <1> DEFINE m == [j \in 0 .. (size + k) |->
                     IF j <= b THEN j ELSE IF j <= b + k + 1 THEN b + 1 ELSE j - k]
             x == f[b + 1]
  <1>1. /\ DOMAIN f = 0 .. size /\ DOMAIN g = 0 .. (size + k) /\ b + 1 <= size
        /\ x.kind \in Answered /\ (k > 0 => x.kind = "ForDirtyDir")
        /\ \A j \in 0 .. b : g[j] = f[j]
        /\ \A j \in (b + 1) .. (b + k) : g[j].kind = "DirtyDir" /\ g[j].by = x.by /\ g[j].n = x.n
        /\ g[b + k + 1].kind \in Reply \ {"DirtyDir"}
        /\ g[b + k + 1].by = x.by /\ g[b + k + 1].n = x.n
        /\ \A j \in (b + k + 2) .. (size + k) : g[j] = f[j - k]
    BY Zenon DEF Expands
  <1>2. Live(x) /\ x.kind # "DirtyDir"
    BY Zenon, <1>1 DEF Live, Answered
  <1>3. b + 1 \in DOMAIN f /\ x = f[b + 1]
    BY <1>1
  <1> HIDE DEF x
  <1>4. \A j \in DOMAIN g :
           /\ m[j] \in DOMAIN f
           /\ \/ g[j] = f[m[j]] /\ m[j] # b + 1
              \/ /\ m[j] = b + 1 /\ g[j].by = x.by /\ g[j].n = x.n
                 /\ g[j].kind \in Reply /\ (g[j].kind = "DirtyDir" => x.kind = "ForDirtyDir")
    <2> SUFFICES ASSUME NEW j \in DOMAIN g
                 PROVE  /\ m[j] \in DOMAIN f
                        /\ \/ g[j] = f[m[j]] /\ m[j] # b + 1
                           \/ /\ m[j] = b + 1 /\ g[j].by = x.by /\ g[j].n = x.n /\ g[j].kind \in Reply
                              /\ (g[j].kind = "DirtyDir" => x.kind = "ForDirtyDir")
      BY Zenon
    <2>1. CASE j <= b
      BY <1>1, <2>1
    <2>2. CASE j > b /\ j <= b + k
      <3>1. j \in (b + 1) .. (b + k) /\ m[j] = b + 1 /\ k > 0
        BY <1>1, <2>2
      <3>2. g[j].kind \in Reply
        BY Zenon, <1>1, <3>1 DEF Reply
      <3> QED
        BY Zenon, <1>1, <1>3, <3>1, <3>2
    <2>3. CASE j = b + k + 1
      <3>1. m[j] = b + 1
        BY <1>1, <2>3
      <3>2. g[j].kind \in Reply \ {"DirtyDir"} /\ g[j].by = x.by /\ g[j].n = x.n
        BY <1>1, <2>3
      <3> QED
        BY Zenon, <1>3, <3>1, <3>2
    <2>4. CASE j > b + k + 1
      <3>1. m[j] = j - k /\ m[j] \in 0 .. size /\ m[j] # b + 1
        BY <1>1, <2>4
      <3>2. g[j] = f[j - k]
        <4>1. j \in (b + k + 2) .. (size + k)
          BY <1>1, <2>4
        <4> QED
          BY Zenon, <1>1, <4>1
      <3> HIDE DEF m
      <3> QED
        BY Zenon, <1>1, <3>1, <3>2
    <2> QED
      BY <1>1, <2>1, <2>2, <2>3, <2>4
  <1>5. \A i, j \in DOMAIN g : i < j => m[i] < m[j] \/ (m[i] = b + 1 /\ m[j] = b + 1 /\ g[i].kind = "DirtyDir")
    <2> SUFFICES ASSUME NEW i \in DOMAIN g, NEW j \in DOMAIN g, i < j, ~(m[i] < m[j])
                 PROVE  m[i] = b + 1 /\ m[j] = b + 1 /\ g[i].kind = "DirtyDir"
      BY Zenon
    <2>1. m[i] = b + 1 /\ m[j] = b + 1 /\ i \in (b + 1) .. (b + k)
      BY <1>1
    <2> QED
      BY Zenon, <1>1, <2>1
  <1>6. \A i \in DOMAIN f : \E j \in DOMAIN g : m[j] = i /\ (i = b + 1 => g[j].kind # "DirtyDir")
    <2> SUFFICES ASSUME NEW i \in DOMAIN f
                 PROVE  \E j \in DOMAIN g : m[j] = i /\ (i = b + 1 => g[j].kind # "DirtyDir")
      BY Zenon
    <2>1. CASE i <= b
      BY <1>1, <2>1
    <2>2. CASE i = b + 1
      <3>1. b + k + 1 \in DOMAIN g /\ m[b + k + 1] = b + 1
        BY <1>1
      <3> QED
        BY Zenon, <1>1, <2>2, <3>1
    <2>3. CASE i > b + 1
      <3>1. i + k \in 0 .. (size + k) /\ i + k > b + k + 1 /\ (i + k) - k = i /\ i # b + 1
        BY <1>1, <2>3
      <3>2. m[i + k] = IF i + k <= b THEN i + k
                       ELSE IF i + k <= b + k + 1 THEN b + 1 ELSE (i + k) - k
        BY Zenon, <3>1
      <3>3. ~(i + k <= b) /\ ~(i + k <= b + k + 1)
        BY <1>1, <2>3
      <3>4. i + k \in DOMAIN g /\ m[i + k] = i
        BY Zenon, <1>1, <3>1, <3>2, <3>3
      <3> QED
        BY Zenon, <3>1, <3>4
    <2> QED
      BY <1>1, <2>1, <2>2, <2>3
  <1> HIDE DEF m
  <1>7. \A j \in DOMAIN g : Live(g[j]) => Live(f[m[j]]) /\ g[j].by = f[m[j]].by
    BY Zenon, <1>2, <1>3, <1>4
  <1>8. Owned(g, p, r)
    <2> SUFFICES ASSUME NEW j \in DOMAIN g, Live(g[j])
                 PROVE  /\ g[j].by \in Thread /\ p[g[j].by] \in Waiting /\ g[j].n = r[g[j].by].n
                        /\ g[j].kind \in Answered => g[j] = r[g[j].by]
                        /\ g[j].kind = "DirtyDir" => r[g[j].by].kind = "ForDirtyDir"
      BY Zenon DEF Owned
    <2>1. CASE g[j] = f[m[j]]
      BY Zenon, <1>4, <1>7, <2>1 DEF Owned
    <2>2. CASE g[j] # f[m[j]]
      <3>1. /\ g[j].by = x.by /\ g[j].n = x.n /\ g[j].kind \in Reply
            /\ g[j].kind = "DirtyDir" => x.kind = "ForDirtyDir"
        BY Zenon, <1>4, <2>2
      <3>2. x.by \in Thread /\ p[x.by] \in Waiting /\ x.n = r[x.by].n /\ x = r[x.by]
        BY Zenon, <1>1, <1>2, <1>3 DEF Owned
      <3>3. g[j].kind \notin Answered
        BY Zenon, <3>1, Kinds
      <3> QED
        BY Zenon, <3>1, <3>2, <3>3
    <2> QED
      BY Zenon, <2>1, <2>2
  <1>9. Ordered(g, q)
    <2> SUFFICES ASSUME NEW i \in DOMAIN g, NEW j \in DOMAIN g, i < j, Live(g[i]), Live(g[j])
                 PROVE  q[g[i].by] < q[g[j].by] \/ (g[i].by = g[j].by /\ g[i].kind = "DirtyDir")
      BY Zenon DEF Ordered
    <2>1. /\ m[i] \in DOMAIN f /\ Live(f[m[i]]) /\ g[i].by = f[m[i]].by
          /\ m[j] \in DOMAIN f /\ Live(f[m[j]]) /\ g[j].by = f[m[j]].by
      BY Zenon, <1>4, <1>7
    <2>2. CASE m[i] < m[j]
      <3>1. q[f[m[i]].by] < q[f[m[j]].by] \/ (f[m[i]].by = f[m[j]].by /\ f[m[i]].kind = "DirtyDir")
        BY Zenon, <2>1, <2>2 DEF Ordered
      <3>2. f[m[i]].kind = "DirtyDir" => g[i] = f[m[i]]
        BY Zenon, <1>2, <1>3, <1>4
      <3> QED
        BY Zenon, <2>1, <3>1, <3>2
    <2>3. CASE m[i] = b + 1 /\ m[j] = b + 1 /\ g[i].kind = "DirtyDir"
      BY Zenon, <2>1, <2>3
    <2> QED
      BY Zenon, <1>5, <2>2, <2>3
  <1>10. Complete(g, p, q, open)
    <2> SUFFICES ASSUME NEW t \in Thread, p[t] \in Waiting,
                        open \/ \E j \in DOMAIN g : Live(g[j]) /\ q[t] < q[g[j].by]
                 PROVE  \E j \in DOMAIN g : Final(g[j]) /\ g[j].by = t
      BY Zenon DEF Complete
    <2>1. open \/ \E i \in DOMAIN f : Live(f[i]) /\ q[t] < q[f[i].by]
      BY Zenon, <1>4, <1>7
    <2>2. PICK i \in DOMAIN f : Final(f[i]) /\ f[i].by = t
      BY Zenon, <2>1 DEF Complete
    <2>3. PICK j \in DOMAIN g : m[j] = i /\ (i = b + 1 => g[j].kind # "DirtyDir")
      BY Zenon, <1>6
    <2>4. CASE g[j] = f[i]
      BY Zenon, <2>2, <2>4
    <2>5. CASE g[j] # f[i]
      <3>1. i = b + 1 /\ g[j].by = x.by /\ g[j].kind \in Reply /\ g[j].kind # "DirtyDir"
        BY Zenon, <1>4, <2>3, <2>5
      <3>2. Final(g[j]) /\ g[j].by = t
        BY Zenon, <1>3, <2>2, <3>1 DEF Final, Live
      <3> QED
        BY Zenon, <3>2
    <2> QED
      BY Zenon, <2>4, <2>5
  <1> QED
    BY Zenon, <1>8, <1>9, <1>10
-----------------------------------------------------------------------------
(* Types. *)

LEMMA SetAt ==
    ASSUME NEW S, NEW f \in [Thread -> S], NEW t \in Thread, NEW v \in S
    PROVE  /\ [f EXCEPT ![t] = v] \in [Thread -> S] /\ [f EXCEPT ![t] = v][t] = v
           /\ \A s \in Thread \ {t} : [f EXCEPT ![t] = v][s] = f[s]
PROOF
  OBVIOUS

\* Frames are frames.
LEMMA FrameTypes ==
    /\ Notice \in Frame /\ Closed \in Frame /\ Notice.kind = "WatchNotify" /\ Closed.kind = "Closed"
    /\ \A x \in Request, k \in Reply :
          /\ Response(k, x) \in Frame /\ Response(k, x).kind = k
          /\ Response(k, x).by = x.by /\ Response(k, x).n = x.n
PROOF
  <1> DEFINE F(k, b, n) == [kind |-> k, by |-> b, n |-> n]
  <1>1. \A k, b, n : F(k, b, n).kind = k /\ F(k, b, n).by = b /\ F(k, b, n).n = n
    OBVIOUS
  <1>2. \A k \in Reply \cup {"WatchNotify", "Closed"}, b \in Thread \cup {None}, n \in Nat :
           F(k, b, n) \in Frame
    BY DEF Frame
  <1>3. \A x \in Request : x.by \in Thread \cup {None} /\ x.n \in Nat
    BY DEF Request
  <1>4. 0 \in Nat /\ Notice = F("WatchNotify", None, 0) /\ Closed = F("Closed", None, 0)
        /\ \A k, x : Response(k, x) = F(k, x.by, x.n)
    BY DEF Notice, Closed, Response
  <1> HIDE DEF F
  <1>5. Notice \in Frame /\ Closed \in Frame /\ Notice.kind = "WatchNotify" /\ Closed.kind = "Closed"
    BY Zenon, <1>1, <1>2, <1>4
  <1>6. ASSUME NEW x \in Request, NEW k \in Reply
        PROVE  /\ Response(k, x) \in Frame /\ Response(k, x).kind = k
               /\ Response(k, x).by = x.by /\ Response(k, x).n = x.n
    <2>1. Response(k, x) = F(k, x.by, x.n)
      BY Zenon, <1>4
    <2>2. x.by \in Thread \cup {None} /\ x.n \in Nat /\ k \in Reply \cup {"WatchNotify", "Closed"}
      BY <1>3
    <2> DEFINE b == x.by
               n == x.n
    <2>3. b \in Thread \cup {None} /\ n \in Nat /\ F(k, b, n) = F(k, x.by, x.n)
      BY Zenon, <2>2
    <2> HIDE DEF b, n
    <2>4. F(k, b, n) \in Frame
      BY Zenon, <1>2, <2>2, <2>3
    <2>5. b = x.by /\ n = x.n
      BY Zenon DEF b, n
    <2>6. F(k, b, n).kind = k /\ F(k, b, n).by = b /\ F(k, b, n).n = n
      BY <1>1
    <2>7. Response(k, x) = F(k, b, n)
      BY Zenon, <2>1, <2>3
    <2> HIDE DEF F
    <2> QED
      BY Zenon, <2>4, <2>5, <2>6, <2>7
  <1> QED
    BY Zenon, <1>5, <1>6

\* A call that is over leaves nothing behind.
LEMMA ReturnFacts ==
    ASSUME ThreadTypes, NEW t \in Thread, Return(t)
    PROVE  /\ pc' \in [Thread -> Place] /\ req' \in [Thread -> Request \cup {None}]
           /\ got' \in [Thread -> Frame \cup {None}] /\ ticket' \in [Thread -> Nat]
           /\ pc'[t] = "idle" /\ req'[t] = None /\ got'[t] = None
           /\ \A s \in Thread \ {t} :
                 pc'[s] = pc[s] /\ req'[s] = req[s] /\ got'[s] = got[s] /\ ticket'[s] = ticket[s]
PROOF
  <1>1. "idle" \in Place /\ None \in Request \cup {None} /\ None \in Frame \cup {None} /\ 0 \in Nat
    BY DEF Place
  <1> QED
    BY Zenon, <1>1, SetAt DEF Return, ThreadTypes

\* A call begins.
LEMMA CallFacts ==
    ASSUME TypeOK, NEW t \in Thread, Call(t)
    PROVE  /\ TypeOK' /\ pc[t] = "idle" /\ pc'[t] = "sending" /\ calls'[t] = calls[t] + 1
           /\ req'[t] \in Request /\ req'[t].by = t /\ req'[t].n = calls'[t]
           /\ req'[t].tx = (IF req'[t].kind = "StartTx" THEN calls'[t] ELSE writing[t])
           /\ writing'[t] = (IF req'[t].kind \in {"Commit", "Abort"} THEN 0 ELSE req'[t].tx)
           /\ req'[t].kind = "Watch" => \A s \in Thread : pc[s] = "idle"
           /\ \A s \in Thread \ {t} : /\ pc'[s] = pc[s] /\ req'[s] = req[s]
                                       /\ calls'[s] = calls[s] /\ writing'[s] = writing[s]
PROOF
  <1> DEFINE n == calls[t] + 1
             kind == plan[t][n]
             tx == IF kind = "StartTx" THEN n ELSE writing[t]
             x == [kind |-> kind, by |-> t, n |-> n, tx |-> tx]
             w == IF kind \in {"Commit", "Abort"} THEN 0 ELSE tx
  <1>1. /\ pc \in [Thread -> Place] /\ req \in [Thread -> Request \cup {None}]
        /\ calls \in [Thread -> Nat] /\ writing \in [Thread -> Nat]
        /\ plan \in [Thread -> Seq(Silent \cup Answered)]
    BY Zenon DEF TypeOK, ThreadTypes
  <1>2. calls[t] \in Nat /\ n \in Nat /\ writing[t] \in Nat
    BY <1>1
  <1>3. /\ pc[t] = "idle" /\ calls[t] < Len(plan[t]) /\ calls' = [calls EXCEPT ![t] = n]
        /\ pc' = [pc EXCEPT ![t] = "sending"]
    BY Zenon DEF Call
  <1>4. calls' \in [Thread -> Nat] /\ calls'[t] = n /\ \A s \in Thread \ {t} : calls'[s] = calls[s]
    BY Zenon, <1>1, <1>2, <1>3, SetAt
  <1>5. kind \in Silent \cup Answered
    <2>1. plan[t] \in Seq(Silent \cup Answered)
      BY Zenon, <1>1
    <2> QED
      BY <1>2, <1>3, <2>1
  <1>6. /\ req' = [req EXCEPT ![t] = x] /\ writing' = [writing EXCEPT ![t] = w]
    BY Zenon, <1>4 DEF Call
  <1>7. /\ x.kind = kind /\ x.by = t /\ x.n = n /\ x.tx = tx
    OBVIOUS
  <1>8. x \in Request /\ tx \in Nat /\ w \in Nat
    BY <1>2, <1>5 DEF Request
  <1>9. kind = "Watch" => \A s \in Thread : pc[s] = "idle"
    BY Zenon DEF Call, MayWatch
  <1>10. tx = (IF x.kind = "StartTx" THEN n ELSE writing[t])
         /\ w = (IF x.kind \in {"Commit", "Abort"} THEN 0 ELSE x.tx)
    BY Zenon, <1>7
  <1>11. "sending" \in Place
    BY DEF Place
  <1> HIDE DEF x, w, n, kind, tx
  <1>12. /\ req' \in [Thread -> Request \cup {None}] /\ req'[t] = x
         /\ \A s \in Thread \ {t} : req'[s] = req[s]
    BY Zenon, <1>1, <1>6, <1>8, SetAt
  <1>13. /\ writing' \in [Thread -> Nat] /\ writing'[t] = w
         /\ \A s \in Thread \ {t} : writing'[s] = writing[s]
    BY Zenon, <1>1, <1>6, <1>8, SetAt
  <1>14. /\ pc' \in [Thread -> Place] /\ pc'[t] = "sending"
         /\ \A s \in Thread \ {t} : pc'[s] = pc[s]
    BY Zenon, <1>1, <1>3, <1>11, SetAt
  <1>15. TypeOK'
    BY Zenon, <1>4, <1>12, <1>13, <1>14
       DEF TypeOK, ThreadTypes, QueueTypes, ServerTypes, WireTypes, Call, serverVars
  <1>16. /\ req'[t].tx = (IF req'[t].kind = "StartTx" THEN calls'[t] ELSE writing[t])
         /\ writing'[t] = (IF req'[t].kind \in {"Commit", "Abort"} THEN 0 ELSE req'[t].tx)
    BY Zenon, <1>4, <1>7, <1>10, <1>12, <1>13
  <1>17. req'[t].kind = "Watch" => \A s \in Thread : pc[s] = "idle"
    BY Zenon, <1>7, <1>9, <1>12
  <1>18. /\ pc[t] = "idle" /\ calls'[t] = calls[t] + 1 /\ req'[t] \in Request
         /\ req'[t].by = t /\ req'[t].n = calls'[t]
    BY Zenon, <1>3, <1>4, <1>7, <1>8, <1>12 DEF n
  <1> QED
    BY Zenon, <1>4, <1>12, <1>13, <1>14, <1>15, <1>16, <1>17, <1>18

\* A step of the reader thread or the server leaves the threads alone.
LEMMA ClientSame ==
    ASSUME UNCHANGED clientVars
    PROVE  /\ ThreadTypes => ThreadTypes'
           /\ QueueTypes => QueueTypes'
           /\ ThreadInv => ThreadInv'
           /\ TicketInv => TicketInv'
           /\ OwnAnswer => OwnAnswer'
PROOF
  BY Zenon DEF clientVars, ThreadTypes, QueueTypes, ThreadInv, TicketInv, OwnAnswer

\* Steps of a thread outside the pipes leave these and the server alone.
LEMMA ServerSame ==
    ASSUME UNCHANGED <<serverVars, up, down, hand>>
    PROVE  /\ ServerTypes => ServerTypes'
           /\ WireTypes => WireTypes'
           /\ FrameInv => FrameInv'
           /\ Flow' = Flow
PROOF
  BY Zenon, SameFlow DEF serverVars, ServerTypes, WireTypes, FrameInv

\* A request is written.
LEMMA SendFacts ==
    ASSUME TypeOK, ThreadInv, NEW t \in Thread, Send(t)
    PROVE  /\ TypeOK' /\ pc[t] = "sending" /\ req[t] \in Request /\ req[t].by = t
           /\ req[t].kind \in Silent => Return(t) /\ sent' = sent
           /\ req[t].kind \notin Silent =>
                 /\ ticket'[t] = sent /\ sent' = sent + 1 /\ pc'[t] = "queued"
                 /\ req' = req /\ got' = got
                 /\ \A s \in Thread \ {t} : pc'[s] = pc[s] /\ ticket'[s] = ticket[s]
PROOF
  <1>1. /\ pc \in [Thread -> Place] /\ ticket \in [Thread -> Nat] /\ sent \in Nat
        /\ req \in [Thread -> Request \cup {None}] /\ up \in Seq(Request) /\ pc[t] = "sending"
    BY Zenon DEF TypeOK, ThreadTypes, QueueTypes, WireTypes, Send
  <1>2. req[t] \in Request /\ req[t].by = t
    <2>1. pc[t] # "idle"
      BY <1>1
    <2> QED
      BY Zenon, <1>1, <2>1 DEF ThreadInv
  <1>3. up' \in Seq(Request)
    <2>1. up' = Append(up, req[t])
      BY Zenon DEF Send
    <2> QED
      BY Zenon, <1>1, <1>2, <2>1, AppendFacts
  <1>4. ServerTypes' /\ WireTypes'
    BY Zenon, <1>3 DEF TypeOK, ServerTypes, WireTypes, Send, serverVars
  <1>5. /\ calls' = calls /\ writing' = writing /\ plan' = plan /\ turn' = turn
        /\ holder' = holder /\ fun' = fun
    BY Zenon DEF Send
  <1>6. CASE req[t].kind \in Silent
    <2>1. Return(t) /\ sent' = sent
      BY Zenon, <1>6 DEF Send
    <2>2. ThreadTypes' /\ QueueTypes'
      BY Zenon, <1>5, <2>1, ReturnFacts DEF TypeOK, ThreadTypes, QueueTypes
    <2> QED
      BY Zenon, <1>1, <1>2, <1>4, <1>6, <2>1, <2>2 DEF TypeOK
  <1>7. CASE req[t].kind \notin Silent
    <2>1. /\ ticket' = [ticket EXCEPT ![t] = sent] /\ sent' = sent + 1
          /\ pc' = [pc EXCEPT ![t] = "queued"] /\ req' = req /\ got' = got
      BY Zenon, <1>7 DEF Send
    <2>2. "queued" \in Place /\ sent' \in Nat
      BY <1>1, <2>1 DEF Place, Waiting
    <2>3. /\ ticket' \in [Thread -> Nat] /\ ticket'[t] = sent
          /\ \A s \in Thread \ {t} : ticket'[s] = ticket[s]
      BY Zenon, <1>1, <2>1, SetAt
    <2>4. /\ pc' \in [Thread -> Place] /\ pc'[t] = "queued"
          /\ \A s \in Thread \ {t} : pc'[s] = pc[s]
      BY Zenon, <1>1, <2>1, <2>2, SetAt
    <2>5. ThreadTypes' /\ QueueTypes'
      BY Zenon, <1>5, <2>1, <2>2, <2>3, <2>4 DEF TypeOK, ThreadTypes, QueueTypes
    <2> QED
      BY Zenon, <1>1, <1>2, <1>4, <1>7, <2>1, <2>3, <2>4, <2>5 DEF TypeOK
  <1> QED
    BY Zenon, <1>6, <1>7

\* A thread asks for its turn.
LEMMA EnterFacts ==
    ASSUME TypeOK, NEW t \in Thread, Enter(t)
    PROVE  /\ TypeOK' /\ pc[t] = "queued" /\ holder = None
           /\ \A s \in Thread \ {t} : pc'[s] = pc[s]
           /\ \/ /\ ticket[t] = turn /\ turn' = turn + 1 /\ holder' = t /\ pc'[t] = "reading"
              \/ /\ ticket[t] # turn /\ turn' = turn /\ holder' = holder /\ pc'[t] = "asleep"
PROOF
  <1>1. pc \in [Thread -> Place] /\ turn \in Nat
    BY Zenon DEF TypeOK, ThreadTypes, QueueTypes
  <1>2. "reading" \in Place /\ "asleep" \in Place /\ turn + 1 \in Nat
    BY <1>1 DEF Place, Waiting
  <1>3. /\ pc[t] = "queued" /\ holder = None
        /\ req' = req /\ ticket' = ticket /\ got' = got /\ calls' = calls /\ writing' = writing
        /\ plan' = plan /\ sent' = sent /\ fun' = fun /\ UNCHANGED <<serverVars, up, down, hand>>
    BY Zenon DEF Enter
  <1>4. \/ /\ ticket[t] = turn /\ turn' = turn + 1 /\ holder' = t
           /\ pc' = [pc EXCEPT ![t] = "reading"]
        \/ /\ ticket[t] # turn /\ turn' = turn /\ holder' = holder
           /\ pc' = [pc EXCEPT ![t] = "asleep"]
    BY Zenon DEF Enter, Admit
  <1>5. /\ pc' \in [Thread -> Place] /\ \A s \in Thread \ {t} : pc'[s] = pc[s]
        /\ \/ /\ ticket[t] = turn /\ turn' = turn + 1 /\ holder' = t /\ pc'[t] = "reading"
           \/ /\ ticket[t] # turn /\ turn' = turn /\ holder' = holder /\ pc'[t] = "asleep"
    <2>1. CASE ticket[t] = turn
      <3>1. turn' = turn + 1 /\ holder' = t /\ pc' = [pc EXCEPT ![t] = "reading"]
        BY Zenon, <1>4, <2>1
      <3>2. /\ pc' \in [Thread -> Place] /\ pc'[t] = "reading"
            /\ \A s \in Thread \ {t} : pc'[s] = pc[s]
        BY Zenon, <1>1, <1>2, <3>1, SetAt
      <3> QED
        BY Zenon, <2>1, <3>1, <3>2
    <2>2. CASE ticket[t] # turn
      <3>1. turn' = turn /\ holder' = holder /\ pc' = [pc EXCEPT ![t] = "asleep"]
        BY Zenon, <1>4, <2>2
      <3>2. /\ pc' \in [Thread -> Place] /\ pc'[t] = "asleep"
            /\ \A s \in Thread \ {t} : pc'[s] = pc[s]
        BY Zenon, <1>1, <1>2, <3>1, SetAt
      <3> QED
        BY Zenon, <2>2, <3>1, <3>2
    <2> QED
      BY Zenon, <2>1, <2>2
  <1>6. ThreadTypes' /\ QueueTypes'
    <2>1. turn' \in Nat /\ holder' \in Thread \cup {None}
      BY Zenon, <1>1, <1>2, <1>3, <1>5
    <2> QED
      BY Zenon, <1>3, <1>5, <2>1 DEF TypeOK, ThreadTypes, QueueTypes
  <1>7. ServerTypes' /\ WireTypes'
    BY Zenon, <1>3, ServerSame DEF TypeOK
  <1> QED
    BY Zenon, <1>3, <1>5, <1>6, <1>7 DEF TypeOK

\* A thread gets a response, which is its last or not.
LEMMA ReceiveFacts ==
    ASSUME TypeOK, NEW t \in Thread, Receive(t)
    PROVE  /\ TypeOK' /\ pc[t] = "reading" /\ hand \in Frame /\ hand # None
           /\ got'[t] = hand /\ \A s \in Thread \ {t} : got'[s] = got[s]
           /\ MoreToRead(t) => pc' = pc /\ holder' = holder
           /\ ~MoreToRead(t) =>
                 /\ holder' = None /\ pc'[t] = "got"
                 /\ \A s \in Thread \ {t} : pc'[s] = IF pc[s] = "asleep" THEN "queued" ELSE pc[s]
PROOF
  <1>1. /\ pc \in [Thread -> Place] /\ got \in [Thread -> Frame \cup {None}]
        /\ hand \in Frame \cup {None}
    BY Zenon DEF TypeOK, ThreadTypes, WireTypes
  <1>2. /\ pc[t] = "reading" /\ hand # None /\ got' = [got EXCEPT ![t] = hand] /\ hand' = None
        /\ req' = req /\ ticket' = ticket /\ calls' = calls /\ writing' = writing
        /\ plan' = plan /\ sent' = sent /\ turn' = turn /\ fun' = fun
        /\ up' = up /\ down' = down /\ UNCHANGED serverVars
    BY Zenon DEF Receive
  <1>3. /\ got' \in [Thread -> Frame \cup {None}] /\ got'[t] = hand
        /\ \A s \in Thread \ {t} : got'[s] = got[s]
    BY Zenon, <1>1, <1>2, SetAt
  <1>4. ServerTypes' /\ WireTypes'
    BY Zenon, <1>2 DEF TypeOK, ServerTypes, WireTypes, serverVars
  <1>5. /\ MoreToRead(t) => pc' = pc /\ holder' = holder
        /\ ~MoreToRead(t) => holder' = None /\ pc' = Woken(t, "got")
    BY Zenon DEF Receive
  <1>6. /\ Woken(t, "got") \in [Thread -> Place] /\ Woken(t, "got")[t] = "got"
        /\ \A s \in Thread \ {t} : Woken(t, "got")[s] = IF pc[s] = "asleep" THEN "queued" ELSE pc[s]
    BY <1>1 DEF Woken, Place, Waiting
  <1>7. pc' \in [Thread -> Place] /\ holder' \in Thread \cup {None}
    BY Zenon, <1>1, <1>5, <1>6 DEF TypeOK, QueueTypes
  <1>8. ThreadTypes' /\ QueueTypes'
    BY Zenon, <1>2, <1>3, <1>7 DEF TypeOK, ThreadTypes, QueueTypes
  <1>9. ~MoreToRead(t) =>
           /\ holder' = None /\ pc'[t] = "got"
           /\ \A s \in Thread \ {t} : pc'[s] = IF pc[s] = "asleep" THEN "queued" ELSE pc[s]
    BY Zenon, <1>5, <1>6
  <1> QED
    BY Zenon, <1>1, <1>2, <1>3, <1>4, <1>5, <1>8, <1>9 DEF TypeOK

\* A call ends: the pipe was closed, or the response has been handled.
LEMMA ReturnTypes ==
    ASSUME TypeOK, NEW t \in Thread, SendFails(t) \/ Handle(t)
    PROVE  TypeOK' /\ Return(t) /\ UNCHANGED <<calls, writing, sent, turn, holder, serverVars, up, down, hand>>
PROOF
  <1>1. /\ Return(t) /\ calls' = calls /\ writing' = writing /\ plan' = plan
        /\ sent' = sent /\ turn' = turn /\ holder' = holder
        /\ UNCHANGED <<serverVars, up, down, hand>>
    BY Zenon DEF SendFails, Handle
  <1>2. ThreadTypes'
    BY Zenon, <1>1, ReturnFacts DEF TypeOK, ThreadTypes
  <1>3. fun' \in BOOLEAN
    <2>1. fun' = fun \/ fun' = (fun \/ (req[t].kind = "Watch" /\ got[t].kind = "Done"))
      BY Zenon DEF SendFails, Handle
    <2> QED
      BY Zenon, <2>1 DEF TypeOK, QueueTypes
  <1>4. QueueTypes'
    BY Zenon, <1>1, <1>3 DEF TypeOK, QueueTypes
  <1>5. ServerTypes' /\ WireTypes'
    BY Zenon, <1>1, ServerSame DEF TypeOK
  <1> QED
    BY Zenon, <1>1, <1>2, <1>4, <1>5 DEF TypeOK

\* The steps of the reader thread.
LEMMA ReaderTypes ==
    ASSUME TypeOK, ReaderStep
    PROVE  TypeOK'
PROOF
  <1>1. UNCHANGED clientVars /\ UNCHANGED serverVars /\ up' = up
    BY Zenon DEF ReaderStep, Read, ReadEnd
  <1>2. ThreadTypes' /\ QueueTypes'
    BY Zenon, <1>1, ClientSame DEF TypeOK
  <1>3. ServerTypes'
    BY Zenon, <1>1 DEF TypeOK, ServerTypes, serverVars
  <1>4. down' \in Seq(Frame) /\ hand' \in Frame \cup {None}
    <2>1. CASE Read
      <3>1. /\ down \in Seq(Frame) /\ down # <<>> /\ down' = Tail(down)
            /\ hand \in Frame \cup {None} /\ (hand' = hand \/ hand' = Head(down))
        BY Zenon, <2>1 DEF Read, TypeOK, WireTypes
      <3> QED
        BY Zenon, <3>1, TailFacts
    <2>2. CASE ReadEnd
      BY Zenon, <2>2, FrameTypes DEF ReadEnd, TypeOK, WireTypes
    <2> QED
      BY Zenon, <2>1, <2>2 DEF ReaderStep
  <1>5. WireTypes'
    BY Zenon, <1>1, <1>4 DEF TypeOK, WireTypes
  <1> QED
    BY Zenon, <1>2, <1>3, <1>5 DEF TypeOK

\* The request that is served.
LEMMA IncomingFacts ==
    ASSUME TypeOK, CanServe
    PROVE  /\ Incoming \in Request /\ Incoming = up[1] /\ Tail(up) \in Seq(Request)
           /\ Len(up) \in Nat /\ Len(up) > 0 /\ Len(Tail(up)) = Len(up) - 1
           /\ \A k \in 1 .. Len(Tail(up)) : Tail(up)[k] = up[k + 1]
           /\ alive /\ outbox = <<>> /\ Len(outbox) = 0
PROOF
  <1>1. up \in Seq(Request) /\ up # <<>> /\ alive /\ outbox = <<>>
    BY Zenon DEF TypeOK, WireTypes, CanServe
  <1> QED
    BY Zenon, <1>1, TailFacts, NothingSent DEF Incoming

\* A request without response is taken.
LEMMA SilentTypes ==
    ASSUME TypeOK, Accept \/ RefuseSilently
    PROVE  /\ TypeOK' /\ CanServe /\ Incoming.kind \in Silent /\ up' = Tail(up)
           /\ UNCHANGED <<clientVars, alive, outbox, applied, watching, down, hand, unheard>>
PROOF
  <1>1. /\ CanServe /\ Incoming.kind \in Silent /\ up' = Tail(up)
        /\ UNCHANGED <<clientVars, alive, outbox, applied, watching, down, hand, unheard>>
    BY Zenon DEF Accept, RefuseSilently
  <1>2. /\ Incoming \in Request /\ up' \in Seq(Request)
    BY Zenon, <1>1, IncomingFacts
  <1>3. /\ Incoming.by \in Thread /\ Incoming.tx \in Nat
    BY <1>2 DEF Request
  <1>4. \A b \in Thread, n \in Nat, l \in BOOLEAN : [by |-> b, n |-> n, lost |-> l] \in Transactions
    BY DEF Transactions
  <1>5. \A x \in Transactions : x.by \in Thread /\ x.n \in Nat
    BY DEF Transactions
  <1>6. txns \subseteq Transactions
    BY Zenon DEF TypeOK, ServerTypes
  <1>7. Own(Incoming) \subseteq txns
    BY Zenon DEF Own
  <1>8. txns' \in SUBSET Transactions /\ watched' \in BOOLEAN /\ deferred' \in BOOLEAN
    <2>1. CASE Accept
      <3>1. txns' = txns \/ txns' = txns \cup {[by |-> Incoming.by, n |-> Incoming.tx, lost |-> FALSE]}
        BY Zenon, <2>1 DEF Accept
      <3>2. [by |-> Incoming.by, n |-> Incoming.tx, lost |-> FALSE] \in Transactions
        BY Zenon, <1>3, <1>4
      <3>3. txns' \in SUBSET Transactions
        BY Zenon, <1>6, <3>1, <3>2
      <3>4. watched' \in BOOLEAN /\ deferred' \in BOOLEAN
        BY Zenon, <2>1 DEF Accept, TypeOK, ServerTypes
      <3> QED
        BY Zenon, <3>3, <3>4
    <2>2. CASE RefuseSilently
      <3>1. \/ txns' = txns
            \/ txns' = (txns \ Own(Incoming)) \cup
                          {[by |-> x.by, n |-> x.n, lost |-> TRUE] : x \in Own(Incoming)}
        BY Zenon, <2>2 DEF RefuseSilently
      <3>2. {[by |-> x.by, n |-> x.n, lost |-> TRUE] : x \in Own(Incoming)} \subseteq Transactions
        BY Zenon, <1>4, <1>5, <1>6, <1>7
      <3>3. txns' \in SUBSET Transactions
        BY Zenon, <1>6, <3>1, <3>2
      <3>4. watched' \in BOOLEAN /\ deferred' \in BOOLEAN
        BY Zenon, <2>2 DEF RefuseSilently, NowDeferred, TypeOK, ServerTypes
      <3> QED
        BY Zenon, <3>3, <3>4
    <2> QED
      BY Zenon, <2>1, <2>2
  <1>9. ServerTypes' /\ WireTypes'
    BY Zenon, <1>1, <1>2, <1>8 DEF TypeOK, ServerTypes, WireTypes
  <1>10. ThreadTypes' /\ QueueTypes'
    BY Zenon, <1>1, ClientSame DEF TypeOK
  <1> QED
    BY Zenon, <1>1, <1>9, <1>10 DEF TypeOK

\* A request is answered: so many times a DirtyDir, and what is due.
LEMMA AnswerFacts ==
    ASSUME TypeOK, CanServe, Incoming.kind \in Answered, NEW kind \in Reply \ {"DirtyDir"},
           Answer(Incoming, kind)
    PROVE  /\ outbox' \in Seq(Frame) /\ up' = Tail(up) /\ deferred' = FALSE
           /\ UNCHANGED <<clientVars, alive, down, hand, unheard>>
           /\ Due(kind, Incoming).kind \in Reply \ {"DirtyDir"}
           /\ Due(kind, Incoming).kind = IF deferred THEN "FatalError" ELSE kind
           /\ Due(kind, Incoming).by = Incoming.by /\ Due(kind, Incoming).n = Incoming.n
           /\ \E k \in Nat :
                 /\ k > 0 => Incoming.kind = "ForDirtyDir"
                 /\ Len(outbox') = k + 1 /\ outbox'[k + 1] = Due(kind, Incoming)
                 /\ \A i \in 1 .. k :
                       /\ outbox'[i].kind = "DirtyDir"
                       /\ outbox'[i].by = Incoming.by /\ outbox'[i].n = Incoming.n
PROOF
  <1> DEFINE r == Incoming
             x == Due(kind, r)
             d == Response("DirtyDir", r)
  <1>1. r \in Request
    BY Zenon, IncomingFacts
  <1>2. "DirtyDir" \in Reply /\ "FatalError" \in Reply \ {"DirtyDir"}
    BY DEF Reply
  <1>3. d \in Frame /\ d.kind = "DirtyDir" /\ d.by = r.by /\ d.n = r.n
    BY Zenon, <1>1, <1>2, FrameTypes
  <1>4. x \in Frame /\ x.kind = (IF deferred THEN "FatalError" ELSE kind) /\ x.by = r.by /\ x.n = r.n
    BY Zenon, <1>1, <1>2, FrameTypes DEF Due
  <1>5. x.kind \in Reply \ {"DirtyDir"}
    BY Zenon, <1>2, <1>4
  <1>6. PICK k \in (IF r.kind = "ForDirtyDir" THEN 0 .. MaxDirty ELSE {0}) :
           outbox' = Append([i \in 1 .. k |-> d], x)
    BY Zenon DEF Answer
  <1>7. k \in Nat /\ (k > 0 => r.kind = "ForDirtyDir")
    BY BoundAssumption
  <1>8. up' = Tail(up) /\ deferred' = FALSE /\ UNCHANGED <<clientVars, alive, down, hand, unheard>>
    BY Zenon DEF Answer
  <1> HIDE DEF r, x, d
  <1> DEFINE s == [i \in 1 .. k |-> d]
  <1>9. s \in Seq(Frame) /\ Len(s) = k /\ \A i \in 1 .. k : s[i] = d
    BY <1>3, <1>7
  <1> HIDE DEF s
  <1>10. /\ outbox' \in Seq(Frame) /\ Len(outbox') = k + 1 /\ outbox'[k + 1] = x
         /\ \A i \in 1 .. k : outbox'[i] = d
    <2>1. outbox' = Append(s, x)
      BY Zenon, <1>6 DEF s
    <2>2. /\ Append(s, x) \in Seq(Frame) /\ Len(Append(s, x)) = Len(s) + 1
          /\ Append(s, x)[Len(s) + 1] = x /\ \A i \in 1 .. Len(s) : Append(s, x)[i] = s[i]
      <3>1. x \in Frame /\ s \in Seq(Frame)
        BY Zenon, <1>4, <1>9
      <3> QED
        BY <3>1, AppendFacts
    <2> QED
      BY <1>9, <2>1, <2>2
  <1>11. \A i \in 1 .. k :
            outbox'[i].kind = "DirtyDir" /\ outbox'[i].by = r.by /\ outbox'[i].n = r.n
    BY Zenon, <1>3, <1>10
  <1> QED
    BY Zenon, <1>4, <1>5, <1>7, <1>8, <1>10, <1>11 DEF r, x

\* What may be answered.
LEMMA ServeKinds ==
    ASSUME TypeOK, Serve \/ ServeError
    PROVE  /\ CanServe /\ Incoming.kind \in Answered
           /\ \E kind \in Reply \ {"DirtyDir"} :
                 /\ Answer(Incoming, kind)
                 /\ \/ ServeError /\ kind = "Error"
                    \/ /\ Serve /\ kind \in Expected(Incoming.kind)
                       /\ applied' = IF Incoming.kind = "Commit" /\ kind = "Done"
                                     THEN applied \cup Own(Incoming) ELSE applied
PROOF
  <1>1. CanServe /\ Incoming.kind \in Answered
    BY Zenon DEF Serve, ServeError
  <1>2. CASE ServeError
    <2>1. "Error" \in Reply \ {"DirtyDir"}
      BY DEF Reply
    <2> QED
      BY Zenon, <1>1, <1>2, <2>1 DEF ServeError
  <1>3. CASE Serve
    <2>1. Expected(Incoming.kind) \subseteq Reply
      BY Zenon, <1>1, Kinds
    <2> QED
      BY Zenon, <1>1, <1>3, <2>1 DEF Serve
  <1> QED
    BY Zenon, <1>2, <1>3

LEMMA ServeTypes ==
    ASSUME TypeOK, Serve \/ ServeError
    PROVE  TypeOK'
PROOF
  <1>1. PICK kind \in Reply \ {"DirtyDir"} : Answer(Incoming, kind)
    BY Zenon, ServeKinds
  <1>2. CanServe /\ Incoming.kind \in Answered
    BY Zenon, ServeKinds
  <1>3. /\ outbox' \in Seq(Frame) /\ up' = Tail(up) /\ deferred' = FALSE
        /\ UNCHANGED <<clientVars, alive, down, hand>>
    BY Zenon, <1>1, <1>2, AnswerFacts
  <1>4. up' \in Seq(Request)
    BY Zenon, <1>2, <1>3, IncomingFacts
  <1>5. /\ txns' = txns \/ txns' = txns \ Own(Incoming)
        /\ applied' = applied \/ applied' = applied \cup Own(Incoming)
        /\ watching' = watching \/ watching' = (watching \/ Incoming.kind = "Watch")
        /\ watched' = watched
    BY Zenon DEF Serve, ServeError
  <1>6. Own(Incoming) \subseteq txns
    BY Zenon DEF Own
  <1>7. ServerTypes'
    BY Zenon, <1>3, <1>5, <1>6 DEF TypeOK, ServerTypes
  <1>8. WireTypes'
    BY Zenon, <1>3, <1>4 DEF TypeOK, WireTypes
  <1>9. ThreadTypes' /\ QueueTypes'
    BY Zenon, <1>3, ClientSame DEF TypeOK
  <1> QED
    BY Zenon, <1>7, <1>8, <1>9 DEF TypeOK

\* What is written, and what is lost.
LEMMA WriteTypes ==
    ASSUME TypeOK, Write \/ Notify \/ Disconnect
    PROVE  TypeOK'
PROOF
  <1>1. UNCHANGED <<clientVars, deferred, txns, applied, watching, hand>>
    BY Zenon DEF Write, Notify, Disconnect
  <1>2. outbox \in Seq(Frame) /\ down \in Seq(Frame) /\ up \in Seq(Request)
    BY Zenon DEF TypeOK, ServerTypes, WireTypes
  <1>3. <<>> \in Seq(Frame) /\ <<>> \in Seq(Request)
    OBVIOUS
  <1>4. alive' \in BOOLEAN /\ watched' \in BOOLEAN
    BY Zenon DEF Write, Notify, Disconnect, TypeOK, ServerTypes
  <1>5. up' \in Seq(Request)
    BY Zenon, <1>2, <1>3 DEF Write, Notify, Disconnect
  <1>6. outbox' \in Seq(Frame) /\ down' \in Seq(Frame)
    <2>1. CASE Write
      <3>1. outbox # <<>> /\ outbox' = Tail(outbox) /\ down' = Append(down, Head(outbox))
        BY Zenon, <2>1 DEF Write
      <3>2. Head(outbox) \in Frame /\ outbox' \in Seq(Frame)
        BY Zenon, <1>2, <3>1, TailFacts
      <3> QED
        BY Zenon, <1>2, <3>1, <3>2, AppendFacts
    <2>2. CASE Notify
      <3>1. outbox' = outbox /\ down' = Append(down, Notice)
        BY Zenon, <2>2 DEF Notify
      <3> QED
        BY Zenon, <1>2, <3>1, FrameTypes, AppendFacts
    <2>3. CASE Disconnect
      <3>1. PICK k \in 0 .. Len(down) : down' = SubSeq(down, 1, k)
        BY Zenon, <2>3 DEF Disconnect
      <3>2. down' \in Seq(Frame)
        BY Zenon, <1>2, <3>1, SubSeqFacts
      <3> QED
        BY Zenon, <1>3, <2>3, <3>2 DEF Disconnect
    <2> QED
      BY Zenon, <2>1, <2>2, <2>3
  <1>7. ServerTypes' /\ WireTypes'
    BY Zenon, <1>1, <1>4, <1>5, <1>6 DEF TypeOK, ServerTypes, WireTypes
  <1>8. ThreadTypes' /\ QueueTypes'
    BY Zenon, <1>1, ClientSame DEF TypeOK
  <1> QED
    BY Zenon, <1>7, <1>8 DEF TypeOK
-----------------------------------------------------------------------------
(* What may be where. *)

LEMMA FrameOfReader ==
    ASSUME TypeOK, FrameInv, ReaderStep
    PROVE  FrameInv'
PROOF
  <1>1. outbox' = outbox /\ up' = up /\ alive' = alive /\ hand = None
    BY Zenon DEF ReaderStep, Read, ReadEnd, serverVars
  <1>2. CASE Read
    <2>1. /\ down \in Seq(Frame) /\ down # <<>> /\ down' = Tail(down)
          /\ \/ hand' = hand
             \/ hand' = Head(down) /\ Head(down).kind # "WatchNotify"
      BY Zenon, <1>2 DEF Read, TypeOK, WireTypes
    <2>2. Head(down) = down[1] /\ 1 \in DOMAIN down
      BY <2>1
    <2>3. \A i \in DOMAIN down' : i + 1 \in DOMAIN down /\ down'[i] = down[i + 1]
      BY <2>1
    <2>4. \A i \in DOMAIN down' : down'[i].kind \in Reply \cup {"WatchNotify"}
      BY Zenon, <2>3 DEF FrameInv
    <2>5. hand' # None => hand'.kind \in Reply
      BY Zenon, <1>1, <2>1, <2>2 DEF FrameInv
    <2>6. "Closed" \notin Reply
      BY DEF Reply
    <2> QED
      BY Zenon, <1>1, <2>4, <2>5, <2>6 DEF FrameInv
  <1>3. CASE ReadEnd
    <2>1. down' = down /\ down = <<>> /\ ~alive /\ hand' = Closed
      BY Zenon, <1>3 DEF ReadEnd
    <2>2. hand'.kind = "Closed"
      BY Zenon, <2>1, FrameTypes
    <2> QED
      BY Zenon, <1>1, <2>1, <2>2 DEF FrameInv
  <1> QED
    BY Zenon, <1>2, <1>3 DEF ReaderStep

LEMMA FrameOfServe ==
    ASSUME TypeOK, FrameInv, Serve \/ ServeError
    PROVE  FrameInv'
PROOF
  <1>1. PICK kind \in Reply \ {"DirtyDir"} : Answer(Incoming, kind)
    BY Zenon, ServeKinds
  <1>2. CanServe /\ Incoming.kind \in Answered
    BY Zenon, ServeKinds
  <1>3. /\ alive' = alive /\ down' = down /\ hand' = hand /\ alive
        /\ Due(kind, Incoming).kind \in Reply \ {"DirtyDir"} /\ outbox' \in Seq(Frame)
    BY Zenon, <1>1, <1>2, AnswerFacts, IncomingFacts
  <1>4. PICK k \in Nat : /\ Len(outbox') = k + 1 /\ outbox'[k + 1] = Due(kind, Incoming)
                         /\ \A i \in 1 .. k : outbox'[i].kind = "DirtyDir"
    BY Zenon, <1>1, <1>2, AnswerFacts
  <1>5. \A i \in DOMAIN outbox' : i = k + 1 \/ i \in 1 .. k
    BY <1>3, <1>4
  <1>6. \A i \in DOMAIN outbox' : i < Len(outbox') => i \in 1 .. k
    BY <1>3, <1>4
  <1>7. "DirtyDir" \in Reply
    BY DEF Reply
  <1>8. \A i \in DOMAIN outbox' : outbox'[i].kind \in Reply
    BY Zenon, <1>3, <1>4, <1>5, <1>7
  <1>9. \A i \in DOMAIN outbox' : i < Len(outbox') => outbox'[i].kind = "DirtyDir"
    BY Zenon, <1>4, <1>6
  <1> QED
    BY Zenon, <1>3, <1>8, <1>9 DEF FrameInv

LEMMA FrameOfWrite ==
    ASSUME TypeOK, TypeOK', FrameInv, Write
    PROVE  FrameInv'
PROOF
  <1>1. alive /\ hand' = hand /\ outbox' = Tail(outbox) /\ outbox \in Seq(Frame) /\ outbox # <<>>
        /\ up' = (IF alive' THEN up ELSE <<>>) /\ alive' = (Head(outbox).kind # "FatalError")
    BY Zenon DEF Write, TypeOK, ServerTypes
  <1>2. /\ Head(outbox) = outbox[1] /\ Len(down') = Len(down) + 1
        /\ down'[Len(down) + 1] = outbox[1] /\ \A k \in 1 .. Len(down) : down'[k] = down[k]
        /\ outbox[1].kind = "FatalError" => outbox' = <<>>
    BY Zenon, WriteFlow
  <1>3. 1 \in DOMAIN outbox
    BY <1>1
  <1>4. /\ DOMAIN down = 1 .. Len(down) /\ DOMAIN down' = 1 .. (Len(down) + 1) /\ Len(down) \in Nat
    BY <1>2 DEF TypeOK, WireTypes
  <1>5. \A i \in DOMAIN down' : i \in DOMAIN down \/ i = Len(down) + 1
    BY <1>4
  <1>6. \A i \in DOMAIN down' : down'[i].kind \in Reply \cup {"WatchNotify"}
    BY Zenon, <1>2, <1>3, <1>4, <1>5 DEF FrameInv
  <1>7. \A i \in DOMAIN outbox' : /\ i + 1 \in DOMAIN outbox /\ outbox'[i] = outbox[i + 1]
                                  /\ i < Len(outbox') => i + 1 < Len(outbox)
    BY <1>1
  <1>8. /\ \A i \in DOMAIN outbox' : outbox'[i].kind \in Reply
        /\ \A i \in DOMAIN outbox' : i < Len(outbox') => outbox'[i].kind = "DirtyDir"
    BY Zenon, <1>7 DEF FrameInv
  <1>9. ~alive' => up' = <<>> /\ outbox' = <<>>
    BY Zenon, <1>1, <1>2
  <1> QED
    BY Zenon, <1>1, <1>6, <1>8, <1>9 DEF FrameInv

LEMMA FrameOfOthers ==
    ASSUME TypeOK, FrameInv, Accept \/ RefuseSilently \/ Notify \/ Disconnect
    PROVE  FrameInv'
PROOF
  <1>1. alive /\ hand' = hand
    BY Zenon DEF Accept, RefuseSilently, Notify, Disconnect, CanServe
  <1>2. CASE Accept \/ RefuseSilently
    BY Zenon, <1>1, <1>2 DEF Accept, RefuseSilently, FrameInv
  <1>3. CASE Notify
    <2>1. alive' = alive /\ outbox' = outbox /\ up' = up /\ down' = Append(down, Notice)
      BY Zenon, <1>3 DEF Notify
    <2>2. down \in Seq(Frame) /\ Notice \in Frame
      BY Zenon, FrameTypes DEF TypeOK, WireTypes
    <2>3. \A i \in DOMAIN down' : (i \in DOMAIN down /\ down'[i] = down[i]) \/ down'[i] = Notice
      BY <2>1, <2>2
    <2>4. \A i \in DOMAIN down' : down'[i].kind \in Reply \cup {"WatchNotify"}
      BY Zenon, <2>3, FrameTypes DEF FrameInv
    <2> QED
      BY Zenon, <1>1, <2>1, <2>4 DEF FrameInv
  <1>4. CASE Disconnect
    <2>1. up' = <<>> /\ outbox' = <<>> /\ \E k \in 0 .. Len(down) : down' = SubSeq(down, 1, k)
      BY Zenon, <1>4 DEF Disconnect
    <2>2. \A i \in DOMAIN down' : i \in DOMAIN down /\ down'[i] = down[i]
      BY <2>1 DEF TypeOK, WireTypes
    <2>3. DOMAIN outbox' = {}
      BY <2>1
    <2>4. \A i \in DOMAIN down' : down'[i].kind \in Reply \cup {"WatchNotify"}
      BY Zenon, <2>2 DEF FrameInv
    <2> QED
      BY Zenon, <1>1, <2>1, <2>3, <2>4 DEF FrameInv
  <1> QED
    BY Zenon, <1>2, <1>3, <1>4
-----------------------------------------------------------------------------
(* The threads and their queue. *)

\* Places from where no thread goes on to wait for a response.
LEMMA Places ==
    /\ "idle" \notin Waiting /\ "sending" \notin Waiting /\ "got" \notin Waiting
    /\ "queued" \in Waiting /\ "asleep" \in Waiting /\ "reading" \in Waiting
    /\ \A p \in Waiting : p # "idle" /\ p # "sending" /\ p # "got"
PROOF
  BY DEF Waiting

\* Threads that do not wait for a response do not matter to the queue.
LEMMA QueueSame ==
    ASSUME TicketInv, UNCHANGED <<sent, turn, holder>>,
           \A s \in Thread : \/ pc'[s] = pc[s] /\ ticket'[s] = ticket[s]
                             \/ pc[s] \notin Waiting /\ pc'[s] \notin Waiting
    PROVE  TicketInv'
PROOF
  <1>1. \A s \in Thread : pc'[s] \in Waiting => pc[s] = pc'[s] /\ ticket'[s] = ticket[s]
    BY Zenon
  <1>2. \A s \in Thread : pc'[s] = "reading" <=> pc[s] = "reading"
    BY Zenon, Places
  <1>3. \A s \in Thread : pc'[s] \in {"queued", "asleep"} => pc'[s] \in Waiting
    BY Zenon, Places
  <1>4. \A s \in Thread : pc'[s] = "reading" => pc'[s] \in Waiting
    BY Zenon, Places
  <1>5. turn' <= sent'
    BY Zenon DEF TicketInv
  <1>6. \A s \in Thread : pc'[s] \in Waiting => ticket'[s] < sent'
    BY Zenon, <1>1 DEF TicketInv
  <1>7. \A s \in Thread : pc'[s] \in {"queued", "asleep"} => turn' <= ticket'[s]
    BY Zenon, <1>1, <1>3 DEF TicketInv
  <1>8. \A s \in Thread : pc'[s] = "reading" => ticket'[s] + 1 = turn'
    BY Zenon, <1>1, <1>4 DEF TicketInv
  <1>9. \A s, t \in Thread : pc'[s] \in Waiting /\ pc'[t] \in Waiting /\ ticket'[s] = ticket'[t] => s = t
    BY Zenon, <1>1 DEF TicketInv
  <1>10. \A s \in Thread : pc'[s] = "reading" <=> holder' = s
    BY Zenon, <1>2 DEF TicketInv
  <1> QED
    BY Zenon, <1>5, <1>6, <1>7, <1>8, <1>9, <1>10 DEF TicketInv

\* A thread that does nothing.
LEMMA SameThread ==
    ASSUME ThreadInv, NEW s \in Thread, pc'[s] = pc[s], req'[s] = req[s], got'[s] = got[s],
           calls'[s] = calls[s]
    PROVE  /\ req'[s] = None <=> pc'[s] = "idle"
           /\ pc'[s] # "idle" => req'[s].by = s /\ req'[s].n = calls'[s] /\ calls'[s] > 0
           /\ pc'[s] \in Waiting \cup {"got"} => req'[s].kind \in Answered
           /\ got'[s] # None => pc'[s] \in {"reading", "got"}
           /\ pc'[s] = "got" => got'[s] # None
PROOF
  <1>1. /\ req[s] = None <=> pc[s] = "idle"
        /\ pc[s] # "idle" => req[s].by = s /\ req[s].n = calls[s] /\ calls[s] > 0
        /\ pc[s] \in Waiting \cup {"got"} => req[s].kind \in Answered
        /\ got[s] # None => pc[s] \in {"reading", "got"}
        /\ pc[s] = "got" => got[s] # None
    BY Zenon DEF ThreadInv
  <1> QED
    BY Zenon, <1>1

\* A call begins.
LEMMA QueueOfCall ==
    ASSUME TypeOK, ThreadInv, TicketInv, OwnAnswer, NEW t \in Thread, Call(t)
    PROVE  ThreadInv' /\ TicketInv' /\ OwnAnswer'
PROOF
  <1>1. /\ pc[t] = "idle" /\ pc'[t] = "sending" /\ calls'[t] = calls[t] + 1
        /\ req'[t] \in Request /\ req'[t].by = t /\ req'[t].n = calls'[t]
        /\ \A s \in Thread \ {t} : pc'[s] = pc[s] /\ req'[s] = req[s] /\ calls'[s] = calls[s]
    BY CallFacts
  <1>2. got' = got /\ ticket' = ticket /\ sent' = sent /\ turn' = turn /\ holder' = holder
    BY Zenon DEF Call
  <1>3. req'[t] # None
    BY Zenon, <1>1, NoneAssumption
  <1>4. calls'[t] > 0
    <2>1. calls[t] \in Nat
      BY Zenon DEF TypeOK, ThreadTypes
    <2> QED
      BY <1>1, <2>1
  <1>5. got[t] = None
    <2>1. pc[t] \notin {"reading", "got"}
      BY <1>1
    <2> QED
      BY Zenon, <2>1 DEF ThreadInv
  <1>6. pc'[t] # "idle" /\ pc'[t] \notin Waiting /\ pc'[t] \notin Waiting \cup {"got"} /\ pc'[t] # "got"
    BY <1>1 DEF Waiting
  <1>7. ThreadInv'
    <2> SUFFICES ASSUME NEW s \in Thread
                 PROVE  /\ req'[s] = None <=> pc'[s] = "idle"
                        /\ pc'[s] # "idle" => req'[s].by = s /\ req'[s].n = calls'[s] /\ calls'[s] > 0
                        /\ pc'[s] \in Waiting \cup {"got"} => req'[s].kind \in Answered
                        /\ got'[s] # None => pc'[s] \in {"reading", "got"}
                        /\ pc'[s] = "got" => got'[s] # None
      BY Zenon DEF ThreadInv
    <2>1. CASE s = t
      BY Zenon, <1>1, <1>2, <1>3, <1>4, <1>5, <1>6, <2>1
    <2>2. CASE s # t
      <3>1. pc'[s] = pc[s] /\ req'[s] = req[s] /\ got'[s] = got[s] /\ calls'[s] = calls[s]
        BY Zenon, <1>1, <1>2, <2>2
      <3> QED
        BY Zenon, <3>1, SameThread
    <2> QED
      BY Zenon, <2>1, <2>2
  <1>8. TicketInv'
    <2>1. \A s \in Thread : \/ pc'[s] = pc[s] /\ ticket'[s] = ticket[s]
                            \/ pc[s] \notin Waiting /\ pc'[s] \notin Waiting
      BY Zenon, <1>1, <1>2, <1>6, Places
    <2> QED
      BY Zenon, <1>2, <2>1, QueueSame
  <1>9. OwnAnswer'
    BY Zenon, <1>1, <1>2, <1>5 DEF OwnAnswer
  <1> QED
    BY Zenon, <1>7, <1>8, <1>9

\* A call ends that does not wait for a response.
LEMMA QueueOfReturn ==
    ASSUME TypeOK, ThreadInv, TicketInv, OwnAnswer, NEW t \in Thread, Return(t), pc[t] \notin Waiting,
           UNCHANGED <<calls, sent, turn, holder>>
    PROVE  ThreadInv' /\ TicketInv' /\ OwnAnswer'
PROOF
  <1>1. /\ pc'[t] = "idle" /\ req'[t] = None /\ got'[t] = None
        /\ \A s \in Thread \ {t} :
              pc'[s] = pc[s] /\ req'[s] = req[s] /\ got'[s] = got[s] /\ ticket'[s] = ticket[s]
    BY Zenon, ReturnFacts DEF TypeOK
  <1>2. pc'[t] \notin Waiting /\ pc'[t] \notin Waiting \cup {"got"} /\ pc'[t] # "got"
    BY <1>1 DEF Waiting
  <1>3. ThreadInv'
    <2> SUFFICES ASSUME NEW s \in Thread
                 PROVE  /\ req'[s] = None <=> pc'[s] = "idle"
                        /\ pc'[s] # "idle" => req'[s].by = s /\ req'[s].n = calls'[s] /\ calls'[s] > 0
                        /\ pc'[s] \in Waiting \cup {"got"} => req'[s].kind \in Answered
                        /\ got'[s] # None => pc'[s] \in {"reading", "got"}
                        /\ pc'[s] = "got" => got'[s] # None
      BY Zenon DEF ThreadInv
    <2>1. CASE s = t
      BY Zenon, <1>1, <1>2, <2>1
    <2>2. CASE s # t
      <3>1. pc'[s] = pc[s] /\ req'[s] = req[s] /\ got'[s] = got[s] /\ calls'[s] = calls[s]
        BY Zenon, <1>1, <2>2
      <3> QED
        BY Zenon, <3>1, SameThread
    <2> QED
      BY Zenon, <2>1, <2>2
  <1>4. TicketInv'
    <2>1. \A s \in Thread : \/ pc'[s] = pc[s] /\ ticket'[s] = ticket[s]
                            \/ pc[s] \notin Waiting /\ pc'[s] \notin Waiting
      BY Zenon, <1>1, <1>2
    <2> QED
      BY Zenon, <2>1, QueueSame
  <1>5. OwnAnswer'
    BY Zenon, <1>1 DEF OwnAnswer
  <1> QED
    BY Zenon, <1>3, <1>4, <1>5

\* A request is sent, and a ticket drawn if it has a response.
LEMMA QueueOfSend ==
    ASSUME TypeOK, ThreadInv, TicketInv, OwnAnswer, NEW t \in Thread, Send(t)
    PROVE  ThreadInv' /\ TicketInv' /\ OwnAnswer'
PROOF
  <1>1. /\ pc[t] = "sending" /\ req[t] \in Request
        /\ calls' = calls /\ turn' = turn /\ holder' = holder
    BY Zenon, SendFacts DEF Send
  <1>2. pc[t] \notin Waiting
    BY Zenon, <1>1, Places
  <1>3. CASE req[t].kind \in Silent
    <2>1. Return(t) /\ sent' = sent
      BY Zenon, <1>3, SendFacts
    <2> QED
      BY Zenon, <1>1, <1>2, <2>1, QueueOfReturn
  <1>4. CASE req[t].kind \notin Silent
    <2>1. /\ ticket'[t] = sent /\ sent' = sent + 1 /\ pc'[t] = "queued"
          /\ req' = req /\ got' = got
          /\ \A s \in Thread \ {t} : pc'[s] = pc[s] /\ ticket'[s] = ticket[s]
      BY Zenon, <1>4, SendFacts
    <2>2. req[t].kind \in Answered
      BY <1>1, <1>4 DEF Request
    <2>3. pc[t] # "idle" /\ pc[t] \notin {"reading", "got"} /\ pc[t] # "got" /\ pc[t] # "reading"
      BY <1>1
    <2>4. pc'[t] # "idle" /\ pc'[t] # "got" /\ pc'[t] # "reading"
      BY <2>1
    <2>5. got[t] = None
      BY Zenon, <2>3 DEF ThreadInv
    <2>6. ThreadInv'
      <3> SUFFICES ASSUME NEW s \in Thread
                   PROVE  /\ req'[s] = None <=> pc'[s] = "idle"
                          /\ pc'[s] # "idle" => req'[s].by = s /\ req'[s].n = calls'[s] /\ calls'[s] > 0
                          /\ pc'[s] \in Waiting \cup {"got"} => req'[s].kind \in Answered
                          /\ got'[s] # None => pc'[s] \in {"reading", "got"}
                          /\ pc'[s] = "got" => got'[s] # None
        BY Zenon DEF ThreadInv
      <3>1. CASE s = t
        BY Zenon, <1>1, <2>1, <2>2, <2>3, <2>4, <2>5, <3>1 DEF ThreadInv
      <3>2. CASE s # t
        BY Zenon, <1>1, <2>1, <3>2 DEF ThreadInv
      <3> QED
        BY Zenon, <3>1, <3>2
    <2>7. sent \in Nat /\ turn \in Nat /\ \A s \in Thread : ticket[s] \in Nat
      BY Zenon DEF TypeOK, ThreadTypes, QueueTypes
    <2>8. TicketInv'
      <3>1. turn' <= sent' /\ turn' <= sent
        BY <1>1, <2>1, <2>7 DEF TicketInv
      <3>2. ASSUME NEW s \in Thread
            PROVE  /\ pc'[s] \in Waiting => ticket'[s] < sent'
                   /\ pc'[s] \in {"queued", "asleep"} => turn' <= ticket'[s]
                   /\ pc'[s] = "reading" => ticket'[s] + 1 = turn'
                   /\ pc'[s] = "reading" <=> holder' = s
        <4>1. CASE s = t
          <5>1. ticket'[s] < sent' /\ turn' <= ticket'[s]
            BY <2>1, <2>7, <3>1, <4>1
          <5>2. pc'[s] # "reading" /\ holder' # s
            BY Zenon, <1>1, <2>3, <2>4, <4>1 DEF TicketInv
          <5> QED
            BY Zenon, <5>1, <5>2
        <4>2. CASE s # t
          <5>1. pc'[s] = pc[s] /\ ticket'[s] = ticket[s]
            BY Zenon, <2>1, <4>2
          <5>2. pc[s] \in Waiting => ticket[s] < sent'
            <6>1. pc[s] \in Waiting => ticket[s] < sent
              BY Zenon DEF TicketInv
            <6> QED
              BY <2>1, <2>7, <6>1
          <5> QED
            BY Zenon, <1>1, <5>1, <5>2 DEF TicketInv
        <4> QED
          BY Zenon, <4>1, <4>2
      <3>3. ASSUME NEW s \in Thread, NEW u \in Thread, pc'[s] \in Waiting, pc'[u] \in Waiting,
                   ticket'[s] = ticket'[u]
            PROVE  s = u
        <4>1. \A v \in Thread \ {t} : pc'[v] \in Waiting => ticket'[v] # sent
          <5>1. \A v \in Thread \ {t} : pc'[v] \in Waiting => ticket[v] < sent /\ ticket'[v] = ticket[v]
            BY Zenon, <2>1 DEF TicketInv
          <5> QED
            BY <2>7, <5>1
        <4> QED
          BY Zenon, <2>1, <3>3, <4>1 DEF TicketInv
      <3> QED
        BY Zenon, <3>1, <3>2, <3>3 DEF TicketInv
    <2>9. OwnAnswer'
      BY Zenon, <2>1 DEF OwnAnswer
    <2> QED
      BY Zenon, <2>6, <2>8, <2>9
  <1> QED
    BY Zenon, <1>3, <1>4

\* A thread takes its turn or goes to sleep.
LEMMA QueueOfEnter ==
    ASSUME TypeOK, ThreadInv, TicketInv, OwnAnswer, NEW t \in Thread, Enter(t)
    PROVE  ThreadInv' /\ TicketInv' /\ OwnAnswer'
PROOF
  <1>1. /\ pc[t] = "queued" /\ holder = None /\ \A s \in Thread \ {t} : pc'[s] = pc[s]
        /\ \/ /\ ticket[t] = turn /\ turn' = turn + 1 /\ holder' = t /\ pc'[t] = "reading"
           \/ /\ ticket[t] # turn /\ turn' = turn /\ holder' = holder /\ pc'[t] = "asleep"
    BY Zenon, EnterFacts
  <1>2. req' = req /\ got' = got /\ ticket' = ticket /\ calls' = calls /\ sent' = sent
    BY Zenon DEF Enter
  <1>3. sent \in Nat /\ turn \in Nat /\ \A s \in Thread : ticket[s] \in Nat
    BY Zenon DEF TypeOK, ThreadTypes, QueueTypes
  <1>4. /\ pc[t] \in Waiting /\ pc[t] # "idle" /\ pc[t] \notin {"reading", "got"}
        /\ pc'[t] \in Waiting /\ pc'[t] # "idle" /\ pc'[t] # "got"
        /\ pc[t] \in Waiting \cup {"got"} /\ pc[t] \in {"queued", "asleep"}
    BY <1>1 DEF Waiting
  <1>5. got[t] = None
    BY Zenon, <1>4 DEF ThreadInv
  <1>6. ThreadInv'
    <2> SUFFICES ASSUME NEW s \in Thread
                 PROVE  /\ req'[s] = None <=> pc'[s] = "idle"
                        /\ pc'[s] # "idle" => req'[s].by = s /\ req'[s].n = calls'[s] /\ calls'[s] > 0
                        /\ pc'[s] \in Waiting \cup {"got"} => req'[s].kind \in Answered
                        /\ got'[s] # None => pc'[s] \in {"reading", "got"}
                        /\ pc'[s] = "got" => got'[s] # None
      BY Zenon DEF ThreadInv
    <2>1. CASE s = t
      BY Zenon, <1>2, <1>4, <1>5, <2>1 DEF ThreadInv
    <2>2. CASE s # t
      BY Zenon, <1>1, <1>2, <2>2 DEF ThreadInv
    <2> QED
      BY Zenon, <2>1, <2>2
  <1>7. \A s \in Thread : pc'[s] \in Waiting <=> pc[s] \in Waiting
    BY Zenon, <1>1, <1>4
  <1>8. \A s \in Thread : pc[s] # "reading"
    BY Zenon, <1>1, NoneAssumption DEF TicketInv
  <1>9. /\ \A s \in Thread : pc'[s] \in Waiting => ticket'[s] < sent'
        /\ \A s, u \in Thread : pc'[s] \in Waiting /\ pc'[u] \in Waiting /\ ticket'[s] = ticket'[u]
                                   => s = u
    BY Zenon, <1>2, <1>7 DEF TicketInv
  <1>10. ticket[t] < sent /\ turn <= ticket[t] /\ turn <= sent
    BY Zenon, <1>4 DEF TicketInv
  <1>11. TicketInv'
    <2>1. CASE ticket[t] = turn
      <3>1. turn' = turn + 1 /\ holder' = t /\ pc'[t] = "reading"
        BY Zenon, <1>1, <2>1
      <3>2. turn' <= sent'
        BY <1>2, <1>3, <1>10, <2>1, <3>1
      <3>3. ASSUME NEW s \in Thread, pc'[s] \in {"queued", "asleep"} PROVE turn' <= ticket'[s]
        <4>1. s # t /\ pc'[s] = pc[s]
          BY <1>1, <3>1, <3>3
        <4>2. turn <= ticket[s] /\ ticket[s] # ticket[t]
          BY Zenon, <1>4, <3>3, <4>1, Places DEF TicketInv
        <4> QED
          BY <1>2, <1>3, <2>1, <3>1, <4>2
      <3>4. \A s \in Thread : pc'[s] = "reading" <=> s = t
        BY Zenon, <1>1, <1>8, <3>1
      <3>5. ticket'[t] + 1 = turn'
        BY Zenon, <1>2, <2>1, <3>1
      <3> QED
        BY Zenon, <1>9, <3>1, <3>2, <3>3, <3>4, <3>5 DEF TicketInv
    <2>2. CASE ticket[t] # turn
      <3>1. turn' = turn /\ holder' = holder /\ pc'[t] = "asleep"
        BY Zenon, <1>1, <2>2
      <3>2. \A s \in Thread : pc'[s] # "reading"
        BY Zenon, <1>1, <1>8, <3>1
      <3>3. \A s \in Thread : holder' # s
        BY Zenon, <1>1, <3>1, NoneAssumption
      <3>4. \A s \in Thread : pc'[s] \in {"queued", "asleep"} => turn' <= ticket'[s]
        BY Zenon, <1>1, <1>2, <1>10, <3>1 DEF TicketInv
      <3> QED
        BY Zenon, <1>2, <1>9, <1>10, <3>1, <3>2, <3>3, <3>4 DEF TicketInv
    <2> QED
      BY Zenon, <2>1, <2>2
  <1>12. OwnAnswer'
    BY Zenon, <1>2 DEF OwnAnswer
  <1> QED
    BY Zenon, <1>6, <1>11, <1>12
-----------------------------------------------------------------------------
(* Every thread gets its own answers. *)

\* Nothing that a thread waits for is lost, and nobody waits who did not.
LEMMA FlowKept ==
    ASSUME FlowInv, Passed, alive' => alive,
           \A t \in Thread : pc'[t] \in Waiting <=> pc[t] \in Waiting,
           \A t \in Thread : pc[t] \in Waiting => req'[t] = req[t] /\ ticket'[t] = ticket[t]
    PROVE  FlowInv'
PROOF
  <1>1. Owned(Flow, pc, req) /\ Ordered(Flow, ticket) /\ Complete(Flow, pc, ticket, alive)
    BY Zenon DEF FlowInv
  <1>2. PICK m : Through(Flow, Flow', m)
    BY Zenon DEF Passed
  <1>3. Steady(Flow', pc, req, ticket, pc', req', ticket')
    BY Zenon DEF Steady
  <1>4. Owned(Flow', pc', req') /\ Ordered(Flow', ticket')
    BY Zenon, <1>1, <1>2, <1>3, ThroughKeeps
  <1>5. \A t \in Thread : pc'[t] \in Waiting => pc[t] \in Waiting /\ ticket'[t] = ticket[t]
    BY Zenon
  <1>6. \A i \in DOMAIN Flow : Final(Flow[i]) /\ pc'[Flow[i].by] \in Waiting =>
           \E k \in DOMAIN Flow' : Flow'[k] = Flow[i]
    BY Zenon DEF Passed, Final
  <1>7. Awaited(Flow, Flow', pc, ticket, pc', ticket')
    BY Zenon, <1>5, <1>6 DEF Awaited
  <1>8. Complete(Flow', pc', ticket', alive)
    BY Zenon, <1>1, <1>2, <1>3, <1>7, CompleteKept
  <1>9. Complete(Flow', pc', ticket', alive')
    BY Zenon, <1>8 DEF Complete
  <1> QED
    BY Zenon, <1>4, <1>9 DEF FlowInv

\* The connection is lost, and with it the end of the flow.
LEMMA FlowCut ==
    ASSUME TypeOK, FlowInv, NEW e, Cut(e), UNCHANGED clientVars, ~alive'
    PROVE  FlowInv'
PROOF
  <1>1. Owned(Flow, pc, req) /\ Ordered(Flow, ticket) /\ Complete(Flow, pc, ticket, alive)
    BY Zenon DEF FlowInv
  <1>2. pc' = pc /\ req' = req /\ ticket' = ticket
    BY Zenon DEF clientVars
  <1>3. PICK m : Through(Flow, Flow', m)
    BY Zenon, CutThrough
  <1>4. Steady(Flow', pc, req, ticket, pc', req', ticket')
    BY Zenon, <1>2 DEF Steady
  <1>5. Owned(Flow', pc', req') /\ Ordered(Flow', ticket')
    BY Zenon, <1>1, <1>3, <1>4, ThroughKeeps
  <1>6. DOMAIN Flow = 0 .. Size /\ Size \in Nat
    BY Zenon, FlowAt
  <1>7. \A t \in Thread : ticket[t] \in Nat
    BY Zenon DEF TypeOK, ThreadTypes
  <1>8. e \in Nat /\ e <= Size /\ DOMAIN Flow' = 0 .. e /\ \A k \in 0 .. e : Flow'[k] = Flow[k]
    BY Zenon DEF Cut
  <1>9. Complete(Flow', pc, ticket, FALSE)
    BY Zenon, <1>1, <1>6, <1>7, <1>8, CompleteCut
  <1>10. Complete(Flow', pc', ticket', alive')
    BY Zenon, <1>2, <1>9 DEF Complete
  <1> QED
    BY Zenon, <1>5, <1>10 DEF FlowInv

\* The end of the connection is read.
LEMMA ReadEndFlow ==
    ASSUME TypeOK, TypeOK', FrameInv, ReadEnd
    PROVE  Passed
PROOF
  <1>1. /\ hand = None /\ down = <<>> /\ ~alive /\ hand' = Closed /\ down' = down
        /\ up' = up /\ outbox' = outbox /\ up = <<>> /\ outbox = <<>>
    BY Zenon DEF ReadEnd, FrameInv, serverVars
  <1>2. Len(down) = 0 /\ Len(up) = 0 /\ Len(outbox) = 0
    BY Zenon, <1>1, NothingSent
  <1>3. DOMAIN Flow = {0} /\ DOMAIN Flow' = {0}
    BY <1>1, <1>2 DEF Flow
  <1>4. Flow[0] = Notice
    BY Zenon, <1>1, FlowAt
  <1>5. Closed # None
    BY Zenon, FrameTypes, NoneAssumption
  <1>6. Flow'[0] = Closed
    BY Zenon, <1>1, <1>5, NextFlowAt
  <1>7. /\ \A k \in DOMAIN Flow : ~Live(Flow[k])
        /\ \A k \in DOMAIN Flow' : ~Live(Flow'[k])
    BY Zenon, <1>3, <1>4, <1>6, Kinds
  <1>8. Through(Flow, Flow', <<>>)
    BY Zenon, <1>7 DEF Through
  <1> QED
    BY Zenon, <1>7, <1>8 DEF Passed

\* A request that has no response.
LEMMA SilentSendFlow ==
    ASSUME TypeOK, TypeOK', NEW x \in Request, x.kind \in Silent, up' = Append(up, x),
           UNCHANGED <<hand, down, outbox>>
    PROVE  Passed
PROOF
  <1> DEFINE m == [k \in 0 .. (Size + 1) |-> k]
  <1>1. /\ DOMAIN Flow' = 0 .. (Size + 1) /\ Flow'[Size + 1] = x
        /\ \A k \in 0 .. Size : Flow'[k] = Flow[k]
    BY Zenon, SendFlow
  <1>2. DOMAIN Flow = 0 .. Size /\ Size \in Nat
    BY Zenon, FlowAt
  <1>3. /\ \A k \in 0 .. (Size + 1) : m[k] = k /\ (k = Size + 1 \/ k \in 0 .. Size)
        /\ \A k \in 0 .. Size : k \in 0 .. (Size + 1)
    BY <1>2
  <1>4. ~Live(x)
    BY Zenon, Kinds
  <1> HIDE DEF m
  <1>5. \A k \in DOMAIN Flow' : Live(Flow'[k]) => m[k] = k /\ k \in DOMAIN Flow /\ Flow'[k] = Flow[k]
    BY Zenon, <1>1, <1>2, <1>3, <1>4
  <1>6. Through(Flow, Flow', m)
    BY Zenon, <1>5 DEF Through
  <1>7. \A k \in DOMAIN Flow : k \in DOMAIN Flow' /\ Flow'[k] = Flow[k]
    BY Zenon, <1>1, <1>2, <1>3
  <1> QED
    BY Zenon, <1>6, <1>7 DEF Passed

\* A request with a response joins the flow behind all others.
LEMMA FlowOfSend ==
    ASSUME TypeOK, TypeOK', ThreadInv, TicketInv, FlowInv, NEW t \in Thread, Send(t),
           req[t].kind \notin Silent
    PROVE  FlowInv'
PROOF
  <1> DEFINE x == req[t]
  <1>1. /\ pc[t] = "sending" /\ x \in Request /\ x.by = t /\ ticket'[t] = sent /\ pc'[t] = "queued"
        /\ req' = req /\ \A s \in Thread \ {t} : pc'[s] = pc[s] /\ ticket'[s] = ticket[s]
    BY Zenon, SendFacts
  <1>2. alive /\ up' = Append(up, x) /\ UNCHANGED <<hand, down, outbox>>
    BY Zenon DEF Send, serverVars
  <1>3. Owned(Flow, pc, req) /\ Ordered(Flow, ticket) /\ Complete(Flow, pc, ticket, alive)
    BY Zenon DEF FlowInv
  <1>4. x.kind \in Answered
    BY <1>1 DEF Request
  <1>5. Live(x) /\ Final(x) /\ x.kind # "DirtyDir"
    BY <1>4 DEF Live, Final, Answered
  <1> HIDE DEF x
  <1>6. /\ DOMAIN Flow' = 0 .. (Size + 1) /\ Flow'[Size + 1] = x
        /\ \A k \in 0 .. Size : Flow'[k] = Flow[k]
    BY Zenon, <1>1, <1>2, SendFlow
  <1>7. DOMAIN Flow = 0 .. Size /\ Size \in Nat
    BY Zenon, FlowAt
  <1>8. /\ Size + 1 \in 0 .. (Size + 1)
        /\ \A k \in 0 .. (Size + 1) : k = Size + 1 \/ k \in 0 .. Size
        /\ \A k \in 0 .. Size : k \in 0 .. (Size + 1)
        /\ \A i, j \in 0 .. (Size + 1) : i < j => i \in 0 .. Size
    BY <1>7
  <1>9. pc[t] \notin Waiting /\ pc'[t] \in Waiting
    BY Zenon, <1>1, Places
  <1>10. ASSUME NEW k \in 0 .. Size, Live(Flow[k])
         PROVE  /\ Flow[k].by \in Thread \ {t} /\ pc'[Flow[k].by] \in Waiting
                /\ ticket'[Flow[k].by] = ticket[Flow[k].by] /\ ticket[Flow[k].by] < sent
    <2>1. Flow[k].by \in Thread /\ pc[Flow[k].by] \in Waiting
      BY Zenon, <1>3, <1>7, <1>10 DEF Owned
    <2>2. Flow[k].by # t
      BY Zenon, <1>9, <2>1
    <2> QED
      BY Zenon, <1>1, <2>1, <2>2 DEF TicketInv
  <1>11. Owned(Flow', pc', req')
    <2> SUFFICES ASSUME NEW k \in DOMAIN Flow', Live(Flow'[k])
                 PROVE  /\ Flow'[k].by \in Thread /\ pc'[Flow'[k].by] \in Waiting
                        /\ Flow'[k].n = req'[Flow'[k].by].n
                        /\ Flow'[k].kind \in Answered => Flow'[k] = req'[Flow'[k].by]
                        /\ Flow'[k].kind = "DirtyDir" => req'[Flow'[k].by].kind = "ForDirtyDir"
      BY Zenon DEF Owned
    <2>1. CASE k = Size + 1
      <3>1. Flow'[k] = x /\ req'[t] = x
        BY Zenon, <1>1, <1>6, <2>1 DEF x
      <3> QED
        BY Zenon, <1>1, <1>5, <1>9, <3>1
    <2>2. CASE k \in 0 .. Size
      <3> DEFINE y == Flow[k]
      <3>1. Flow'[k] = y /\ Live(y) /\ k \in DOMAIN Flow
        BY Zenon, <1>6, <1>7, <2>2
      <3>2. /\ y.by \in Thread /\ y.n = req[y.by].n /\ (y.kind \in Answered => y = req[y.by])
            /\ y.kind = "DirtyDir" => req[y.by].kind = "ForDirtyDir"
        BY Zenon, <1>3, <3>1 DEF Owned
      <3>3. pc'[y.by] \in Waiting
        BY Zenon, <1>10, <2>2, <3>1
      <3> HIDE DEF y
      <3> QED
        BY Zenon, <1>1, <3>1, <3>2, <3>3
    <2> QED
      BY Zenon, <1>6, <1>8, <2>1, <2>2
  <1>12. Ordered(Flow', ticket')
    <2> SUFFICES ASSUME NEW i \in DOMAIN Flow', NEW j \in DOMAIN Flow', i < j, Live(Flow'[i]), Live(Flow'[j])
                 PROVE  \/ ticket'[Flow'[i].by] < ticket'[Flow'[j].by]
                        \/ Flow'[i].by = Flow'[j].by /\ Flow'[i].kind = "DirtyDir"
      BY Zenon DEF Ordered
    <2>1. i \in 0 .. Size /\ Flow'[i] = Flow[i]
      BY Zenon, <1>6, <1>8
    <2>2. CASE j = Size + 1
      BY Zenon, <1>1, <1>6, <1>10, <2>1, <2>2
    <2>3. CASE j \in 0 .. Size
      <3>1. Flow'[j] = Flow[j] /\ i \in DOMAIN Flow /\ j \in DOMAIN Flow
        BY Zenon, <1>6, <1>7, <2>1, <2>3
      <3>2. \/ ticket[Flow[i].by] < ticket[Flow[j].by]
            \/ Flow[i].by = Flow[j].by /\ Flow[i].kind = "DirtyDir"
        BY Zenon, <1>3, <2>1, <3>1 DEF Ordered
      <3>3. /\ ticket'[Flow[i].by] = ticket[Flow[i].by] /\ ticket'[Flow[j].by] = ticket[Flow[j].by]
        BY Zenon, <1>10, <2>1, <2>3, <3>1
      <3> QED
        BY Zenon, <2>1, <3>1, <3>2, <3>3
    <2> QED
      BY Zenon, <1>6, <1>8, <2>2, <2>3
  <1>13. Complete(Flow', pc', ticket', alive')
    <2> SUFFICES ASSUME NEW s \in Thread, pc'[s] \in Waiting
                 PROVE  \E k \in DOMAIN Flow' : Final(Flow'[k]) /\ Flow'[k].by = s
      BY Zenon DEF Complete
    <2>1. CASE s = t
      BY Zenon, <1>1, <1>5, <1>6, <1>8, <2>1
    <2>2. CASE s # t
      <3>1. pc[s] \in Waiting
        BY Zenon, <1>1, <2>2
      <3>2. PICK k \in DOMAIN Flow : Final(Flow[k]) /\ Flow[k].by = s
        BY Zenon, <1>2, <1>3, <3>1 DEF Complete
      <3> QED
        BY Zenon, <1>6, <1>7, <1>8, <3>2
    <2> QED
      BY Zenon, <2>1, <2>2
  <1> QED
    BY Zenon, <1>11, <1>12, <1>13 DEF FlowInv

\* The thread that reads finds what is for it, and nothing else of its own
\* behind the last response.
LEMMA HandFacts ==
    ASSUME TypeOK, FrameInv, TicketInv, FlowInv, NEW t \in Thread, pc[t] = "reading", hand # None
    PROVE  /\ hand.kind # "Closed" => Live(hand) /\ hand.by = t /\ hand.n = req[t].n
           /\ hand.kind = "DirtyDir" => MoreToRead(t)
           /\ ~MoreToRead(t) =>
                 \A k \in DOMAIN Flow : k # 0 /\ Live(Flow[k]) => Flow[k].by # t
PROOF
  <1>1. Owned(Flow, pc, req) /\ Ordered(Flow, ticket) /\ Complete(Flow, pc, ticket, alive)
    BY Zenon DEF FlowInv
  <1>2. /\ DOMAIN Flow = 0 .. Size /\ Size \in Nat /\ Flow[0] = hand
        /\ Len(down) \in Nat /\ Len(outbox) \in Nat /\ Len(up) \in Nat
    BY Zenon, FlowAt
  <1>3. 0 \in DOMAIN Flow /\ \A k \in DOMAIN Flow : k # 0 => 0 < k
    BY <1>2
  <1>4. turn \in Nat /\ \A s \in Thread : ticket[s] \in Nat
    BY Zenon DEF TypeOK, ThreadTypes, QueueTypes
  <1>5. pc[t] \in Waiting
    BY Zenon, Places
  <1>6. ASSUME hand.kind # "Closed" PROVE Live(hand) /\ hand.by = t /\ hand.n = req[t].n
    <2> DEFINE u == hand.by
    <2>1. hand.kind \in Reply
      BY Zenon, <1>6 DEF FrameInv
    <2>2. Live(hand)
      BY Zenon, <2>1 DEF Live
    <2>3. u \in Thread /\ pc[u] \in Waiting /\ hand.n = req[u].n
      BY Zenon, <1>1, <1>2, <1>3, <2>2 DEF Owned
    <2> HIDE DEF u
    <2>4. ASSUME u # t PROVE FALSE
      <3>1. pc[u] # "reading"
        BY Zenon, <2>3, <2>4 DEF TicketInv
      <3>2. pc[u] \in {"queued", "asleep"}
        BY <2>3, <3>1 DEF Waiting
      <3>3. turn <= ticket[u] /\ ticket[t] + 1 = turn
        BY Zenon, <2>3, <3>2 DEF TicketInv
      <3>4. ticket[t] < ticket[u] /\ ~(ticket[u] < ticket[t])
        BY <1>4, <2>3, <3>3
      <3>5. Live(Flow[0]) /\ ticket[t] < ticket[Flow[0].by]
        BY Zenon, <1>2, <2>2, <3>4 DEF u
      <3>6. PICK k \in DOMAIN Flow : Final(Flow[k]) /\ Flow[k].by = t
        BY Zenon, <1>1, <1>3, <1>5, <3>5 DEF Complete
      <3>7. k # 0
        BY Zenon, <1>2, <2>4, <3>6 DEF u
      <3>8. 0 < k /\ Live(Flow[k])
        BY Zenon, <1>3, <3>6, <3>7 DEF Final
      <3>9. \/ ticket[Flow[0].by] < ticket[Flow[k].by]
            \/ Flow[0].by = Flow[k].by
        BY Zenon, <1>1, <1>3, <3>5, <3>8 DEF Ordered
      <3> QED
        BY Zenon, <1>2, <2>4, <3>4, <3>6, <3>9 DEF u
    <2> QED
      BY Zenon, <2>2, <2>3, <2>4 DEF u
  <1>7. ASSUME hand.kind = "DirtyDir" PROVE MoreToRead(t)
    <2>1. hand.kind # "Closed"
      BY <1>7
    <2>2. Live(hand) /\ hand.by = t
      BY Zenon, <1>6, <2>1
    <2>3. req[t].kind = "ForDirtyDir"
      BY Zenon, <1>1, <1>2, <1>3, <1>7, <2>2 DEF Owned
    <2> QED
      BY Zenon, <1>7, <2>3 DEF MoreToRead
  <1>8. ASSUME ~MoreToRead(t), NEW k \in DOMAIN Flow, k # 0, Live(Flow[k]), Flow[k].by = t PROVE FALSE
    <2>1. CASE hand.kind = "Closed"
      <3>1. down = <<>> /\ outbox = <<>> /\ up = <<>>
        BY Zenon, <2>1 DEF FrameInv
      <3>2. Size = 0
        <4>1. Len(down) = 0 /\ Len(outbox) = 0 /\ Len(up) = 0
          BY Zenon, <3>1, NothingSent
        <4> QED
          BY <4>1 DEF Size
      <3> QED
        BY <1>2, <1>8, <3>2
    <2>2. CASE hand.kind # "Closed"
      <3>1. Live(Flow[0]) /\ Flow[0].by = t /\ Flow[0].kind # "DirtyDir"
        BY Zenon, <1>2, <1>6, <1>7, <1>8, <2>2
      <3>2. ticket[t] < ticket[t]
        BY Zenon, <1>1, <1>3, <1>8, <3>1 DEF Ordered
      <3> QED
        BY <1>4, <3>2
    <2> QED
      BY Zenon, <2>1, <2>2
  <1> QED
    BY Zenon, <1>6, <1>7, <1>8

\* A response is received.
LEMMA QueueOfReceive ==
    ASSUME TypeOK, FrameInv, ThreadInv, TicketInv, FlowInv, OwnAnswer, NEW t \in Thread, Receive(t)
    PROVE  ThreadInv' /\ TicketInv' /\ OwnAnswer'
PROOF
  <1>1. /\ pc[t] = "reading" /\ hand # None /\ got'[t] = hand
        /\ \A s \in Thread \ {t} : got'[s] = got[s]
        /\ MoreToRead(t) => pc' = pc /\ holder' = holder
        /\ ~MoreToRead(t) =>
              /\ holder' = None /\ pc'[t] = "got"
              /\ \A s \in Thread \ {t} : pc'[s] = IF pc[s] = "asleep" THEN "queued" ELSE pc[s]
    BY Zenon, ReceiveFacts
  <1>2. req' = req /\ ticket' = ticket /\ calls' = calls /\ sent' = sent /\ turn' = turn
    BY Zenon DEF Receive
  <1>3. OwnAnswer'
    <2>1. hand.kind # "Closed" => hand.by = t /\ hand.n = req[t].n
      BY Zenon, <1>1, HandFacts
    <2> QED
      BY Zenon, <1>1, <1>2, <2>1 DEF OwnAnswer
  <1>4. \A s \in Thread \ {t} : pc[s] # "reading"
    BY Zenon, <1>1 DEF TicketInv
  <1>5. pc[t] # "idle" /\ pc[t] \in Waiting \cup {"got"} /\ pc[t] # "got" /\ pc[t] \in {"reading", "got"}
    BY <1>1 DEF Waiting
  <1>6. CASE MoreToRead(t)
    <2>1. pc' = pc /\ holder' = holder
      BY Zenon, <1>1, <1>6
    <2>2. TicketInv'
      BY Zenon, <1>2, <2>1 DEF TicketInv
    <2>3. ThreadInv'
      <3> SUFFICES ASSUME NEW s \in Thread
                   PROVE  /\ req'[s] = None <=> pc'[s] = "idle"
                          /\ pc'[s] # "idle" => req'[s].by = s /\ req'[s].n = calls'[s] /\ calls'[s] > 0
                          /\ pc'[s] \in Waiting \cup {"got"} => req'[s].kind \in Answered
                          /\ got'[s] # None => pc'[s] \in {"reading", "got"}
                          /\ pc'[s] = "got" => got'[s] # None
        BY Zenon DEF ThreadInv
      <3>1. CASE s = t
        BY Zenon, <1>1, <1>2, <1>5, <2>1, <3>1 DEF ThreadInv
      <3>2. CASE s # t
        BY Zenon, <1>1, <1>2, <2>1, <3>2 DEF ThreadInv
      <3> QED
        BY Zenon, <3>1, <3>2
    <2> QED
      BY Zenon, <1>3, <2>2, <2>3
  <1>7. CASE ~MoreToRead(t)
    <2>1. /\ holder' = None /\ pc'[t] = "got"
          /\ \A s \in Thread \ {t} : pc'[s] = IF pc[s] = "asleep" THEN "queued" ELSE pc[s]
      BY Zenon, <1>1, <1>7
    <2>2. /\ pc'[t] # "idle" /\ pc'[t] \in {"reading", "got"} /\ pc'[t] # "reading"
          /\ pc'[t] \notin Waiting /\ pc'[t] \notin {"queued", "asleep"}
      BY <2>1 DEF Waiting
    <2>3. \A s \in Thread \ {t} :
             /\ pc'[s] = "idle" <=> pc[s] = "idle"
             /\ pc'[s] \in Waiting <=> pc[s] \in Waiting
             /\ pc'[s] \in Waiting \cup {"got"} <=> pc[s] \in Waiting \cup {"got"}
             /\ pc'[s] \in {"reading", "got"} <=> pc[s] \in {"reading", "got"}
             /\ pc'[s] = "got" <=> pc[s] = "got"
             /\ pc'[s] = "reading" <=> pc[s] = "reading"
             /\ pc'[s] \in {"queued", "asleep"} => pc[s] \in {"queued", "asleep"}
      BY <2>1 DEF Waiting
    <2>4. ThreadInv'
      <3> SUFFICES ASSUME NEW s \in Thread
                   PROVE  /\ req'[s] = None <=> pc'[s] = "idle"
                          /\ pc'[s] # "idle" => req'[s].by = s /\ req'[s].n = calls'[s] /\ calls'[s] > 0
                          /\ pc'[s] \in Waiting \cup {"got"} => req'[s].kind \in Answered
                          /\ got'[s] # None => pc'[s] \in {"reading", "got"}
                          /\ pc'[s] = "got" => got'[s] # None
        BY Zenon DEF ThreadInv
      <3>1. CASE s = t
        BY Zenon, <1>1, <1>2, <1>5, <2>2, <3>1 DEF ThreadInv
      <3>2. CASE s # t
        <4>1. s \in Thread \ {t}
          BY Zenon, <3>2
        <4> QED
          BY Zenon, <1>1, <1>2, <2>3, <4>1 DEF ThreadInv
      <3> QED
        BY Zenon, <3>1, <3>2
    <2>5. TicketInv'
      <3>1. \A s \in Thread : pc'[s] \in Waiting => pc[s] \in Waiting
        BY Zenon, <2>2, <2>3
      <3>2. \A s \in Thread : pc'[s] # "reading" /\ holder' # s
        BY Zenon, <1>4, <2>1, <2>2, <2>3, NoneAssumption
      <3>3. \A s \in Thread : pc'[s] \in {"queued", "asleep"} => pc[s] \in {"queued", "asleep"}
        BY Zenon, <2>2, <2>3
      <3>4. turn' <= sent' /\ \A s \in Thread : pc'[s] \in Waiting => ticket'[s] < sent'
        BY Zenon, <1>2, <3>1 DEF TicketInv
      <3>5. \A s \in Thread : pc'[s] \in {"queued", "asleep"} => turn' <= ticket'[s]
        BY Zenon, <1>2, <3>3 DEF TicketInv
      <3>6. \A s, u \in Thread : pc'[s] \in Waiting /\ pc'[u] \in Waiting /\ ticket'[s] = ticket'[u]
                                   => s = u
        BY Zenon, <1>2, <3>1 DEF TicketInv
      <3> QED
        BY Zenon, <3>2, <3>4, <3>5, <3>6 DEF TicketInv
    <2> QED
      BY Zenon, <1>3, <2>4, <2>5
  <1> QED
    BY Zenon, <1>6, <1>7

LEMMA FlowOfReceive ==
    ASSUME TypeOK, TypeOK', FrameInv, TicketInv, FlowInv, NEW t \in Thread, Receive(t)
    PROVE  FlowInv'
PROOF
  <1>1. /\ pc[t] = "reading" /\ hand # None
        /\ MoreToRead(t) => pc' = pc
        /\ ~MoreToRead(t) =>
              /\ pc'[t] = "got"
              /\ \A s \in Thread \ {t} : pc'[s] = IF pc[s] = "asleep" THEN "queued" ELSE pc[s]
    BY Zenon, ReceiveFacts
  <1>2. req' = req /\ ticket' = ticket /\ alive' = alive /\ hand' = None
        /\ UNCHANGED <<down, outbox, up>>
    BY Zenon DEF Receive, serverVars
  <1>3. /\ Flow[0] = hand /\ 0 \in DOMAIN Flow /\ DOMAIN Flow' = DOMAIN Flow /\ Flow'[0] = Notice
        /\ \A k \in DOMAIN Flow : k # 0 => Flow'[k] = Flow[k] /\ 0 < k
    BY Zenon, <1>1, <1>2, ReceiveFlow
  <1>4. PICK m : Through(Flow, Flow', m)
    BY Zenon, <1>1, <1>2, ReceiveFlow
  <1>5. Owned(Flow, pc, req) /\ Ordered(Flow, ticket) /\ Complete(Flow, pc, ticket, alive)
    BY Zenon DEF FlowInv
  <1>6. /\ hand.kind # "Closed" => hand.by = t
        /\ hand.kind = "DirtyDir" => MoreToRead(t)
        /\ ~MoreToRead(t) => \A k \in DOMAIN Flow : k # 0 /\ Live(Flow[k]) => Flow[k].by # t
    BY Zenon, <1>1, HandFacts
  <1>7. ~MoreToRead(t) => \A s \in Thread \ {t} : pc'[s] \in Waiting <=> pc[s] \in Waiting
    BY <1>1 DEF Waiting
  <1>8. \A s \in Thread : pc'[s] \in Waiting => pc[s] \in Waiting /\ ticket'[s] = ticket[s]
    BY Zenon, <1>1, <1>2, <1>7, Places
  <1>9. Steady(Flow', pc, req, ticket, pc', req', ticket')
    <2> SUFFICES ASSUME NEW k \in DOMAIN Flow', Live(Flow'[k]), Flow'[k].by \in Thread,
                        pc[Flow'[k].by] \in Waiting
                 PROVE  pc'[Flow'[k].by] \in Waiting
      BY Zenon, <1>2 DEF Steady
    <2>1. k # 0 /\ Flow'[k] = Flow[k] /\ k \in DOMAIN Flow
      BY Zenon, <1>3, Kinds
    <2>2. CASE MoreToRead(t)
      BY Zenon, <1>1, <2>2
    <2>3. CASE ~MoreToRead(t)
      BY Zenon, <1>6, <1>7, <2>1, <2>3
    <2> QED
      BY Zenon, <2>2, <2>3
  <1>10. \A i \in DOMAIN Flow : Final(Flow[i]) /\ pc'[Flow[i].by] \in Waiting => i # 0
    <2> SUFFICES ASSUME Final(Flow[0]), pc'[Flow[0].by] \in Waiting
                 PROVE  FALSE
      BY Zenon
    <2>1. Live(hand) /\ hand.kind # "DirtyDir" /\ hand.kind # "Closed"
      BY Zenon, <1>3, Kinds DEF Final
    <2>2. ~MoreToRead(t)
      BY Zenon, <2>1 DEF MoreToRead
    <2>3. pc'[t] = "got" /\ Flow[0].by = t
      BY Zenon, <1>1, <1>3, <1>6, <2>1, <2>2
    <2> QED
      BY Zenon, <2>3, Places
  <1>11. Awaited(Flow, Flow', pc, ticket, pc', ticket')
    BY Zenon, <1>3, <1>8, <1>10 DEF Awaited
  <1>12. Owned(Flow', pc', req') /\ Ordered(Flow', ticket')
    BY Zenon, <1>4, <1>5, <1>9, ThroughKeeps
  <1>13. Complete(Flow', pc', ticket', alive)
    BY Zenon, <1>4, <1>5, <1>9, <1>11, CompleteKept
  <1> QED
    BY Zenon, <1>2, <1>12, <1>13 DEF FlowInv

\* The responses to a request come in its place.
LEMMA AnswerFlow ==
    ASSUME TypeOK, TypeOK', CanServe, Incoming.kind \in Answered, NEW kind \in Reply \ {"DirtyDir"},
           Answer(Incoming, kind)
    PROVE  /\ \E k \in Nat : Expands(Flow, Flow', Len(down), k, Size)
           /\ Len(down) + 1 \in DOMAIN Flow /\ Flow[Len(down) + 1] = Incoming
           /\ \A j \in DOMAIN Flow' :
                 \/ \E i \in DOMAIN Flow : i # Len(down) + 1 /\ Flow'[j] = Flow[i]
                 \/ Flow'[j].by = Incoming.by /\ Flow'[j].kind = "DirtyDir" /\ Incoming.kind = "ForDirtyDir"
                 \/ Flow'[j] = Due(kind, Incoming)
PROOF
  <1> DEFINE b == Len(down)
             r == Incoming
             x == Due(kind, r)
  <1>1. /\ Len(up) > 0 /\ Len(outbox) = 0 /\ r = up[1] /\ Len(Tail(up)) = Len(up) - 1
        /\ \A i \in 1 .. Len(Tail(up)) : Tail(up)[i] = up[i + 1]
    BY Zenon, IncomingFacts
  <1>2. /\ up' = Tail(up) /\ down' = down /\ hand' = hand
        /\ x.kind \in Reply \ {"DirtyDir"} /\ x.by = r.by /\ x.n = r.n
    BY Zenon, AnswerFacts
  <1>3. PICK k \in Nat :
           /\ k > 0 => r.kind = "ForDirtyDir"
           /\ Len(outbox') = k + 1 /\ outbox'[k + 1] = x
           /\ \A i \in 1 .. k :
                 outbox'[i].kind = "DirtyDir" /\ outbox'[i].by = r.by /\ outbox'[i].n = r.n
    BY Zenon, AnswerFacts
  <1>4. Len(up') = Len(up) - 1 /\ \A i \in 1 .. Len(up') : up'[i] = up[i + 1]
    BY Zenon, <1>1, <1>2
  <1>5. /\ b \in Nat /\ Len(up) \in Nat /\ DOMAIN Flow = 0 .. Size
        /\ Flow[0] = IF hand = None THEN Notice ELSE hand
        /\ \A i \in 1 .. b : Flow[i] = down[i]
        /\ \A i \in 1 .. Len(up) : Flow[b + Len(outbox) + i] = up[i]
    BY Zenon, FlowAt
  <1>6. /\ DOMAIN Flow' = 0 .. (b + Len(outbox') + Len(up'))
        /\ Flow'[0] = IF hand = None THEN Notice ELSE hand
        /\ \A i \in 1 .. b : Flow'[i] = down[i]
        /\ \A i \in 1 .. Len(outbox') : Flow'[b + i] = outbox'[i]
        /\ \A i \in 1 .. Len(up') : Flow'[b + Len(outbox') + i] = up'[i]
    BY Zenon, <1>2, NextFlowAt
  <1>7. Size = b + Len(up)
    BY <1>1, <1>5 DEF Size
  <1> HIDE DEF b, r, x
  <1>8. \A i \in 1 .. Len(up) : Flow[b + i] = up[i]
    BY <1>1, <1>5
  <1>9. /\ DOMAIN Flow' = 0 .. (Size + k) /\ b + 1 <= Size /\ Size \in Nat
    BY <1>1, <1>3, <1>4, <1>5, <1>6, <1>7
  <1>10. Flow[b + 1] = r
    BY <1>1, <1>5, <1>8
  <1>11. \A j \in 0 .. b : Flow'[j] = Flow[j]
    <2>1. \A j \in 0 .. b : j = 0 \/ j \in 1 .. b
      BY <1>5
    <2> QED
      BY Zenon, <1>5, <1>6, <2>1
  <1>12. \A j \in (b + 1) .. (b + k) :
            Flow'[j].kind = "DirtyDir" /\ Flow'[j].by = r.by /\ Flow'[j].n = r.n
    <2> SUFFICES ASSUME NEW j \in (b + 1) .. (b + k)
                 PROVE  Flow'[j].kind = "DirtyDir" /\ Flow'[j].by = r.by /\ Flow'[j].n = r.n
      BY Zenon
    <2>1. j - b \in 1 .. k /\ j - b \in 1 .. Len(outbox') /\ b + (j - b) = j
      BY <1>3, <1>5
    <2>2. Flow'[j] = outbox'[j - b]
      BY <1>6, <2>1
    <2> QED
      BY Zenon, <1>3, <2>1, <2>2
  <1>13. Flow'[b + k + 1] = x
    <2>1. k + 1 \in 1 .. Len(outbox') /\ b + (k + 1) = b + k + 1
      BY <1>3, <1>5
    <2> QED
      BY <1>3, <1>6, <2>1
  <1>14. \A j \in (b + k + 2) .. (Size + k) : Flow'[j] = Flow[j - k]
    <2> SUFFICES ASSUME NEW j \in (b + k + 2) .. (Size + k)
                 PROVE  Flow'[j] = Flow[j - k]
      BY Zenon
    <2> DEFINE i == j - (b + k + 1)
    <2>1. /\ i \in 1 .. Len(up') /\ b + Len(outbox') + i = j /\ i + 1 \in 1 .. Len(up)
          /\ b + (i + 1) = j - k
      BY <1>1, <1>3, <1>4, <1>5, <1>7
    <2> HIDE DEF i
    <2>2. Flow'[j] = up'[i]
      BY <1>6, <2>1
    <2>3. Flow[j - k] = up[i + 1]
      BY <1>8, <2>1
    <2> QED
      BY Zenon, <1>4, <2>1, <2>2, <2>3
  <1>15. Expands(Flow, Flow', b, k, Size)
    <2>1. r.kind \in Answered
      BY Zenon DEF r
    <2>2. Flow[b + 1].kind \in Answered /\ (k > 0 => Flow[b + 1].kind = "ForDirtyDir")
      BY Zenon, <1>3, <1>10, <2>1
    <2>3. \A j \in (b + 1) .. (b + k) : /\ Flow'[j].kind = "DirtyDir"
                                        /\ Flow'[j].by = Flow[b + 1].by
                                        /\ Flow'[j].n = Flow[b + 1].n
      BY Zenon, <1>10, <1>12
    <2>4. /\ Flow'[b + k + 1].kind \in Reply \ {"DirtyDir"}
          /\ Flow'[b + k + 1].by = Flow[b + 1].by /\ Flow'[b + k + 1].n = Flow[b + 1].n
      BY Zenon, <1>2, <1>10, <1>13
    <2>5. DOMAIN Flow = 0 .. Size /\ DOMAIN Flow' = 0 .. (Size + k) /\ b + 1 <= Size
      BY Zenon, <1>5, <1>9
    <2> QED
      BY Zenon, <1>11, <1>14, <2>2, <2>3, <2>4, <2>5 DEF Expands
  <1>16. b + 1 \in DOMAIN Flow
    BY <1>5, <1>9
  <1>17. ASSUME NEW j \in DOMAIN Flow'
         PROVE  \/ \E i \in DOMAIN Flow : i # b + 1 /\ Flow'[j] = Flow[i]
                \/ Flow'[j].by = r.by /\ Flow'[j].kind = "DirtyDir" /\ r.kind = "ForDirtyDir"
                \/ Flow'[j] = x
    <2>1. CASE j \in 0 .. b
      <3>1. j \in DOMAIN Flow /\ j # b + 1
        BY <1>5, <1>9, <2>1
      <3> QED
        BY Zenon, <1>11, <2>1, <3>1
    <2>2. CASE j \in (b + 1) .. (b + k)
      <3>1. k > 0
        BY <1>5, <2>2
      <3> QED
        BY Zenon, <1>3, <1>12, <2>2, <3>1
    <2>3. CASE j = b + k + 1
      BY Zenon, <1>13, <2>3
    <2>4. CASE j \in (b + k + 2) .. (Size + k)
      <3>1. j - k \in DOMAIN Flow /\ j - k # b + 1
        BY <1>5, <1>9, <2>4
      <3> QED
        BY Zenon, <1>14, <2>4, <3>1
    <2>5. j \in 0 .. b \/ j \in (b + 1) .. (b + k) \/ j = b + k + 1 \/ j \in (b + k + 2) .. (Size + k)
      <3>1. j \in 0 .. (Size + k) /\ b \in Nat /\ Size \in Nat
        BY Zenon, <1>5, <1>9
      <3> QED
        BY <3>1
    <2> QED
      BY Zenon, <2>1, <2>2, <2>3, <2>4, <2>5
  <1> QED
    BY Zenon, <1>10, <1>15, <1>16, <1>17 DEF b, r, x

LEMMA FlowOfServe ==
    ASSUME TypeOK, TypeOK', FlowInv, Serve \/ ServeError
    PROVE  FlowInv'
PROOF
  <1>1. PICK kind \in Reply \ {"DirtyDir"} : Answer(Incoming, kind)
    BY Zenon, ServeKinds
  <1>2. CanServe /\ Incoming.kind \in Answered
    BY Zenon, ServeKinds
  <1>3. PICK k \in Nat : Expands(Flow, Flow', Len(down), k, Size)
    BY Zenon, <1>1, <1>2, AnswerFlow
  <1>4. Len(down) \in Nat /\ Size \in Nat
    BY Zenon, FlowAt
  <1>5. pc' = pc /\ req' = req /\ ticket' = ticket /\ alive' = alive
    BY Zenon, <1>1 DEF Answer, clientVars
  <1>6. Owned(Flow, pc, req) /\ Ordered(Flow, ticket) /\ Complete(Flow, pc, ticket, alive)
    BY Zenon DEF FlowInv
  <1>7. Owned(Flow', pc, req) /\ Ordered(Flow', ticket) /\ Complete(Flow', pc, ticket, alive)
    BY Zenon, <1>3, <1>4, <1>6, ExpandsKeeps
  <1> QED
    BY Zenon, <1>5, <1>7 DEF FlowInv

\* Threads, queue and flow, whatever happens.
LEMMA BasicStep ==
    ASSUME TypeOK, FrameInv, ThreadInv, TicketInv, FlowInv, OwnAnswer, Next
    PROVE  TypeOK' /\ FrameInv' /\ ThreadInv' /\ TicketInv' /\ FlowInv' /\ OwnAnswer'
PROOF
  <1>1. ASSUME NEW t \in Thread, Call(t)
        PROVE  TypeOK' /\ FrameInv' /\ ThreadInv' /\ TicketInv' /\ FlowInv' /\ OwnAnswer'
    <2>1. TypeOK' /\ pc[t] = "idle" /\ pc'[t] = "sending"
          /\ \A s \in Thread \ {t} : pc'[s] = pc[s] /\ req'[s] = req[s]
      BY <1>1, CallFacts
    <2>2. UNCHANGED <<serverVars, up, down, hand>> /\ ticket' = ticket /\ alive' = alive
      BY Zenon, <1>1 DEF Call, serverVars
    <2>3. FrameInv' /\ Passed
      BY Zenon, <2>2, ServerSame, SameFlowPassed
    <2>4. /\ \A s \in Thread : pc'[s] \in Waiting <=> pc[s] \in Waiting
          /\ \A s \in Thread : pc[s] \in Waiting => req'[s] = req[s] /\ ticket'[s] = ticket[s]
      BY Zenon, <2>1, <2>2, Places
    <2>5. FlowInv'
      BY Zenon, <2>2, <2>3, <2>4, FlowKept
    <2> QED
      BY Zenon, <1>1, <2>1, <2>3, <2>5, QueueOfCall
  <1>2. ASSUME NEW t \in Thread, Send(t)
        PROVE  TypeOK' /\ FrameInv' /\ ThreadInv' /\ TicketInv' /\ FlowInv' /\ OwnAnswer'
    <2>1. TypeOK' /\ pc[t] = "sending" /\ req[t] \in Request /\ (req[t].kind \in Silent => Return(t))
      BY Zenon, <1>2, SendFacts
    <2>2. /\ up' = Append(up, req[t]) /\ alive /\ alive' = alive
          /\ hand' = hand /\ down' = down /\ outbox' = outbox
      BY Zenon, <1>2 DEF Send, serverVars
    <2>3. FrameInv'
      BY Zenon, <2>2 DEF FrameInv
    <2>4. CASE req[t].kind \in Silent
      <3>1. /\ pc'[t] = "idle"
            /\ \A s \in Thread \ {t} : pc'[s] = pc[s] /\ req'[s] = req[s] /\ ticket'[s] = ticket[s]
        BY Zenon, <2>1, <2>4, ReturnFacts DEF TypeOK
      <3>2. Passed
        BY Zenon, <2>1, <2>2, <2>4, SilentSendFlow
      <3>3. /\ \A s \in Thread : pc'[s] \in Waiting <=> pc[s] \in Waiting
            /\ \A s \in Thread : pc[s] \in Waiting => req'[s] = req[s] /\ ticket'[s] = ticket[s]
        BY Zenon, <2>1, <3>1, Places
      <3> QED
        BY Zenon, <2>2, <3>2, <3>3, FlowKept, <1>2, <2>1, <2>3, QueueOfSend
    <2>5. CASE req[t].kind \notin Silent
      BY Zenon, <1>2, <2>1, <2>3, <2>5, FlowOfSend, QueueOfSend
    <2> QED
      BY Zenon, <2>4, <2>5
  <1>3. ASSUME NEW t \in Thread, SendFails(t) \/ Handle(t)
        PROVE  TypeOK' /\ FrameInv' /\ ThreadInv' /\ TicketInv' /\ FlowInv' /\ OwnAnswer'
    <2>1. /\ TypeOK' /\ Return(t) /\ UNCHANGED <<calls, sent, turn, holder>>
          /\ UNCHANGED <<serverVars, up, down, hand>>
      BY Zenon, <1>3, ReturnTypes
    <2>2. pc[t] \notin Waiting /\ alive' = alive
      BY Zenon, <1>3, <2>1, Places DEF SendFails, Handle, serverVars
    <2>3. FrameInv' /\ Passed
      BY Zenon, <2>1, ServerSame, SameFlowPassed
    <2>4. /\ pc'[t] = "idle"
          /\ \A s \in Thread \ {t} : pc'[s] = pc[s] /\ req'[s] = req[s] /\ ticket'[s] = ticket[s]
      BY Zenon, <2>1, ReturnFacts DEF TypeOK
    <2>5. /\ \A s \in Thread : pc'[s] \in Waiting <=> pc[s] \in Waiting
          /\ \A s \in Thread : pc[s] \in Waiting => req'[s] = req[s] /\ ticket'[s] = ticket[s]
      BY Zenon, <2>2, <2>4, Places
    <2>6. FlowInv'
      BY Zenon, <2>2, <2>3, <2>5, FlowKept
    <2> QED
      BY Zenon, <2>1, <2>2, <2>3, <2>6, QueueOfReturn
  <1>4. ASSUME NEW t \in Thread, Enter(t)
        PROVE  TypeOK' /\ FrameInv' /\ ThreadInv' /\ TicketInv' /\ FlowInv' /\ OwnAnswer'
    <2>1. TypeOK' /\ pc[t] = "queued" /\ (pc'[t] = "reading" \/ pc'[t] = "asleep")
          /\ \A s \in Thread \ {t} : pc'[s] = pc[s]
      BY Zenon, <1>4, EnterFacts
    <2>2. /\ UNCHANGED <<serverVars, up, down, hand>> /\ ticket' = ticket /\ req' = req
          /\ alive' = alive
      BY Zenon, <1>4 DEF Enter, serverVars
    <2>3. FrameInv' /\ Passed
      BY Zenon, <2>2, ServerSame, SameFlowPassed
    <2>4. /\ \A s \in Thread : pc'[s] \in Waiting <=> pc[s] \in Waiting
          /\ \A s \in Thread : pc[s] \in Waiting => req'[s] = req[s] /\ ticket'[s] = ticket[s]
      BY Zenon, <2>1, <2>2, Places
    <2>5. FlowInv'
      BY Zenon, <2>2, <2>3, <2>4, FlowKept
    <2> QED
      BY Zenon, <1>4, <2>1, <2>3, <2>5, QueueOfEnter
  <1>5. ASSUME NEW t \in Thread, Receive(t)
        PROVE  TypeOK' /\ FrameInv' /\ ThreadInv' /\ TicketInv' /\ FlowInv' /\ OwnAnswer'
    <2>1. TypeOK'
      BY Zenon, <1>5, ReceiveFacts
    <2>2. FrameInv'
      BY Zenon, <1>5 DEF Receive, FrameInv, serverVars
    <2> QED
      BY Zenon, <1>5, <2>1, <2>2, QueueOfReceive, FlowOfReceive
  <1>6. ASSUME UNCHANGED clientVars, TypeOK', FrameInv', FlowInv'
        PROVE  TypeOK' /\ FrameInv' /\ ThreadInv' /\ TicketInv' /\ FlowInv' /\ OwnAnswer'
    BY Zenon, <1>6, ClientSame
  <1>7. ASSUME UNCHANGED clientVars, Passed, alive' => alive PROVE FlowInv'
    BY Zenon, <1>7, FlowKept DEF clientVars
  <1>8. ASSUME ReaderStep
        PROVE  TypeOK' /\ FrameInv' /\ ThreadInv' /\ TicketInv' /\ FlowInv' /\ OwnAnswer'
    <2>1. TypeOK' /\ FrameInv'
      BY Zenon, <1>8, ReaderTypes, FrameOfReader
    <2>2. UNCHANGED clientVars /\ alive' = alive
      BY Zenon, <1>8 DEF ReaderStep, Read, ReadEnd, serverVars
    <2>3. Passed
      BY Zenon, <1>8, <2>1, ReadFlow, ReadEndFlow DEF ReaderStep
    <2>4. FlowInv'
      BY Zenon, <1>7, <2>2, <2>3
    <2> QED
      BY Zenon, <1>6, <2>1, <2>2, <2>4
  <1>9. ASSUME Accept \/ RefuseSilently
        PROVE  TypeOK' /\ FrameInv' /\ ThreadInv' /\ TicketInv' /\ FlowInv' /\ OwnAnswer'
    <2>1. TypeOK' /\ FrameInv'
      BY Zenon, <1>9, SilentTypes, FrameOfOthers
    <2>2. /\ UNCHANGED clientVars /\ alive' = alive /\ CanServe /\ Head(up).kind \in Silent
          /\ up' = Tail(up) /\ UNCHANGED <<hand, down, outbox>>
      BY Zenon, <1>9, SilentTypes DEF Incoming
    <2>3. Passed
      BY Zenon, <2>1, <2>2, SilentFlow DEF CanServe
    <2>4. FlowInv'
      BY Zenon, <1>7, <2>2, <2>3
    <2> QED
      BY Zenon, <1>6, <2>1, <2>2, <2>4
  <1>10. ASSUME Serve \/ ServeError
         PROVE  TypeOK' /\ FrameInv' /\ ThreadInv' /\ TicketInv' /\ FlowInv' /\ OwnAnswer'
    <2>1. TypeOK' /\ FrameInv'
      BY Zenon, <1>10, ServeTypes, FrameOfServe
    <2>2. UNCHANGED clientVars
      BY Zenon, <1>10, ServeKinds DEF Answer
    <2>3. FlowInv'
      BY Zenon, <1>10, <2>1, FlowOfServe
    <2> QED
      BY Zenon, <1>6, <2>1, <2>2, <2>3
  <1>11. ASSUME Write
         PROVE  TypeOK' /\ FrameInv' /\ ThreadInv' /\ TicketInv' /\ FlowInv' /\ OwnAnswer'
    <2>1. TypeOK'
      BY Zenon, <1>11, WriteTypes
    <2>2. FrameInv'
      BY Zenon, <1>11, <2>1, FrameOfWrite
    <2>3. UNCHANGED clientVars /\ alive /\ alive' = (Head(outbox).kind # "FatalError")
      BY Zenon, <1>11 DEF Write
    <2>4. /\ Head(outbox) = outbox[1]
          /\ outbox[1].kind # "FatalError" => Flow' = Flow
          /\ outbox[1].kind = "FatalError" => Cut(Len(down) + 1)
      BY Zenon, <1>11, <2>1, WriteFlow
    <2>5. FlowInv'
      BY Zenon, <1>7, <2>3, <2>4, SameFlowPassed, FlowCut
    <2> QED
      BY Zenon, <1>6, <2>1, <2>2, <2>3, <2>5
  <1>12. ASSUME Notify \/ Disconnect
         PROVE  TypeOK' /\ FrameInv' /\ ThreadInv' /\ TicketInv' /\ FlowInv' /\ OwnAnswer'
    <2>1. TypeOK' /\ FrameInv'
      BY Zenon, <1>12, WriteTypes, FrameOfOthers
    <2>2. UNCHANGED clientVars /\ alive
      BY Zenon, <1>12 DEF Notify, Disconnect
    <2>3. CASE Notify
      <3>1. down' = Append(down, Notice) /\ UNCHANGED <<hand, outbox, up>>
        BY Zenon, <2>3 DEF Notify
      <3>2. FlowInv'
        BY Zenon, <1>7, <2>1, <2>2, <3>1, NotifyFlow
      <3> QED
        BY Zenon, <1>6, <2>1, <2>2, <3>2
    <2>4. CASE Disconnect
      <3>1. PICK e \in 0 .. Len(down) : down' = SubSeq(down, 1, e)
        BY Zenon, <2>4 DEF Disconnect
      <3>2. up' = <<>> /\ outbox' = <<>> /\ hand' = hand /\ ~alive'
        BY Zenon, <2>4 DEF Disconnect
      <3>3. Cut(e)
        BY Zenon, <2>1, <3>1, <3>2, DisconnectFlow
      <3>4. FlowInv'
        BY Zenon, <2>2, <3>2, <3>3, FlowCut
      <3> QED
        BY Zenon, <1>6, <2>1, <2>2, <3>4
    <2> QED
      BY Zenon, <1>12, <2>3, <2>4
  <1> QED
    BY Zenon, <1>1, <1>2, <1>3, <1>4, <1>5, <1>8, <1>9, <1>10, <1>11, <1>12
       DEF Next, ThreadStep, ServerStep
-----------------------------------------------------------------------------
(* Commits are answered truthfully. *)

LEMMA ToldTruth ==
    ASSUME ToldInv
    PROVE  CommitHonest
PROOF
  <1> SUFFICES ASSUME NEW t \in Thread, pc[t] = "got", req[t].kind = "Commit"
               PROVE  LET mine == {x \in applied : x.by = t /\ x.n = req[t].tx}
                      IN /\ got[t].kind = "Done" => \E x \in mine : ~x.lost
                         /\ got[t].kind = "Fail" => mine = {}
    BY Zenon DEF CommitHonest
  <1>1. /\ got[t].kind = "Done" => Truth(t, "Done")
        /\ got[t].kind = "Fail" => Truth(t, "Fail")
    BY Zenon DEF ToldInv
  <1>2. /\ got[t].kind = "Done" => \E x \in applied : x.by = t /\ x.n = req[t].tx /\ ~x.lost
        /\ got[t].kind = "Fail" => \A x \in applied : ~(x.by = t /\ x.n = req[t].tx)
    BY Zenon, <1>1 DEF Truth, Unapplied
  <1> QED
    BY Zenon, <1>2

\* No number is used, or committed, in a new way.
LEMMA NumberKept ==
    ASSUME NumberInv, UNCHANGED <<applied, calls, writing>>,
           \A x \in txns' : \E y \in txns : x.by = y.by /\ x.n = y.n,
           \A i \in DOMAIN up' : \E j \in DOMAIN up : up'[i] = up[j],
           \A s \in Thread : pc'[s] # "idle" => pc[s] # "idle" /\ req'[s] = req[s],
           \A s \in Thread : pc'[s] = "sending" => pc[s] = "sending"
    PROVE  NumberInv'
PROOF
  <1>1. \A x \in txns' \cup applied' : 0 < x.n /\ x.n <= calls'[x.by]
    <2>1. \A x \in txns' : 0 < x.n /\ x.n <= calls[x.by]
      <3> SUFFICES ASSUME NEW x \in txns' PROVE 0 < x.n /\ x.n <= calls[x.by]
        BY Zenon
      <3>1. PICK y \in txns : x.by = y.by /\ x.n = y.n
        BY Zenon
      <3>2. 0 < y.n /\ y.n <= calls[y.by]
        BY Zenon DEF NumberInv
      <3> QED
        BY Zenon, <3>1, <3>2
    <2> QED
      BY Zenon, <2>1 DEF NumberInv
  <1>2. ASSUME NEW i \in DOMAIN up'
        PROVE  /\ up'[i].kind = "StartTx" => 0 < up'[i].tx /\ up'[i].tx <= calls'[up'[i].by]
               /\ up'[i].kind = "Commit" => \A x \in applied' : ~(x.by = up'[i].by /\ x.n = up'[i].tx)
    <2>1. PICK j \in DOMAIN up : up'[i] = up[j]
      BY Zenon
    <2>2. /\ up[j].kind = "StartTx" => 0 < up[j].tx /\ up[j].tx <= calls[up[j].by]
          /\ up[j].kind = "Commit" => \A x \in applied : ~(x.by = up[j].by /\ x.n = up[j].tx)
      BY Zenon DEF NumberInv, Unapplied
    <2> QED
      BY Zenon, <2>1, <2>2
  <1>4. ASSUME NEW t \in Thread
        PROVE  /\ \A x \in applied' : ~(x.by = t /\ x.n = writing'[t])
               /\ pc'[t] = "sending" /\ req'[t].kind = "StartTx" => req'[t].tx = calls'[t]
               /\ pc'[t] = "sending" /\ req'[t].kind = "Commit" =>
                     \A x \in applied' : ~(x.by = t /\ x.n = req'[t].tx)
               /\ pc'[t] # "idle" /\ req'[t].kind = "Commit" => writing'[t] = 0
    <2>1. pc'[t] = "sending" => pc'[t] # "idle"
      BY SMT
    <2>2. pc'[t] = "sending" => pc[t] = "sending" /\ req'[t] = req[t]
      BY Zenon, <2>1
    <2> QED
      BY Zenon, <2>2 DEF NumberInv, Unapplied
  <1> QED
    BY Zenon, <1>1, <1>2, <1>4 DEF NumberInv, Unapplied

\* A call draws the number of a transaction.
LEMMA NumberOfCall ==
    ASSUME TypeOK, NumberInv, NEW t \in Thread, Call(t)
    PROVE  NumberInv'
PROOF
  <1>1. /\ pc'[t] = "sending" /\ calls'[t] = calls[t] + 1
        /\ req'[t].tx = (IF req'[t].kind = "StartTx" THEN calls'[t] ELSE writing[t])
        /\ writing'[t] = (IF req'[t].kind \in {"Commit", "Abort"} THEN 0 ELSE req'[t].tx)
        /\ \A s \in Thread \ {t} : /\ pc'[s] = pc[s] /\ req'[s] = req[s]
                                    /\ calls'[s] = calls[s] /\ writing'[s] = writing[s]
    BY CallFacts
  <1>2. txns' = txns /\ applied' = applied /\ up' = up
    BY Zenon DEF Call, serverVars
  <1>3. calls \in [Thread -> Nat] /\ applied \subseteq Transactions /\ txns \subseteq Transactions
        /\ up \in Seq(Request)
    BY Zenon DEF TypeOK, ThreadTypes, ServerTypes, WireTypes
  <1>4. /\ \A x \in txns \cup applied : x.by \in Thread /\ x.n \in Nat
        /\ \A i \in DOMAIN up : up[i].by \in Thread /\ up[i].tx \in Nat
    <2>1. \A x \in Transactions : x.by \in Thread /\ x.n \in Nat
      BY DEF Transactions
    <2>2. \A x \in Request : x.by \in Thread /\ x.tx \in Nat
      BY DEF Request
    <2>3. \A i \in DOMAIN up : up[i] \in Request
      BY <1>3
    <2> QED
      BY Zenon, <1>3, <2>1, <2>2, <2>3
  <1>5. \A s \in Thread : calls[s] \in Nat /\ calls'[s] \in Nat /\ calls[s] <= calls'[s]
    BY <1>1, <1>3
  <1>6. \A x \in txns \cup applied : 0 < x.n /\ x.n <= calls[x.by]
    BY Zenon DEF NumberInv
  <1>7. \A x \in txns \cup applied : 0 < x.n /\ x.n <= calls'[x.by]
    BY <1>4, <1>5, <1>6
  <1>8. \A i \in DOMAIN up : up[i].kind = "StartTx" => 0 < up[i].tx /\ up[i].tx <= calls'[up[i].by]
    <2>1. \A i \in DOMAIN up : up[i].kind = "StartTx" => 0 < up[i].tx /\ up[i].tx <= calls[up[i].by]
      BY Zenon DEF NumberInv
    <2>2. \A m, n \in Nat, s \in Thread : 0 < m /\ m <= calls[s] => 0 < m /\ m <= calls'[s]
      BY <1>5
    <2> QED
      BY Zenon, <1>4, <2>1, <2>2
  <1>9. \A x \in applied : x.by = t => x.n # calls'[t] /\ x.n # 0
    BY <1>1, <1>4, <1>5, <1>6
  <1>10. Unapplied(t, writing[t])
    BY Zenon DEF NumberInv
  <1>11. \A x \in applied : ~(x.by = t /\ x.n = req'[t].tx)
    BY Zenon, <1>1, <1>9, <1>10 DEF Unapplied
  <1>12. \A x \in applied : ~(x.by = t /\ x.n = writing'[t])
    BY Zenon, <1>1, <1>9, <1>11
  <1>13. /\ req'[t].kind = "StartTx" => req'[t].tx = calls'[t]
         /\ req'[t].kind = "Commit" => writing'[t] = 0
    BY Zenon, <1>1
  <1>14. ASSUME NEW s \in Thread
         PROVE  /\ \A x \in applied' : ~(x.by = s /\ x.n = writing'[s])
                /\ pc'[s] = "sending" /\ req'[s].kind = "StartTx" => req'[s].tx = calls'[s]
                /\ pc'[s] = "sending" /\ req'[s].kind = "Commit" =>
                      \A x \in applied' : ~(x.by = s /\ x.n = req'[s].tx)
                /\ pc'[s] # "idle" /\ req'[s].kind = "Commit" => writing'[s] = 0
    <2>1. CASE s = t
      BY Zenon, <1>2, <1>11, <1>12, <1>13, <2>1
    <2>2. CASE s # t
      <3>1. /\ pc'[s] = pc[s] /\ req'[s] = req[s] /\ calls'[s] = calls[s] /\ writing'[s] = writing[s]
        BY Zenon, <1>1, <2>2
      <3> QED
        BY Zenon, <1>2, <3>1 DEF NumberInv, Unapplied
    <2> QED
      BY Zenon, <2>1, <2>2
  <1> QED
    BY Zenon, <1>2, <1>7, <1>8, <1>14 DEF NumberInv, Unapplied

\* A request joins the others.
LEMMA NumberOfSend ==
    ASSUME TypeOK, ThreadInv, NumberInv, NEW t \in Thread, Send(t)
    PROVE  NumberInv'
PROOF
  <1> DEFINE x == req[t]
  <1>1. /\ pc[t] = "sending" /\ x \in Request /\ x.by = t
        /\ x.kind \in Silent => Return(t)
        /\ x.kind \notin Silent => /\ pc'[t] = "queued" /\ req' = req
                                  /\ \A s \in Thread \ {t} : pc'[s] = pc[s]
    BY Zenon, SendFacts
  <1>2. up' = Append(up, x) /\ calls' = calls /\ writing' = writing /\ txns' = txns /\ applied' = applied
    BY Zenon DEF Send, serverVars
  <1>3. up \in Seq(Request)
    BY Zenon DEF TypeOK, WireTypes
  <1> HIDE DEF x
  <1>4. \A i \in DOMAIN up' : up'[i] = x \/ (i \in DOMAIN up /\ up'[i] = up[i])
    BY <1>1, <1>2, <1>3
  <1>5. calls[t] > 0
    <2>1. pc[t] # "idle"
      BY <1>1
    <2> QED
      BY Zenon, <2>1 DEF ThreadInv
  <1>6. /\ x.kind = "StartTx" => 0 < x.tx /\ x.tx <= calls[x.by]
        /\ x.kind = "Commit" => \A y \in applied : ~(y.by = x.by /\ y.n = x.tx)
    <2>1. /\ x.kind = "StartTx" => x.tx = calls[t]
          /\ x.kind = "Commit" => \A y \in applied : ~(y.by = t /\ y.n = x.tx)
      BY Zenon, <1>1 DEF NumberInv, Unapplied, x
    <2>2. 0 < calls[t] /\ calls[t] <= calls[t]
      BY <1>5 DEF TypeOK, ThreadTypes
    <2> QED
      BY Zenon, <1>1, <2>1, <2>2
  <1>7. \A i \in DOMAIN up' :
           /\ up'[i].kind = "StartTx" => 0 < up'[i].tx /\ up'[i].tx <= calls[up'[i].by]
           /\ up'[i].kind = "Commit" => \A y \in applied : ~(y.by = up'[i].by /\ y.n = up'[i].tx)
    <2> SUFFICES ASSUME NEW i \in DOMAIN up'
                 PROVE  /\ up'[i].kind = "StartTx" => 0 < up'[i].tx /\ up'[i].tx <= calls[up'[i].by]
                        /\ up'[i].kind = "Commit" =>
                              \A y \in applied : ~(y.by = up'[i].by /\ y.n = up'[i].tx)
      BY Zenon
    <2>1. CASE up'[i] = x
      BY Zenon, <1>6, <2>1
    <2>2. CASE i \in DOMAIN up /\ up'[i] = up[i]
      BY Zenon, <2>2 DEF NumberInv, Unapplied
    <2> QED
      BY Zenon, <1>4, <2>1, <2>2
  <1>8. \A s \in Thread : pc'[s] # "idle" => pc[s] # "idle" /\ req'[s] = req[s]
    <2>1. pc[t] # "idle"
      BY <1>1
    <2>2. CASE x.kind \in Silent
      <3>1. pc'[t] = "idle" /\ \A s \in Thread \ {t} : pc'[s] = pc[s] /\ req'[s] = req[s]
        BY Zenon, <1>1, <2>2, ReturnFacts DEF TypeOK
      <3> QED
        BY Zenon, <3>1
    <2>3. CASE x.kind \notin Silent
      BY Zenon, <1>1, <2>1, <2>3
    <2> QED
      BY Zenon, <2>2, <2>3
  <1>9. \A s \in Thread : pc'[s] = "sending" => pc[s] = "sending"
    <2>1. CASE x.kind \in Silent
      <3>1. \A s \in Thread \ {t} : pc'[s] = pc[s]
        BY Zenon, <1>1, <2>1, ReturnFacts DEF TypeOK
      <3> QED
        BY Zenon, <1>1, <3>1
    <2>2. CASE x.kind \notin Silent
      BY Zenon, <1>1, <2>2
    <2> QED
      BY Zenon, <2>1, <2>2
  <1>10. ASSUME NEW s \in Thread
         PROVE  /\ \A y \in applied' : ~(y.by = s /\ y.n = writing'[s])
                /\ pc'[s] = "sending" /\ req'[s].kind = "StartTx" => req'[s].tx = calls'[s]
                /\ pc'[s] = "sending" /\ req'[s].kind = "Commit" =>
                      \A y \in applied' : ~(y.by = s /\ y.n = req'[s].tx)
                /\ pc'[s] # "idle" /\ req'[s].kind = "Commit" => writing'[s] = 0
    <2>1. pc'[s] = "sending" => pc'[s] # "idle"
      BY SMT
    <2>2. pc'[s] = "sending" => pc[s] = "sending" /\ req'[s] = req[s]
      BY Zenon, <1>8, <1>9, <2>1
    <2> QED
      BY Zenon, <1>2, <1>8, <2>2 DEF NumberInv, Unapplied
  <1>11. \A y \in txns' \cup applied' : 0 < y.n /\ y.n <= calls'[y.by]
    BY Zenon, <1>2 DEF NumberInv
  <1> QED
    BY Zenon, <1>2, <1>7, <1>10, <1>11 DEF NumberInv, Unapplied

\* What is left of the requests when the first is taken.
LEMMA TakenFirst ==
    ASSUME TypeOK, CanServe, up' = Tail(up)
    PROVE  \A i \in DOMAIN up' : /\ i \in Nat /\ i + 1 \in DOMAIN up /\ up'[i] = up[i + 1]
                                /\ i = Len(up') <=> i + 1 = Len(up)
PROOF
  <1>1. up \in Seq(Request) /\ Tail(up) \in Seq(Request)
    BY Zenon, IncomingFacts DEF TypeOK, WireTypes
  <1>2. DOMAIN up = 1 .. Len(up) /\ DOMAIN up' = 1 .. Len(up')
    BY <1>1
  <1>3. /\ Len(up) \in Nat /\ Len(up) > 0 /\ Len(up') = Len(up) - 1
        /\ \A i \in 1 .. Len(up') : up'[i] = up[i + 1]
    BY Zenon, IncomingFacts
  <1>4. \A i \in 1 .. Len(up') : i \in Nat /\ i + 1 \in 1 .. Len(up) /\ (i = Len(up') <=> i + 1 = Len(up))
    BY <1>3
  <1> QED
    BY Zenon, <1>2, <1>3, <1>4

\* Requests without response: only a new transaction brings a new number.
LEMMA NumberOfSilent ==
    ASSUME TypeOK, NumberInv, Accept \/ RefuseSilently
    PROVE  NumberInv'
PROOF
  <1>1. /\ CanServe /\ up' = Tail(up) /\ applied' = applied /\ calls' = calls /\ writing' = writing
        /\ pc' = pc /\ req' = req
    BY Zenon, SilentTypes DEF clientVars
  <1>2. \A i \in DOMAIN up' : \E j \in DOMAIN up : up'[i] = up[j]
    <2>1. \A i \in DOMAIN up' : i + 1 \in DOMAIN up /\ up'[i] = up[i + 1]
      BY <1>1, TakenFirst
    <2> QED
      BY Zenon, <2>1
  <1>3. CASE \A x \in txns' : \E y \in txns : x.by = y.by /\ x.n = y.n
    BY Zenon, <1>1, <1>2, <1>3, NumberKept
  <1>4. CASE \E x \in txns' : \A y \in txns : ~(x.by = y.by /\ x.n = y.n)
    <2> DEFINE r == Incoming
               new == [by |-> r.by, n |-> r.tx, lost |-> FALSE]
    <2>1. ~RefuseSilently
      <3> SUFFICES ASSUME RefuseSilently, NEW x \in txns' PROVE \E y \in txns : x.by = y.by /\ x.n = y.n
        BY Zenon, <1>4
      <3>1. \/ x \in txns
            \/ x \in {[by |-> y.by, n |-> y.n, lost |-> TRUE] : y \in Own(Incoming)}
        BY Zenon DEF RefuseSilently
      <3>2. CASE x \in {[by |-> y.by, n |-> y.n, lost |-> TRUE] : y \in Own(Incoming)}
        <4>1. PICK y \in Own(Incoming) : x = [by |-> y.by, n |-> y.n, lost |-> TRUE]
          BY Zenon, <3>2
        <4>2. x.by = y.by /\ x.n = y.n
          BY <4>1
        <4>3. y \in txns
          BY Zenon DEF Own
        <4> QED
          BY Zenon, <4>2, <4>3
      <3> QED
        BY Zenon, <3>1, <3>2
    <2>2. Accept
      BY Zenon, <2>1
    <2>3. r.kind = "StartTx" /\ txns' = txns \cup {new}
      BY Zenon, <1>4, <2>2 DEF Accept
    <2>4. 1 \in DOMAIN up /\ r = up[1]
      <3>1. up \in Seq(Request) /\ Len(up) > 0 /\ r = up[1]
        BY Zenon, <1>1, IncomingFacts DEF TypeOK, WireTypes
      <3> QED
        BY <3>1
    <2>5. 0 < r.tx /\ r.tx <= calls[r.by]
      BY Zenon, <2>3, <2>4 DEF NumberInv
    <2>6. new.by = r.by /\ new.n = r.tx
      OBVIOUS
    <2> HIDE DEF new, r
    <2>7. \A x \in txns' \cup applied' : 0 < x.n /\ x.n <= calls'[x.by]
      <3> SUFFICES ASSUME NEW x \in txns' \cup applied' PROVE 0 < x.n /\ x.n <= calls'[x.by]
        BY Zenon
      <3>1. CASE x = new
        BY Zenon, <1>1, <2>5, <2>6, <3>1
      <3>2. CASE x \in txns \cup applied
        BY Zenon, <1>1, <3>2 DEF NumberInv
      <3> QED
        BY Zenon, <1>1, <2>3, <3>1, <3>2
    <2>8. \A i \in DOMAIN up' :
             /\ up'[i].kind = "StartTx" => 0 < up'[i].tx /\ up'[i].tx <= calls'[up'[i].by]
             /\ up'[i].kind = "Commit" => \A y \in applied' : ~(y.by = up'[i].by /\ y.n = up'[i].tx)
      <3> SUFFICES ASSUME NEW i \in DOMAIN up'
                   PROVE  /\ up'[i].kind = "StartTx" => 0 < up'[i].tx /\ up'[i].tx <= calls'[up'[i].by]
                          /\ up'[i].kind = "Commit" =>
                                \A y \in applied' : ~(y.by = up'[i].by /\ y.n = up'[i].tx)
        BY Zenon
      <3>1. PICK j \in DOMAIN up : up'[i] = up[j]
        BY Zenon, <1>2
      <3>2. /\ up[j].kind = "StartTx" => 0 < up[j].tx /\ up[j].tx <= calls[up[j].by]
            /\ up[j].kind = "Commit" => \A y \in applied : ~(y.by = up[j].by /\ y.n = up[j].tx)
        BY Zenon DEF NumberInv, Unapplied
      <3> QED
        BY Zenon, <1>1, <3>1, <3>2
    <2> QED
      BY Zenon, <1>1, <2>7, <2>8 DEF NumberInv, Unapplied
  <1> QED
    BY Zenon, <1>3, <1>4

\* A request with a response is the only one of its thread.
LEMMA ServedAlone ==
    ASSUME TypeOK, FlowInv, CanServe, Incoming.kind \in Answered
    PROVE  /\ Incoming.by \in Thread /\ pc[Incoming.by] \in Waiting /\ req[Incoming.by] = Incoming
           /\ \A i \in DOMAIN Flow : i # Len(down) + 1 /\ Live(Flow[i]) /\ Flow[i].by = Incoming.by =>
                 Flow[i].kind = "DirtyDir" /\ Incoming.kind = "ForDirtyDir"
           /\ \A i \in DOMAIN up : i # 1 /\ up[i].kind \in Answered => up[i].by # Incoming.by
PROOF
  <1> DEFINE r == Incoming
             b == Len(down)
  <1>1. Owned(Flow, pc, req) /\ Ordered(Flow, ticket)
    BY Zenon DEF FlowInv
  <1>2. Len(outbox) = 0 /\ r = up[1] /\ Len(up) \in Nat /\ Len(up) > 0
    BY Zenon, IncomingFacts
  <1>3. /\ b \in Nat /\ Size \in Nat /\ DOMAIN Flow = 0 .. Size
        /\ \A k \in 1 .. Len(up) : Flow[b + Len(outbox) + k] = up[k]
    BY Zenon, FlowAt
  <1>4. Size = b + Len(up)
    BY <1>2, <1>3 DEF Size
  <1>5. DOMAIN up = 1 .. Len(up)
    BY DEF TypeOK, WireTypes
  <1>6. r.kind \in Answered
    OBVIOUS
  <1> HIDE DEF r, b
  <1>7. \A k \in DOMAIN up : b + k \in DOMAIN Flow /\ Flow[b + k] = up[k] /\ (k # 1 => b + 1 < b + k)
    BY <1>2, <1>3, <1>4, <1>5
  <1>8. 1 \in DOMAIN up /\ b + 1 \in DOMAIN Flow /\ Flow[b + 1] = r
    BY <1>2, <1>3, <1>4, <1>5, <1>7
  <1>9. Live(r) /\ r.kind # "DirtyDir"
    BY <1>6 DEF Live, Answered
  <1>10. r.by \in Thread /\ pc[r.by] \in Waiting /\ req[r.by] = r
    BY Zenon, <1>1, <1>6, <1>8, <1>9 DEF Owned
  <1>11. ticket[r.by] \in Nat
    BY Zenon, <1>10 DEF TypeOK, ThreadTypes
  <1>12. ~(ticket[r.by] < ticket[r.by])
    BY <1>11
  <1>13. ASSUME NEW i \in DOMAIN Flow, i # b + 1, Live(Flow[i]), Flow[i].by = r.by
         PROVE  i < b + 1 /\ Flow[i].kind = "DirtyDir" /\ r.kind = "ForDirtyDir"
    <2>1. ~(b + 1 < i)
      BY Zenon, <1>1, <1>8, <1>9, <1>12, <1>13 DEF Ordered
    <2>2. i < b + 1
      <3>1. i \in 0 .. Size
        BY Zenon, <1>3
      <3> QED
        BY <1>3, <1>13, <2>1, <3>1
    <2>3. Flow[i].kind = "DirtyDir"
      BY Zenon, <1>1, <1>8, <1>9, <1>12, <1>13, <2>2 DEF Ordered
    <2>4. req[Flow[i].by].kind = "ForDirtyDir"
      BY Zenon, <1>1, <1>13, <2>3 DEF Owned
    <2> QED
      BY Zenon, <1>10, <1>13, <2>2, <2>3, <2>4
  <1>14. ASSUME NEW i \in DOMAIN up, i # 1, up[i].kind \in Answered PROVE up[i].by # r.by
    <2>1. b + i \in DOMAIN Flow /\ Flow[b + i] = up[i] /\ b + 1 < b + i
      BY Zenon, <1>7, <1>14
    <2>2. Live(Flow[b + i])
      BY Zenon, <1>14, <2>1 DEF Live
    <2>3. Flow[b + i].by = r.by => ticket[r.by] < ticket[r.by]
      BY Zenon, <1>1, <1>8, <1>9, <2>1, <2>2 DEF Ordered
    <2> QED
      BY Zenon, <1>12, <2>1, <2>3
  <1> QED
    BY Zenon, <1>10, <1>13, <1>14 DEF r, b

\* A commit applies a transaction nobody refers to any more.
LEMMA NumberOfServe ==
    ASSUME TypeOK, FlowInv, NumberInv, Serve \/ ServeError
    PROVE  NumberInv'
PROOF
  <1> DEFINE r == Incoming
  <1>1. CanServe /\ r.kind \in Answered
    BY Zenon, ServeKinds
  <1>2. /\ up' = Tail(up) /\ calls' = calls /\ writing' = writing /\ pc' = pc /\ req' = req
    BY Zenon, ServeKinds DEF Answer, clientVars
  <1>3. /\ txns' \subseteq txns
        /\ applied' = applied \/ (r.kind = "Commit" /\ applied' = applied \cup Own(r))
    BY Zenon DEF Serve, ServeError
  <1>4. \A i \in DOMAIN up' : i + 1 \in DOMAIN up /\ up'[i] = up[i + 1] /\ i + 1 # 1
    <2>1. \A i \in DOMAIN up' : i \in Nat /\ i + 1 \in DOMAIN up /\ up'[i] = up[i + 1]
      BY <1>1, <1>2, TakenFirst
    <2>2. DOMAIN up' \subseteq 1 .. Len(up')
      <3>1. Tail(up) \in Seq(Request)
        BY Zenon, <1>1, IncomingFacts
      <3> QED
        BY <1>2, <3>1
    <2>3. \A i \in 1 .. Len(up') : i + 1 # 1
      OBVIOUS
    <2> QED
      BY Zenon, <2>1, <2>2, <2>3
  <1>5. CASE applied' = applied
    BY Zenon, <1>2, <1>3, <1>4, <1>5, NumberKept
  <1>6. CASE r.kind = "Commit" /\ applied' = applied \cup Own(r)
    <2>1. /\ r.by \in Thread /\ pc[r.by] \in Waiting /\ req[r.by] = r
          /\ \A i \in DOMAIN up : i # 1 /\ up[i].kind \in Answered => up[i].by # r.by
      BY Zenon, <1>1, ServedAlone
    <2>2. "Commit" \in Answered
      BY DEF Answered
    <2>3. \A x \in Own(r) : x \in txns /\ x.by = r.by /\ x.n = r.tx
      BY Zenon DEF Own
    <2>4. \A x \in Own(r) : 0 < x.n
      BY Zenon, <2>3 DEF NumberInv
    <2>5. writing[r.by] = 0
      BY Zenon, <1>6, <2>1, Places DEF NumberInv
    <2>6. \A x \in Own(r) : x.n # writing[r.by]
      BY <2>4, <2>5
    <2> HIDE DEF r
    <2>7. \A x \in txns' \cup applied' : 0 < x.n /\ x.n <= calls'[x.by]
      BY Zenon, <1>2, <1>3, <1>6, <2>3 DEF NumberInv
    <2>8. ASSUME NEW i \in DOMAIN up'
          PROVE  /\ up'[i].kind = "StartTx" => 0 < up'[i].tx /\ up'[i].tx <= calls'[up'[i].by]
                 /\ up'[i].kind = "Commit" => \A y \in applied' : ~(y.by = up'[i].by /\ y.n = up'[i].tx)
      <3> DEFINE j == i + 1
      <3>1. j \in DOMAIN up /\ up'[i] = up[j] /\ j # 1
        BY Zenon, <1>4
      <3> HIDE DEF j
      <3>2. /\ up[j].kind = "StartTx" => 0 < up[j].tx /\ up[j].tx <= calls[up[j].by]
            /\ up[j].kind = "Commit" => \A y \in applied : ~(y.by = up[j].by /\ y.n = up[j].tx)
        BY Zenon, <3>1 DEF NumberInv, Unapplied
      <3>3. up[j].kind = "Commit" => up[j].by # r.by
        BY Zenon, <2>1, <2>2, <3>1
      <3>4. up[j].kind = "Commit" => \A y \in applied' : ~(y.by = up[j].by /\ y.n = up[j].tx)
        BY Zenon, <1>6, <2>3, <3>2, <3>3
      <3> QED
        BY Zenon, <1>2, <3>1, <3>2, <3>4
    <2>9. ASSUME NEW s \in Thread
          PROVE  /\ \A y \in applied' : ~(y.by = s /\ y.n = writing'[s])
                 /\ pc'[s] = "sending" /\ req'[s].kind = "Commit" =>
                       \A y \in applied' : ~(y.by = s /\ y.n = req'[s].tx)
      <3>1. CASE s = r.by
        BY Zenon, <1>2, <1>6, <2>1, <2>3, <2>6, <3>1, Places DEF NumberInv, Unapplied
      <3>2. CASE s # r.by
        BY Zenon, <1>2, <1>6, <2>3, <3>2 DEF NumberInv, Unapplied
      <3> QED
        BY Zenon, <3>1, <3>2
    <2>10. \A s \in Thread :
              /\ pc'[s] = "sending" /\ req'[s].kind = "StartTx" => req'[s].tx = calls'[s]
              /\ pc'[s] # "idle" /\ req'[s].kind = "Commit" => writing'[s] = 0
      BY Zenon, <1>2 DEF NumberInv
    <2> QED
      BY Zenon, <2>7, <2>8, <2>9, <2>10 DEF NumberInv, Unapplied
  <1> QED
    BY Zenon, <1>3, <1>5, <1>6

\* The failure of an edit is told before anything is committed.
LEMMA LostKept ==
    ASSUME TypeOK, TypeOK', FrameInv, LostInv, Next
    PROVE  LostInv'
PROOF
  <1>1. CASE UNCHANGED <<alive, deferred, outbox, txns>>
    BY Zenon, <1>1 DEF LostInv
  <1>2. CASE Accept
    <2>1. outbox = <<>> /\ alive' = alive /\ deferred' = deferred /\ outbox' = outbox
      BY Zenon, <1>2 DEF Accept, CanServe
    <2>2. ASSUME NEW x \in txns', x.lost PROVE x \in txns
      <3>1. x \in txns \/ x = [by |-> Incoming.by, n |-> Incoming.tx, lost |-> FALSE]
        BY Zenon, <1>2 DEF Accept
      <3>2. ~[by |-> Incoming.by, n |-> Incoming.tx, lost |-> FALSE].lost
        BY SMT
      <3> QED
        BY Zenon, <2>2, <3>1, <3>2
    <2> QED
      BY Zenon, <2>1, <2>2 DEF LostInv
  <1>3. CASE RefuseSilently
    BY Zenon, <1>3 DEF RefuseSilently, NowDeferred, LostInv
  <1>4. CASE Serve \/ ServeError
    <2>1. PICK kind \in Reply \ {"DirtyDir"} : Answer(Incoming, kind)
      BY Zenon, <1>4, ServeKinds
    <2>2. CanServe /\ Incoming.kind \in Answered
      BY Zenon, <1>4, ServeKinds
    <2>3. alive' = alive /\ Due(kind, Incoming).kind = (IF deferred THEN "FatalError" ELSE kind)
      BY Zenon, <2>1, <2>2, AnswerFacts
    <2>4. PICK k \in Nat : Len(outbox') = k + 1 /\ outbox'[k + 1] = Due(kind, Incoming)
      BY Zenon, <2>1, <2>2, AnswerFacts
    <2>5. outbox = <<>> /\ txns' \subseteq txns
      BY Zenon, <1>4, <2>2 DEF CanServe, Serve, ServeError
    <2>6. outbox' # <<>>
      <3>1. outbox' = <<>> => Len(outbox') = 0
        BY Zenon, NothingSent
      <3> QED
        BY <2>4, <3>1
    <2>7. deferred => outbox'[Len(outbox')].kind = "FatalError"
      BY Zenon, <2>3, <2>4
    <2> QED
      BY Zenon, <2>3, <2>5, <2>6, <2>7 DEF LostInv
  <1>5. CASE Write
    <2>1. /\ outbox \in Seq(Frame) /\ outbox # <<>> /\ outbox' = Tail(outbox)
          /\ alive /\ alive' = (Head(outbox).kind # "FatalError") /\ deferred' = deferred /\ txns' = txns
      BY Zenon, <1>5 DEF Write, TypeOK, ServerTypes
    <2>2. \/ outbox[Len(outbox)] = Head(outbox)
          \/ outbox' # <<>> /\ outbox'[Len(outbox')] = outbox[Len(outbox)]
      <3>1. /\ Head(outbox) = outbox[1] /\ Len(outbox') = Len(outbox) - 1 /\ Len(outbox) > 0
            /\ Len(outbox) \in Nat /\ \A k \in 1 .. Len(outbox') : outbox'[k] = outbox[k + 1]
        BY Zenon, <2>1, TailFacts
      <3>2. CASE Len(outbox) = 1
        BY Zenon, <3>1, <3>2
      <3>3. CASE Len(outbox) # 1
        <4>1. Len(outbox') \in 1 .. Len(outbox') /\ Len(outbox') + 1 = Len(outbox) /\ Len(outbox') # 0
          BY <3>1, <3>3
        <4>2. outbox'[Len(outbox')] = outbox[Len(outbox') + 1]
          BY Zenon, <3>1, <4>1
        <4>3. outbox' # <<>>
          BY Zenon, <4>1, NothingSent
        <4> QED
          BY Zenon, <4>1, <4>2, <4>3
      <3> QED
        BY Zenon, <3>2, <3>3
    <2> QED
      BY Zenon, <2>1, <2>2 DEF LostInv
  <1>6. CASE Disconnect
    BY Zenon, <1>6 DEF Disconnect, LostInv
  <1> QED
    BY Zenon, <1>1, <1>2, <1>3, <1>4, <1>5, <1>6
       DEF Next, ThreadStep, ServerStep, ReaderStep, Call, Send, SendFails, Enter, Receive, Handle,
           Read, ReadEnd, Notify, serverVars

\* No answer to a commit is made up.
LEMMA ToldKept ==
    ASSUME ToldInv, FlowInv', applied' = applied,
           \A k \in DOMAIN Flow' : Flow'[k].kind \in {"Done", "Fail"} =>
              \E i \in DOMAIN Flow : Flow'[k] = Flow[i],
           \A t \in Thread : pc'[t] \in Waiting \cup {"got"} => req'[t] = req[t],
           \A t \in Thread : pc'[t] = "got" =>
              \/ pc[t] = "got" /\ got'[t] = got[t]
              \/ got'[t].kind \notin {"Done", "Fail"}
              \/ \E i \in DOMAIN Flow : Live(Flow[i]) /\ Flow[i].by = t /\ Flow[i] = got'[t]
    PROVE  ToldInv'
PROOF
  <1> SUFFICES ASSUME NEW t \in Thread, NEW kind, req'[t].kind = "Commit"
               PROVE  /\ \A k \in DOMAIN Flow' :
                            Live(Flow'[k]) /\ Flow'[k].by = t /\ Flow'[k].kind = kind => Truth(t, kind)'
                      /\ pc'[t] = "got" /\ got'[t].kind = kind => Truth(t, kind)'
    BY Zenon DEF ToldInv
  <1>1. CASE kind \notin {"Done", "Fail"}
    <2>1. Truth(t, kind)'
      BY Zenon, <1>1 DEF Truth
    <2> QED
      BY Zenon, <2>1
  <1>2. CASE kind \in {"Done", "Fail"}
    <2>1. ASSUME req'[t] = req[t], Truth(t, kind) PROVE Truth(t, kind)'
      BY Zenon, <2>1 DEF Truth, Unapplied
    <2>2. ASSUME NEW k \in DOMAIN Flow', Live(Flow'[k]), Flow'[k].by = t, Flow'[k].kind = kind
          PROVE  Truth(t, kind)'
      <3>1. pc'[t] \in Waiting
        BY Zenon, <2>2 DEF FlowInv, Owned
      <3>2. req'[t] = req[t]
        BY Zenon, <3>1
      <3>3. PICK i \in DOMAIN Flow : Flow'[k] = Flow[i]
        BY Zenon, <1>2, <2>2
      <3>4. Truth(t, kind)
        BY Zenon, <2>2, <3>2, <3>3 DEF ToldInv
      <3> QED
        BY Zenon, <2>1, <3>2, <3>4
    <2>3. ASSUME pc'[t] = "got", got'[t].kind = kind PROVE Truth(t, kind)'
      <3>1. req'[t] = req[t]
        BY Zenon, <2>3
      <3>2. Truth(t, kind)
        BY Zenon, <1>2, <2>3, <3>1 DEF ToldInv
      <3> QED
        BY Zenon, <2>1, <3>1, <3>2
    <2> QED
      BY Zenon, <2>2, <2>3
  <1> QED
    BY Zenon, <1>1, <1>2

LEMMA PassedTold ==
    ASSUME \E m : Through(Flow, Flow', m)
    PROVE  \A k \in DOMAIN Flow' : Flow'[k].kind \in {"Done", "Fail"} =>
              \E i \in DOMAIN Flow : Flow'[k] = Flow[i]
PROOF
  <1> SUFFICES ASSUME NEW k \in DOMAIN Flow', Flow'[k].kind \in {"Done", "Fail"}
               PROVE  \E i \in DOMAIN Flow : Flow'[k] = Flow[i]
    BY Zenon
  <1>1. PICK m : Through(Flow, Flow', m)
    BY Zenon
  <1>2. Live(Flow'[k])
    BY DEF Live, Reply
  <1>3. m[k] \in DOMAIN Flow /\ Flow'[k] = Flow[m[k]]
    BY Zenon, <1>1, <1>2 DEF Through
  <1> QED
    BY Zenon, <1>3

\* The storage is asked for a commit.
LEMMA ToldOfServe ==
    ASSUME TypeOK, TypeOK', FrameInv, FlowInv, FlowInv', NumberInv, LostInv, ToldInv,
           Serve \/ ServeError
    PROVE  ToldInv'
PROOF
  <1> DEFINE r == Incoming
  <1>1. PICK kind \in Reply \ {"DirtyDir"} :
           /\ Answer(r, kind)
           /\ \/ ServeError /\ kind = "Error"
              \/ /\ Serve /\ kind \in Expected(r.kind)
                 /\ applied' = IF r.kind = "Commit" /\ kind = "Done"
                               THEN applied \cup Own(r) ELSE applied
    BY Zenon, ServeKinds
  <1>2. CanServe /\ r.kind \in Answered
    BY Zenon, ServeKinds
  <1>3. pc' = pc /\ req' = req /\ got' = got
    BY Zenon, <1>1 DEF Answer, clientVars
  <1>4. /\ Due(kind, r).kind = (IF deferred THEN "FatalError" ELSE kind) /\ Due(kind, r).by = r.by
    BY Zenon, <1>1, <1>2, AnswerFacts
  <1>5. \A j \in DOMAIN Flow' :
           \/ \E i \in DOMAIN Flow : i # Len(down) + 1 /\ Flow'[j] = Flow[i]
           \/ Flow'[j].by = r.by /\ Flow'[j].kind = "DirtyDir" /\ r.kind = "ForDirtyDir"
           \/ Flow'[j] = Due(kind, r)
    BY Zenon, <1>1, <1>2, AnswerFlow
  <1>6. /\ r.by \in Thread /\ pc[r.by] \in Waiting /\ req[r.by] = r
        /\ \A i \in DOMAIN Flow : i # Len(down) + 1 /\ Live(Flow[i]) /\ Flow[i].by = r.by =>
              Flow[i].kind = "DirtyDir" /\ r.kind = "ForDirtyDir"
    BY Zenon, <1>2, ServedAlone
  <1>7. \A x \in Own(r) : x \in txns /\ x.by = r.by /\ x.n = r.tx
    BY Zenon DEF Own
  <1>8. /\ applied \subseteq applied' /\ applied' \subseteq applied \cup Own(r)
        /\ r.kind = "Commit" /\ kind = "Done" => applied' = applied \cup Own(r) /\ Own(r) # {}
        /\ ~(r.kind = "Commit" /\ kind = "Done") => applied' = applied
    <2>1. CASE ServeError /\ kind = "Error"
      <3>1. applied' = applied
        BY Zenon, <2>1 DEF ServeError
      <3>2. kind # "Done"
        BY <2>1
      <3> QED
        BY Zenon, <3>1, <3>2
    <2>2. CASE Serve /\ applied' = IF r.kind = "Commit" /\ kind = "Done"
                                   THEN applied \cup Own(r) ELSE applied
      <3>1. r.kind = "Commit" => Own(r) # {}
        <4>1. ~Refuses(r)
          BY Zenon, <2>2 DEF Serve
        <4> QED
          BY <4>1 DEF Refuses
      <3> QED
        BY Zenon, <2>2, <3>1
    <2> QED
      BY Zenon, <1>1, <2>1, <2>2
  <1>9. ASSUME NEW s \in Thread, s # r.by, NEW k, Truth(s, k) PROVE Truth(s, k)'
    BY Zenon, <1>3, <1>7, <1>8, <1>9 DEF Truth, Unapplied
  <1>10. ASSUME NEW t, NEW d, t = r.by, d = Due(kind, r).kind, r.kind = "Commit"
         PROVE  Truth(t, d)'
    <2>1. d = "Done" => ~deferred /\ kind = "Done"
      BY Zenon, <1>4, <1>10
    <2>2. d = "Fail" => kind = "Fail"
      BY Zenon, <1>4, <1>10
    <2>3. ASSUME d = "Done" PROVE \E x \in applied' : x.by = t /\ x.n = req'[t].tx /\ ~x.lost
      <3>1. outbox = <<>> /\ alive
        BY Zenon, <1>2 DEF CanServe
      <3>2. \A x \in txns : ~x.lost
        BY Zenon, <2>1, <2>3, <3>1 DEF LostInv
      <3>3. PICK x \in Own(r) : TRUE
        BY Zenon, <1>8, <1>10, <2>1, <2>3
      <3>4. x \in applied'
        BY Zenon, <1>8, <1>10, <2>1, <2>3
      <3> QED
        BY Zenon, <1>3, <1>6, <1>7, <1>10, <3>2, <3>4
    <2>4. ASSUME d = "Fail" PROVE \A x \in applied' : ~(x.by = t /\ x.n = req'[t].tx)
      <3>1. kind # "Done"
        BY <2>2, <2>4
      <3>2. 1 \in DOMAIN up /\ r = up[1]
        <4>1. up \in Seq(Request) /\ Len(up) > 0 /\ r = up[1]
          BY Zenon, <1>2, IncomingFacts DEF TypeOK, WireTypes
        <4> QED
          BY <4>1
      <3>3. \A x \in applied : ~(x.by = r.by /\ x.n = r.tx)
        BY Zenon, <1>10, <3>2 DEF NumberInv, Unapplied
      <3> QED
        BY Zenon, <1>3, <1>6, <1>8, <1>10, <3>1, <3>3
    <2>5. /\ d = "Done" => \E x \in applied' : x.by = t /\ x.n = req'[t].tx /\ ~x.lost
          /\ d = "Fail" => \A x \in applied' : ~(x.by = t /\ x.n = req'[t].tx)
      BY Zenon, <2>3, <2>4
    <2> QED
      BY Zenon, <2>5 DEF Truth, Unapplied
  <1>11. SUFFICES ASSUME NEW t \in Thread, NEW k, req'[t].kind = "Commit"
                 PROVE  /\ \A j \in DOMAIN Flow' :
                              Live(Flow'[j]) /\ Flow'[j].by = t /\ Flow'[j].kind = k => Truth(t, k)'
                        /\ pc'[t] = "got" /\ got'[t].kind = k => Truth(t, k)'
    BY Zenon DEF ToldInv
  <1> HIDE DEF r
  <1>12. CASE t # r.by
    <2>1. ASSUME NEW j \in DOMAIN Flow', Live(Flow'[j]), Flow'[j].by = t, Flow'[j].kind = k
          PROVE  Truth(t, k)'
      <3>1. PICK i \in DOMAIN Flow : Flow'[j] = Flow[i]
        BY Zenon, <1>4, <1>5, <1>12, <2>1
      <3>2. Truth(t, k)
        BY Zenon, <1>3, <1>11, <2>1, <3>1 DEF ToldInv
      <3> QED
        BY Zenon, <1>9, <1>12, <3>2
    <2>2. ASSUME pc'[t] = "got", got'[t].kind = k PROVE Truth(t, k)'
      <3>1. Truth(t, k)
        BY Zenon, <1>3, <1>11, <2>2 DEF ToldInv
      <3> QED
        BY Zenon, <1>9, <1>12, <3>1
    <2> QED
      BY Zenon, <2>1, <2>2
  <1>13. CASE t = r.by
    <2>1. r.kind = "Commit" /\ pc'[t] \in Waiting
      BY Zenon, <1>3, <1>6, <1>11, <1>13
    <2>2. r.kind # "ForDirtyDir" /\ pc'[t] # "got"
      BY <2>1 DEF Waiting
    <2>3. ASSUME NEW j \in DOMAIN Flow', Live(Flow'[j]), Flow'[j].by = t, Flow'[j].kind = k
          PROVE  Truth(t, k)'
      <3>1. Flow'[j] = Due(kind, r)
        BY Zenon, <1>5, <1>6, <1>13, <2>2, <2>3
      <3> QED
        BY Zenon, <1>10, <1>13, <2>1, <2>3, <3>1
    <2> QED
      BY Zenon, <2>2, <2>3
  <1> QED
    BY Zenon, <1>12, <1>13

\* Steps that end a call, whatever its answer.
LEMMA CommitOfReturn ==
    ASSUME TypeOK, FlowInv', NumberInv, ToldInv, NEW t \in Thread, SendFails(t) \/ Handle(t)
    PROVE  NumberInv' /\ ToldInv'
PROOF
  <1>1. /\ pc'[t] = "idle"
        /\ \A s \in Thread \ {t} : pc'[s] = pc[s] /\ req'[s] = req[s] /\ got'[s] = got[s]
    <2>1. Return(t) /\ ThreadTypes
      BY Zenon DEF SendFails, Handle, TypeOK
    <2> QED
      BY Zenon, <2>1, ReturnFacts
  <1>2. UNCHANGED <<applied, calls, writing, txns, up, hand, down, outbox>>
    BY Zenon DEF SendFails, Handle, serverVars
  <1>3. Flow' = Flow
    BY Zenon, <1>2, SameFlow
  <1>4. pc'[t] \notin Waiting \cup {"got", "sending"}
    BY <1>1 DEF Waiting
  <1>5. NumberInv'
    <2>1. \A x \in txns' : \E y \in txns : x.by = y.by /\ x.n = y.n
      BY Zenon, <1>2
    <2>2. \A i \in DOMAIN up' : \E j \in DOMAIN up : up'[i] = up[j]
      BY Zenon, <1>2
    <2>3. \A s \in Thread : pc'[s] # "idle" => pc[s] # "idle" /\ req'[s] = req[s]
      BY Zenon, <1>1
    <2>4. \A s \in Thread : pc'[s] = "sending" => pc[s] = "sending"
      BY Zenon, <1>1, <1>4
    <2>5. UNCHANGED <<applied, calls, writing>>
      BY Zenon, <1>2
    <2> QED
      BY Zenon, <2>1, <2>2, <2>3, <2>4, <2>5, NumberKept
  <1>6. ToldInv'
    <2>1. \A k \in DOMAIN Flow' : Flow'[k].kind \in {"Done", "Fail"} =>
             \E i \in DOMAIN Flow : Flow'[k] = Flow[i]
      BY Zenon, <1>3
    <2>2. \A s \in Thread : pc'[s] \in Waiting \cup {"got"} => req'[s] = req[s]
      BY Zenon, <1>1, <1>4
    <2>3. \A s \in Thread : pc'[s] = "got" => pc[s] = "got" /\ got'[s] = got[s]
      BY Zenon, <1>1, <1>4
    <2>4. applied' = applied
      BY Zenon, <1>2
    <2> QED
      BY Zenon, <2>1, <2>2, <2>3, <2>4, ToldKept
  <1> QED
    BY Zenon, <1>5, <1>6

LEMMA ToldOfCall ==
    ASSUME TypeOK, FlowInv', ToldInv, NEW t \in Thread, Call(t)
    PROVE  ToldInv'
PROOF
  <1>1. pc'[t] = "sending" /\ \A s \in Thread \ {t} : pc'[s] = pc[s] /\ req'[s] = req[s]
    BY CallFacts
  <1>2. UNCHANGED <<applied, got, up, hand, down, outbox>>
    BY Zenon DEF Call, serverVars
  <1>3. Flow' = Flow
    BY Zenon, <1>2, SameFlow
  <1>4. pc'[t] \notin Waiting \cup {"got"}
    BY <1>1 DEF Waiting
  <1>5. \A k \in DOMAIN Flow' : Flow'[k].kind \in {"Done", "Fail"} =>
           \E i \in DOMAIN Flow : Flow'[k] = Flow[i]
    BY Zenon, <1>3
  <1>6. \A s \in Thread : pc'[s] \in Waiting \cup {"got"} => req'[s] = req[s]
    BY Zenon, <1>1, <1>4
  <1>7. \A s \in Thread : pc'[s] = "got" => pc[s] = "got" /\ got'[s] = got[s]
    BY Zenon, <1>1, <1>2, <1>4
  <1>8. applied' = applied
    BY Zenon, <1>2
  <1> QED
    BY Zenon, <1>5, <1>6, <1>7, <1>8, ToldKept

LEMMA ToldOfSend ==
    ASSUME TypeOK, TypeOK', ThreadInv, FlowInv', ToldInv, NEW t \in Thread, Send(t)
    PROVE  ToldInv'
PROOF
  <1>1. /\ req[t] \in Request
        /\ req[t].kind \in Silent => Return(t)
        /\ req[t].kind \notin Silent => /\ pc'[t] = "queued" /\ req' = req /\ got' = got
                                        /\ \A s \in Thread \ {t} : pc'[s] = pc[s]
    BY SendFacts
  <1>2. up' = Append(up, req[t]) /\ UNCHANGED <<applied, hand, down, outbox>>
    BY Zenon DEF Send, serverVars
  <1>3. /\ pc'[t] \in {"idle", "queued"} /\ (pc'[t] = "queued" => req'[t] = req[t])
        /\ \A s \in Thread \ {t} : pc'[s] = pc[s] /\ req'[s] = req[s] /\ got'[s] = got[s]
    <2>1. CASE req[t].kind \in Silent
      <3>1. Return(t) /\ ThreadTypes
        BY Zenon, <1>1, <2>1 DEF TypeOK
      <3>2. /\ pc'[t] = "idle"
            /\ \A s \in Thread \ {t} : pc'[s] = pc[s] /\ req'[s] = req[s] /\ got'[s] = got[s]
        BY Zenon, <3>1, ReturnFacts
      <3> QED
        BY <3>2
    <2>2. CASE req[t].kind \notin Silent
      BY Zenon, <1>1, <2>2
    <2> QED
      BY Zenon, <2>1, <2>2
  <1>4. pc'[t] # "got" /\ (pc'[t] \in Waiting \cup {"got"} => req'[t] = req[t])
    BY <1>3 DEF Waiting
  <1>5. \A k \in DOMAIN Flow' : Flow'[k].kind \in {"Done", "Fail"} =>
           \E i \in DOMAIN Flow : Flow'[k] = Flow[i]
    <2>1. /\ DOMAIN Flow' = 0 .. (Size + 1) /\ Flow'[Size + 1] = req[t]
          /\ \A k \in 0 .. Size : Flow'[k] = Flow[k]
      BY Zenon, <1>1, <1>2, SendFlow
    <2>2. DOMAIN Flow = 0 .. Size /\ Size \in Nat
      BY Zenon, FlowAt
    <2>3. \A k \in 0 .. (Size + 1) : k \in 0 .. Size \/ k = Size + 1
      BY <2>2
    <2>4. req[t].kind \notin {"Done", "Fail"}
      BY <1>1 DEF Request, Silent, Answered
    <2> QED
      BY Zenon, <2>1, <2>2, <2>3, <2>4
  <1>6. \A s \in Thread : pc'[s] \in Waiting \cup {"got"} => req'[s] = req[s]
    BY Zenon, <1>3, <1>4
  <1>7. \A s \in Thread : pc'[s] = "got" => pc[s] = "got" /\ got'[s] = got[s]
    BY Zenon, <1>3, <1>4
  <1>8. applied' = applied
    BY Zenon, <1>2
  <1> QED
    BY Zenon, <1>5, <1>6, <1>7, <1>8, ToldKept

LEMMA CommitOfEnter ==
    ASSUME TypeOK, ThreadInv, FlowInv', NumberInv, ToldInv, NEW t \in Thread, Enter(t)
    PROVE  NumberInv' /\ ToldInv'
PROOF
  <1>1. /\ pc[t] = "queued" /\ pc'[t] \in {"reading", "asleep"}
        /\ \A s \in Thread \ {t} : pc'[s] = pc[s]
    <2>1. /\ pc[t] = "queued" /\ (pc'[t] = "reading" \/ pc'[t] = "asleep")
          /\ \A s \in Thread \ {t} : pc'[s] = pc[s]
      BY EnterFacts
    <2> QED
      BY Zenon, <2>1
  <1>2. UNCHANGED <<applied, calls, writing, txns, up, hand, down, outbox, req, got>>
    BY Zenon DEF Enter, serverVars
  <1>3. Flow' = Flow
    BY Zenon, <1>2, SameFlow
  <1>4. pc[t] # "idle" /\ pc'[t] \notin {"got", "sending"}
    BY <1>1
  <1>5. NumberInv'
    <2>1. \A x \in txns' : \E y \in txns : x.by = y.by /\ x.n = y.n
      BY Zenon, <1>2
    <2>2. \A i \in DOMAIN up' : \E j \in DOMAIN up : up'[i] = up[j]
      BY Zenon, <1>2
    <2>3. \A s \in Thread : pc'[s] # "idle" => pc[s] # "idle" /\ req'[s] = req[s]
      BY Zenon, <1>1, <1>2, <1>4
    <2>4. \A s \in Thread : pc'[s] = "sending" => pc[s] = "sending"
      BY Zenon, <1>1, <1>4
    <2>5. UNCHANGED <<applied, calls, writing>>
      BY Zenon, <1>2
    <2> QED
      BY Zenon, <2>1, <2>2, <2>3, <2>4, <2>5, NumberKept
  <1>6. ToldInv'
    <2>1. \A k \in DOMAIN Flow' : Flow'[k].kind \in {"Done", "Fail"} =>
             \E i \in DOMAIN Flow : Flow'[k] = Flow[i]
      BY Zenon, <1>3
    <2>2. \A s \in Thread : pc'[s] \in Waiting \cup {"got"} => req'[s] = req[s]
      BY Zenon, <1>2
    <2>3. \A s \in Thread : pc'[s] = "got" => pc[s] = "got" /\ got'[s] = got[s]
      BY Zenon, <1>1, <1>2, <1>4
    <2>4. applied' = applied
      BY Zenon, <1>2
    <2> QED
      BY Zenon, <2>1, <2>2, <2>3, <2>4, ToldKept
  <1> QED
    BY Zenon, <1>5, <1>6

\* A response reaches its thread.
LEMMA CommitOfReceive ==
    ASSUME TypeOK, TypeOK', FrameInv, TicketInv, FlowInv, FlowInv', NumberInv, ToldInv,
           NEW t \in Thread, Receive(t)
    PROVE  NumberInv' /\ ToldInv'
PROOF
  <1>1. /\ pc[t] = "reading" /\ hand # None
        /\ got'[t] = hand /\ \A s \in Thread \ {t} : got'[s] = got[s]
        /\ MoreToRead(t) => pc' = pc
        /\ ~MoreToRead(t) =>
              /\ pc'[t] = "got"
              /\ \A s \in Thread \ {t} : pc'[s] = IF pc[s] = "asleep" THEN "queued" ELSE pc[s]
    BY ReceiveFacts
  <1>2. UNCHANGED <<applied, calls, writing, txns, up, down, outbox, req>> /\ hand' = None
    BY Zenon DEF Receive, serverVars
  <1>3. /\ Flow[0] = hand /\ 0 \in DOMAIN Flow /\ \E m : Through(Flow, Flow', m)
    BY Zenon, <1>1, <1>2, ReceiveFlow
  <1>4. \A s \in Thread \ {t} : /\ pc'[s] # "idle" => pc[s] # "idle"
                                /\ pc'[s] \in {"got", "sending"} => pc[s] = pc'[s]
    BY <1>1
  <1>5. pc[t] # "idle" /\ pc'[t] # "sending"
    BY <1>1
  <1>6. NumberInv'
    <2>1. \A x \in txns' : \E y \in txns : x.by = y.by /\ x.n = y.n
      BY Zenon, <1>2
    <2>2. \A i \in DOMAIN up' : \E j \in DOMAIN up : up'[i] = up[j]
      BY Zenon, <1>2
    <2>3. \A s \in Thread : pc'[s] # "idle" => pc[s] # "idle" /\ req'[s] = req[s]
      BY Zenon, <1>2, <1>4, <1>5
    <2>4. \A s \in Thread : pc'[s] = "sending" => pc[s] = "sending"
      BY Zenon, <1>4, <1>5
    <2>5. UNCHANGED <<applied, calls, writing>>
      BY Zenon, <1>2
    <2> QED
      BY Zenon, <2>1, <2>2, <2>3, <2>4, <2>5, NumberKept
  <1>7. ToldInv'
    <2>1. \A k \in DOMAIN Flow' : Flow'[k].kind \in {"Done", "Fail"} =>
             \E i \in DOMAIN Flow : Flow'[k] = Flow[i]
      BY Zenon, <1>3, PassedTold
    <2>2. \A s \in Thread : pc'[s] \in Waiting \cup {"got"} => req'[s] = req[s]
      BY Zenon, <1>2
    <2>3. \A s \in Thread : pc'[s] = "got" =>
             \/ pc[s] = "got" /\ got'[s] = got[s]
             \/ got'[s].kind \notin {"Done", "Fail"}
             \/ \E i \in DOMAIN Flow : Live(Flow[i]) /\ Flow[i].by = s /\ Flow[i] = got'[s]
      <3>1. hand.kind # "Closed" => Live(hand) /\ hand.by = t
        BY Zenon, <1>1, HandFacts
      <3>2. "Closed" \notin {"Done", "Fail"}
        OBVIOUS
      <3> QED
        BY Zenon, <1>1, <1>3, <1>4, <3>1, <3>2
    <2>4. applied' = applied
      BY Zenon, <1>2
    <2> QED
      BY Zenon, <2>1, <2>2, <2>3, <2>4, ToldKept
  <1> QED
    BY Zenon, <1>6, <1>7

\* Steps of the reader, of the wire and of the watcher.
LEMMA CommitOfWire ==
    ASSUME TypeOK, TypeOK', FrameInv, FlowInv', NumberInv, ToldInv,
           Read \/ ReadEnd \/ Write \/ Notify \/ Disconnect
    PROVE  NumberInv' /\ ToldInv'
PROOF
  <1>1. UNCHANGED <<applied, txns, calls, writing, pc, req, got>> /\ (up' = up \/ up' = <<>>)
    BY Zenon DEF Read, ReadEnd, Write, Notify, Disconnect, clientVars, serverVars
  <1>2. \E m : Through(Flow, Flow', m)
    <2>1. CASE Read \/ ReadEnd
      BY Zenon, <2>1, ReadFlow, ReadEndFlow DEF Passed
    <2>2. CASE Notify
      <3>1. down' = Append(down, Notice) /\ UNCHANGED <<hand, outbox, up>>
        BY Zenon, <2>2 DEF Notify
      <3> QED
        BY Zenon, <3>1, NotifyFlow DEF Passed
    <2>3. CASE Write
      BY Zenon, <2>3, WriteFlow, CutThrough, SameFlowPassed DEF Passed
    <2>4. CASE Disconnect
      <3>1. PICK e \in 0 .. Len(down) : down' = SubSeq(down, 1, e)
        BY Zenon, <2>4 DEF Disconnect
      <3>2. up' = <<>> /\ outbox' = <<>> /\ hand' = hand
        BY Zenon, <2>4 DEF Disconnect
      <3>3. Cut(e)
        BY Zenon, <3>1, <3>2, DisconnectFlow
      <3> QED
        BY Zenon, <3>3, CutThrough
    <2> QED
      BY Zenon, <2>1, <2>2, <2>3, <2>4
  <1>3. NumberInv'
    <2>1. \A x \in txns' : \E y \in txns : x.by = y.by /\ x.n = y.n
      BY Zenon, <1>1
    <2>2. \A i \in DOMAIN up' : \E j \in DOMAIN up : up'[i] = up[j]
      <3>1. DOMAIN <<>> = {}
        OBVIOUS
      <3> QED
        BY Zenon, <1>1, <3>1
    <2>3. \A s \in Thread : pc'[s] # "idle" => pc[s] # "idle" /\ req'[s] = req[s]
      BY Zenon, <1>1
    <2>4. \A s \in Thread : pc'[s] = "sending" => pc[s] = "sending"
      BY Zenon, <1>1
    <2>5. UNCHANGED <<applied, calls, writing>>
      BY Zenon, <1>1
    <2> QED
      BY Zenon, <2>1, <2>2, <2>3, <2>4, <2>5, NumberKept
  <1>4. ToldInv'
    <2>1. \A k \in DOMAIN Flow' : Flow'[k].kind \in {"Done", "Fail"} =>
             \E i \in DOMAIN Flow : Flow'[k] = Flow[i]
      BY Zenon, <1>2, PassedTold
    <2> QED
      BY Zenon, <1>1, <2>1, ToldKept
  <1> QED
    BY Zenon, <1>3, <1>4

LEMMA ToldOfSilent ==
    ASSUME TypeOK, TypeOK', FlowInv', ToldInv, Accept \/ RefuseSilently
    PROVE  ToldInv'
PROOF
  <1>1. /\ UNCHANGED <<applied, pc, req, got, hand, down, outbox>>
        /\ outbox = <<>> /\ up # <<>> /\ Head(up).kind \in Silent /\ up' = Tail(up)
    BY Zenon DEF Accept, RefuseSilently, CanServe, Incoming, clientVars
  <1>2. \E m : Through(Flow, Flow', m)
    BY Zenon, <1>1, SilentFlow DEF Passed
  <1>3. \A k \in DOMAIN Flow' : Flow'[k].kind \in {"Done", "Fail"} =>
           \E i \in DOMAIN Flow : Flow'[k] = Flow[i]
    BY Zenon, <1>2, PassedTold
  <1> QED
    BY Zenon, <1>1, <1>3, ToldKept

LEMMA CommitStep ==
    ASSUME TypeOK, FrameInv, ThreadInv, TicketInv, FlowInv, CommitInv, TypeOK', FlowInv', Next
    PROVE  CommitInv'
PROOF
  <1>1. NumberInv /\ LostInv /\ ToldInv
    BY Zenon DEF CommitInv
  <1>2. LostInv'
    BY Zenon, <1>1, LostKept
  <1>3. ASSUME NEW t \in Thread, Call(t) \/ ThreadStep(t) PROVE NumberInv' /\ ToldInv'
    BY Zenon, <1>1, <1>3, NumberOfCall, ToldOfCall, NumberOfSend, ToldOfSend, CommitOfReturn,
       CommitOfEnter, CommitOfReceive DEF ThreadStep
  <1>4. ASSUME ReaderStep \/ Write \/ Notify \/ Disconnect PROVE NumberInv' /\ ToldInv'
    BY Zenon, <1>1, <1>4, CommitOfWire DEF ReaderStep
  <1>5. ASSUME Accept \/ RefuseSilently PROVE NumberInv' /\ ToldInv'
    BY Zenon, <1>1, <1>5, NumberOfSilent, ToldOfSilent
  <1>6. ASSUME Serve \/ ServeError PROVE NumberInv' /\ ToldInv'
    BY Zenon, <1>1, <1>6, NumberOfServe, ToldOfServe
  <1> QED
    BY Zenon, <1>2, <1>3, <1>4, <1>5, <1>6 DEF Next, ServerStep, CommitInv
-----------------------------------------------------------------------------
(* The watch. *)

\* Threads only leave their calls, except by starting one.
LEMMA CallsKept ==
    ASSUME TypeOK, ThreadInv, NEW t \in Thread, ThreadStep(t)
    PROVE  \A s \in Thread : pc'[s] # "idle" => pc[s] # "idle" /\ req'[s] = req[s]
PROOF
  <1>1. ASSUME Return(t) PROVE \A s \in Thread : pc'[s] # "idle" => pc[s] # "idle" /\ req'[s] = req[s]
    <2>1. ThreadTypes
      BY Zenon DEF TypeOK
    <2> QED
      BY Zenon, <1>1, <2>1, ReturnFacts
  <1>2. CASE Send(t)
    <2>1. CASE req[t].kind \in Silent
      BY Zenon, <1>1, <1>2, <2>1 DEF Send
    <2>2. CASE req[t].kind \notin Silent
      <3>1. pc[t] = "sending" /\ req' = req /\ \A s \in Thread \ {t} : pc'[s] = pc[s]
        BY <1>2, <2>2, SendFacts
      <3>2. pc[t] # "idle"
        BY <3>1
      <3> QED
        BY Zenon, <3>1, <3>2
    <2> QED
      BY Zenon, <2>1, <2>2
  <1>3. CASE SendFails(t) \/ Handle(t)
    BY Zenon, <1>1, <1>3 DEF SendFails, Handle
  <1>4. CASE Enter(t)
    <2>1. pc[t] = "queued" /\ \A s \in Thread \ {t} : pc'[s] = pc[s]
      BY <1>4, EnterFacts
    <2>2. pc[t] # "idle" /\ req' = req
      BY <1>4, <2>1 DEF Enter
    <2> QED
      BY Zenon, <2>1, <2>2
  <1>5. CASE Receive(t)
    <2>1. /\ pc[t] = "reading"
          /\ \A s \in Thread \ {t} : pc'[s] = pc[s] \/ pc[s] = "asleep"
      BY <1>5, ReceiveFacts
    <2>2. pc[t] # "idle" /\ req' = req /\ \A s \in Thread : pc[s] = "asleep" => pc[s] # "idle"
      BY <1>5, <2>1 DEF Receive
    <2> QED
      BY Zenon, <2>1, <2>2
  <1> QED
    BY Zenon, <1>2, <1>3, <1>4, <1>5 DEF ThreadStep

\* Who starts a watch is the only user.
LEMMA AloneStep ==
    ASSUME TypeOK, ThreadInv, Alone, Next
    PROVE  Alone'
PROOF
  <1>1. ASSUME \A s \in Thread : pc'[s] # "idle" => pc[s] # "idle" /\ req'[s] = req[s]
        PROVE  Alone'
    BY Zenon, <1>1 DEF Alone
  <1>2. CASE UNCHANGED clientVars
    <2>1. pc' = pc /\ req' = req
      BY Zenon, <1>2 DEF clientVars
    <2> QED
      BY Zenon, <1>1, <2>1
  <1>3. ASSUME NEW t \in Thread, ThreadStep(t) PROVE Alone'
    BY Zenon, <1>1, <1>3, CallsKept
  <1>4. ASSUME NEW t \in Thread, Call(t) PROVE Alone'
    <2>1. /\ req'[t].kind = "Watch" => \A s \in Thread : pc[s] = "idle"
          /\ \A s \in Thread \ {t} : pc'[s] = pc[s] /\ req'[s] = req[s]
      BY <1>4, CallFacts
    <2>2. \A w \in Thread : pc[w] # "idle" => req[w].kind # "Watch"
      <3>1. \A w \in Thread : req[w] = None \/ req[w].kind # "Watch"
        BY Zenon, <1>4 DEF Call, Shared
      <3> QED
        BY Zenon, <3>1 DEF ThreadInv
    <2> QED
      BY Zenon, <2>1, <2>2 DEF Alone
  <1> QED
    BY Zenon, <1>2, <1>3, <1>4
       DEF Next, ReaderStep, ServerStep, Read, ReadEnd, Accept, RefuseSilently, Serve, ServeError,
           Answer, Write, Notify, Disconnect

\* A thread that is sending, or one that waits, keeps others from starting a watch.
LEMMA NoOther ==
    ASSUME Alone, NEW w \in Thread, pc[w] # "idle", req[w].kind = "Watch", NEW t \in Thread,
           pc[t] # "idle"
    PROVE  t = w
PROOF
  BY Zenon DEF Alone

LEMMA NothingBehindStep ==
    ASSUME TypeOK, TypeOK', ThreadInv, FlowInv, Alone, NothingBehind, Next
    PROVE  NothingBehind'
PROOF
  <1>1. CASE up' = up
    BY Zenon, <1>1 DEF NothingBehind
  <1>2. CASE up' = <<>>
    <2>1. DOMAIN <<>> = {}
      OBVIOUS
    <2> QED
      BY Zenon, <1>2, <2>1 DEF NothingBehind
  <1>3. CASE CanServe /\ up' = Tail(up)
    <2> SUFFICES ASSUME NEW i \in DOMAIN up', up'[i].kind = "Watch" PROVE i = Len(up')
      BY Zenon DEF NothingBehind
    <2>1. i + 1 \in DOMAIN up /\ up'[i] = up[i + 1] /\ (i = Len(up') <=> i + 1 = Len(up))
      BY <1>3, TakenFirst
    <2> QED
      BY Zenon, <2>1 DEF NothingBehind
  <1>4. ASSUME NEW t \in Thread, Send(t) PROVE NothingBehind'
    <2>1. req[t] \in Request /\ pc[t] = "sending" /\ up' = Append(up, req[t]) /\ up \in Seq(Request)
      <3>1. req[t] \in Request /\ pc[t] = "sending"
        BY <1>4, SendFacts
      <3> QED
        BY Zenon, <1>4, <3>1 DEF Send, TypeOK, WireTypes
    <2>2. /\ Len(up') = Len(up) + 1 /\ Len(up) \in Nat /\ DOMAIN up = 1 .. Len(up)
          /\ DOMAIN up' = 1 .. Len(up') /\ \A k \in 1 .. Len(up) : up'[k] = up[k]
      BY <2>1, AppendFacts
    <2>3. ASSUME NEW i \in DOMAIN up, up[i].kind = "Watch" PROVE FALSE
      <3>1. up[i].by \in Thread /\ pc[up[i].by] \in Waiting /\ req[up[i].by].kind = "Watch"
        <4>1. PICK k \in DOMAIN Flow : Flow[k] = up[i]
          <5>1. /\ DOMAIN Flow = 0 .. Size /\ Size \in Nat /\ Len(down) \in Nat /\ Len(outbox) \in Nat
                /\ \A k \in 1 .. Len(up) : Flow[Len(down) + Len(outbox) + k] = up[k]
            BY Zenon, FlowAt
          <5>2. Len(down) + Len(outbox) + i \in 0 .. Size
            BY <2>2, <5>1 DEF Size
          <5> QED
            BY Zenon, <2>2, <5>1, <5>2
        <4>2. "Watch" \in Answered
          BY DEF Answered
        <4>3. Live(Flow[k]) /\ Flow[k].kind \in Answered
          BY Zenon, <2>3, <4>1, <4>2 DEF Live
        <4> QED
          BY Zenon, <2>3, <4>1, <4>3 DEF FlowInv, Owned
      <3>2. pc[up[i].by] # "idle" /\ pc[t] # "idle" /\ pc[up[i].by] # pc[t]
        BY <2>1, <3>1 DEF Waiting
      <3> QED
        BY Zenon, <3>1, <3>2, NoOther
    <2> SUFFICES ASSUME NEW i \in DOMAIN up', up'[i].kind = "Watch" PROVE i = Len(up')
      BY Zenon DEF NothingBehind
    <2>4. i \in 1 .. Len(up) \/ i = Len(up')
      BY <2>2
    <2> QED
      BY Zenon, <2>2, <2>3, <2>4
  <1> QED
    BY Zenon, <1>1, <1>2, <1>3, <1>4
       DEF Next, ThreadStep, ReaderStep, ServerStep, Call, SendFails, Enter, Receive, Handle, Read,
           ReadEnd, Accept, RefuseSilently, Serve, ServeError, Answer, Write, Notify, Disconnect

\* Where the frames in the pipe come from.
LEMMA DownFrom ==
    ASSUME TypeOK, TypeOK', FrameInv, Next
    PROVE  /\ \A i \in DOMAIN down' :
                 \/ \E j \in DOMAIN down : down'[i] = down[j]
                 \/ Notify /\ down'[i].kind = "WatchNotify"
                 \/ Write /\ down'[i].kind \in Reply /\ (alive' => down'[i].kind # "FatalError")
           /\ \/ hand' = hand \/ hand' = None \/ ~alive'
              \/ Read /\ \E j \in DOMAIN down : hand' = down[j]
           /\ alive' => alive
PROOF
  <1> DEFINE D == \A i \in DOMAIN down' :
                 \/ \E j \in DOMAIN down : down'[i] = down[j]
                 \/ Notify /\ down'[i].kind = "WatchNotify"
                 \/ Write /\ down'[i].kind \in Reply /\ (alive' => down'[i].kind # "FatalError")
             H == \/ hand' = hand \/ hand' = None \/ ~alive'
                  \/ Read /\ \E j \in DOMAIN down : hand' = down[j]
  <1>1. down \in Seq(Frame) /\ outbox \in Seq(Frame)
    BY Zenon DEF TypeOK, WireTypes, ServerTypes
  <1>2. CASE down' = down /\ (hand' = hand \/ hand' = None) /\ alive' = alive
    BY Zenon, <1>2
  <1>3. CASE ReadEnd
    BY Zenon, <1>3 DEF ReadEnd, serverVars
  <1>4. CASE Read
    <2>1. /\ down # <<>> /\ down' = Tail(down) /\ alive' = alive
          /\ hand' = hand \/ hand' = Head(down)
      BY Zenon, <1>4 DEF Read, serverVars
    <2>2. /\ Head(down) = down[1] /\ Len(down') = Len(down) - 1 /\ Len(down) > 0 /\ Len(down) \in Nat
          /\ \A k \in 1 .. Len(down') : down'[k] = down[k + 1]
      BY Zenon, <1>1, <2>1, TailFacts
    <2>3. DOMAIN down = 1 .. Len(down) /\ DOMAIN down' = 1 .. Len(down')
      BY <1>1 DEF TypeOK, WireTypes
    <2>4. 1 \in DOMAIN down /\ \A k \in DOMAIN down' : k + 1 \in DOMAIN down
      BY <2>2, <2>3
    <2> QED
      BY Zenon, <1>4, <2>1, <2>2, <2>3, <2>4
  <1>5. CASE Write
    <2>1. /\ Head(outbox) = outbox[1] /\ outbox # <<>> /\ Len(down') = Len(down) + 1
          /\ down'[Len(down) + 1] = outbox[1] /\ \A k \in 1 .. Len(down) : down'[k] = down[k]
      BY Zenon, <1>5, WriteFlow
    <2>2. alive /\ alive' = (outbox[1].kind # "FatalError") /\ hand' = hand
      BY Zenon, <1>5, <2>1 DEF Write
    <2>3. /\ DOMAIN down = 1 .. Len(down) /\ DOMAIN down' = 1 .. Len(down')
          /\ Len(down) \in Nat /\ 1 \in DOMAIN outbox
      BY <1>1, <2>1 DEF TypeOK, WireTypes
    <2>4. \A k \in DOMAIN down' : k \in DOMAIN down \/ k = Len(down) + 1
      BY <2>1, <2>3
    <2>5. outbox[1].kind \in Reply
      BY Zenon, <2>3 DEF FrameInv
    <2> QED
      BY Zenon, <1>5, <2>1, <2>2, <2>3, <2>4, <2>5
  <1>6. CASE Notify
    <2>1. down' = Append(down, Notice) /\ hand' = hand /\ alive' = alive
      BY Zenon, <1>6 DEF Notify
    <2>2. Notice \in Frame /\ Notice.kind = "WatchNotify"
      BY DEF Notice, Frame
    <2>3. /\ DOMAIN down = 1 .. Len(down) /\ Len(down) \in Nat /\ down'[Len(down) + 1] = Notice
          /\ \A k \in 1 .. Len(down) : down'[k] = down[k]
          /\ DOMAIN down' = 1 .. Len(down) + 1
      BY <1>1, <2>1, <2>2, AppendFacts
    <2>4. \A k \in DOMAIN down' : k \in DOMAIN down \/ k = Len(down) + 1
      BY <2>3
    <2> QED
      BY Zenon, <1>6, <2>1, <2>2, <2>3, <2>4
  <1>7. CASE Disconnect
    <2>1. PICK e \in 0 .. Len(down) : down' = SubSeq(down, 1, e)
      BY Zenon, <1>7 DEF Disconnect
    <2>2. up' = <<>> /\ outbox' = <<>> /\ hand' = hand /\ alive' = FALSE
      BY Zenon, <1>7 DEF Disconnect
    <2>3. Len(down') = e /\ \A k \in 1 .. e : down'[k] = down[k]
      BY Zenon, <2>1, <2>2, DisconnectFlow
    <2>4. DOMAIN down' = 1 .. Len(down') /\ DOMAIN down = 1 .. Len(down) /\ Len(down) \in Nat
      BY <1>1 DEF TypeOK, WireTypes
    <2>5. \A k \in DOMAIN down' : k \in DOMAIN down /\ k \in 1 .. e
      BY <2>1, <2>3, <2>4
    <2> QED
      BY Zenon, <2>2, <2>3, <2>5
  <1>8. ASSUME NEW t \in Thread, Call(t) \/ ThreadStep(t)
        PROVE  down' = down /\ (hand' = hand \/ hand' = None) /\ alive' = alive
    BY Zenon, <1>8 DEF Call, ThreadStep, Send, SendFails, Enter, Receive, Handle, serverVars
  <1>9. ASSUME Accept \/ RefuseSilently \/ Serve \/ ServeError
        PROVE  down' = down /\ hand' = hand /\ alive' = alive
    BY Zenon, <1>9 DEF Accept, RefuseSilently, Serve, ServeError, Answer
  <1> QED
    BY Zenon, <1>2, <1>3, <1>4, <1>5, <1>6, <1>7, <1>8, <1>9 DEF Next, ReaderStep, ServerStep

LEMMA NoFatalStep ==
    ASSUME TypeOK, TypeOK', FrameInv, NoFatal, Next
    PROVE  NoFatal'
PROOF
  <1> SUFFICES ASSUME alive' PROVE /\ hand' # None => hand'.kind # "FatalError"
                                  /\ \A i \in DOMAIN down' : down'[i].kind # "FatalError"
    BY Zenon DEF NoFatal
  <1>1. /\ alive /\ (hand # None => hand.kind # "FatalError")
        /\ \A i \in DOMAIN down : down[i].kind # "FatalError"
    BY Zenon, DownFrom DEF NoFatal
  <1>2. hand' # None => hand'.kind # "FatalError"
    BY Zenon, <1>1, DownFrom
  <1>3. ASSUME NEW i \in DOMAIN down' PROVE down'[i].kind # "FatalError"
    <2>1. \/ \E j \in DOMAIN down : down'[i] = down[j]
          \/ down'[i].kind = "WatchNotify"
          \/ down'[i].kind # "FatalError"
      BY Zenon, DownFrom
    <2>2. "WatchNotify" # "FatalError"
      OBVIOUS
    <2> QED
      BY Zenon, <1>1, <2>1, <2>2
  <1> QED
    BY Zenon, <1>2, <1>3

\* Nothing is registered before the watch is known, so nothing is notified.
LEMMA QuietStep ==
    ASSUME TypeOK, TypeOK', FrameInv, Quiet, Known, Next
    PROVE  Quiet'
PROOF
  <1>1. fun => fun'
    BY Zenon DEF Next, ThreadStep, ReaderStep, ServerStep, Call, Send, SendFails, Enter, Receive,
       Handle, Read, ReadEnd, Accept, RefuseSilently, Serve, ServeError, Answer, Write, Notify,
       Disconnect, clientVars
  <1>2. watching => watching'
    BY Zenon DEF Next, ThreadStep, ReaderStep, ServerStep, Call, Send, SendFails, Enter, Receive,
       Handle, Read, ReadEnd, Accept, RefuseSilently, Serve, ServeError, Answer, Write, Notify,
       Disconnect, serverVars
  <1>3. watched' => watched \/ (watching /\ CanServe)
    <2>1. CASE Accept
      BY Zenon, <2>1 DEF Accept
    <2>2. CASE Notify
      BY Zenon, <2>2 DEF Notify
    <2> QED
      BY Zenon, <2>1, <2>2 DEF Next, ThreadStep, ReaderStep, ServerStep, Call, Send, SendFails, Enter,
         Receive, Handle, Read, ReadEnd, RefuseSilently, Serve, ServeError, Write, Disconnect, serverVars
  <1>4. watched' => watching'
    BY Zenon, <1>2, <1>3 DEF Quiet
  <1>5. ASSUME ~fun' PROVE ~watched' /\ \A i \in DOMAIN down' : down'[i].kind # "WatchNotify"
    <2>1. ~fun /\ ~watched /\ \A i \in DOMAIN down : down[i].kind # "WatchNotify"
      BY Zenon, <1>1, <1>5 DEF Quiet
    <2>2. ~(watching /\ CanServe)
      BY Zenon, <2>1 DEF Known, CanServe
    <2>3. ~Notify
      BY Zenon, <2>1 DEF Notify
    <2>4. "WatchNotify" \notin Reply
      BY DEF Reply
    <2> QED
      BY Zenon, <1>3, <2>1, <2>2, <2>3, <2>4, DownFrom
  <1>6. unheard' = 0
    <2>1. CASE Read
      <3>1. Head(down).kind = "WatchNotify" => fun
        <4>1. down \in Seq(Frame) /\ down # <<>>
          BY Zenon, <2>1 DEF Read, TypeOK, WireTypes
        <4>2. 1 \in DOMAIN down /\ Head(down) = down[1]
          BY <4>1
        <4> QED
          BY Zenon, <4>2 DEF Quiet
      <3> QED
        BY Zenon, <2>1, <3>1 DEF Read, Quiet
    <2>2. CASE unheard' = unheard
      BY Zenon, <2>2 DEF Quiet
    <2> QED
      BY Zenon, <2>1, <2>2 DEF Next, ThreadStep, ReaderStep, ServerStep, Call, Send, SendFails, Enter,
         Receive, Handle, ReadEnd, Accept, RefuseSilently, Serve, ServeError, Answer, Write, Notify,
         Disconnect
  <1> QED
    BY Zenon, <1>4, <1>5, <1>6 DEF Quiet

LEMMA EmptySeq ==
    ASSUME NEW S, NEW s \in Seq(S), Len(s) = 0
    PROVE  s = <<>>
PROOF
  OBVIOUS

LEMMA StartingKept ==
    ASSUME NEW w \in Thread, Starting(w), UNCHANGED <<pc, req, got>>, \E m : Through(Flow, Flow', m)
    PROVE  Starting(w)'
PROOF
  <1>1. CASE pc[w] = "got" /\ got[w].kind = "Done"
    BY Zenon, <1>1 DEF Starting
  <1>2. CASE /\ pc[w] \in Waiting
             /\ \A k \in DOMAIN Flow : Live(Flow[k]) /\ Flow[k].by = w =>
                   Flow[k].kind \in {"Done", "FatalError"}
    <2>1. PICK m : Through(Flow, Flow', m)
      BY Zenon
    <2>2. ASSUME NEW k \in DOMAIN Flow', Live(Flow'[k]), Flow'[k].by = w
          PROVE  Flow'[k].kind \in {"Done", "FatalError"}
      <3>1. m[k] \in DOMAIN Flow /\ Flow'[k] = Flow[m[k]]
        BY Zenon, <2>1, <2>2 DEF Through
      <3>2. Live(Flow[m[k]]) /\ Flow[m[k]].by = w
        BY Zenon, <2>2, <3>1
      <3>3. Flow[m[k]].kind \in {"Done", "FatalError"}
        BY Zenon, <1>2, <3>1, <3>2
      <3> QED
        BY Zenon, <3>1, <3>3
    <2> QED
      BY Zenon, <1>2, <2>2 DEF Starting
  <1> QED
    BY Zenon, <1>1, <1>2 DEF Starting

\* The answer to the watch goes to the only thread there is.
LEMMA KnownOfReceive ==
    ASSUME TypeOK, TypeOK', FrameInv, TicketInv, FlowInv, NoFatal, alive,
           NEW w \in Thread, Starting(w), Receive(w)
    PROVE  Starting(w)'
PROOF
  <1>1. pc[w] = "reading" /\ hand # None /\ got'[w] = hand /\ (~MoreToRead(w) => pc'[w] = "got")
    BY ReceiveFacts
  <1>2. req' = req /\ hand' = None /\ UNCHANGED <<down, outbox, up>>
    BY Zenon DEF Receive, serverVars
  <1>3. ~MoreToRead(w)
    <2>1. req[w].kind = "Watch"
      BY Zenon DEF Starting
    <2> QED
      BY <2>1 DEF MoreToRead
  <1>4. Flow[0] = hand /\ 0 \in DOMAIN Flow
    BY Zenon, <1>1, <1>2, ReceiveFlow
  <1>5. Live(hand) /\ hand.by = w /\ hand.kind # "FatalError"
    BY Zenon, <1>1, HandFacts DEF FrameInv, NoFatal
  <1>6. hand.kind = "Done"
    <2>1. pc[w] # "got"
      BY <1>1
    <2> QED
      BY Zenon, <1>4, <1>5, <2>1 DEF Starting
  <1>7. pc'[w] # "idle"
    BY <1>1, <1>3
  <1> QED
    BY Zenon, <1>1, <1>2, <1>3, <1>6, <1>7 DEF Starting

\* The server turns the watch on.
LEMMA KnownOfServe ==
    ASSUME TypeOK, TypeOK', FlowInv, NothingBehind, Serve, Incoming.kind = "Watch"
    PROVE  up' = <<>> /\ \E w \in Thread : Starting(w)'
PROOF
  <1>1. PICK kind \in Expected(Incoming.kind) \ {"DirtyDir"} : Answer(Incoming, kind)
    BY Zenon DEF Serve
  <1>2. kind = "Done" /\ kind \in Reply \ {"DirtyDir"}
    BY <1>1 DEF Expected, Reply
  <1>3. CanServe /\ Incoming.kind \in Answered
    BY Zenon DEF Serve
  <1>4. /\ Incoming = up[1] /\ Len(up) \in Nat /\ Len(up) > 0 /\ Len(Tail(up)) = Len(up) - 1
        /\ up \in Seq(Request) /\ Tail(up) \in Seq(Request)
    BY Zenon, <1>3, IncomingFacts DEF TypeOK, WireTypes
  <1>5. up' = <<>>
    <2>1. 1 \in DOMAIN up
      BY <1>4
    <2>2. 1 = Len(up)
      BY Zenon, <1>4, <2>1 DEF NothingBehind
    <2>3. Len(Tail(up)) = 0
      <3>1. 1 - 1 = 0
        OBVIOUS
      <3> QED
        BY Zenon, <1>4, <2>2, <3>1
    <2>4. Tail(up) = <<>>
      BY Zenon, <1>4, <2>3, EmptySeq
    <2> QED
      BY Zenon, <1>1, <2>4 DEF Answer
  <1>6. /\ Incoming.by \in Thread /\ pc[Incoming.by] \in Waiting /\ req[Incoming.by] = Incoming
        /\ \A i \in DOMAIN Flow : i # Len(down) + 1 /\ Live(Flow[i]) /\ Flow[i].by = Incoming.by =>
              Flow[i].kind = "DirtyDir" /\ Incoming.kind = "ForDirtyDir"
    BY Zenon, <1>3, ServedAlone
  <1>7. PICK w \in Thread : w = Incoming.by
    BY Zenon, <1>6
  <1>8. pc' = pc /\ req' = req
    BY Zenon, <1>1 DEF Answer, clientVars
  <1>9. pc[w] \in Waiting /\ pc[w] # "idle" /\ req[w].kind = "Watch"
    BY <1>6, <1>7 DEF Waiting
  <1>10. ASSUME NEW j \in DOMAIN Flow', Live(Flow'[j]), Flow'[j].by = w
         PROVE  Flow'[j].kind \in {"Done", "FatalError"}
    <2>1. Incoming.kind # "ForDirtyDir"
      OBVIOUS
    <2>2. \/ \E i \in DOMAIN Flow : i # Len(down) + 1 /\ Flow'[j] = Flow[i]
          \/ Flow'[j] = Due(kind, Incoming)
      BY Zenon, <1>1, <1>2, <1>3, <2>1, AnswerFlow
    <2>3. Flow'[j] = Due(kind, Incoming)
      BY Zenon, <1>6, <1>7, <1>10, <2>1, <2>2
    <2>4. Due(kind, Incoming).kind = IF deferred THEN "FatalError" ELSE kind
      BY Zenon, <1>1, <1>2, <1>3, AnswerFacts
    <2> QED
      BY Zenon, <1>2, <2>3, <2>4
  <1>11. Starting(w)'
    BY Zenon, <1>8, <1>9, <1>10 DEF Starting
  <1> QED
    BY Zenon, <1>5, <1>11

LEMMA KnownStep ==
    ASSUME TypeOK, TypeOK', FrameInv, ThreadInv, TicketInv, FlowInv, WatchInv, Next
    PROVE  Known'
PROOF
  <1>1. Alone /\ NothingBehind /\ NoFatal /\ Known
    BY Zenon DEF WatchInv
  <1> SUFFICES ASSUME watching', ~fun', alive' PROVE up' = <<>> /\ \E w \in Thread : Starting(w)'
    BY Zenon DEF Known
  <1>2. alive
    BY Zenon, DownFrom
  <1>3. ASSUME Serve, Incoming.kind = "Watch" PROVE up' = <<>> /\ \E w \in Thread : Starting(w)'
    BY Zenon, <1>1, <1>3, KnownOfServe
  <1>4. watching \/ (Serve /\ Incoming.kind = "Watch")
    BY Zenon DEF Next, ThreadStep, ReaderStep, ServerStep, Call, Send, SendFails, Enter, Receive,
       Handle, Read, ReadEnd, Accept, RefuseSilently, Serve, ServeError, Write, Notify,
       Disconnect, serverVars
  <1>5. SUFFICES ASSUME watching PROVE up' = <<>> /\ \E w \in Thread : Starting(w)'
    BY Zenon, <1>3, <1>4
  <1>6. ~fun
    BY Zenon DEF Next, ThreadStep, ReaderStep, ServerStep, Call, Send, SendFails, Enter, Receive,
       Handle, Read, ReadEnd, Accept, RefuseSilently, Serve, ServeError, Answer, Write, Notify,
       Disconnect, clientVars
  <1>7. up = <<>>
    BY Zenon, <1>1, <1>2, <1>5, <1>6 DEF Known
  <1>8. PICK w \in Thread : Starting(w)
    BY Zenon, <1>1, <1>2, <1>5, <1>6 DEF Known
  <1>9. /\ pc[w] # "idle" /\ req[w].kind = "Watch" /\ req[w] # None
        /\ pc[w] # "sending" /\ (pc[w] = "got" => got[w].kind = "Done")
    <2>1. pc[w] # "idle" /\ req[w].kind = "Watch" /\ req[w] # None
      BY Zenon, <1>8 DEF Starting, ThreadInv
    <2>2. pc[w] \in Waiting \/ (pc[w] = "got" /\ got[w].kind = "Done")
      BY Zenon, <1>8 DEF Starting
    <2>3. "sending" \notin Waiting /\ "got" \notin Waiting
      BY DEF Waiting
    <2> QED
      BY Zenon, <2>1, <2>2, <2>3
  <1>10. ASSUME NEW t \in Thread, Call(t) \/ ThreadStep(t)
         PROVE  up' = <<>> /\ \E v \in Thread : Starting(v)'
    <2>1. ~Call(t)
      BY Zenon, <1>9 DEF Call, Shared
    <2>2. pc[t] # "idle"
      <3>1. \A p \in {"sending", "queued", "reading", "got"} : p # "idle"
        OBVIOUS
      <3> QED
        BY Zenon, <1>10, <2>1, <3>1 DEF ThreadStep, Send, SendFails, Enter, Receive, Handle
    <2>3. t = w
      BY Zenon, <1>1, <1>9, <2>2, NoOther
    <2>4. ~Send(t) /\ ~SendFails(t)
      BY Zenon, <1>2, <1>9, <2>3 DEF Send, SendFails
    <2>5. ~Handle(t)
      BY Zenon, <1>9, <2>3 DEF Handle
    <2>6. CASE Enter(t)
      <3>1. /\ pc[t] = "queued" /\ (pc'[t] = "reading" \/ pc'[t] = "asleep")
        BY <2>6, EnterFacts
      <3>2. UNCHANGED <<req, up, hand, down, outbox>>
        BY Zenon, <2>6 DEF Enter, serverVars
      <3>3. Flow' = Flow
        BY Zenon, <3>2, SameFlow
      <3>4. pc[w] # "got" /\ pc'[w] \in Waiting /\ pc'[w] # "idle"
        BY <2>3, <3>1 DEF Waiting
      <3>5. Starting(w)'
        BY Zenon, <1>8, <3>2, <3>3, <3>4 DEF Starting
      <3> QED
        BY Zenon, <1>7, <3>2, <3>5
    <2>7. CASE Receive(t)
      <3>1. Starting(w)'
        BY Zenon, <1>1, <1>2, <1>8, <2>3, <2>7, KnownOfReceive
      <3>2. up' = up
        BY Zenon, <2>7 DEF Receive
      <3> QED
        BY Zenon, <1>7, <3>1, <3>2
    <2> QED
      BY Zenon, <1>10, <2>1, <2>4, <2>5, <2>6, <2>7 DEF ThreadStep
  <1>11. ASSUME UNCHANGED <<pc, req, got, up>>, \E m : Through(Flow, Flow', m)
         PROVE  up' = <<>> /\ \E v \in Thread : Starting(v)'
    <2>1. Starting(w)'
      BY Zenon, <1>8, <1>11, StartingKept
    <2> QED
      BY Zenon, <1>7, <1>11, <2>1
  <1>12. ASSUME Read \/ Notify PROVE up' = <<>> /\ \E v \in Thread : Starting(v)'
    <2>1. UNCHANGED <<pc, req, got, up>>
      BY Zenon, <1>12 DEF Read, Notify, clientVars
    <2>2. Notify => down' = Append(down, Notice) /\ UNCHANGED <<hand, outbox, up>>
      BY Zenon DEF Notify
    <2>3. Passed
      BY Zenon, <1>12, <2>2, ReadFlow, NotifyFlow
    <2> QED
      BY Zenon, <1>11, <2>1, <2>3 DEF Passed
  <1>13. ASSUME Write PROVE up' = <<>> /\ \E v \in Thread : Starting(v)'
    <2>1. UNCHANGED <<pc, req, got, up>> /\ Head(outbox).kind # "FatalError"
      BY Zenon, <1>13 DEF Write, clientVars
    <2>2. Flow' = Flow
      BY Zenon, <1>13, <2>1, WriteFlow
    <2>3. Passed
      BY Zenon, <2>2, SameFlowPassed
    <2> QED
      BY Zenon, <1>11, <2>1, <2>3 DEF Passed
  <1>14. ~ReadEnd /\ ~Disconnect
    BY Zenon, <1>2 DEF ReadEnd, Disconnect
  <1>15. ~Accept /\ ~RefuseSilently /\ ~Serve /\ ~ServeError
    BY Zenon, <1>7 DEF Accept, RefuseSilently, Serve, ServeError, CanServe
  <1> QED
    BY Zenon, <1>10, <1>12, <1>13, <1>14, <1>15 DEF Next, ReaderStep, ServerStep

LEMMA WatchStep ==
    ASSUME TypeOK, FrameInv, ThreadInv, TicketInv, FlowInv, WatchInv, TypeOK', Next
    PROVE  WatchInv'
PROOF
  <1>1. Quiet /\ Alone /\ NothingBehind /\ NoFatal /\ Known
    BY Zenon DEF WatchInv
  <1>2. Quiet' /\ Alone' /\ NothingBehind' /\ NoFatal'
    BY Zenon, <1>1, QuietStep, AloneStep, NothingBehindStep, NoFatalStep
  <1>3. Known'
    BY Zenon, KnownStep
  <1> QED
    BY Zenon, <1>2, <1>3 DEF WatchInv
-----------------------------------------------------------------------------
(* The theorems. *)

LEMMA InitTypes ==
    ASSUME Init
    PROVE  TypeOK /\ FrameInv /\ ThreadInv /\ TicketInv /\ OwnAnswer
PROOF
  <1>1. ThreadTypes
    BY PlansAssumption DEF Init, ThreadTypes, Place
  <1>2. QueueTypes /\ ServerTypes /\ WireTypes
    <2>1. \A S : <<>> \in Seq(S)
      OBVIOUS
    <2>2. QueueTypes
      BY Zenon DEF Init, QueueTypes
    <2> QED
      BY Zenon, <2>1, <2>2 DEF Init, ServerTypes, WireTypes
  <1>3. FrameInv
    BY DEF Init, FrameInv
  <1>4. \A t \in Thread : pc[t] = "idle" /\ req[t] = None /\ got[t] = None
    BY Zenon DEF Init
  <1>5. "idle" \notin Waiting \cup {"got"} /\ "idle" # "reading"
    BY DEF Waiting
  <1>6. ThreadInv
    BY Zenon, <1>4, <1>5 DEF ThreadInv
  <1>7. holder = None /\ None \notin Thread /\ turn <= sent
    BY NoneAssumption DEF Init
  <1>8. TicketInv
    <2>1. \A t \in Thread : pc[t] \notin Waiting /\ pc[t] \notin {"queued", "asleep"} /\ pc[t] # "reading"
      BY Zenon, <1>4 DEF Waiting
    <2> QED
      BY Zenon, <1>7, <2>1 DEF TicketInv
  <1>9. OwnAnswer
    BY Zenon, <1>4 DEF OwnAnswer
  <1> QED
    BY Zenon, <1>1, <1>2, <1>3, <1>6, <1>8, <1>9 DEF TypeOK

LEMMA InitRest ==
    ASSUME Init
    PROVE  FlowInv /\ CommitInv /\ WatchInv
PROOF
  <1>1. /\ \A t \in Thread : pc[t] = "idle" /\ req[t] = None /\ got[t] = None
        /\ hand = None /\ down = <<>> /\ outbox = <<>> /\ up = <<>>
        /\ txns = {} /\ applied = {} /\ watching = FALSE /\ watched = FALSE /\ unheard = 0
    BY DEF Init
  <1>2. \A t \in Thread : pc[t] \notin Waiting \cup {"got", "sending"}
    BY Zenon, <1>1 DEF Waiting
  <1>3. \A k \in DOMAIN Flow : ~Live(Flow[k])
    <2>1. DOMAIN Flow = 0 .. Size /\ Flow[0] = Notice
      BY Zenon, <1>1, InitTypes, FlowAt
    <2>2. Size = 0
      BY <1>1 DEF Size
    <2>3. \A k \in 0 .. Size : k = 0
      BY <2>2
    <2> QED
      BY Zenon, <2>1, <2>3, Kinds
  <1>4. DOMAIN <<>> = {}
    OBVIOUS
  <1>5. FlowInv
    BY Zenon, <1>2, <1>3 DEF FlowInv, Owned, Ordered, Complete
  <1>6. CommitInv
    <2>1. NumberInv
      BY Zenon, <1>1, <1>2, <1>4 DEF NumberInv, Unapplied
    <2>2. LostInv
      BY Zenon, <1>1 DEF LostInv
    <2>3. ToldInv
      BY Zenon, <1>2, <1>3 DEF ToldInv
    <2> QED
      BY Zenon, <2>1, <2>2, <2>3 DEF CommitInv
  <1>7. WatchInv
    <2>1. Quiet /\ NothingBehind
      BY Zenon, <1>1, <1>4 DEF Quiet, NothingBehind
    <2>2. Alone
      BY Zenon, <1>1 DEF Alone
    <2>3. NoFatal
      BY Zenon, <1>1, <1>4 DEF NoFatal
    <2>4. Known
      BY Zenon, <1>1 DEF Known
    <2> QED
      BY Zenon, <2>1, <2>2, <2>3, <2>4 DEF WatchInv
  <1> QED
    BY Zenon, <1>5, <1>6, <1>7

\* Each response is the next one due to the thread whose turn it is, no number
\* names two transactions, a failed edit is told before any commit, and a
\* watch is started alone: what the steps of server/rpc.rs keep, together.
THEOREM RpcInvariant == Spec => []Inv
PROOF
  <1>1. Init => Inv
    BY Zenon, InitTypes, InitRest DEF Inv
  <1>2. Inv /\ [Next]_vars => Inv'
    <2>1. ASSUME Inv, Next PROVE Inv'
      <3>1. TypeOK' /\ FrameInv' /\ ThreadInv' /\ TicketInv' /\ FlowInv' /\ OwnAnswer'
        BY Zenon, <2>1, BasicStep DEF Inv
      <3>2. CommitInv'
        BY Zenon, <2>1, <3>1, CommitStep DEF Inv
      <3>3. WatchInv'
        BY Zenon, <2>1, <3>1, WatchStep DEF Inv
      <3> QED
        BY Zenon, <3>1, <3>2, <3>3 DEF Inv
    <2>2. ASSUME Inv, UNCHANGED vars PROVE Inv'
      <3>1. UNCHANGED <<pc, req, ticket, got, calls, writing, sent, turn, holder, fun, plan,
                        alive, deferred, outbox, txns, applied, watching, watched, up, down, hand,
                        unheard>>
        BY Zenon, <2>2 DEF vars, clientVars, serverVars
      <3>2. Flow' = Flow
        BY Zenon, <3>1, SameFlow
      <3>3. TypeOK' /\ FrameInv'
        BY Zenon, <2>2, <3>1
           DEF Inv, TypeOK, ThreadTypes, QueueTypes, ServerTypes, WireTypes, FrameInv
      <3>4. ThreadInv' /\ TicketInv' /\ FlowInv' /\ OwnAnswer'
        BY Zenon, <2>2, <3>1, <3>2 DEF Inv, ThreadInv, TicketInv, FlowInv, OwnAnswer
      <3>5. CommitInv'
        <4>1. NumberInv'
          BY Zenon, <2>2, <3>1 DEF Inv, CommitInv, NumberInv, Unapplied
        <4>2. LostInv'
          BY Zenon, <2>2, <3>1 DEF Inv, CommitInv, LostInv
        <4>3. ToldInv'
          BY Zenon, <2>2, <3>1, <3>2, <3>4, ToldKept DEF Inv, CommitInv
        <4> QED
          BY Zenon, <4>1, <4>2, <4>3 DEF CommitInv
      <3>6. WatchInv'
        BY Zenon, <2>2, <3>1, <3>2
           DEF Inv, WatchInv, Quiet, Alone, NothingBehind, NoFatal, Known, Starting
      <3> QED
        BY Zenon, <3>3, <3>4, <3>5, <3>6 DEF Inv
    <2> QED
      BY Zenon, <2>1, <2>2
  <1> QED
    BY <1>1, <1>2, PTL DEF Spec

\* Drawing the ticket under the lock on `sout` and reading by ticket under the
\* lock on `sin` (RemoteStorage::send_async_request, send_sync_request) give
\* every thread the responses to its own request, whatever the others do and
\* wherever the connection breaks.
THEOREM AnswersOwn == Spec => []OwnAnswer
PROOF
  <1>1. Inv => OwnAnswer
    BY Zenon DEF Inv
  <1> QED
    BY <1>1, RpcInvariant, PTL

\* RemoteStorage::commit returns Ok(true) only for a transaction applied with
\* every edit, and Ok(false) only for one that was not applied, although the
\* edits are never answered: none_or_fatal! keeps their failure for the next
\* response.
THEOREM CommitSafe == Spec => []CommitHonest
PROOF
  <1>1. Inv => CommitHonest
    BY Zenon, ToldTruth DEF Inv, CommitInv
  <1> QED
    BY <1>1, RpcInvariant, PTL

\* The reader thread meets no WatchNotify before watch_fun is installed, where
\* it would be dropped.
THEOREM NoticesSafe == Spec => []NoticeHeard
PROOF
  <1>1. Inv => NoticeHeard
    BY Zenon DEF Inv, WatchInv, Quiet, NoticeHeard
  <1> QED
    BY <1>1, RpcInvariant, PTL
=============================================================================
