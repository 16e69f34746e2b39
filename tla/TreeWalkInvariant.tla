------------------------- MODULE TreeWalkInvariant --------------------------
(***************************************************************************)
(* The inductive invariant of TreeWalk, for any number of threads and any  *)
(* tree: a directory has at most one task or thread at a time, `pending`   *)
(* counts the children that have not reported yet, and what the flags of a *)
(* DirState say is true of the children that have. This module shows that  *)
(* WorkStack preserves it, and so do the steps that finish a directory and *)
(* report to its parent; the walk itself is left to TreeWalkProofs.        *)
(***************************************************************************)
EXTENDS TreeWalk, TLAPS

-----------------------------------------------------------------------------
(* Where a directory is. *)

Walking == {"walk", "push"}

Finishing == {"finish", "andEmpty", "countDown"}

Marking == {"markClient", "markServer"}

Removing == {"rmAnc", "rmClient", "rmServer"}

Closing == {"complete"} \cup Marking \cup Removing

\* Threads that run a task, and threads WorkStack counts as in flight.
Busy == {"process", "queue"} \cup Walking \cup Finishing \cup Closing

Flight == Busy \cup {"return"}

Place == Flight \cup {"ready", "waiting", "stopped"}

\* The directory a running task is about.
Carried(w) == IF pc[w] = "queue" THEN job[w].into ELSE job[w].dir

\* A directory that is on the stack, in the hands of a thread, or about to be
\* pushed by the thread that walks its parent.
Held(d) ==
    \/ \E i \in DOMAIN tasks : tasks[i].dir = d
    \/ \E w \in Worker : pc[w] \in Busy /\ Carried(w) = d
    \/ \E w \in Worker : pc[w] = "push" /\ job[w].next = d

\* One that its parent still has to hear from.
Counted(d) == Held(d) \/ (st[d].onComplete /\ st[d].pending > 0)

CountedIn(d) == {c \in Children(d) : Counted(c)}

\* The thread that goes through a directory's names holds one unit of its
\* `pending` until it has counted itself as finished.
Walks(w, d) ==
    /\ pc[w] \in Walking \/ (pc[w] \in Finishing /\ job[w].into = d)
    /\ job[w].dir = d

Own(d) == IF \E w \in Worker : Walks(w, d) THEN 1 ELSE 0

\* A directory whose DirState is in use: it is being walked, or has been.
Walked(d) == st[d].onComplete \/ \E w \in Worker : pc[w] \in Walking /\ job[w].dir = d

\* A child the walk of its parent has come to.
Passed(c) ==
    \/ st[parent[c]].onComplete
    \/ \E w \in Worker : pc[w] \in Walking /\ job[w].dir = parent[c] /\ c \notin job[w].todo

\* A directory that has been synchronised, and will be skipped or is gone.
Done(d) == removed[d] = Replica \/ ~Dirty(d)

-----------------------------------------------------------------------------
(* The inductive invariant. *)

TypeOK ==
    /\ parent \in Tree /\ plan \in [Dir -> Plan] /\ keeps \in SUBSET Dir
    /\ st \in [Dir \cup {Top} -> DirState]
    /\ tasks \in Seq(Task) /\ inFlight \in Nat
    /\ pc \in [Worker -> Place] /\ job \in [Worker -> Job \cup {None}]
    /\ \A w \in Worker : pc[w] \in Busy => job[w] \in Job
    /\ clean \in [Side -> SUBSET Dir] /\ settled \in SUBSET Dir
    /\ removed \in [Dir -> SUBSET Replica]

\* WorkStack's counter, and what a thread that has stopped knows.
FlightInv ==
    /\ inFlight = Cardinality({w \in Worker : pc[w] \in Flight})
    /\ (\E w \in Worker : pc[w] = "stopped") => tasks = <<>> /\ inFlight = 0

\* No directory is in two places.
UniqueInv ==
    /\ \A v, w \in Worker :
          pc[v] \in Busy /\ pc[w] \in Busy /\ Carried(v) = Carried(w) => v = w
    /\ \A v \in Worker, i \in DOMAIN tasks : pc[v] \in Busy => Carried(v) # tasks[i].dir
    /\ \A i, j \in DOMAIN tasks : tasks[i].dir = tasks[j].dir => i = j
    /\ \A v, w \in Worker : pc[v] = "push" /\ pc[w] \in Busy => job[v].next # Carried(w)
    /\ \A v \in Worker, i \in DOMAIN tasks : pc[v] = "push" => job[v].next # tasks[i].dir
    /\ \A v, w \in Worker :
          pc[v] = "push" /\ pc[w] = "push" /\ job[v].next = job[w].next => v = w

\* The three ways a task gets to finish_task_in_dir: the end of a directory's
\* own walk, a directory that could not be set up, one that has been completed.
FinishOK(j) ==
    \/ j.into = j.dir /\ j.from = j.dir /\ st[j.dir].onComplete
    \/ /\ j.into = ParentOf(j.dir) /\ j.from = j.into
       /\ ~st[j.dir].onComplete /\ ~st[j.into].success
    \/ /\ j.into = ParentOf(j.dir) /\ j.from = j.dir
       /\ st[j.dir].onComplete /\ st[j.dir].pending = 0

\* What a task on the stack, and a thread, knows of its directory.
TaskOK(t) ==
    /\ t.what = "process" => ~st[t.dir].onComplete
    /\ t.what = "complete" => st[t.dir].onComplete /\ st[t.dir].pending = 0

JobOK(w) ==
    LET j == job[w] IN
    /\ pc[w] \in {"process"} \cup Walking =>
          /\ j.into = ParentOf(j.dir) /\ j.from = j.dir /\ ~st[j.dir].onComplete
          /\ j.todo \subseteq Children(j.dir)
    /\ pc[w] = "process" => j.todo = Children(j.dir)
    /\ pc[w] = "push" => j.next \in Children(j.dir) \ j.todo /\ ~st[j.next].onComplete
    /\ pc[w] \in Finishing => FinishOK(j)
    /\ pc[w] = "queue" => j.into \in Dir /\ st[j.into].onComplete /\ st[j.into].pending = 0
    /\ pc[w] \in Closing =>
          /\ j.into = ParentOf(j.dir) /\ j.from = j.dir
          /\ st[j.dir].onComplete /\ st[j.dir].pending = 0

JobInv ==
    /\ \A i \in DOMAIN tasks : TaskOK(tasks[i])
    /\ \A w \in Worker : JobOK(w)

\* A directory comes into being when the walk of its parent passes it.
ParentInv ==
    \A c \in Dir \ {Root} : Held(c) \/ st[c].onComplete => Passed(c)

\* `pending` is the walk itself and the children not heard from.
CountInv ==
    /\ \A d \in Dir : Walked(d) => st[d].pending = Own(d) + Cardinality(CountedIn(d))
    /\ st[Top].pending = 1 + (IF Counted(Root) THEN 1 ELSE 0)
    /\ ~st[Top].onComplete

-----------------------------------------------------------------------------
(* What the flags say. *)

\* A directory is in sync, and each child to be synchronised is done.
AllDone(d) == d \in settled /\ \A c \in Children(d) : plan[c] # "leave" => Done(c)

\* Nothing is left in a directory.
AllGone(d) == d \notin keeps /\ \A c \in Children(d) : removed[c] = Replica

\* A child of which the parent's flag does not tell yet: nobody has added the
\* child's to it and is now at one of the steps that follow.
Silent(c, pcs) ==
    /\ Counted(c)
    /\ \A w \in Worker : pc[w] \in pcs => ~(job[w].dir = c /\ job[w].into = ParentOf(c))

\* The walk of its parent has not come to it.
Ahead(c) == \E w \in Worker : pc[w] \in Walking /\ c \in job[w].todo

SuccessInv ==
    /\ \A d \in Dir : Walked(d) /\ st[d].success =>
          /\ d \in settled
          /\ \A c \in Children(d) : plan[c] # "leave" =>
                Ahead(c) \/ Silent(c, {"andEmpty", "countDown"}) \/ Done(c)
    /\ st[Top].success => Silent(Root, {"andEmpty", "countDown"}) \/ Done(Root)

EmptyInv ==
    \A d \in Dir : Walked(d) /\ st[d].success /\ st[d].empty =>
        /\ d \notin keeps
        /\ \A c \in Children(d) :
              \/ Ahead(c)
              \/ plan[c] = "delete" /\ (Silent(c, {"countDown"}) \/ removed[c] = Replica)

\* What the completion of a directory has made sure of, step by step.
CloseOK(w) ==
    LET d == job[w].dir
        p == job[w].into
    IN
    /\ pc[w] \in Marking => AllDone(d) /\ ~(plan[d] = "delete" /\ st[d].empty)
    /\ pc[w] = "markServer" => d \in clean["client"]
    /\ pc[w] \in Removing => AllDone(d) /\ AllGone(d)
    /\ pc[w] \in {"rmClient", "rmServer"} => "anc" \in removed[d]
    /\ pc[w] = "rmServer" => "client" \in removed[d]
    /\ pc[w] = "finish" /\ job[w].from = d /\ p = ParentOf(d) /\ st[d].success =>
          Done(d) /\ (plan[d] = "delete" /\ st[d].empty => removed[d] = Replica)
    /\ pc[w] = "andEmpty" /\ p = ParentOf(d) /\ st[p].success /\ plan[d] = "delete"
       /\ st[job[w].from].empty => removed[d] = Replica

CloseInv == \A w \in Worker : CloseOK(w)

DoneInv ==
    /\ \A d \in Dir : Done(d) => AllDone(d)
    /\ RemovedWasEmpty

Shape == UniqueInv /\ JobInv /\ ParentInv /\ CountInv

Flags == SuccessInv /\ EmptyInv /\ CloseInv /\ DoneInv

Inv == TypeOK /\ Shape /\ Flags

-----------------------------------------------------------------------------
(* Steps. *)

\* What a step of a thread does not do to the others, except that `notify_one`
\* may wake one of them up.
Others(w) ==
    \A v \in Worker \ {w} :
        pc'[v] = pc[v] \/ (pc[v] = "waiting" /\ pc'[v] = "ready")

\* The steps of a thread that runs a task.
Run(w) ==
    \/ ProcessFails(w) \/ ProcessFiles(w) \/ PushChild(w) \/ EndOfWalk(w)
    \/ \E c \in Dir : WalkChild(w, c) \/ ChildFails(w, c)
    \/ AndSuccess(w) \/ AndEmpty(w) \/ CountDown(w) \/ QueueCompletion(w)
    \/ Complete(w) \/ CompletionFails(w)
    \/ MarkClean(w, "client", "markClient", "markServer")
    \/ MarkClean(w, "server", "markServer", "finish")
    \/ Rmdir(w, "anc", "rmAnc", "rmClient")
    \/ Rmdir(w, "client", "rmClient", "rmServer")
    \/ Rmdir(w, "server", "rmServer", "finish")

-----------------------------------------------------------------------------
(* WorkStack. *)

\* What the proofs use of finite sets. The lemmas about `pending` and about the
\* threads in flight assume it; FiniteSetFacts discharges the assumption from the
\* library's theorems, once they are done.
FiniteFacts ==
    /\ \A S, T : IsFiniteSet(T) /\ S \subseteq T => IsFiniteSet(S)
    /\ \A S : IsFiniteSet(S) => Cardinality(S) \in Nat /\ (Cardinality(S) = 0 <=> S = {})
    /\ IsFiniteSet({}) /\ Cardinality({}) = 0
    /\ \A S, x : IsFiniteSet(S) /\ x \notin S =>
          IsFiniteSet(S \cup {x}) /\ Cardinality(S \cup {x}) = Cardinality(S) + 1
    /\ \A S, x : IsFiniteSet(S) /\ x \in S =>
          IsFiniteSet(S \ {x}) /\ Cardinality(S \ {x}) = Cardinality(S) - 1

\* The top of the stack, and the rest.
LEMMA StackFacts ==
    ASSUME tasks \in Seq(Task), tasks # <<>>
    PROVE  LET m == Len(tasks)
               rest == SubSeq(tasks, 1, m - 1)
           IN  /\ m \in DOMAIN tasks /\ tasks[m] \in Task /\ rest \in Seq(Task)
               /\ DOMAIN rest = DOMAIN tasks \ {m}
               /\ \A i \in DOMAIN rest : rest[i] = tasks[i]
PROOF
  <1> DEFINE m == Len(tasks)
             n == m - 1
  <1>1. n \in Nat /\ m \in DOMAIN tasks /\ tasks[m] \in Task /\ DOMAIN tasks = 1 .. m
    OBVIOUS
  <1>2. n = m - 1 /\ m = Len(tasks)
    BY Zenon
  <1> HIDE DEF m, n
  <1>3. SubSeq(tasks, 1, n) \in Seq(Task)
    BY <1>1, <1>2
  <1>4. Len(SubSeq(tasks, 1, n)) = n /\ \A i \in 1 .. n : SubSeq(tasks, 1, n)[i] = tasks[i]
    BY <1>1, <1>2
  <1>5. DOMAIN SubSeq(tasks, 1, n) = 1 .. n
    BY <1>3, <1>4
  <1>6. 1 .. n = (1 .. m) \ {m}
    BY <1>1, <1>2
  <1> QED
    BY Zenon, <1>1, <1>3, <1>4, <1>5, <1>6 DEF m, n

\* Where `notify_one` leaves the threads.
LEMMA NotifyFacts ==
    ASSUME NEW w \in Worker, NEW next, pc \in [Worker -> Place], Notify(w, next),
           pc[w] # "waiting"
    PROVE  pc'[w] = next /\ Others(w) /\ DOMAIN pc' = Worker
PROOF
  <1> DEFINE waiting == {v \in Worker : pc[v] = "waiting"}
  <1>1. CASE waiting = {}
    BY Zenon, <1>1 DEF Notify, Others
  <1>2. CASE waiting # {}
    <2>1. PICK v \in waiting : pc' = [pc EXCEPT ![w] = next, ![v] = "ready"]
      BY Zenon, <1>2 DEF Notify
    <2> QED
      BY Zenon, <2>1 DEF Others
  <1> QED
    BY Zenon, <1>1, <1>2

\* A thread that runs a task stays in flight until it returns from it.
LEMMA RunFacts ==
    ASSUME TypeOK, NEW w \in Worker, Run(w)
    PROVE  /\ pc[w] \in Busy /\ pc'[w] \in Flight /\ Others(w) /\ DOMAIN pc' = Worker
           /\ inFlight' = inFlight
PROOF
  <1> USE DEF Busy, Flight, Walking, Finishing, Closing, Marking, Removing, Others
  <1>0. pc \in [Worker -> Place]
    BY Zenon DEF TypeOK
  <1>1. CASE PushChild(w)
    <2>1. pc[w] = "push" /\ Notify(w, "walk") /\ inFlight' = inFlight
      BY Zenon, <1>1 DEF PushChild, Push
    <2> QED
      BY Zenon, <1>0, <2>1, NotifyFacts
  <1>2. CASE QueueCompletion(w)
    <2>1. pc[w] = "queue" /\ Notify(w, "return") /\ inFlight' = inFlight
      BY Zenon, <1>2 DEF QueueCompletion, Push
    <2> QED
      BY Zenon, <1>0, <2>1, NotifyFacts
  <1>3. CASE ProcessFails(w)
    BY Zenon, <1>0, <1>3 DEF ProcessFails, Goto
  <1>4. CASE ProcessFiles(w)
    BY Zenon, <1>0, <1>4 DEF ProcessFiles, Goto
  <1>5. CASE EndOfWalk(w)
    BY Zenon, <1>0, <1>5 DEF EndOfWalk, Goto
  <1>6. ASSUME NEW c \in Dir, WalkChild(w, c)
        PROVE  /\ pc[w] \in Busy /\ pc'[w] \in Flight /\ Others(w) /\ DOMAIN pc' = Worker
               /\ inFlight' = inFlight
    BY Zenon, <1>0, <1>6 DEF WalkChild, Goto
  <1>7. ASSUME NEW c \in Dir, ChildFails(w, c)
        PROVE  /\ pc[w] \in Busy /\ pc'[w] \in Flight /\ Others(w) /\ DOMAIN pc' = Worker
               /\ inFlight' = inFlight
    BY Zenon, <1>0, <1>7 DEF ChildFails
  <1>8. CASE AndSuccess(w) \/ AndEmpty(w)
    BY Zenon, <1>0, <1>8 DEF AndSuccess, AndEmpty, Goto
  <1>9. CASE CountDown(w)
    BY Zenon, <1>0, <1>9 DEF CountDown, Goto
  <1>10. CASE Complete(w) \/ CompletionFails(w)
    BY Zenon, <1>0, <1>10 DEF Complete, CompletionFails, Goto
  <1>11. CASE \/ MarkClean(w, "client", "markClient", "markServer")
              \/ MarkClean(w, "server", "markServer", "finish")
    BY Zenon, <1>0, <1>11 DEF MarkClean, Goto
  <1>12. CASE \/ Rmdir(w, "anc", "rmAnc", "rmClient")
              \/ Rmdir(w, "client", "rmClient", "rmServer")
              \/ Rmdir(w, "server", "rmServer", "finish")
    BY Zenon, <1>0, <1>12 DEF Rmdir, Goto
  <1> QED
    BY Zenon, <1>1, <1>2, <1>3, <1>4, <1>5, <1>6, <1>7, <1>8, <1>9, <1>10, <1>11, <1>12 DEF Run

InFlight == {w \in Worker : pc[w] \in Flight}

\* WorkStack's counter is right, and nobody sleeps or runs once one has stopped.
LEMMA FlightStep ==
    ASSUME FiniteFacts, TypeOK, FlightInv, SleepersAreWoken, [Next]_vars
    PROVE  FlightInv' /\ SleepersAreWoken'
PROOF
  <1>0. pc \in [Worker -> Place] /\ inFlight \in Nat /\ tasks \in Seq(Task)
    BY Zenon DEF TypeOK
  <1>1. IsFiniteSet(InFlight) /\ inFlight = Cardinality(InFlight)
    BY Zenon, WorkerAssumption DEF InFlight, FlightInv, FiniteFacts
  <1>2. \A w \in Worker : w \in InFlight => inFlight > 0
    <2>1. ASSUME NEW w \in Worker, w \in InFlight PROVE inFlight # 0
      BY Zenon, <1>1, <2>1 DEF FiniteFacts
    <2> QED
      BY <1>0, <2>1
  <1>3. ASSUME NEW w \in Worker, Run(w)
        PROVE  FlightInv' /\ SleepersAreWoken'
    <2>1. /\ pc[w] \in Flight /\ pc'[w] \in Flight /\ Others(w) /\ DOMAIN pc' = Worker
          /\ inFlight' = inFlight
      BY Zenon, <1>3, RunFacts DEF Flight
    <2>2. InFlight' = InFlight
      BY <2>1 DEF InFlight, Others, Flight, Busy, Walking, Finishing, Closing, Marking, Removing
    <2>3. inFlight' = Cardinality(InFlight')
      BY Zenon, <1>1, <2>1, <2>2
    <2>4. \A v \in Worker : pc[v] # "stopped" /\ pc'[v] # "stopped"
      <3>1. w \in InFlight /\ inFlight > 0
        BY Zenon, <1>2, <2>1 DEF InFlight
      <3>2. \A v \in Worker : pc[v] # "stopped"
        BY <3>1 DEF FlightInv
      <3> QED
        BY Zenon, <2>1, <3>2 DEF Others, Flight, Busy, Walking, Finishing, Closing, Marking, Removing
    <2>5. pc'[w] \notin {"waiting", "stopped"}
      BY Zenon, <2>1 DEF Flight, Busy, Walking, Finishing, Closing, Marking, Removing
    <2> QED
      BY Zenon, <2>3, <2>4, <2>5 DEF FlightInv, SleepersAreWoken, InFlight
  <1>4. ASSUME NEW w \in Worker, TakeTask(w)
        PROVE  FlightInv' /\ SleepersAreWoken'
    <2>1. /\ pc[w] \in {"ready", "return"} /\ tasks # <<>> /\ inFlight' = Flying(w) + 1
          /\ pc' = [pc EXCEPT ![w] = tasks[Len(tasks)].what]
      BY Zenon, <1>4 DEF TakeTask
    <2>2. tasks[Len(tasks)].what \in {"process", "complete"}
      BY Zenon, <1>0, <2>1, StackFacts DEF Task
    <2>3. pc'[w] \in Flight /\ \A v \in Worker \ {w} : pc'[v] = pc[v]
      BY Zenon, <1>0, <2>1, <2>2 DEF Flight, Busy, Closing
    <2>4. pc'[w] \notin {"waiting", "stopped"} /\ \A v \in Worker : pc[v] # "stopped"
      BY Zenon, <1>0, <2>1, <2>2 DEF FlightInv
    <2>5. inFlight' = Cardinality(InFlight')
      <3>1. CASE pc[w] = "ready"
        <4>1. w \notin InFlight /\ InFlight' = InFlight \cup {w}
          BY Zenon, <2>3, <3>1 DEF InFlight, Flight, Busy, Walking, Finishing, Closing, Marking, Removing
        <4>2. Cardinality(InFlight') = inFlight + 1
          BY Zenon, <1>1, <4>1 DEF FiniteFacts
        <4> QED
          BY Zenon, <2>1, <3>1, <4>2 DEF Flying
      <3>2. CASE pc[w] = "return"
        <4>1. InFlight' = InFlight
          BY Zenon, <2>3, <3>2 DEF InFlight, Flight
        <4> QED
          BY <1>0, <1>1, <2>1, <3>2, <4>1 DEF Flying
      <3> QED
        BY Zenon, <2>1, <3>1, <3>2
    <2> QED
      BY Zenon, <2>3, <2>4, <2>5 DEF FlightInv, SleepersAreWoken, InFlight
  <1>5. ASSUME NEW w \in Worker, pc[w] \in {"ready", "return"}
        PROVE  /\ Flying(w) \in Nat /\ Flying(w) = Cardinality(InFlight \ {w})
               /\ IsFiniteSet(InFlight \ {w})
    <2>1. CASE pc[w] = "ready"
      <3>1. InFlight \ {w} = InFlight
        BY Zenon, <2>1 DEF InFlight, Flight, Busy, Walking, Finishing, Closing, Marking, Removing
      <3> QED
        BY Zenon, <1>0, <1>1, <2>1, <3>1 DEF Flying
    <2>2. CASE pc[w] = "return"
      <3>1. w \in InFlight
        BY Zenon, <2>2 DEF InFlight, Flight
      <3>2. IsFiniteSet(InFlight \ {w}) /\ Cardinality(InFlight \ {w}) = inFlight - 1
        BY Zenon, <1>1, <3>1 DEF FiniteFacts
      <3> QED
        BY <1>0, <1>2, <2>2, <3>1, <3>2 DEF Flying
    <2> QED
      BY Zenon, <1>5, <2>1, <2>2
  <1>6. ASSUME NEW w \in Worker, Wait(w)
        PROVE  FlightInv' /\ SleepersAreWoken'
    <2>1. /\ pc[w] \in {"ready", "return"} /\ Flying(w) > 0 /\ inFlight' = Flying(w)
          /\ pc' = [pc EXCEPT ![w] = "waiting"]
      BY Zenon, <1>6 DEF Wait
    <2>2. InFlight' = InFlight \ {w}
      BY Zenon, <1>0, <2>1 DEF InFlight, Flight, Busy, Walking, Finishing, Closing, Marking, Removing
    <2>3. inFlight' = Cardinality(InFlight')
      BY Zenon, <1>5, <2>1, <2>2
    <2>4. PICK u \in Worker \ {w} : pc[u] \in Flight
      <3>1. InFlight \ {w} # {}
        BY <1>5, <2>1 DEF FiniteFacts
      <3> QED
        BY Zenon, <3>1 DEF InFlight
    <2>5. pc'[u] \notin {"waiting", "stopped"}
      BY Zenon, <1>0, <2>1, <2>4 DEF Flight, Busy, Walking, Finishing, Closing, Marking, Removing
    <2>6. \A v \in Worker : pc'[v] # "stopped"
      <3>1. inFlight > 0
        BY Zenon, <1>2, <2>4 DEF InFlight
      <3> QED
        BY <1>0, <2>1, <3>1 DEF FlightInv
    <2> QED
      BY Zenon, <2>3, <2>5, <2>6 DEF FlightInv, SleepersAreWoken, InFlight
  <1>7. ASSUME NEW w \in Worker, Stop(w)
        PROVE  FlightInv' /\ SleepersAreWoken'
    <2>1. /\ pc[w] \in {"ready", "return"} /\ Flying(w) = 0 /\ inFlight' = 0
          /\ tasks = <<>> /\ tasks' = tasks
          /\ pc' = [v \in Worker |-> IF v = w THEN "stopped"
                                     ELSE IF pc[v] = "waiting" THEN "ready" ELSE pc[v]]
      BY Zenon, <1>7 DEF Stop
    <2>2. InFlight \ {w} = {}
      BY Zenon, <1>5, <2>1 DEF FiniteFacts
    <2>3. InFlight' = {}
      BY Zenon, <1>0, <2>1, <2>2 DEF InFlight, Flight, Busy, Walking, Finishing, Closing, Marking, Removing
    <2>4. inFlight' = Cardinality(InFlight')
      BY Zenon, <2>1, <2>3 DEF FiniteFacts
    <2>5. \A v \in Worker : pc'[v] # "waiting"
      BY Zenon, <1>0, <2>1
    <2> QED
      BY Zenon, <2>1, <2>4, <2>5 DEF FlightInv, SleepersAreWoken, InFlight
  <1>8. ASSUME NEW w \in Worker, SpuriousWakeup(w)
        PROVE  FlightInv' /\ SleepersAreWoken'
    <2>1. /\ pc[w] = "waiting" /\ pc' = [pc EXCEPT ![w] = "ready"]
          /\ inFlight' = inFlight /\ tasks' = tasks
      BY Zenon, <1>8 DEF SpuriousWakeup
    <2>2. InFlight' = InFlight
      BY Zenon, <1>0, <2>1 DEF InFlight, Flight, Busy, Walking, Finishing, Closing, Marking, Removing
    <2>3. inFlight' = Cardinality(InFlight')
      BY Zenon, <1>1, <2>1, <2>2
    <2>4. pc'[w] = "ready" /\ \A v \in Worker : pc'[v] = "stopped" => pc[v] = "stopped"
      BY Zenon, <1>0, <2>1
    <2> QED
      BY Zenon, <2>1, <2>3, <2>4 DEF FlightInv, SleepersAreWoken, InFlight
  <1>9. CASE UNCHANGED vars
    BY Zenon, <1>9 DEF vars, FlightInv, SleepersAreWoken
  <1> QED
    BY Zenon, <1>3, <1>4, <1>6, <1>7, <1>8, <1>9 DEF Next, Work, Run

-----------------------------------------------------------------------------
(* The tree and the DirStates. *)

\* What a tree is, as far as the proofs need it.
LEMMA TreeFacts ==
    ASSUME TypeOK
    PROVE  /\ \A d \in Dir : ParentOf(d) \in Dir \cup {Top} /\ ParentOf(d) # d
           /\ \A d \in Dir : \A c \in Children(d) :
                 c \in Dir \ {Root} /\ parent[c] = d /\ ParentOf(c) = d
           /\ \A c \in Dir \ {Root} :
                 parent[c] \in Dir /\ c \in Children(parent[c]) /\ ParentOf(c) = parent[c]
PROOF
  <1>1. parent \in [Dir \ {Root} -> Dir] /\ Root \in Dir /\ Top \notin Dir
    BY Zenon, TreeAssumption DEF TypeOK
  <1>2. ASSUME NEW d \in Dir \ {Root} PROVE parent[d] # d
    <2>1. SUFFICES ASSUME parent[d] = d PROVE FALSE
      BY Zenon
    <2>2. {d} \in SUBSET Dir /\ {d} # {} /\ \A e \in {d} \ {Root} : parent[e] \in {d}
      BY Zenon, <2>1
    <2>3. Root \in {d}
      BY Zenon, <2>2, TreeAssumption DEF TypeOK
    <2> QED
      BY Zenon, <2>3
  <1>3. \A d \in Dir : ParentOf(d) \in Dir \cup {Top} /\ ParentOf(d) # d
    BY Zenon, <1>1, <1>2 DEF ParentOf
  <1> QED
    BY Zenon, <1>1, <1>3 DEF Children, ParentOf

\* The children a directory waits for can be counted.
LEMMA CountedFacts ==
    ASSUME FiniteFacts
    PROVE  \A d : IsFiniteSet(CountedIn(d)) /\ Cardinality(CountedIn(d)) \in Nat
PROOF
  <1>1. \A d : CountedIn(d) \subseteq Dir /\ IsFiniteSet(Dir)
    BY Zenon, TreeAssumption DEF CountedIn, Children
  <1>2. \A d : IsFiniteSet(CountedIn(d))
    BY Zenon, <1>1 DEF FiniteFacts
  <1> QED
    BY Zenon, <1>2 DEF FiniteFacts

\* The fields of the tasks on the stack and of those being run.
LEMMA TaskFacts ==
    ASSUME TypeOK
    PROVE  /\ \A i \in DOMAIN tasks :
                 tasks[i] \in Task /\ tasks[i].dir \in Dir /\ tasks[i].what \in {"process", "complete"}
           /\ \A w \in Worker : pc[w] \in Busy =>
                 /\ job[w] \in Job /\ job[w].dir \in Dir /\ job[w].todo \in SUBSET Dir
                 /\ job[w].into \in Dir \cup {Top} /\ job[w].from \in Dir \cup {Top}
PROOF
  <1>1. tasks \in Seq(Task)
    BY Zenon DEF TypeOK
  <1>2. \A i \in DOMAIN tasks : tasks[i] \in Task
    BY <1>1
  <1>3. \A i \in DOMAIN tasks : tasks[i].dir \in Dir /\ tasks[i].what \in {"process", "complete"}
    BY Zenon, <1>2 DEF Task
  <1> QED
    BY Zenon, <1>2, <1>3 DEF TypeOK, Job

\* One DirState, and one thread's task, replaced.
LEMMA SetState ==
    ASSUME TypeOK, NEW d \in Dir \cup {Top}, NEW r \in DirState, st' = [st EXCEPT ![d] = r]
    PROVE  /\ st' \in [Dir \cup {Top} -> DirState] /\ st'[d] = r
           /\ \A x \in (Dir \cup {Top}) \ {d} : st'[x] = st[x]
PROOF
  BY Zenon DEF TypeOK

\* A step that replaces one thread's job leaves the other threads' alone.
LEMMA SetJob ==
    ASSUME TypeOK, NEW w \in Worker, NEW j \in Job \cup {None}, job' = [job EXCEPT ![w] = j]
    PROVE  /\ job' \in [Worker -> Job \cup {None}] /\ job'[w] = j
           /\ \A v \in Worker \ {w} : job'[v] = job[v]
PROOF
  BY Zenon DEF TypeOK

\* What `success`, `empty`, `pending` and `onComplete` are after one of them is
\* assigned.
LEMMA SetField ==
    ASSUME NEW r \in DirState
    PROVE  /\ \A b \in BOOLEAN :
                 LET q == [r EXCEPT !.success = b] IN
                 q \in DirState /\ q.success = b /\ q.empty = r.empty
                 /\ q.pending = r.pending /\ q.onComplete = r.onComplete
           /\ \A b \in BOOLEAN :
                 LET q == [r EXCEPT !.empty = b] IN
                 q \in DirState /\ q.success = r.success /\ q.empty = b
                 /\ q.pending = r.pending /\ q.onComplete = r.onComplete
           /\ \A n \in Nat :
                 LET q == [r EXCEPT !.pending = n] IN
                 q \in DirState /\ q.success = r.success /\ q.empty = r.empty
                 /\ q.pending = n /\ q.onComplete = r.onComplete
           /\ \A b \in BOOLEAN :
                 LET q == [r EXCEPT !.onComplete = b] IN
                 q \in DirState /\ q.success = r.success /\ q.empty = r.empty
                 /\ q.pending = r.pending /\ q.onComplete = b
           /\ r.success \in BOOLEAN /\ r.empty \in BOOLEAN
           /\ r.pending \in Nat /\ r.onComplete \in BOOLEAN
PROOF
  BY Zenon DEF DirState

\* Flags are only ever cleared.
Fall ==
    \A x \in Dir \cup {Top} :
        /\ st'[x].pending = st[x].pending /\ st'[x].onComplete = st[x].onComplete
        /\ st'[x].success => st[x].success
        /\ st'[x].empty => st[x].empty

\* A flag of one DirState assigned.
LEMMA SetSuccess ==
    ASSUME TypeOK, NEW p \in Dir \cup {Top}, NEW b \in BOOLEAN, b => st[p].success,
           st' = [st EXCEPT ![p] = [st[p] EXCEPT !.success = b]]
    PROVE  st' \in [Dir \cup {Top} -> DirState] /\ st'[p].success = b /\ Fall
PROOF
  <1> DEFINE r == [st[p] EXCEPT !.success = b]
  <1>1. st[p] \in DirState
    BY Zenon DEF TypeOK
  <1>2. /\ r \in DirState /\ r.success = b /\ r.empty = st[p].empty
        /\ r.pending = st[p].pending /\ r.onComplete = st[p].onComplete
    BY <1>1, SetField
  <1>3. st' = [st EXCEPT ![p] = r]
    BY Zenon
  <1> HIDE DEF r
  <1>4. /\ st' \in [Dir \cup {Top} -> DirState] /\ st'[p] = r
        /\ \A x \in (Dir \cup {Top}) \ {p} : st'[x] = st[x]
    BY Zenon, <1>2, <1>3, SetState
  <1> QED
    BY Zenon, <1>2, <1>4 DEF Fall

\* The fields of a task after one of them is assigned.
LEMMA SetJobField ==
    ASSUME NEW j \in Job
    PROVE  /\ LET k == [j EXCEPT !.next = None] IN
                 k \in Job /\ k.dir = j.dir /\ k.todo = j.todo /\ k.into = j.into /\ k.from = j.from
           /\ \A S \in SUBSET Dir :
                 LET k == [j EXCEPT !.todo = S] IN
                 k \in Job /\ k.dir = j.dir /\ k.todo = S /\ k.into = j.into /\ k.from = j.from
           /\ \A p \in Dir \cup {Top} :
                 LET k == [j EXCEPT !.into = p] IN
                 k \in Job /\ k.dir = j.dir /\ k.todo = j.todo /\ k.into = p /\ k.from = j.from
           /\ \A p \in Dir \cup {Top} :
                 LET k == [j EXCEPT !.from = p] IN
                 k \in Job /\ k.dir = j.dir /\ k.todo = j.todo /\ k.into = j.into /\ k.from = p
PROOF
  BY Zenon DEF Job

-----------------------------------------------------------------------------
(* What a step leaves as it is. *)

\* Where directories are, and what is counted, after a step.
SamePlaces ==
    /\ \A c \in Dir : Held(c)' <=> Held(c)
    /\ \A c \in Dir : Counted(c)' <=> Counted(c)
    /\ \A d \in Dir : Own(d)' = Own(d)
    /\ \A d \in Dir : Walked(d)' <=> Walked(d)
    /\ \A c \in Dir : Ahead(c)' <=> Ahead(c)

\* If nothing counted changes, the counters remain right.
LEMMA SameCounts ==
    ASSUME TypeOK, CountInv, parent' = parent, SamePlaces, ~st'[Top].onComplete,
           \A x \in Dir \cup {Top} : st'[x].pending = st[x].pending
    PROVE  CountInv'
PROOF
  <1>1. \A d \in Dir : CountedIn(d)' = CountedIn(d)
    BY Zenon DEF CountedIn, Children, SamePlaces
  <1>2. \A d \in Dir : Walked(d)' => st'[d].pending = Own(d)' + Cardinality(CountedIn(d))'
    BY Zenon, <1>1 DEF SamePlaces, CountInv
  <1>3. Counted(Root)' <=> Counted(Root)
    BY Zenon, TreeAssumption DEF SamePlaces
  <1> QED
    BY Zenon, <1>2, <1>3 DEF CountInv

\* The flags of a parent after a step in which no child is passed or counted,
\* if they are right about the children that have just reported.
Reported ==
    /\ \A c \in Dir :
          Silent(c, {"andEmpty", "countDown"}) /\ st'[ParentOf(c)].success =>
              Silent(c, {"andEmpty", "countDown"})' \/ Done(c)'
    /\ \A c \in Dir :
          /\ Silent(c, {"countDown"}) /\ plan[c] = "delete"
          /\ st'[ParentOf(c)].success /\ st'[ParentOf(c)].empty
          => Silent(c, {"countDown"})' \/ removed'[c] = Replica

FlagsFall ==
    \A x \in Dir \cup {Top} :
        (st'[x].success => st[x].success) /\ (st'[x].empty => st[x].empty)

\* What the replicas were asked to do stays done.
Grows ==
    /\ \A d \in Dir : Done(d) => Done(d)'
    /\ \A d \in Dir : removed[d] = Replica => removed'[d] = Replica
    /\ \A d \in Dir : AllDone(d) => AllDone(d)'
    /\ \A d \in Dir : AllGone(d) => AllGone(d)'

\* Marks, removals and settled directories only become more.
LEMMA OutcomeGrows ==
    ASSUME TypeOK, TypeOK', UNCHANGED fixed, settled \subseteq settled',
           \A s \in Side : clean[s] \subseteq clean'[s],
           \A d \in Dir : removed[d] \subseteq removed'[d]
    PROVE  Grows
PROOF
  <1>1. parent' = parent /\ plan' = plan /\ keeps' = keeps
    BY Zenon DEF fixed
  <1>2. \A d \in Dir : removed[d] = Replica => removed'[d] = Replica
    BY Zenon DEF TypeOK
  <1>3. \A d \in Dir : Done(d) => Done(d)'
    BY Zenon, <1>2 DEF Done, Dirty, Side
  <1>4. \A d \in Dir : \A c \in Children(d) : c \in Dir
    BY Zenon DEF Children
  <1>5. \A d \in Dir : AllDone(d) => AllDone(d)'
    BY Zenon, <1>1, <1>3, <1>4 DEF AllDone, Children
  <1>6. \A d \in Dir : AllGone(d) => AllGone(d)'
    BY Zenon, <1>1, <1>2, <1>4 DEF AllGone, Children
  <1> QED
    BY Zenon, <1>2, <1>3, <1>5, <1>6 DEF Grows

\* What the flags say stays true when flags are only cleared and a child that
\* has not been heard from stays silent, or is done.
LEMMA SameFlags ==
    ASSUME TypeOK, SuccessInv, EmptyInv, UNCHANGED fixed, FlagsFall, Grows, Reported,
           settled \subseteq settled',
           \A d \in Dir : (Walked(d)' => Walked(d)) /\ (Ahead(d) => Ahead(d)')
    PROVE  SuccessInv' /\ EmptyInv'
PROOF
  <1>1. parent' = parent /\ plan' = plan /\ keeps' = keeps
    BY Zenon DEF fixed
  <1>2. Root \in Dir /\ ParentOf(Root) = Top
    BY Zenon, TreeAssumption DEF ParentOf
  <1>3. \A d \in Dir : Children(d)' = Children(d)
    BY Zenon, <1>1 DEF Children
  <1>4. ASSUME NEW d \in Dir, Walked(d)', st'[d].success
        PROVE  /\ d \in settled'
               /\ \A c \in Children(d) : plan[c] # "leave" =>
                     Ahead(c)' \/ Silent(c, {"andEmpty", "countDown"})' \/ Done(c)'
    <2>1. Walked(d) /\ st[d].success
      BY Zenon, <1>4 DEF FlagsFall
    <2>2. ASSUME NEW c \in Children(d), plan[c] # "leave"
          PROVE  Ahead(c)' \/ Silent(c, {"andEmpty", "countDown"})' \/ Done(c)'
      <3>1. c \in Dir /\ ParentOf(c) = d
        BY Zenon, TreeFacts
      <3>2. Ahead(c) \/ Silent(c, {"andEmpty", "countDown"}) \/ Done(c)
        BY Zenon, <2>1, <2>2 DEF SuccessInv
      <3> QED
        BY Zenon, <1>4, <3>1, <3>2 DEF Grows, Reported
    <2> QED
      BY Zenon, <2>1, <2>2 DEF SuccessInv
  <1>5. st'[Top].success => Silent(Root, {"andEmpty", "countDown"})' \/ Done(Root)'
    BY Zenon, <1>2 DEF SuccessInv, FlagsFall, Grows, Reported
  <1>6. SuccessInv'
    BY Zenon, <1>1, <1>3, <1>4, <1>5 DEF SuccessInv
  <1>7. ASSUME NEW d \in Dir, Walked(d)', st'[d].success, st'[d].empty
        PROVE  /\ d \notin keeps
               /\ \A c \in Children(d) :
                     \/ Ahead(c)'
                     \/ plan[c] = "delete" /\ (Silent(c, {"countDown"})' \/ removed'[c] = Replica)
    <2>1. Walked(d) /\ st[d].success /\ st[d].empty
      BY Zenon, <1>7 DEF FlagsFall
    <2>2. ASSUME NEW c \in Children(d)
          PROVE  \/ Ahead(c)'
                 \/ plan[c] = "delete" /\ (Silent(c, {"countDown"})' \/ removed'[c] = Replica)
      <3>1. c \in Dir /\ ParentOf(c) = d
        BY Zenon, TreeFacts
      <3>2. \/ Ahead(c)
            \/ plan[c] = "delete" /\ (Silent(c, {"countDown"}) \/ removed[c] = Replica)
        BY Zenon, <2>1 DEF EmptyInv
      <3> QED
        BY Zenon, <1>7, <3>1, <3>2 DEF Grows, Reported
    <2> QED
      BY Zenon, <2>1, <2>2 DEF EmptyInv
  <1>8. EmptyInv'
    BY Zenon, <1>1, <1>3, <1>7 DEF EmptyInv
  <1> QED
    BY Zenon, <1>6, <1>8

\* A thread the step does not move, or moves between two places where it has no
\* task.
Still(v) ==
    /\ job'[v] = job[v]
    /\ pc'[v] = pc[v] \/ (pc[v] \notin Busy /\ pc'[v] \notin Busy)

\* It goes on knowing what it knew.
LEMMA OthersClose ==
    ASSUME TypeOK, CloseInv, UNCHANGED fixed, Grows, NEW v \in Worker, Still(v),
           \A s \in Side : clean[s] \subseteq clean'[s],
           \A d \in Dir : removed[d] \subseteq removed'[d],
           pc[v] \in Closing \cup Finishing =>
              \A x \in {job[v].dir, job[v].into, job[v].from} :
                 (st'[x].success => st[x].success) /\ (st'[x].empty => st[x].empty)
    PROVE  CloseOK(v)'
PROOF
  <1>1. parent' = parent /\ plan' = plan /\ CloseOK(v)
    BY Zenon DEF fixed, CloseInv
  <1>2. CASE pc[v] \in Closing \cup Finishing
    <2>1. pc'[v] = pc[v] /\ job'[v] = job[v] /\ job[v].dir \in Dir
      BY Zenon, <1>2, TaskFacts DEF Still, Busy
    <2>2. "client" \in Side
      BY Zenon DEF Side
    <2> QED
      BY <1>1, <1>2, <2>1, <2>2 DEF CloseOK, Grows, ParentOf
  <1>3. CASE pc[v] \notin Closing \cup Finishing
    BY Zenon, <1>3 DEF CloseOK, Still, Busy, Closing, Marking, Removing, Finishing
  <1> QED
    BY Zenon, <1>2, <1>3

\* A thread that stays where it is has the directories it had.
LEMMA StillFacts ==
    ASSUME NEW v \in Worker, Still(v)
    PROVE  /\ job'[v] = job[v]
           /\ pc'[v] \in Busy <=> pc[v] \in Busy
           /\ pc'[v] \in Walking <=> pc[v] \in Walking
           /\ pc'[v] \in Finishing <=> pc[v] \in Finishing
           /\ pc'[v] \in Closing <=> pc[v] \in Closing
           /\ pc'[v] = "push" <=> pc[v] = "push"
           /\ pc'[v] = "queue" <=> pc[v] = "queue"
           /\ pc'[v] = "process" <=> pc[v] = "process"
           /\ pc'[v] \in {"andEmpty", "countDown"} <=> pc[v] \in {"andEmpty", "countDown"}
           /\ pc'[v] \in {"countDown"} <=> pc[v] \in {"countDown"}
           /\ Carried(v)' = Carried(v)
           /\ \A d : Walks(v, d)' <=> Walks(v, d)
PROOF
  <1>1. /\ pc'[v] \in Busy <=> pc[v] \in Busy
        /\ pc'[v] \in Walking <=> pc[v] \in Walking
        /\ pc'[v] \in Finishing <=> pc[v] \in Finishing
        /\ pc'[v] \in Closing <=> pc[v] \in Closing
        /\ pc'[v] = "push" <=> pc[v] = "push"
        /\ pc'[v] = "queue" <=> pc[v] = "queue"
        /\ pc'[v] = "process" <=> pc[v] = "process"
        /\ pc'[v] \in {"andEmpty", "countDown"} <=> pc[v] \in {"andEmpty", "countDown"}
        /\ pc'[v] \in {"countDown"} <=> pc[v] \in {"countDown"}
    BY Zenon DEF Still, Busy, Walking, Finishing, Closing
  <1> QED
    BY Zenon, <1>1 DEF Still, Carried, Walks

\* A DirState that others rely on.
Spares(x) ==
    /\ st'[x].onComplete <=> st[x].onComplete
    /\ st[x].pending = 0 => st'[x].pending = 0

\* What a thread that stays where it is knows remains true, if the DirStates it
\* relies on are spared.
LEMMA OthersJob ==
    ASSUME TypeOK, NEW v \in Worker, JobOK(v), Still(v), parent' = parent,
           pc[v] \in Busy => Spares(Carried(v)),
           pc[v] = "push" => Spares(job[v].next),
           pc[v] \in Finishing /\ job[v].into # job[v].dir =>
              (st'[job[v].into].success => st[job[v].into].success)
    PROVE  JobOK(v)'
PROOF
  <1>1. CASE pc[v] \in Busy
    <2>1. pc'[v] = pc[v] /\ job'[v] = job[v] /\ job[v].dir \in Dir
      BY Zenon, <1>1, TaskFacts DEF Still
    <2>2. \A d : ParentOf(d)' = ParentOf(d) /\ Children(d)' = Children(d)
      BY Zenon DEF ParentOf, Children
    <2>3. CASE pc[v] \in {"process"} \cup Walking
      BY Zenon, <1>1, <2>1, <2>2, <2>3 DEF JobOK, Spares, Carried, Walking, Finishing, Closing, Marking, Removing
    <2>4. CASE pc[v] \in Finishing
      <3>1. FinishOK(job[v]) /\ Spares(job[v].dir) /\ ParentOf(job[v].dir) # job[v].dir
        BY Zenon, <1>1, <2>1, <2>4, TreeFacts DEF JobOK, Carried, Finishing
      <3>2. FinishOK(job[v])'
        BY Zenon, <2>1, <2>2, <2>4, <3>1 DEF FinishOK, Spares
      <3> QED
        BY Zenon, <2>1, <2>4, <3>2 DEF JobOK, Walking, Finishing, Closing, Marking, Removing
    <2>5. CASE pc[v] = "queue"
      BY Zenon, <1>1, <2>1, <2>5 DEF JobOK, Spares, Carried, Walking, Finishing, Closing, Marking, Removing
    <2>6. CASE pc[v] \in Closing
      BY Zenon, <1>1, <2>1, <2>2, <2>6 DEF JobOK, Spares, Carried, Walking, Finishing, Closing, Marking, Removing
    <2> QED
      BY Zenon, <1>1, <2>3, <2>4, <2>5, <2>6 DEF Busy
  <1>2. CASE pc[v] \notin Busy
    BY Zenon, <1>2 DEF JobOK, Still, Busy, Walking
  <1> QED
    BY Zenon, <1>1, <1>2

\* So does what a task on the stack stands for.
LEMMA OtherTasks ==
    ASSUME TypeOK, JobInv, NEW i \in DOMAIN tasks, Spares(tasks[i].dir),
           NEW t, t = tasks[i]
    PROVE  TaskOK(t)'
PROOF
  <1>1. TaskOK(t)
    BY Zenon DEF JobInv
  <1> QED
    BY Zenon, <1>1 DEF TaskOK, Spares

\* A thread that goes on with its directory.
LEMMA KeepPlace ==
    ASSUME TypeOK, UniqueInv, NEW w \in Worker, \A v \in Worker \ {w} : Still(v), tasks' = tasks,
           pc[w] \in Busy \ {"push"}, pc'[w] \in Busy \ {"push"}, Carried(w)' = Carried(w)
    PROVE  UniqueInv' /\ \A c : Held(c)' <=> Held(c)
PROOF
  <1>1. \A v \in Worker :
          /\ pc'[v] \in Busy <=> pc[v] \in Busy
          /\ pc'[v] = "push" <=> pc[v] = "push"
          /\ Carried(v)' = Carried(v)
          /\ pc[v] = "push" => job'[v] = job[v]
    BY Zenon, StillFacts
  <1> QED
    BY <1>1 DEF UniqueInv, Held

\* What remains to be shown of the flags when only one thread moves, and nothing
\* is done to the replicas.
LEMMA CloseStep ==
    ASSUME Inv, TypeOK', NEW w \in Worker, \A v \in Worker \ {w} : Still(v),
           UNCHANGED <<fixed, clean, removed>>, settled \subseteq settled', CloseOK(w)',
           \A v \in Worker \ {w} : pc[v] \in Closing \cup Finishing =>
              \A x \in {job[v].dir, job[v].into, job[v].from} :
                 (st'[x].success => st[x].success) /\ (st'[x].empty => st[x].empty)
    PROVE  Grows /\ CloseInv' /\ DoneInv'
PROOF
  <1>1. UNCHANGED <<parent, plan, keeps, clean, removed>>
    BY Zenon DEF fixed
  <1>2. Grows
    BY Zenon, <1>1, OutcomeGrows DEF Inv
  <1>3. CloseInv'
    <2>1. ASSUME NEW v \in Worker \ {w} PROVE CloseOK(v)'
      BY Zenon, <1>1, <1>2, OthersClose DEF Inv, Flags
    <2> QED
      BY Zenon, <2>1 DEF CloseInv
  <1>4. \A d \in Dir : Done(d)' <=> Done(d)
    BY Zenon, <1>1 DEF Done, Dirty
  <1>5. DoneInv
    BY Zenon DEF Inv, Flags
  <1>6. DoneInv'
    <2>1. \A d \in Dir : Done(d)' => AllDone(d)'
      BY Zenon, <1>2, <1>4, <1>5 DEF DoneInv, Grows
    <2> QED
      BY Zenon, <1>1, <1>5, <2>1 DEF DoneInv, RemovedWasEmpty, Children
  <1> QED
    BY Zenon, <1>2, <1>3, <1>6

\* No child is added to its parent by a thread that is elsewhere.
LEMMA SilentKept ==
    ASSUME NEW w \in Worker, \A v \in Worker \ {w} : Still(v), parent' = parent,
           pc'[w] \notin {"andEmpty", "countDown"}, NEW c, Counted(c)'
    PROVE  /\ Silent(c, {"andEmpty", "countDown"}) => Silent(c, {"andEmpty", "countDown"})'
           /\ Silent(c, {"countDown"}) => Silent(c, {"countDown"})'
PROOF
  <1>1. \A v \in Worker \ {w} :
          /\ job'[v] = job[v]
          /\ pc'[v] \in {"andEmpty", "countDown"} <=> pc[v] \in {"andEmpty", "countDown"}
          /\ pc'[v] \in {"countDown"} <=> pc[v] \in {"countDown"}
    BY Zenon, StillFacts
  <1> QED
    BY Zenon, <1>1 DEF Silent, ParentOf

\* What the flags say stays true in a step after which every child that was
\* counted and silent is still counted.
LEMMA FlagsStep ==
    ASSUME Inv, TypeOK', NEW w \in Worker, \A v \in Worker \ {w} : Still(v),
           UNCHANGED <<fixed, clean, removed>>, settled \subseteq settled', FlagsFall, CloseOK(w)',
           pc'[w] \notin {"andEmpty", "countDown"},
           \A c \in Dir : Counted(c)' \/ ~Silent(c, {"countDown"}),
           \A d \in Dir : (Walked(d)' => Walked(d)) /\ (Ahead(d) => Ahead(d)')
    PROVE  Flags'
PROOF
  <1>1. parent' = parent
    BY Zenon DEF fixed
  <1>2. \A v \in Worker \ {w} : pc[v] \in Closing \cup Finishing =>
           \A x \in {job[v].dir, job[v].into, job[v].from} : x \in Dir \cup {Top}
    BY Zenon, TaskFacts DEF Inv, Busy
  <1>3. Grows /\ CloseInv' /\ DoneInv'
    BY Zenon, <1>2, CloseStep DEF FlagsFall
  <1>4. ASSUME NEW c \in Dir, Silent(c, {"countDown"})
        PROVE  Silent(c, {"countDown"})'
               /\ (Silent(c, {"andEmpty", "countDown"}) => Silent(c, {"andEmpty", "countDown"})')
    BY Zenon, <1>1, <1>4, SilentKept
  <1>5. \A c \in Dir : Silent(c, {"andEmpty", "countDown"}) => Silent(c, {"countDown"})
    BY Zenon DEF Silent
  <1>6. Reported
    BY Zenon, <1>4, <1>5 DEF Reported
  <1>7. SuccessInv' /\ EmptyInv'
    BY Zenon, <1>3, <1>6, SameFlags DEF Inv, Flags
  <1> QED
    BY Zenon, <1>3, <1>7 DEF Flags

\* Nobody has heard of the subdirectories of a directory that has not been set
\* up, or of those the walk has not come to.
LEMMA Untouched ==
    ASSUME TypeOK, Shape, NEW w \in Worker, pc[w] \in {"process"} \cup Walking,
           NEW c \in job[w].todo
    PROVE  /\ c \in Dir \ {Root} /\ parent[c] = job[w].dir /\ ParentOf(c) = job[w].dir
           /\ ~Held(c) /\ ~st[c].onComplete /\ ~Counted(c)
PROOF
  <1> DEFINE d == job[w].dir
  <1>1. d \in Dir /\ c \in Children(d) /\ ~st[d].onComplete
    BY Zenon, TaskFacts DEF Shape, JobInv, JobOK, Busy
  <1>2. c \in Dir \ {Root} /\ parent[c] = d /\ ParentOf(c) = d
    BY Zenon, <1>1, TreeFacts
  <1>3. ~Passed(c)
    <2>1. SUFFICES ASSUME NEW v \in Worker, pc[v] \in Walking, job[v].dir = d, c \notin job[v].todo
                   PROVE  FALSE
      BY Zenon, <1>1, <1>2 DEF Passed
    <2>2. Carried(v) = Carried(w) /\ pc[v] \in Busy /\ pc[w] \in Busy
      BY Zenon, <2>1 DEF Carried, Walking, Busy
    <2>3. v = w
      BY Zenon, <2>2 DEF Shape, UniqueInv
    <2> QED
      BY Zenon, <2>1, <2>3
  <1>4. ~Held(c) /\ ~st[c].onComplete
    BY Zenon, <1>2, <1>3 DEF Shape, ParentInv
  <1> QED
    BY Zenon, <1>2, <1>4 DEF Counted

\* The threads other than one that runs a task have no business with its directory.
LEMMA OthersElsewhere ==
    ASSUME UniqueInv, NEW w \in Worker, pc[w] \in Busy
    PROVE  /\ \A v \in Worker \ {w} : pc[v] \in Busy => Carried(v) # Carried(w)
           /\ \A i \in DOMAIN tasks : tasks[i].dir # Carried(w)
           /\ \A v \in Worker : pc[v] = "push" => job[v].next # Carried(w)
PROOF
  BY Zenon DEF UniqueInv

\* Threads carry directories, and never the state above the root.
LEMMA CarriedDir ==
    ASSUME TypeOK, JobInv
    PROVE  \A v \in Worker : /\ pc[v] \in Busy => Carried(v) \in Dir
                             /\ pc[v] = "push" => job[v].next \in Dir
PROOF
  <1>1. ASSUME NEW v \in Worker, pc[v] = "push" PROVE job[v].next \in Dir
    <2>1. job[v].dir \in Dir /\ job[v].next \in Children(job[v].dir)
      BY Zenon, <1>1, TaskFacts DEF JobInv, JobOK, Busy, Walking
    <2> QED
      BY Zenon, <2>1, TreeFacts
  <1>2. ASSUME NEW v \in Worker, pc[v] \in Busy PROVE Carried(v) \in Dir
    BY Zenon, <1>2, TaskFacts DEF Carried, JobInv, JobOK
  <1> QED
    BY Zenon, <1>1, <1>2

\* Threads and tasks keep their knowledge when the DirStates of other directories,
\* and flags, change.
LEMMA OtherJobs ==
    ASSUME TypeOK, UniqueInv, JobInv, NEW w \in Worker, pc[w] \in Busy, parent' = parent,
           tasks' = tasks, \A v \in Worker \ {w} : Still(v),
           \A x \in Dir \ {Carried(w)} : Spares(x),
           \A v \in Worker \ {w} : pc[v] \in Finishing /\ job[v].into # job[v].dir =>
              (st'[job[v].into].success => st[job[v].into].success),
           JobOK(w)'
    PROVE  JobInv'
PROOF
  <1>1. ASSUME NEW v \in Worker \ {w} PROVE JobOK(v)'
    <2>1. /\ pc[v] \in Busy => Carried(v) \in Dir \ {Carried(w)}
          /\ pc[v] = "push" => job[v].next \in Dir \ {Carried(w)}
      BY Zenon, CarriedDir, OthersElsewhere
    <2> QED
      BY Zenon, <2>1, OthersJob DEF JobInv
  <1>2. ASSUME NEW i \in DOMAIN tasks PROVE TaskOK(tasks[i])'
    <2>1. Spares(tasks[i].dir)
      BY Zenon, TaskFacts, OthersElsewhere
    <2> QED
      BY Zenon, <2>1, OtherTasks
  <1> QED
    BY Zenon, <1>1, <1>2 DEF JobInv

-----------------------------------------------------------------------------
(* Steps that move directories between the stack and the threads. *)

\* A step that leaves every place, counter and flag alone.
LEMMA IdleInv ==
    ASSUME Inv, TypeOK', \A v \in Worker : Still(v), UNCHANGED <<fixed, st, tasks, outcome>>
    PROVE  Inv'
PROOF
  <1>1. \A v \in Worker :
          /\ job'[v] = job[v]
          /\ pc'[v] \in Busy <=> pc[v] \in Busy
          /\ pc'[v] \in Walking <=> pc[v] \in Walking
          /\ pc'[v] = "push" <=> pc[v] = "push"
          /\ pc'[v] \in {"andEmpty", "countDown"} <=> pc[v] \in {"andEmpty", "countDown"}
          /\ pc'[v] \in {"countDown"} <=> pc[v] \in {"countDown"}
          /\ Carried(v)' = Carried(v)
          /\ \A d : Walks(v, d)' <=> Walks(v, d)
    BY Zenon, StillFacts
  <1>2. UNCHANGED <<parent, plan, keeps, clean, settled, removed>>
    BY Zenon DEF fixed, outcome
  <1>3. \A c \in Dir : Held(c)' <=> Held(c)
    BY Zenon, <1>1 DEF Held
  <1>4. \A d \in Dir : Own(d)' = Own(d)
    BY Zenon, <1>1 DEF Own
  <1>5. \A d \in Dir : (Walked(d)' <=> Walked(d)) /\ (Ahead(d)' <=> Ahead(d))
    BY Zenon, <1>1 DEF Walked, Ahead
  <1>6. SamePlaces
    BY Zenon, <1>3, <1>4, <1>5 DEF SamePlaces, Counted
  <1>7. UniqueInv'
    BY <1>1 DEF Inv, Shape, UniqueInv
  <1>8. JobInv'
    <2>1. ASSUME NEW v \in Worker PROVE JobOK(v)'
      BY Zenon, <1>2, OthersJob DEF Inv, Shape, JobInv, Spares
    <2>2. ASSUME NEW i \in DOMAIN tasks PROVE TaskOK(tasks[i])'
      BY Zenon, <2>2, OtherTasks DEF Inv, Shape, Spares
    <2> QED
      BY Zenon, <2>1, <2>2 DEF JobInv
  <1>9. ParentInv'
    <2>1. \A c \in Dir \ {Root} : Passed(c)' <=> Passed(c)
      BY Zenon, <1>1, <1>2 DEF Passed
    <2> QED
      BY Zenon, <1>3, <2>1 DEF Inv, Shape, ParentInv
  <1>10. CountInv'
    BY Zenon, <1>2, <1>6, SameCounts DEF Inv, Shape, CountInv
  <1>11. Grows
    BY Zenon, OutcomeGrows, <1>2 DEF Inv
  <1>12. Reported
    <2>1. \A c \in Dir : /\ Silent(c, {"andEmpty", "countDown"})' <=> Silent(c, {"andEmpty", "countDown"})
                         /\ Silent(c, {"countDown"})' <=> Silent(c, {"countDown"})
      BY <1>1, <1>2, <1>6 DEF Silent, SamePlaces, ParentOf
    <2> QED
      BY Zenon, <2>1 DEF Reported
  <1>13. SuccessInv' /\ EmptyInv'
    BY Zenon, <1>2, <1>5, <1>11, <1>12, SameFlags DEF Inv, Flags, FlagsFall
  <1>14. CloseInv'
    <2>1. ASSUME NEW v \in Worker PROVE CloseOK(v)'
      BY Zenon, <1>2, <1>11, OthersClose DEF Inv, Flags
    <2> QED
      BY Zenon, <2>1 DEF CloseInv
  <1>15. DoneInv'
    BY Zenon, <1>2 DEF Inv, Flags, DoneInv, RemovedWasEmpty, AllDone, Done, Dirty, Children
  <1> QED
    BY Zenon, <1>7, <1>8, <1>9, <1>10, <1>13, <1>14, <1>15 DEF Inv, Shape, Flags

\* WorkStack::run pops a task.
LEMMA TakeTaskFacts ==
    ASSUME TypeOK, NEW w \in Worker, TakeTask(w)
    PROVE  LET m == Len(tasks)
               t == tasks[m]
           IN  /\ TypeOK' /\ \A v \in Worker \ {w} : Still(v)
               /\ UNCHANGED <<fixed, st, outcome>>
               /\ m \in DOMAIN tasks /\ t \in Task /\ DOMAIN tasks' = DOMAIN tasks \ {m}
               /\ \A i \in DOMAIN tasks' : tasks'[i] = tasks[i]
               /\ pc[w] \notin Busy /\ pc'[w] = t.what
               /\ job'[w] = [dir |-> t.dir, todo |-> Children(t.dir), next |-> None,
                             into |-> ParentOf(t.dir), from |-> t.dir]
PROOF
  <1> DEFINE m == Len(tasks)
             t == tasks[m]
             j == [dir |-> t.dir, todo |-> Children(t.dir), next |-> None,
                   into |-> ParentOf(t.dir), from |-> t.dir]
  <1>1. /\ pc[w] \in {"ready", "return"} /\ tasks # <<>> /\ inFlight' = Flying(w) + 1
        /\ job' = [job EXCEPT ![w] = j] /\ pc' = [pc EXCEPT ![w] = t.what]
        /\ tasks' = SubSeq(tasks, 1, m - 1) /\ UNCHANGED <<fixed, st, outcome>>
    BY Zenon DEF TakeTask
  <1>2. /\ m \in DOMAIN tasks /\ t \in Task /\ tasks' \in Seq(Task)
        /\ DOMAIN tasks' = DOMAIN tasks \ {m} /\ \A i \in DOMAIN tasks' : tasks'[i] = tasks[i]
    BY Zenon, <1>1, StackFacts DEF TypeOK
  <1>3. t.dir \in Dir /\ t.what \in {"process", "complete"}
    BY Zenon, <1>2 DEF Task
  <1>4. j \in Job
    <2>1. Children(t.dir) \in SUBSET Dir /\ ParentOf(t.dir) \in Dir \cup {Top}
      BY Zenon, <1>3, TreeFacts DEF Children
    <2> QED
      BY Zenon, <1>3, <2>1 DEF Job
  <1> HIDE DEF j, t, m
  <1>5. /\ job' \in [Worker -> Job \cup {None}] /\ job'[w] = j
        /\ \A v \in Worker \ {w} : job'[v] = job[v]
    BY Zenon, <1>1, <1>4, SetJob
  <1>6. /\ pc' \in [Worker -> Place] /\ pc'[w] = t.what
        /\ \A v \in Worker \ {w} : pc'[v] = pc[v]
    BY Zenon, <1>1, <1>3 DEF TypeOK, Place, Flight, Busy, Closing
  <1>7. inFlight' \in Nat
    BY <1>1 DEF TypeOK, Flying
  <1>8. TypeOK'
    BY Zenon, <1>1, <1>2, <1>4, <1>5, <1>6, <1>7 DEF TypeOK, fixed, outcome
  <1>9. pc[w] \notin Busy
    BY Zenon, <1>1 DEF Busy, Walking, Finishing, Closing, Marking, Removing
  <1> QED
    BY Zenon, <1>1, <1>2, <1>5, <1>6, <1>8, <1>9 DEF Still, j, t, m

\* A task passes from the stack to the thread that takes it.
LEMMA TakeTaskInv ==
    ASSUME Inv, NEW w \in Worker, TakeTask(w)
    PROVE  Inv'
PROOF
  <1> DEFINE m == Len(tasks)
             t == tasks[m]
  <1>1. /\ TypeOK' /\ (\A v \in Worker \ {w} : Still(v))
        /\ UNCHANGED <<fixed, st, outcome>>
        /\ m \in DOMAIN tasks /\ t \in Task /\ DOMAIN tasks' = DOMAIN tasks \ {m}
        /\ \A i \in DOMAIN tasks' : tasks'[i] = tasks[i]
        /\ pc[w] \notin Busy /\ pc'[w] = t.what
        /\ job'[w] = [dir |-> t.dir, todo |-> Children(t.dir), next |-> None,
                      into |-> ParentOf(t.dir), from |-> t.dir]
    BY Zenon, TakeTaskFacts DEF Inv
  <1>2. /\ job'[w].dir = t.dir /\ job'[w].todo = Children(t.dir)
        /\ job'[w].into = ParentOf(t.dir) /\ job'[w].from = t.dir
    BY <1>1
  <1>3. t.dir \in Dir /\ t.what \in {"process", "complete"}
    BY Zenon, <1>1, TaskFacts DEF Inv
  <1>4. /\ pc'[w] \in Busy /\ pc'[w] \notin Walking \cup Finishing \cup {"queue"}
        /\ Carried(w)' = t.dir
    BY Zenon, <1>1, <1>2, <1>3 DEF Busy, Walking, Finishing, Closing, Carried
  <1>5. UNCHANGED <<parent, plan, keeps, clean, settled, removed>>
    BY Zenon, <1>1 DEF fixed, outcome
  <1>6. \A v \in Worker \ {w} :
          /\ job'[v] = job[v]
          /\ pc'[v] \in Busy <=> pc[v] \in Busy
          /\ pc'[v] \in Walking <=> pc[v] \in Walking
          /\ pc'[v] = "push" <=> pc[v] = "push"
          /\ Carried(v)' = Carried(v)
          /\ \A d : Walks(v, d)' <=> Walks(v, d)
    BY Zenon, <1>1, StillFacts
  <1>7. /\ DOMAIN tasks' = DOMAIN tasks \ {m} /\ m \in DOMAIN tasks /\ tasks[m].dir = t.dir
        /\ \A i \in DOMAIN tasks' : tasks'[i].dir = tasks[i].dir
        /\ pc[w] \notin Busy /\ pc[w] # "push" /\ pc'[w] # "push"
    BY Zenon, <1>1, <1>4 DEF Busy, Walking
  <1>8. UniqueInv
    BY Zenon DEF Inv, Shape
  <1> HIDE DEF m, t
  <1>9. UniqueInv'
    BY <1>4, <1>6, <1>7, <1>8 DEF UniqueInv
  <1>10. \A c \in Dir : Held(c)' <=> Held(c)
    BY <1>4, <1>6, <1>7 DEF Held
  <1>11. \A d \in Dir : Own(d)' = Own(d)
    <2>1. \A d : ~Walks(w, d) /\ ~Walks(w, d)'
      BY Zenon, <1>1, <1>4 DEF Walks, Busy
    <2> QED
      BY Zenon, <1>6, <2>1 DEF Own
  <1>12. \A d \in Dir : (Walked(d)' <=> Walked(d)) /\ (Ahead(d)' <=> Ahead(d))
    BY Zenon, <1>1, <1>4, <1>6 DEF Walked, Ahead, Busy
  <1>13. \A c \in Dir : Counted(c)' <=> Counted(c)
    BY Zenon, <1>1, <1>10 DEF Counted
  <1>14. SamePlaces
    BY Zenon, <1>10, <1>11, <1>12, <1>13 DEF SamePlaces
  <1>15. TaskOK(t)
    BY Zenon, <1>1 DEF Inv, Shape, JobInv, t, m
  <1>16. JobInv'
    <2>1. ASSUME NEW v \in Worker \ {w} PROVE JobOK(v)'
      BY Zenon, <1>1, <1>5, OthersJob DEF Inv, Shape, JobInv, Spares
    <2>2. ASSUME NEW i \in DOMAIN tasks' PROVE TaskOK(tasks[i])'
      <3>1. TaskOK(tasks[i])
        BY Zenon, <1>7, <2>2 DEF Inv, Shape, JobInv
      <3> QED
        BY Zenon, <1>1, <3>1 DEF TaskOK
    <2>3. JobOK(w)'
      <3>1. \A d : ParentOf(d)' = ParentOf(d) /\ Children(d)' = Children(d)
        BY Zenon, <1>5 DEF ParentOf, Children
      <3>2. CASE t.what = "process"
        BY Zenon, <1>1, <1>2, <1>15, <3>1, <3>2 DEF JobOK, TaskOK, Walking, Finishing, Closing, Marking, Removing
      <3>3. CASE t.what = "complete"
        BY Zenon, <1>1, <1>2, <1>15, <3>1, <3>3 DEF JobOK, TaskOK, Walking, Finishing, Closing, Marking, Removing
      <3> QED
        BY Zenon, <1>3, <3>2, <3>3
    <2> QED
      BY Zenon, <1>1, <2>1, <2>2, <2>3 DEF JobInv
  <1>17. ParentInv'
    <2>1. \A c \in Dir \ {Root} : Passed(c)' <=> Passed(c)
      BY Zenon, <1>1, <1>4, <1>5, <1>6 DEF Passed, Busy
    <2> QED
      BY Zenon, <1>1, <1>10, <2>1 DEF Inv, Shape, ParentInv
  <1>18. CountInv'
    BY Zenon, <1>1, <1>5, <1>14, SameCounts DEF Inv, Shape, CountInv
  <1>19. CloseOK(w)'
    BY Zenon, <1>1, <1>3 DEF CloseOK, Marking, Removing
  <1>20. Flags'
    <2>1. \A c \in Dir : Counted(c)' \/ ~Silent(c, {"countDown"})
      BY Zenon, <1>13 DEF Silent
    <2>2. FlagsFall /\ pc'[w] \notin {"andEmpty", "countDown"}
      BY Zenon, <1>1, <1>3 DEF FlagsFall
    <2> QED
      BY Zenon, <1>1, <1>5, <1>12, <1>19, <2>1, <2>2, FlagsStep
  <1> QED
    BY Zenon, <1>1, <1>9, <1>16, <1>17, <1>18, <1>20 DEF Inv, Shape

\* WorkStack::push.
LEMMA PushFacts ==
    ASSUME TypeOK, NEW w \in Worker, NEW t \in Task, NEW next \in Flight, pc[w] \in Busy,
           Push(w, t, next)
    PROVE  /\ tasks' \in Seq(Task) /\ Len(tasks) + 1 \notin DOMAIN tasks
           /\ DOMAIN tasks' = DOMAIN tasks \cup {Len(tasks) + 1}
           /\ tasks'[Len(tasks) + 1] = t
           /\ \A i \in DOMAIN tasks : tasks'[i] = tasks[i]
           /\ pc' \in [Worker -> Place] /\ pc'[w] = next
           /\ \A v \in Worker \ {w} :
                 pc'[v] = pc[v] \/ (pc[v] \notin Busy /\ pc'[v] \notin Busy)
PROOF
  <1>1. tasks' = Append(tasks, t) /\ Notify(w, next) /\ tasks \in Seq(Task) /\ pc \in [Worker -> Place]
    BY Zenon DEF Push, TypeOK
  <1>2. /\ tasks' \in Seq(Task) /\ Len(tasks) + 1 \notin DOMAIN tasks
        /\ DOMAIN tasks' = DOMAIN tasks \cup {Len(tasks) + 1}
        /\ tasks'[Len(tasks) + 1] = t
        /\ \A i \in DOMAIN tasks : tasks'[i] = tasks[i]
    BY <1>1
  <1>3. pc[w] # "waiting"
    BY Zenon DEF Busy, Walking, Finishing, Closing, Marking, Removing
  <1>4. pc'[w] = next /\ Others(w)
    BY Zenon, <1>1, <1>3, NotifyFacts
  <1>5. \A v \in Worker \ {w} : pc'[v] = pc[v] \/ (pc[v] \notin Busy /\ pc'[v] \notin Busy)
    BY Zenon, <1>4 DEF Others, Busy, Walking, Finishing, Closing, Marking, Removing
  <1>6. pc' \in [Worker -> Place]
    <2> DEFINE waiting == {v \in Worker : pc[v] = "waiting"}
    <2>0. next \in Place /\ "ready" \in Place
      BY Zenon DEF Place
    <2>1. CASE waiting = {}
      BY Zenon, <1>1, <2>0, <2>1 DEF Notify
    <2>2. CASE waiting # {}
      <3>1. PICK v \in waiting : pc' = [pc EXCEPT ![w] = next, ![v] = "ready"]
        BY Zenon, <1>1, <2>2 DEF Notify
      <3> QED
        BY Zenon, <1>1, <2>0, <3>1
    <2> QED
      BY Zenon, <2>1, <2>2
  <1> QED
    BY Zenon, <1>2, <1>4, <1>5, <1>6

\* The thread that walks a directory pushes the task of a child.
LEMMA PushChildFacts ==
    ASSUME TypeOK, JobInv, NEW w \in Worker, PushChild(w)
    PROVE  LET j == job[w] IN
           /\ TypeOK' /\ (\A v \in Worker \ {w} : Still(v)) /\ UNCHANGED <<fixed, st, outcome>>
           /\ pc[w] = "push" /\ pc'[w] = "walk" /\ j.next \in Dir
           /\ Len(tasks) + 1 \notin DOMAIN tasks
           /\ DOMAIN tasks' = DOMAIN tasks \cup {Len(tasks) + 1}
           /\ tasks'[Len(tasks) + 1] = [what |-> "process", dir |-> j.next]
           /\ \A i \in DOMAIN tasks : tasks'[i] = tasks[i]
           /\ job'[w].dir = j.dir /\ job'[w].todo = j.todo /\ job'[w].into = j.into
           /\ job'[w].from = j.from
PROOF
  <1> DEFINE j == job[w]
             k == [j EXCEPT !.next = None]
             t == [what |-> "process", dir |-> j.next]
  <1>1. /\ pc[w] = "push" /\ Push(w, t, "walk") /\ job' = [job EXCEPT ![w] = k]
        /\ UNCHANGED <<fixed, st, inFlight, outcome>>
    BY Zenon DEF PushChild
  <1>2. pc[w] \in Busy /\ j \in Job /\ j.dir \in Dir
    BY Zenon, <1>1, TaskFacts DEF Busy, Walking
  <1>3. j.next \in Dir
    BY Zenon, <1>1, <1>2, TreeFacts DEF JobInv, JobOK
  <1>4. /\ k \in Job /\ k.dir = j.dir /\ k.todo = j.todo /\ k.into = j.into /\ k.from = j.from
    BY Zenon, <1>2, SetJobField
  <1>5. t \in Task /\ "walk" \in Flight
    BY Zenon, <1>3 DEF Task, Flight, Busy, Walking
  <1> HIDE DEF j, k, t
  <1>6. /\ tasks' \in Seq(Task) /\ Len(tasks) + 1 \notin DOMAIN tasks
        /\ DOMAIN tasks' = DOMAIN tasks \cup {Len(tasks) + 1}
        /\ tasks'[Len(tasks) + 1] = t
        /\ \A i \in DOMAIN tasks : tasks'[i] = tasks[i]
        /\ pc' \in [Worker -> Place] /\ pc'[w] = "walk"
        /\ \A v \in Worker \ {w} :
              pc'[v] = pc[v] \/ (pc[v] \notin Busy /\ pc'[v] \notin Busy)
    BY Zenon, <1>1, <1>2, <1>5, PushFacts
  <1>7. /\ job' \in [Worker -> Job \cup {None}] /\ job'[w] = k
        /\ \A v \in Worker \ {w} : job'[v] = job[v]
    BY Zenon, <1>1, <1>4, SetJob
  <1>8. TypeOK'
    BY Zenon, <1>1, <1>4, <1>6, <1>7 DEF TypeOK, fixed, outcome
  <1> QED
    BY Zenon, <1>1, <1>3, <1>4, <1>6, <1>7, <1>8 DEF Still, j, t

\* The thread that brought `pending` to zero pushes the completion.
LEMMA QueueCompletionFacts ==
    ASSUME TypeOK, JobInv, NEW w \in Worker, QueueCompletion(w)
    PROVE  /\ TypeOK' /\ (\A v \in Worker \ {w} : Still(v)) /\ UNCHANGED <<fixed, st, outcome>>
           /\ pc[w] = "queue" /\ pc'[w] = "return" /\ job[w].into \in Dir
           /\ Len(tasks) + 1 \notin DOMAIN tasks
           /\ DOMAIN tasks' = DOMAIN tasks \cup {Len(tasks) + 1}
           /\ tasks'[Len(tasks) + 1] = [what |-> "complete", dir |-> job[w].into]
           /\ \A i \in DOMAIN tasks : tasks'[i] = tasks[i]
PROOF
  <1> DEFINE t == [what |-> "complete", dir |-> job[w].into]
  <1>1. /\ pc[w] = "queue" /\ Push(w, t, "return") /\ job' = [job EXCEPT ![w] = None]
        /\ UNCHANGED <<fixed, st, inFlight, outcome>>
    BY Zenon DEF QueueCompletion
  <1>2. pc[w] \in Busy /\ job[w].into \in Dir
    BY Zenon, <1>1 DEF Busy, JobInv, JobOK
  <1>3. t \in Task /\ "return" \in Flight
    BY Zenon, <1>2 DEF Task, Flight
  <1> HIDE DEF t
  <1>4. /\ tasks' \in Seq(Task) /\ Len(tasks) + 1 \notin DOMAIN tasks
        /\ DOMAIN tasks' = DOMAIN tasks \cup {Len(tasks) + 1}
        /\ tasks'[Len(tasks) + 1] = t
        /\ \A i \in DOMAIN tasks : tasks'[i] = tasks[i]
        /\ pc' \in [Worker -> Place] /\ pc'[w] = "return"
        /\ \A v \in Worker \ {w} :
              pc'[v] = pc[v] \/ (pc[v] \notin Busy /\ pc'[v] \notin Busy)
    BY Zenon, <1>1, <1>2, <1>3, PushFacts
  <1>5. /\ job' \in [Worker -> Job \cup {None}]
        /\ \A v \in Worker \ {w} : job'[v] = job[v]
    BY Zenon, <1>1, SetJob
  <1>6. "return" \notin Busy
    BY Zenon DEF Busy, Walking, Finishing, Closing, Marking, Removing
  <1>7. TypeOK'
    BY Zenon, <1>1, <1>4, <1>5, <1>6 DEF TypeOK, fixed, outcome
  <1> QED
    BY Zenon, <1>1, <1>2, <1>4, <1>5, <1>7 DEF Still, t

\* A child passes from the thread that walks its parent to the stack.
LEMMA PushChildInv ==
    ASSUME Inv, NEW w \in Worker, PushChild(w)
    PROVE  Inv'
PROOF
  <1> DEFINE j == job[w]
             n == Len(tasks) + 1
  <1>0. TypeOK /\ UniqueInv /\ JobInv /\ ParentInv /\ CountInv
    BY Zenon DEF Inv, Shape
  <1>1. /\ TypeOK' /\ (\A v \in Worker \ {w} : Still(v)) /\ UNCHANGED <<fixed, st, outcome>>
        /\ pc[w] = "push" /\ pc'[w] = "walk" /\ j.next \in Dir
        /\ n \notin DOMAIN tasks /\ DOMAIN tasks' = DOMAIN tasks \cup {n}
        /\ tasks'[n] = [what |-> "process", dir |-> j.next]
        /\ \A i \in DOMAIN tasks : tasks'[i] = tasks[i]
        /\ job'[w].dir = j.dir /\ job'[w].todo = j.todo /\ job'[w].into = j.into
        /\ job'[w].from = j.from
    BY Zenon, <1>0, PushChildFacts
  <1>2. /\ tasks'[n].what = "process" /\ tasks'[n].dir = j.next
        /\ n \notin DOMAIN tasks /\ DOMAIN tasks' = DOMAIN tasks \cup {n}
        /\ \A i \in DOMAIN tasks : tasks'[i].dir = tasks[i].dir
        /\ pc[w] = "push"
    BY <1>1
  <1>3. UNCHANGED <<parent, plan, keeps, clean, settled, removed>>
    BY Zenon, <1>1 DEF fixed, outcome
  <1>4. \A v \in Worker :
          /\ v # w => job'[v] = job[v]
          /\ pc'[v] \in Busy <=> pc[v] \in Busy
          /\ pc'[v] \in Walking <=> pc[v] \in Walking
          /\ pc'[v] = "push" <=> (pc[v] = "push" /\ v # w)
          /\ Carried(v)' = Carried(v)
          /\ \A d : Walks(v, d)' <=> Walks(v, d)
    <2>1. /\ pc[w] \in Busy /\ pc'[w] \in Busy /\ pc[w] \in Walking /\ pc'[w] \in Walking
          /\ Carried(w)' = Carried(w) /\ \A d : Walks(w, d)' <=> Walks(w, d)
      BY Zenon, <1>1 DEF Carried, Walks, Busy, Walking, Finishing
    <2> QED
      BY Zenon, <1>1, <2>1, StillFacts
  <1>5. UniqueInv
    BY Zenon, <1>0
  <1>6. pc[w] \in Busy
    BY Zenon, <1>1 DEF Busy, Walking
  <1> HIDE DEF j, n
  <1>7. UniqueInv'
    BY <1>2, <1>4, <1>5, <1>6 DEF UniqueInv, j
  <1>8. \A c \in Dir : Held(c)' <=> Held(c)
    BY <1>2, <1>4 DEF Held, j
  <1>9. \A d \in Dir : Own(d)' = Own(d)
    BY Zenon, <1>4 DEF Own
  <1>10. \A d \in Dir : (Walked(d)' <=> Walked(d)) /\ (Ahead(d)' <=> Ahead(d))
    BY <1>1, <1>4 DEF Walked, Ahead, j
  <1>11. \A c \in Dir : Counted(c)' <=> Counted(c)
    BY Zenon, <1>1, <1>8 DEF Counted
  <1>12. SamePlaces
    BY Zenon, <1>8, <1>9, <1>10, <1>11 DEF SamePlaces
  <1>13. JobOK(w)
    BY Zenon, <1>0 DEF JobInv
  <1>14. JobInv'
    <2>1. ASSUME NEW v \in Worker \ {w} PROVE JobOK(v)'
      BY Zenon, <1>0, <1>1, <1>3, OthersJob DEF JobInv, Spares
    <2>2. ASSUME NEW i \in DOMAIN tasks' PROVE TaskOK(tasks[i])'
      <3>1. CASE i \in DOMAIN tasks
        <4>1. TaskOK(tasks[i]) /\ tasks'[i] = tasks[i]
          BY Zenon, <1>0, <1>1, <3>1 DEF JobInv, n
        <4> QED
          BY Zenon, <1>1, <4>1 DEF TaskOK
      <3>2. CASE i = n
        BY Zenon, <1>1, <1>2, <1>13, <3>2 DEF TaskOK, JobOK, j
      <3> QED
        BY Zenon, <1>2, <3>1, <3>2
    <2>3. JobOK(w)'
      BY Zenon, <1>1, <1>3, <1>13
         DEF JobOK, ParentOf, Children, Walking, Finishing, Closing, Marking, Removing, j
    <2> QED
      BY Zenon, <1>1, <2>1, <2>2, <2>3 DEF JobInv
  <1>15. ParentInv'
    <2>1. \A c \in Dir \ {Root} : Passed(c)' <=> Passed(c)
      BY <1>1, <1>3, <1>4 DEF Passed, j
    <2> QED
      BY Zenon, <1>0, <1>1, <1>8, <2>1 DEF ParentInv
  <1>16. CountInv'
    BY Zenon, <1>0, <1>1, <1>3, <1>12, SameCounts DEF CountInv
  <1>17. CloseOK(w)'
    BY Zenon, <1>1 DEF CloseOK, Marking, Removing
  <1>18. Flags'
    <2>1. \A c \in Dir : Counted(c)' \/ ~Silent(c, {"countDown"})
      BY Zenon, <1>11 DEF Silent
    <2>2. FlagsFall /\ pc'[w] \notin {"andEmpty", "countDown"}
      BY Zenon, <1>1 DEF FlagsFall
    <2> QED
      BY Zenon, <1>1, <1>3, <1>10, <1>17, <2>1, <2>2, FlagsStep
  <1> QED
    BY Zenon, <1>1, <1>7, <1>14, <1>15, <1>16, <1>18 DEF Inv, Shape

\* A completion passes from the thread that noticed it is due to the stack.
LEMMA QueueCompletionInv ==
    ASSUME Inv, NEW w \in Worker, QueueCompletion(w)
    PROVE  Inv'
PROOF
  <1> DEFINE p == job[w].into
             n == Len(tasks) + 1
  <1>0. TypeOK /\ UniqueInv /\ JobInv /\ ParentInv /\ CountInv
    BY Zenon DEF Inv, Shape
  <1>1. /\ TypeOK' /\ (\A v \in Worker \ {w} : Still(v)) /\ UNCHANGED <<fixed, st, outcome>>
        /\ pc[w] = "queue" /\ pc'[w] = "return" /\ p \in Dir
        /\ n \notin DOMAIN tasks /\ DOMAIN tasks' = DOMAIN tasks \cup {n}
        /\ tasks'[n] = [what |-> "complete", dir |-> p]
        /\ \A i \in DOMAIN tasks : tasks'[i] = tasks[i]
    BY Zenon, <1>0, QueueCompletionFacts
  <1>2. /\ tasks'[n].what = "complete" /\ tasks'[n].dir = p
        /\ n \notin DOMAIN tasks /\ DOMAIN tasks' = DOMAIN tasks \cup {n}
        /\ \A i \in DOMAIN tasks : tasks'[i].dir = tasks[i].dir
        /\ pc[w] # "push" /\ pc'[w] # "push"
    BY <1>1
  <1>3. UNCHANGED <<parent, plan, keeps, clean, settled, removed>>
    BY Zenon, <1>1 DEF fixed, outcome
  <1>4. /\ pc[w] \in Busy /\ pc'[w] \notin Busy /\ Carried(w) = p
        /\ pc[w] \notin Walking \cup Finishing \cup Closing
    BY Zenon, <1>1 DEF Carried, Busy, Walking, Finishing, Closing, Marking, Removing
  <1>5. \A v \in Worker \ {w} :
          /\ job'[v] = job[v]
          /\ pc'[v] \in Busy <=> pc[v] \in Busy
          /\ pc'[v] \in Walking <=> pc[v] \in Walking
          /\ pc'[v] = "push" <=> pc[v] = "push"
          /\ Carried(v)' = Carried(v)
          /\ \A d : Walks(v, d)' <=> Walks(v, d)
    BY Zenon, <1>1, StillFacts
  <1>6. UniqueInv
    BY Zenon, <1>0
  <1> HIDE DEF p, n
  <1>7. UniqueInv'
    BY <1>2, <1>4, <1>5, <1>6 DEF UniqueInv
  <1>8. \A c \in Dir : Held(c)' <=> Held(c)
    BY <1>2, <1>4, <1>5 DEF Held
  <1>9. \A d \in Dir : Own(d)' = Own(d)
    <2>1. \A d : ~Walks(w, d) /\ ~Walks(w, d)'
      BY Zenon, <1>1, <1>4 DEF Walks, Walking, Finishing
    <2> QED
      BY Zenon, <1>5, <2>1 DEF Own
  <1>10. \A d \in Dir : (Walked(d)' <=> Walked(d)) /\ (Ahead(d)' <=> Ahead(d))
    BY Zenon, <1>1, <1>4, <1>5 DEF Walked, Ahead, Walking
  <1>11. \A c \in Dir : Counted(c)' <=> Counted(c)
    BY Zenon, <1>1, <1>8 DEF Counted
  <1>12. SamePlaces
    BY Zenon, <1>8, <1>9, <1>10, <1>11 DEF SamePlaces
  <1>13. st[p].onComplete /\ st[p].pending = 0
    BY Zenon, <1>0, <1>1 DEF JobInv, JobOK, p
  <1>14. JobInv'
    <2>1. ASSUME NEW v \in Worker \ {w} PROVE JobOK(v)'
      BY Zenon, <1>0, <1>1, <1>3, OthersJob DEF JobInv, Spares
    <2>2. ASSUME NEW i \in DOMAIN tasks' PROVE TaskOK(tasks[i])'
      <3>1. CASE i \in DOMAIN tasks
        <4>1. TaskOK(tasks[i]) /\ tasks'[i] = tasks[i]
          BY Zenon, <1>0, <1>1, <3>1 DEF JobInv, n
        <4> QED
          BY Zenon, <1>1, <4>1 DEF TaskOK
      <3>2. CASE i = n
        BY Zenon, <1>1, <1>2, <1>13, <3>2 DEF TaskOK
      <3> QED
        BY Zenon, <1>2, <3>1, <3>2
    <2>3. JobOK(w)'
      BY Zenon, <1>1 DEF JobOK, Walking, Finishing, Closing, Marking, Removing
    <2> QED
      BY Zenon, <1>1, <2>1, <2>2, <2>3 DEF JobInv
  <1>15. ParentInv'
    <2>1. \A c \in Dir \ {Root} : Passed(c)' <=> Passed(c)
      BY Zenon, <1>1, <1>3, <1>4, <1>5 DEF Passed, Walking
    <2> QED
      BY Zenon, <1>0, <1>1, <1>8, <2>1 DEF ParentInv
  <1>16. CountInv'
    BY Zenon, <1>0, <1>1, <1>3, <1>12, SameCounts DEF CountInv
  <1>17. CloseOK(w)'
    BY Zenon, <1>1 DEF CloseOK, Marking, Removing
  <1>18. Flags'
    <2>1. \A c \in Dir : Counted(c)' \/ ~Silent(c, {"countDown"})
      BY Zenon, <1>11 DEF Silent
    <2>2. FlagsFall /\ pc'[w] \notin {"andEmpty", "countDown"}
      BY Zenon, <1>1 DEF FlagsFall
    <2> QED
      BY Zenon, <1>1, <1>3, <1>10, <1>17, <2>1, <2>2, FlagsStep
  <1> QED
    BY Zenon, <1>1, <1>7, <1>14, <1>15, <1>16, <1>18 DEF Inv, Shape

\* A thread that has no task waits, stops or wakes up.
LEMMA IdleStepInv ==
    ASSUME Inv, NEW w \in Worker, Wait(w) \/ Stop(w) \/ SpuriousWakeup(w)
    PROVE  Inv'
PROOF
  <1>0. TypeOK
    BY Zenon DEF Inv
  <1>1. UNCHANGED <<fixed, st, tasks, job, outcome>>
    BY Zenon DEF Wait, Stop, SpuriousWakeup
  <1>2. inFlight' \in Nat
    BY <1>0 DEF Wait, Stop, SpuriousWakeup, Flying, TypeOK
  <1>3. pc' \in [Worker -> Place]
    BY Zenon, <1>0 DEF Wait, Stop, SpuriousWakeup, TypeOK, Place
  <1>4. \A v \in Worker : pc'[v] = pc[v] \/
           (pc[v] \in {"ready", "return", "waiting"} /\ pc'[v] \in {"ready", "waiting", "stopped"})
    BY Zenon, <1>0 DEF Wait, Stop, SpuriousWakeup, TypeOK
  <1>5. \A v \in Worker : Still(v)
    BY Zenon, <1>1, <1>4 DEF Still, Busy, Walking, Finishing, Closing, Marking, Removing
  <1>6. TypeOK'
    <2>1. \A v \in Worker : pc'[v] \in Busy => job'[v] \in Job
      BY Zenon, <1>0, <1>1, <1>5 DEF TypeOK, Still
    <2> QED
      BY Zenon, <1>0, <1>1, <1>2, <1>3, <2>1 DEF TypeOK, fixed, outcome
  <1> QED
    BY Zenon, <1>1, <1>5, <1>6, IdleInv


-----------------------------------------------------------------------------
(* A directory that cannot be set up, and the end of a walk. *)

\* A directory that cannot be set up clears `success` of its parent.
LEMMA ProcessFailsFacts ==
    ASSUME TypeOK, NEW w \in Worker, ProcessFails(w)
    PROVE  LET j == job[w] IN
           /\ TypeOK' /\ (\A v \in Worker \ {w} : Still(v)) /\ Fall
           /\ UNCHANGED <<fixed, tasks, outcome>>
           /\ pc[w] = "process" /\ pc'[w] = "finish" /\ ~st'[j.into].success
           /\ job'[w].dir = j.dir /\ job'[w].into = j.into /\ job'[w].from = j.into
PROOF
  <1> DEFINE j == job[w]
             p == j.into
             k == [j EXCEPT !.from = p]
  <1>1. /\ pc[w] = "process" /\ pc' = [pc EXCEPT ![w] = "finish"]
        /\ st' = [st EXCEPT ![p] = [st[p] EXCEPT !.success = FALSE]]
        /\ job' = [job EXCEPT ![w] = k] /\ UNCHANGED <<fixed, tasks, inFlight, outcome>>
    BY Zenon DEF ProcessFails, Goto
  <1>2. j \in Job /\ p \in Dir \cup {Top}
    BY Zenon, <1>1, TaskFacts DEF Busy
  <1>3. st' \in [Dir \cup {Top} -> DirState] /\ st'[p].success = FALSE /\ Fall
    BY Zenon, <1>1, <1>2, SetSuccess
  <1>4. k \in Job /\ k.dir = j.dir /\ k.into = j.into /\ k.from = p
    BY Zenon, <1>2, SetJobField
  <1> HIDE DEF k
  <1>5. /\ job' \in [Worker -> Job \cup {None}] /\ job'[w] = k
        /\ \A v \in Worker \ {w} : job'[v] = job[v]
    BY Zenon, <1>1, <1>4, SetJob
  <1>6. pc' \in [Worker -> Place] /\ pc'[w] = "finish" /\ \A v \in Worker \ {w} : pc'[v] = pc[v]
    BY Zenon, <1>1 DEF TypeOK, Place, Flight, Busy, Finishing
  <1>7. TypeOK'
    BY Zenon, <1>1, <1>3, <1>4, <1>5, <1>6 DEF TypeOK, fixed, outcome
  <1> QED
    BY Zenon, <1>1, <1>3, <1>4, <1>5, <1>6, <1>7 DEF Still

\* It is then counted as finished there, without a DirState of its own.
LEMMA ProcessFailsInv ==
    ASSUME Inv, NEW w \in Worker, ProcessFails(w)
    PROVE  Inv'
PROOF
  <1> DEFINE j == job[w]
  <1>0. TypeOK /\ Shape /\ UniqueInv /\ JobInv /\ ParentInv /\ CountInv
    BY Zenon DEF Inv, Shape
  <1>1. /\ TypeOK' /\ (\A v \in Worker \ {w} : Still(v)) /\ Fall
        /\ UNCHANGED <<fixed, tasks, outcome>>
        /\ pc[w] = "process" /\ pc'[w] = "finish" /\ ~st'[j.into].success
        /\ job'[w].dir = j.dir /\ job'[w].into = j.into /\ job'[w].from = j.into
    BY Zenon, <1>0, ProcessFailsFacts
  <1>2. UNCHANGED <<parent, plan, keeps, clean, settled, removed>>
    BY Zenon, <1>1 DEF fixed, outcome
  <1>3. /\ pc[w] \in Busy \ {"push"} /\ pc'[w] \in Busy \ {"push"} /\ Carried(w)' = Carried(w)
        /\ pc[w] \notin Walking /\ pc'[w] \notin Walking
    BY Zenon, <1>1 DEF Busy, Walking, Finishing, Carried
  <1>4. /\ j.dir \in Dir /\ j.into \in Dir \cup {Top} /\ j.into = ParentOf(j.dir)
        /\ j.into # j.dir /\ ~st[j.dir].onComplete
    BY <1>0, <1>1, <1>3, TaskFacts, TreeFacts DEF JobInv, JobOK
  <1>5. \A v \in Worker \ {w} :
          /\ job'[v] = job[v]
          /\ pc'[v] \in Walking <=> pc[v] \in Walking
          /\ \A d : Walks(v, d)' <=> Walks(v, d)
    BY Zenon, <1>1, StillFacts
  <1>6. UniqueInv' /\ \A c : Held(c)' <=> Held(c)
    BY Zenon, <1>0, <1>1, <1>3, KeepPlace
  <1>7. \A d \in Dir : Own(d)' = Own(d)
    <2>1. \A d : ~Walks(w, d) /\ ~Walks(w, d)'
      BY Zenon, <1>1, <1>3, <1>4 DEF Walks, Finishing
    <2> QED
      BY Zenon, <1>5, <2>1 DEF Own
  <1>8. \A d \in Dir : (Walked(d)' <=> Walked(d)) /\ (Ahead(d)' <=> Ahead(d))
    BY <1>1, <1>3, <1>5 DEF Walked, Ahead, Fall
  <1>9. SamePlaces
    BY Zenon, <1>1, <1>6, <1>7, <1>8 DEF SamePlaces, Counted, Fall
  <1>10. \A x \in Dir : Spares(x)
    BY Zenon, <1>1 DEF Fall, Spares
  <1>11. JobInv'
    <2>1. ASSUME NEW v \in Worker \ {w} PROVE JobOK(v)'
      <3>1. JobOK(v) /\ Still(v)
        BY Zenon, <1>0, <1>1 DEF JobInv
      <3>2. /\ pc[v] \in Busy => Carried(v) \in Dir /\ job[v].into \in Dir \cup {Top}
            /\ pc[v] = "push" => job[v].next \in Dir
        <4>1. pc[v] = "push" => job[v].dir \in Dir /\ job[v].next \in Children(job[v].dir)
          BY Zenon, <1>0, <3>1, TaskFacts DEF JobOK, Busy, Walking
        <4> QED
          BY <1>0, <3>1, <4>1, TaskFacts, TreeFacts DEF Carried, JobOK
      <3>3. /\ pc[v] \in Busy => Spares(Carried(v))
            /\ pc[v] = "push" => Spares(job[v].next)
            /\ pc[v] \in Finishing => (st'[job[v].into].success => st[job[v].into].success)
        BY Zenon, <1>1, <1>10, <3>2 DEF Fall, Busy
      <3> QED
        BY Zenon, <1>0, <1>2, <3>1, <3>3, OthersJob
    <2>2. ASSUME NEW i \in DOMAIN tasks PROVE TaskOK(tasks[i])'
      <3>1. Spares(tasks[i].dir)
        BY Zenon, <1>0, <1>10, TaskFacts
      <3> QED
        BY Zenon, <1>0, <1>1, <3>1, OtherTasks
    <2>3. JobOK(w)'
      <3>1. FinishOK(job[w])'
        BY Zenon, <1>1, <1>2, <1>4 DEF FinishOK, ParentOf, Fall
      <3> QED
        BY Zenon, <1>1, <3>1 DEF JobOK, Walking, Finishing, Closing, Marking, Removing
    <2> QED
      BY Zenon, <1>1, <2>1, <2>2, <2>3 DEF JobInv
  <1>12. ParentInv'
    <2>1. \A c \in Dir \ {Root} : Passed(c)' <=> Passed(c)
      BY <1>0, <1>1, <1>2, <1>3, <1>5, TreeFacts DEF Passed, Fall
    <2> QED
      BY Zenon, <1>0, <1>1, <1>6, <2>1 DEF ParentInv, Fall
  <1>13. CountInv'
    BY Zenon, <1>0, <1>1, <1>2, <1>9, SameCounts DEF CountInv, Fall
  <1>14. CloseOK(w)'
    BY Zenon, <1>1, <1>4 DEF CloseOK, Marking, Removing
  <1>15. Flags'
    <2>1. \A c \in Dir : Counted(c)' \/ ~Silent(c, {"countDown"})
      BY Zenon, <1>9 DEF Silent, SamePlaces
    <2>2. FlagsFall /\ pc'[w] \notin {"andEmpty", "countDown"}
      BY Zenon, <1>1 DEF FlagsFall, Fall
    <2> QED
      BY Zenon, <1>1, <1>2, <1>8, <1>14, <2>1, <2>2, FlagsStep
  <1> QED
    BY Zenon, <1>1, <1>6, <1>11, <1>12, <1>13, <1>15 DEF Inv, Shape

\* The end of process_dir stores the completion.
LEMMA EndOfWalkFacts ==
    ASSUME TypeOK, NEW w \in Worker, EndOfWalk(w)
    PROVE  LET j == job[w]
               d == j.dir
           IN  /\ TypeOK' /\ (\A v \in Worker \ {w} : Still(v)) /\ FlagsFall
               /\ UNCHANGED <<fixed, tasks, outcome>> /\ d \in Dir
               /\ \A x \in Dir \cup {Top} : st'[x].pending = st[x].pending
               /\ \A x \in (Dir \cup {Top}) \ {d} : st'[x].onComplete = st[x].onComplete
               /\ pc[w] = "walk" /\ j.todo = {} /\ pc'[w] = "finish" /\ st'[d].onComplete
               /\ job'[w].dir = d /\ job'[w].into = d /\ job'[w].from = j.from
PROOF
  <1> DEFINE j == job[w]
             d == j.dir
             k == [j EXCEPT !.into = d]
             r == [st[d] EXCEPT !.onComplete = TRUE]
  <1>1. /\ pc[w] = "walk" /\ j.todo = {} /\ pc' = [pc EXCEPT ![w] = "finish"]
        /\ st' = [st EXCEPT ![d] = r]
        /\ job' = [job EXCEPT ![w] = k] /\ UNCHANGED <<fixed, tasks, inFlight, outcome>>
    BY Zenon DEF EndOfWalk, Goto
  <1>2. j \in Job /\ d \in Dir /\ st[d] \in DirState
    BY Zenon, <1>1, TaskFacts DEF Busy, Walking, TypeOK
  <1>3. /\ r \in DirState /\ r.success = st[d].success /\ r.empty = st[d].empty
        /\ r.pending = st[d].pending /\ r.onComplete = TRUE
    BY Zenon, <1>2, SetField
  <1>4. k \in Job /\ k.dir = d /\ k.into = d /\ k.from = j.from
    <2>1. d \in Dir \cup {Top}
      BY Zenon, <1>2
    <2> QED
      BY <1>2, <2>1, SetJobField, Zenon
  <1> HIDE DEF k, r
  <1>5. /\ st' \in [Dir \cup {Top} -> DirState] /\ st'[d] = r
        /\ \A x \in (Dir \cup {Top}) \ {d} : st'[x] = st[x]
    BY Zenon, <1>1, <1>2, <1>3, SetState
  <1>6. /\ job' \in [Worker -> Job \cup {None}] /\ job'[w] = k
        /\ \A v \in Worker \ {w} : job'[v] = job[v]
    BY Zenon, <1>1, <1>4, SetJob
  <1>7. pc' \in [Worker -> Place] /\ pc'[w] = "finish" /\ \A v \in Worker \ {w} : pc'[v] = pc[v]
    BY Zenon, <1>1 DEF TypeOK, Place, Flight, Busy, Finishing
  <1>8. TypeOK'
    BY Zenon, <1>1, <1>4, <1>5, <1>6, <1>7 DEF TypeOK, fixed, outcome
  <1>9. FlagsFall /\ \A x \in Dir \cup {Top} : st'[x].pending = st[x].pending
    BY Zenon, <1>3, <1>5 DEF FlagsFall
  <1>10. \A v \in Worker \ {w} : Still(v)
    BY Zenon, <1>6, <1>7 DEF Still
  <1> QED
    BY Zenon, <1>1, <1>2, <1>3, <1>4, <1>5, <1>6, <1>7, <1>8, <1>9, <1>10

\* From there on the directory counts itself as one of those it waits for.
LEMMA EndOfWalkInv ==
    ASSUME Inv, NEW w \in Worker, EndOfWalk(w)
    PROVE  Inv'
PROOF
  <1> DEFINE j == job[w]
             d == j.dir
  <1>0. TypeOK /\ Shape /\ UniqueInv /\ JobInv /\ ParentInv /\ CountInv
    BY Zenon DEF Inv, Shape
  <1>1. /\ TypeOK' /\ (\A v \in Worker \ {w} : Still(v)) /\ FlagsFall
        /\ UNCHANGED <<fixed, tasks, outcome>> /\ d \in Dir
        /\ \A x \in Dir \cup {Top} : st'[x].pending = st[x].pending
        /\ \A x \in (Dir \cup {Top}) \ {d} : st'[x].onComplete = st[x].onComplete
        /\ pc[w] = "walk" /\ j.todo = {} /\ pc'[w] = "finish" /\ st'[d].onComplete
        /\ job'[w].dir = d /\ job'[w].into = d /\ job'[w].from = j.from
    BY Zenon, <1>0, EndOfWalkFacts
  <1>2. UNCHANGED <<parent, plan, keeps, clean, settled, removed>>
    BY Zenon, <1>1 DEF fixed, outcome
  <1>3. /\ pc[w] \in Busy \ {"push"} /\ pc'[w] \in Busy \ {"push"} /\ Carried(w)' = d /\ Carried(w) = d
        /\ pc[w] \in Walking /\ pc'[w] \notin Walking
    BY Zenon, <1>1 DEF Busy, Walking, Finishing, Carried
  <1>4. j.from = d /\ ParentOf(d) # d
    BY Zenon, <1>0, <1>1, <1>3, TreeFacts DEF JobInv, JobOK
  <1>5. \A v \in Worker \ {w} :
          /\ job'[v] = job[v]
          /\ pc'[v] \in Walking <=> pc[v] \in Walking
          /\ \A x : Walks(v, x)' <=> Walks(v, x)
    BY Zenon, <1>1, StillFacts
  <1>6. UniqueInv' /\ \A c : Held(c)' <=> Held(c)
    BY Zenon, <1>0, <1>1, <1>3, KeepPlace
  <1>7. Held(d)
    BY Zenon, <1>3 DEF Held
  <1> HIDE DEF d
  <1>8. \A x \in Dir : Own(x)' = Own(x)
    <2>1. \A x : Walks(w, x) <=> x = d
      BY Zenon, <1>3 DEF Walks, d
    <2>2. \A x : Walks(w, x)' <=> x = d
      BY Zenon, <1>1, <1>3 DEF Walks, Finishing
    <2> QED
      BY Zenon, <1>5, <2>1, <2>2 DEF Own
  <1>9. \A x \in Dir : (Walked(x)' <=> Walked(x)) /\ (Ahead(x)' <=> Ahead(x))
    <2>1. \A x \in Dir \ {d} : Walked(x)' <=> Walked(x)
      BY Zenon, <1>1, <1>3, <1>5 DEF Walked, d
    <2>2. \A x \in {d} : Walked(x) /\ Walked(x)'
      BY Zenon, <1>1, <1>3 DEF Walked, d
    <2>3. \A x \in Dir : Ahead(x)' <=> Ahead(x)
      BY Zenon, <1>1, <1>3, <1>5 DEF Ahead
    <2> QED
      BY <2>1, <2>2, <2>3, Zenon
  <1>10. SamePlaces
    <2>1. \A c \in Dir \ {d} : Counted(c)' <=> Counted(c)
      BY Zenon, <1>1, <1>6 DEF Counted
    <2>2. \A x \in {d} : Counted(x) /\ Counted(x)'
      BY <1>6, <1>7, Zenon DEF Counted
    <2> QED
      BY <1>6, <1>8, <1>9, <2>1, <2>2, Zenon DEF SamePlaces
  <1>11. JobInv'
    <2>1. \A x \in Dir \ {Carried(w)} : Spares(x)
      BY Zenon, <1>1, <1>3 DEF Spares
    <2>2. \A v \in Worker \ {w} : pc[v] \in Finishing =>
             (st'[job[v].into].success => st[job[v].into].success)
      BY Zenon, <1>0, <1>1, TaskFacts DEF FlagsFall, Busy
    <2>3. JobOK(w)'
      <3>1. FinishOK(job[w])'
        BY Zenon, <1>1, <1>4 DEF FinishOK
      <3> QED
        BY Zenon, <1>1, <3>1 DEF JobOK, Walking, Finishing, Closing, Marking, Removing
    <2> QED
      BY Zenon, <1>0, <1>1, <1>2, <1>3, <2>1, <2>2, <2>3, OtherJobs
  <1>12. ParentInv'
    <2>1. ASSUME NEW c \in Dir \ {Root}, Held(c)' \/ st'[c].onComplete PROVE Passed(c)'
      <3>1. Held(c) \/ st[c].onComplete
        BY Zenon, <1>1, <1>6, <1>7, <2>1
      <3>2. Passed(c) /\ parent[c] \in Dir
        BY Zenon, <1>0, <3>1, TreeFacts DEF ParentInv
      <3>3. CASE parent[c] = d
        BY Zenon, <1>1, <1>2, <3>3 DEF Passed
      <3>4. CASE parent[c] # d
        BY <1>1, <1>2, <1>3, <1>5, <3>2, <3>4 DEF Passed, d
      <3> QED
        BY Zenon, <3>3, <3>4
    <2> QED
      BY Zenon, <2>1 DEF ParentInv
  <1>13. CountInv'
    <2>1. Top # d
      BY Zenon, <1>1, TreeAssumption
    <2> QED
      BY Zenon, <1>0, <1>1, <1>2, <1>10, <2>1, SameCounts DEF CountInv
  <1>14. CloseOK(w)'
    <2>1. ParentOf(job[w].dir)' # job'[w].into
      BY Zenon, <1>1, <1>2, <1>4 DEF ParentOf
    <2> QED
      BY Zenon, <1>1, <2>1 DEF CloseOK, Marking, Removing
  <1>15. Flags'
    <2>1. \A c \in Dir : Counted(c)' \/ ~Silent(c, {"countDown"})
      BY Zenon, <1>10 DEF Silent, SamePlaces
    <2>2. pc'[w] \notin {"andEmpty", "countDown"}
      BY Zenon, <1>1
    <2> QED
      BY Zenon, <1>1, <1>2, <1>9, <1>14, <2>1, <2>2, FlagsStep
  <1> QED
    BY Zenon, <1>1, <1>6, <1>11, <1>12, <1>13, <1>15 DEF Inv, Shape

-----------------------------------------------------------------------------
(* Steps that count nothing: the flags and the completion. *)

\* Only the thread itself moves, and it moves within finish_task_in_dir or
\* within the completion, or from the second to the first.
Quiet(w) ==
    /\ UNCHANGED <<fixed, tasks, job>> /\ pc' = [pc EXCEPT ![w] = pc'[w]]
    /\ \/ pc[w] \in Finishing /\ pc'[w] \in Finishing
       \/ pc[w] \in Closing /\ pc'[w] \in Closing \cup {"finish"}
    /\ Fall
    /\ settled' = settled
    /\ \A s \in Side : clean[s] \subseteq clean'[s]
    /\ \A d \in Dir : removed[d] \subseteq removed'[d]

\* One that clears `empty` of a DirState, or leaves it, changes nothing else.
LEMMA SetEmpty ==
    ASSUME TypeOK, NEW p \in Dir \cup {Top}, NEW b \in BOOLEAN, b => st[p].empty,
           st' = [st EXCEPT ![p] = [st[p] EXCEPT !.empty = b]]
    PROVE  st' \in [Dir \cup {Top} -> DirState] /\ st'[p].empty = b /\ Fall
PROOF
  <1> DEFINE r == [st[p] EXCEPT !.empty = b]
  <1>1. st[p] \in DirState
    BY Zenon DEF TypeOK
  <1>2. /\ r \in DirState /\ r.empty = b /\ r.success = st[p].success
        /\ r.pending = st[p].pending /\ r.onComplete = st[p].onComplete
    BY <1>1, SetField
  <1>3. st' = [st EXCEPT ![p] = r]
    BY Zenon
  <1> HIDE DEF r
  <1>4. /\ st' \in [Dir \cup {Top} -> DirState] /\ st'[p] = r
        /\ \A x \in (Dir \cup {Top}) \ {p} : st'[x] = st[x]
    BY Zenon, <1>2, <1>3, SetState
  <1> QED
    BY Zenon, <1>2, <1>4 DEF Fall

\* What each of the steps does.
LEMMA AndSuccessFacts ==
    ASSUME TypeOK, NEW w \in Worker, AndSuccess(w)
    PROVE  /\ TypeOK' /\ Quiet(w) /\ pc[w] = "finish" /\ pc'[w] = "andEmpty" /\ UNCHANGED outcome
           /\ st'[job[w].into].success => st[job[w].from].success
PROOF
  <1> DEFINE p == job[w].into
             b == st[p].success /\ st[job[w].from].success
  <1>1. /\ pc[w] = "finish" /\ pc' = [pc EXCEPT ![w] = "andEmpty"]
        /\ st' = [st EXCEPT ![p] = [st[p] EXCEPT !.success = b]]
        /\ UNCHANGED <<fixed, tasks, inFlight, job, outcome>>
    BY Zenon DEF AndSuccess, Goto
  <1>2. p \in Dir \cup {Top}
    BY Zenon, <1>1 DEF TypeOK, Busy, Finishing, Job
  <1>3. b \in BOOLEAN /\ (b => st[p].success) /\ (b => st[job[w].from].success)
    BY Zenon
  <1> HIDE DEF b
  <1>4. st' \in [Dir \cup {Top} -> DirState] /\ st'[p].success = b /\ Fall
    BY Zenon, <1>1, <1>2, <1>3, SetSuccess
  <1>5. pc' \in [Worker -> Place] /\ pc'[w] = "andEmpty" /\ \A v \in Worker \ {w} : pc'[v] = pc[v]
    BY Zenon, <1>1 DEF TypeOK, Place, Flight, Busy, Finishing
  <1>6. TypeOK'
    BY Zenon, <1>1, <1>4, <1>5 DEF TypeOK, fixed, outcome, Busy, Finishing
  <1>7. Quiet(w)
    BY Zenon, <1>1, <1>4, <1>5 DEF Quiet, Fall, Finishing, outcome
  <1> QED
    BY Zenon, <1>1, <1>3, <1>4, <1>5, <1>6, <1>7

\* The `fetch_and` on `empty` in finish_task_in_dir.
LEMMA AndEmptyFacts ==
    ASSUME TypeOK, NEW w \in Worker, AndEmpty(w)
    PROVE  /\ TypeOK' /\ Quiet(w) /\ pc[w] = "andEmpty" /\ pc'[w] = "countDown" /\ UNCHANGED outcome
           /\ st'[job[w].into].empty => st[job[w].from].empty
PROOF
  <1> DEFINE p == job[w].into
             b == st[p].empty /\ st[job[w].from].empty
  <1>1. /\ pc[w] = "andEmpty" /\ pc' = [pc EXCEPT ![w] = "countDown"]
        /\ st' = [st EXCEPT ![p] = [st[p] EXCEPT !.empty = b]]
        /\ UNCHANGED <<fixed, tasks, inFlight, job, outcome>>
    BY Zenon DEF AndEmpty, Goto
  <1>2. p \in Dir \cup {Top}
    BY Zenon, <1>1 DEF TypeOK, Busy, Finishing, Job
  <1>3. b \in BOOLEAN /\ (b => st[p].empty) /\ (b => st[job[w].from].empty)
    BY Zenon
  <1> HIDE DEF b
  <1>4. st' \in [Dir \cup {Top} -> DirState] /\ st'[p].empty = b /\ Fall
    BY Zenon, <1>1, <1>2, <1>3, SetEmpty
  <1>5. pc' \in [Worker -> Place] /\ pc'[w] = "countDown" /\ \A v \in Worker \ {w} : pc'[v] = pc[v]
    BY Zenon, <1>1 DEF TypeOK, Place, Flight, Busy, Finishing
  <1>6. TypeOK'
    BY Zenon, <1>1, <1>4, <1>5 DEF TypeOK, fixed, outcome, Busy, Finishing
  <1>7. Quiet(w)
    BY Zenon, <1>1, <1>4, <1>5 DEF Quiet, Fall, Finishing, outcome
  <1> QED
    BY Zenon, <1>1, <1>3, <1>4, <1>5, <1>6, <1>7

\* A mark or a removal that fails clears `success` of the directory.
LEMMA CompletionFailsFacts ==
    ASSUME TypeOK, NEW w \in Worker, CompletionFails(w)
    PROVE  /\ TypeOK' /\ Quiet(w) /\ pc'[w] = "finish" /\ UNCHANGED outcome
           /\ pc[w] \in Closing \ {"complete"} /\ ~st'[job[w].dir].success
PROOF
  <1> DEFINE p == job[w].dir
  <1>1. /\ pc[w] \in Marking \cup Removing /\ pc' = [pc EXCEPT ![w] = "finish"]
        /\ st' = [st EXCEPT ![p] = [st[p] EXCEPT !.success = FALSE]]
        /\ UNCHANGED <<fixed, tasks, inFlight, job, outcome>>
    BY Zenon DEF CompletionFails, Goto, Marking, Removing
  <1>2. p \in Dir \cup {Top} /\ pc[w] \in Closing
    BY Zenon, <1>1 DEF TypeOK, Busy, Closing, Marking, Removing, Job
  <1>3. st' \in [Dir \cup {Top} -> DirState] /\ st'[p].success = FALSE /\ Fall
    BY Zenon, <1>1, <1>2, SetSuccess
  <1>4. pc' \in [Worker -> Place] /\ pc'[w] = "finish" /\ \A v \in Worker \ {w} : pc'[v] = pc[v]
    BY Zenon, <1>1 DEF TypeOK, Place, Flight, Busy, Finishing
  <1>5. TypeOK'
    BY Zenon, <1>1, <1>2, <1>3, <1>4 DEF TypeOK, fixed, outcome, Busy, Finishing
  <1>6. Quiet(w)
    BY Zenon, <1>1, <1>2, <1>3, <1>4 DEF Quiet, outcome
  <1> QED
    BY Zenon, <1>1, <1>3, <1>4, <1>5, <1>6 DEF Closing, Marking, Removing

\* The completion of a directory reads its flags and chooses what to do.
LEMMA CompleteFacts ==
    ASSUME TypeOK, NEW w \in Worker, Complete(w)
    PROVE  /\ TypeOK' /\ Quiet(w) /\ pc[w] = "complete" /\ st' = st /\ UNCHANGED outcome
           /\ LET s == st[job[w].dir]
                  gone == plan[job[w].dir] = "delete" /\ s.empty
              IN  \/ ~s.success /\ pc'[w] = "finish"
                  \/ s.success /\ gone /\ pc'[w] = "rmAnc"
                  \/ s.success /\ ~gone /\ pc'[w] = "markClient"
PROOF
  <1> DEFINE s == st[job[w].dir]
             gone == plan[job[w].dir] = "delete" /\ s.empty
             next == IF ~s.success THEN "finish" ELSE IF gone THEN "rmAnc" ELSE "markClient"
  <1>1. /\ pc[w] = "complete" /\ pc' = [pc EXCEPT ![w] = next]
        /\ UNCHANGED <<fixed, st, tasks, inFlight, job, outcome>>
    BY Zenon DEF Complete, Goto
  <1>2. \/ ~s.success /\ next = "finish"
        \/ s.success /\ gone /\ next = "rmAnc"
        \/ s.success /\ ~gone /\ next = "markClient"
    BY Zenon
  <1> HIDE DEF s, gone, next
  <1>3. next \in {"finish", "rmAnc", "markClient"}
    BY Zenon, <1>2
  <1>4. pc' \in [Worker -> Place] /\ pc'[w] = next /\ \A v \in Worker \ {w} : pc'[v] = pc[v]
    BY Zenon, <1>1, <1>3 DEF TypeOK, Place, Flight, Busy, Finishing, Closing, Marking, Removing
  <1>5. TypeOK'
    BY Zenon, <1>1, <1>4 DEF TypeOK, fixed, outcome, Busy, Closing
  <1>6. Quiet(w)
    BY Zenon, <1>1, <1>3, <1>4 DEF Quiet, Fall, outcome, Closing, Marking, Removing
  <1> QED
    BY Zenon, <1>1, <1>2, <1>4, <1>5, <1>6 DEF s, gone

\* mark_both_clean marks the directory in one replica.
LEMMA MarkCleanFacts ==
    ASSUME TypeOK, NEW w \in Worker, NEW side \in Side, NEW at \in Closing,
           NEW next \in Closing \cup {"finish"}, MarkClean(w, side, at, next)
    PROVE  /\ TypeOK' /\ Quiet(w) /\ pc[w] = at /\ pc'[w] = next /\ st' = st /\ removed' = removed
           /\ job[w].dir \in Dir
           /\ clean'[side] = clean[side] \cup {job[w].dir}
           /\ \A s \in Side \ {side} : clean'[s] = clean[s]
PROOF
  <1>1. /\ pc[w] = at /\ pc' = [pc EXCEPT ![w] = next]
        /\ clean' = [clean EXCEPT ![side] = clean[side] \cup {job[w].dir}]
        /\ UNCHANGED <<fixed, st, tasks, inFlight, job, settled, removed>>
    BY Zenon DEF MarkClean, Goto
  <1>2. job[w].dir \in Dir
    BY Zenon, <1>1 DEF TypeOK, Busy, Job
  <1>3. pc' \in [Worker -> Place] /\ pc'[w] = next /\ \A v \in Worker \ {w} : pc'[v] = pc[v]
    BY Zenon, <1>1 DEF TypeOK, Place, Flight, Busy, Finishing
  <1>4. /\ clean' \in [Side -> SUBSET Dir] /\ clean'[side] = clean[side] \cup {job[w].dir}
        /\ \A s \in Side \ {side} : clean'[s] = clean[s]
    BY Zenon, <1>1, <1>2 DEF TypeOK
  <1>5. TypeOK'
    BY Zenon, <1>1, <1>3, <1>4 DEF TypeOK, fixed, Busy
  <1>6. Quiet(w)
    BY Zenon, <1>1, <1>3, <1>4 DEF Quiet, Fall
  <1> QED
    BY Zenon, <1>1, <1>2, <1>3, <1>4, <1>5, <1>6

\* delete_or_mark_clean removes the directory from one replica.
LEMMA RmdirFacts ==
    ASSUME TypeOK, NEW w \in Worker, NEW replica \in Replica, NEW at \in Closing,
           NEW next \in Closing \cup {"finish"}, Rmdir(w, replica, at, next)
    PROVE  /\ TypeOK' /\ Quiet(w) /\ pc[w] = at /\ pc'[w] = next /\ st' = st /\ clean' = clean
           /\ job[w].dir \in Dir
           /\ removed'[job[w].dir] = removed[job[w].dir] \cup {replica}
           /\ \A d \in Dir \ {job[w].dir} : removed'[d] = removed[d]
PROOF
  <1>1. /\ pc[w] = at /\ pc' = [pc EXCEPT ![w] = next]
        /\ removed' = [removed EXCEPT ![job[w].dir] = removed[job[w].dir] \cup {replica}]
        /\ UNCHANGED <<fixed, st, tasks, inFlight, job, clean, settled>>
    BY Zenon DEF Rmdir, Goto
  <1>2. job[w].dir \in Dir
    BY Zenon, <1>1 DEF TypeOK, Busy, Job
  <1>3. pc' \in [Worker -> Place] /\ pc'[w] = next /\ \A v \in Worker \ {w} : pc'[v] = pc[v]
    BY Zenon, <1>1 DEF TypeOK, Place, Flight, Busy, Finishing
  <1>4. /\ removed' \in [Dir -> SUBSET Replica]
        /\ removed'[job[w].dir] = removed[job[w].dir] \cup {replica}
        /\ \A d \in Dir \ {job[w].dir} : removed'[d] = removed[d]
    BY Zenon, <1>1, <1>2 DEF TypeOK
  <1>5. TypeOK'
    BY Zenon, <1>1, <1>3, <1>4 DEF TypeOK, fixed, Busy
  <1>6. Quiet(w)
    BY Zenon, <1>1, <1>2, <1>3, <1>4 DEF Quiet, Fall
  <1> QED
    BY Zenon, <1>1, <1>2, <1>3, <1>4, <1>5, <1>6

\* A step within finish_task_in_dir or a completion moves no directory.
LEMMA QuietShape ==
    ASSUME TypeOK, Shape, NEW w \in Worker, Quiet(w), TypeOK'
    PROVE  Shape' /\ SamePlaces
PROOF
  <1>1. /\ parent' = parent /\ tasks' = tasks /\ job' = job /\ Fall
        /\ \A v \in Worker \ {w} : pc'[v] = pc[v]
    BY Zenon DEF Quiet, TypeOK, fixed
  <1>2. /\ pc[w] \in Busy /\ pc'[w] \in Busy
        /\ pc[w] \notin Walking \cup {"process", "queue"} /\ pc'[w] \notin Walking \cup {"process", "queue"}
    BY Zenon DEF Quiet, Busy, Walking, Finishing, Closing, Marking, Removing
  <1>3. \A v \in Worker :
          /\ pc'[v] \in Busy <=> pc[v] \in Busy
          /\ pc'[v] \in Walking <=> pc[v] \in Walking
          /\ pc'[v] = "push" <=> pc[v] = "push"
          /\ pc'[v] = "queue" <=> pc[v] = "queue"
          /\ pc'[v] = "process" <=> pc[v] = "process"
          /\ Carried(v)' = Carried(v)
    BY Zenon, <1>1, <1>2 DEF Carried, Walking
  <1>4. \A c \in Dir : Held(c)' <=> Held(c)
    BY Zenon, <1>1, <1>3 DEF Held
  <1>5. \A c \in Dir : Counted(c)' <=> Counted(c)
    BY Zenon, <1>1, <1>4 DEF Counted, Fall
  <1>6. \A d \in Dir : Walked(d)' <=> Walked(d)
    BY Zenon, <1>1, <1>3 DEF Walked, Fall
  <1>7. \A c \in Dir : Ahead(c)' <=> Ahead(c)
    BY Zenon, <1>1, <1>3 DEF Ahead
  <1>8. job[w] \in Job /\ job[w].dir \in Dir
    BY Zenon, <1>2 DEF TypeOK, Job
  <1>9. FinishOK(job[w])' \/ pc'[w] \notin Finishing
    <2>1. CASE pc[w] \in Finishing
      <3>1. FinishOK(job[w])
        BY Zenon, <2>1 DEF Shape, JobInv, JobOK
      <3>2. job[w].into \in Dir \cup {Top}
        BY Zenon, <1>8 DEF Job
      <3> QED
        BY Zenon, <1>1, <1>8, <3>1, <3>2 DEF FinishOK, Fall, ParentOf
    <2>2. CASE pc[w] \in Closing
      <3>1. /\ job[w].into = ParentOf(job[w].dir) /\ job[w].from = job[w].dir
            /\ st[job[w].dir].onComplete /\ st[job[w].dir].pending = 0
        BY Zenon, <2>2 DEF Shape, JobInv, JobOK
      <3> QED
        BY Zenon, <1>1, <1>8, <3>1 DEF FinishOK, Fall, ParentOf
    <2> QED
      BY Zenon, <2>1, <2>2 DEF Quiet
  <1>10. \A v \in Worker, d \in Dir : Walks(v, d)' <=> Walks(v, d)
    <2>1. ASSUME NEW d \in Dir PROVE Walks(w, d)' <=> Walks(w, d)
      <3>1. CASE pc[w] \in Finishing
        BY Zenon, <1>1, <1>2, <3>1 DEF Walks, Quiet, Finishing, Closing, Marking, Removing
      <3>2. CASE pc[w] \in Closing
        <4>1. job[w].into = ParentOf(job[w].dir) /\ ParentOf(job[w].dir) # job[w].dir
          BY Zenon, <1>8, <3>2, TreeFacts DEF Shape, JobInv, JobOK
        <4> QED
          BY Zenon, <1>1, <1>2, <3>2, <4>1 DEF Walks, Finishing, Closing, Marking, Removing
      <3> QED
        BY Zenon, <3>1, <3>2 DEF Quiet
    <2> QED
      BY Zenon, <1>1, <2>1 DEF Walks
  <1>11. \A d \in Dir : Own(d)' = Own(d)
    BY Zenon, <1>10 DEF Own
  <1>12. SamePlaces
    BY Zenon, <1>4, <1>5, <1>6, <1>7, <1>11 DEF SamePlaces
  <1>13. UniqueInv'
    BY <1>1, <1>3 DEF Shape, UniqueInv
  <1>14. JobInv'
    <2>1. ASSUME NEW i \in DOMAIN tasks PROVE TaskOK(tasks[i])'
      <3>1. tasks[i].dir \in Dir /\ TaskOK(tasks[i])
        BY Zenon, TaskFacts DEF Shape, JobInv
      <3> QED
        BY Zenon, <1>1, <3>1 DEF TaskOK, Fall
    <2>2. ASSUME NEW v \in Worker \ {w} PROVE JobOK(v)'
      <3>1. JobOK(v) /\ pc'[v] = pc[v] /\ job'[v] = job[v]
        BY Zenon, <1>1 DEF Shape, JobInv
      <3>2. CASE pc[v] \in Busy
        <4>1. job[v].dir \in Dir /\ job[v].into \in Dir \cup {Top}
          BY Zenon, <3>2 DEF TypeOK, Job
        <4>2. pc[v] = "push" => job[v].next \in Dir
          BY Zenon, <3>1, <4>1, TreeFacts DEF JobOK
        <4> QED
          BY Zenon, <1>1, <3>1, <4>1, <4>2 DEF JobOK, FinishOK, Fall, ParentOf, Children
      <3>3. CASE pc[v] \notin Busy
        BY Zenon, <3>1, <3>3 DEF JobOK, Busy, Walking
      <3> QED
        BY Zenon, <3>2, <3>3
    <2>3. JobOK(w)'
      <3>1. pc'[w] \in Closing => pc[w] \in Closing
        BY Zenon DEF Quiet, Finishing, Closing, Marking, Removing
      <3>2. pc'[w] \in Closing =>
              /\ job[w].into = ParentOf(job[w].dir) /\ job[w].from = job[w].dir
              /\ st[job[w].dir].onComplete /\ st[job[w].dir].pending = 0
        BY Zenon, <3>1 DEF Shape, JobInv, JobOK
      <3> QED
        BY Zenon, <1>1, <1>2, <1>8, <1>9, <3>2 DEF JobOK, Fall, ParentOf, Walking
    <2> QED
      BY Zenon, <1>1, <2>1, <2>2, <2>3 DEF JobInv
  <1>15. ParentInv'
    <2>1. \A c \in Dir \ {Root} : Passed(c)' <=> Passed(c)
      BY Zenon, <1>1, <1>3, TreeFacts DEF Passed, Fall
    <2> QED
      BY Zenon, <1>1, <1>4, <2>1 DEF Shape, ParentInv, Fall
  <1>16. CountInv'
    BY Zenon, <1>1, <1>12, SameCounts DEF Shape, CountInv, Fall
  <1> QED
    BY Zenon, <1>12, <1>13, <1>14, <1>15, <1>16 DEF Shape

\* It remains to show of a quiet step what it says of its own directory.
LEMMA QuietInv ==
    ASSUME Inv, NEW w \in Worker, TypeOK', Quiet(w),
           Grows => Reported /\ CloseOK(w)',
           \A d \in Dir : ~Done(d) /\ Done(d)' => AllDone(d),
           \A d \in Dir : removed[d] = {} /\ removed'[d] # {} => AllGone(d)
    PROVE  Inv'
PROOF
  <1>1. Shape' /\ SamePlaces
    BY Zenon, QuietShape DEF Inv
  <1>2. /\ UNCHANGED fixed /\ Fall /\ settled' = settled /\ job' = job
        /\ \A s \in Side : clean[s] \subseteq clean'[s]
        /\ \A d \in Dir : removed[d] \subseteq removed'[d]
        /\ \A v \in Worker \ {w} : pc'[v] = pc[v]
    BY Zenon DEF Quiet, Inv, TypeOK
  <1>3. Grows
    BY Zenon, <1>2, OutcomeGrows DEF Inv
  <1>4. SuccessInv' /\ EmptyInv'
    BY Zenon, <1>1, <1>2, <1>3, SameFlags DEF Inv, Flags, SamePlaces, Fall, FlagsFall
  <1>5. CloseInv'
    <2>1. ASSUME NEW v \in Worker \ {w} PROVE CloseOK(v)'
      <3>1. pc[v] \in Closing \cup Finishing =>
              \A x \in {job[v].dir, job[v].into, job[v].from} : x \in Dir \cup {Top}
        BY Zenon, TaskFacts DEF Inv, Busy
      <3>2. pc[v] \in Closing \cup Finishing =>
              \A x \in {job[v].dir, job[v].into, job[v].from} :
                 (st'[x].success => st[x].success) /\ (st'[x].empty => st[x].empty)
        BY Zenon, <1>2, <3>1 DEF Fall
      <3> QED
        BY Zenon, <1>2, <1>3, <3>2, OthersClose DEF Inv, Flags, Still
    <2> QED
      BY Zenon, <1>3, <2>1 DEF CloseInv
  <1>6. DoneInv'
    <2>0. DoneInv
      BY Zenon DEF Inv, Flags
    <2>1. \A d \in Dir : Done(d)' => AllDone(d)'
      BY Zenon, <1>3, <2>0 DEF Grows, DoneInv
    <2>2. ASSUME NEW d \in Dir, removed'[d] # {} PROVE AllGone(d)'
      <3>1. AllGone(d)
        BY Zenon, <2>0, <2>2 DEF DoneInv, RemovedWasEmpty, AllGone
      <3> QED
        BY Zenon, <1>3, <3>1 DEF Grows
    <2> QED
      BY Zenon, <2>1, <2>2 DEF DoneInv, RemovedWasEmpty, AllGone
  <1> QED
    BY Zenon, <1>1, <1>4, <1>5, <1>6 DEF Inv, Flags

\* What a thread in finish_task_in_dir does to the children that are silent.
LEMMA AndSuccessInv ==
    ASSUME Inv, NEW w \in Worker, AndSuccess(w)
    PROVE  Inv'
PROOF
  <1> DEFINE j == job[w]
  <1>1. /\ TypeOK' /\ Quiet(w) /\ pc[w] = "finish" /\ pc'[w] = "andEmpty" /\ UNCHANGED outcome
        /\ st'[j.into].success => st[j.from].success
    BY Zenon, AndSuccessFacts DEF Inv
  <1>2. /\ UNCHANGED fixed /\ job' = job /\ Fall
        /\ \A v \in Worker \ {w} : pc'[v] = pc[v]
    BY Zenon, <1>1 DEF Quiet, Inv, TypeOK
  <1>3. j.dir \in Dir /\ j.into \in Dir \cup {Top} /\ j.from \in Dir \cup {Top}
    BY Zenon, <1>1, TaskFacts DEF Inv, Busy, Finishing
  <1>4. ParentOf(j.dir) # j.dir
    BY Zenon, <1>3, TreeFacts DEF Inv
  <1>5. FinishOK(j) /\ CloseOK(w)
    BY Zenon, <1>1 DEF Inv, Shape, JobInv, JobOK, Finishing, Flags, CloseInv
  <1>6. ASSUME j.into = ParentOf(j.dir), st'[j.into].success
        PROVE  Done(j.dir) /\ j.from = j.dir
               /\ (plan[j.dir] = "delete" /\ st[j.dir].empty => removed[j.dir] = Replica)
    <2>1. st[j.into].success
      BY Zenon, <1>2, <1>3, <1>6 DEF Fall
    <2>2. j.from = j.dir
      BY Zenon, <1>4, <1>5, <1>6, <2>1 DEF FinishOK
    <2> QED
      BY Zenon, <1>1, <1>5, <1>6, <2>2 DEF CloseOK
  <1>7. UNCHANGED <<parent, plan, settled, clean, removed>>
    BY Zenon, <1>1, <1>2 DEF fixed, outcome
  <1>8. SamePlaces
    BY Zenon, <1>1, QuietShape DEF Inv
  <1>9. Reported
    <2>1. ASSUME NEW c \in Dir, Silent(c, {"andEmpty", "countDown"}), st'[ParentOf(c)].success
          PROVE  Silent(c, {"andEmpty", "countDown"})' \/ Done(c)'
      <3>1. CASE j.dir = c /\ j.into = ParentOf(c)
        BY Zenon, <1>6, <1>7, <2>1, <3>1 DEF Done, Dirty
      <3>2. CASE ~(j.dir = c /\ j.into = ParentOf(c))
        BY Zenon, <1>2, <1>7, <1>8, <2>1, <3>2 DEF Silent, SamePlaces, ParentOf
      <3> QED
        BY Zenon, <3>1, <3>2
    <2>2. ASSUME NEW c \in Dir, Silent(c, {"countDown"}) PROVE Silent(c, {"countDown"})'
      BY Zenon, <1>1, <1>2, <1>7, <1>8, <2>2 DEF Silent, SamePlaces, ParentOf
    <2> QED
      BY Zenon, <2>1, <2>2 DEF Reported
  <1>10. CloseOK(w)'
    <2>1. /\ pc'[w] = "andEmpty" /\ job'[w] = j
          /\ st'[j.from].empty => st[j.from].empty
      BY Zenon, <1>1, <1>2, <1>3 DEF Fall
    <2>2. \A d : ParentOf(d)' = ParentOf(d)
      BY Zenon, <1>7 DEF ParentOf
    <2> HIDE DEF j
    <2> QED
      BY Zenon, <1>6, <1>7, <2>1, <2>2 DEF CloseOK, Marking, Removing
  <1> QED
    BY Zenon, <1>1, <1>7, <1>9, <1>10, QuietInv DEF Done, Dirty

\* finish_task_in_dir adds the `empty` of a child that was removed or not.
LEMMA AndEmptyInv ==
    ASSUME Inv, NEW w \in Worker, AndEmpty(w)
    PROVE  Inv'
PROOF
  <1> DEFINE j == job[w]
  <1>1. /\ TypeOK' /\ Quiet(w) /\ pc[w] = "andEmpty" /\ pc'[w] = "countDown" /\ UNCHANGED outcome
        /\ st'[j.into].empty => st[j.from].empty
    BY Zenon, AndEmptyFacts DEF Inv
  <1>2. /\ UNCHANGED fixed /\ job' = job /\ Fall
        /\ \A v \in Worker \ {w} : pc'[v] = pc[v]
    BY Zenon, <1>1 DEF Quiet, Inv, TypeOK
  <1>3. j.dir \in Dir /\ j.into \in Dir \cup {Top}
    BY Zenon, <1>1, TaskFacts DEF Inv, Busy, Finishing
  <1>4. ASSUME j.into = ParentOf(j.dir), st'[j.into].success, st'[j.into].empty,
               plan[j.dir] = "delete"
        PROVE  removed[j.dir] = Replica
    <2>1. st[j.into].success /\ CloseOK(w)
      BY Zenon, <1>2, <1>3, <1>4 DEF Fall, Inv, Flags, CloseInv
    <2> QED
      BY Zenon, <1>1, <1>4, <2>1 DEF CloseOK
  <1>5. UNCHANGED <<parent, plan, settled, clean, removed>>
    BY Zenon, <1>1, <1>2 DEF fixed, outcome
  <1>6. SamePlaces
    BY Zenon, <1>1, QuietShape DEF Inv
  <1>7. Reported
    <2>1. ASSUME NEW c \in Dir, Silent(c, {"countDown"}), plan[c] = "delete",
                 st'[ParentOf(c)].success, st'[ParentOf(c)].empty
          PROVE  Silent(c, {"countDown"})' \/ removed'[c] = Replica
      <3>1. CASE j.dir = c /\ j.into = ParentOf(c)
        BY Zenon, <1>4, <1>5, <2>1, <3>1
      <3>2. CASE ~(j.dir = c /\ j.into = ParentOf(c))
        BY Zenon, <1>2, <1>5, <1>6, <2>1, <3>2 DEF Silent, SamePlaces, ParentOf
      <3> QED
        BY Zenon, <3>1, <3>2
    <2>2. ASSUME NEW c \in Dir, Silent(c, {"andEmpty", "countDown"})
          PROVE  Silent(c, {"andEmpty", "countDown"})'
      BY Zenon, <1>1, <1>2, <1>5, <1>6, <2>2 DEF Silent, SamePlaces, ParentOf
    <2> QED
      BY Zenon, <2>1, <2>2 DEF Reported
  <1>8. CloseOK(w)'
    BY Zenon, <1>1 DEF CloseOK, Marking, Removing
  <1> QED
    BY Zenon, <1>1, <1>5, <1>7, <1>8, QuietInv DEF Done, Dirty

\* The completion of a directory is not heard of before finish_task_in_dir.
LEMMA ClosingReported ==
    ASSUME TypeOK, NEW w \in Worker, Quiet(w), SamePlaces, pc[w] \in Closing
    PROVE  Reported
PROOF
  <1>1. /\ parent' = parent /\ job' = job /\ pc'[w] \notin {"andEmpty", "countDown"}
        /\ \A v \in Worker \ {w} : pc'[v] = pc[v]
    BY Zenon DEF Quiet, TypeOK, fixed, Closing, Marking, Removing, Finishing
  <1>2. ASSUME NEW c \in Dir, Silent(c, {"andEmpty", "countDown"})
        PROVE  Silent(c, {"andEmpty", "countDown"})'
    BY Zenon, <1>1, <1>2 DEF Silent, SamePlaces, ParentOf
  <1>3. ASSUME NEW c \in Dir, Silent(c, {"countDown"}) PROVE Silent(c, {"countDown"})'
    BY Zenon, <1>1, <1>3 DEF Silent, SamePlaces, ParentOf
  <1> QED
    BY Zenon, <1>2, <1>3 DEF Reported

\* A directory whose `pending` is zero has heard from every child.
LEMMA AllHeard ==
    ASSUME FiniteFacts, TypeOK, JobInv, CountInv, NEW d \in Dir, st[d].onComplete, st[d].pending = 0
    PROVE  \A c \in Children(d) : ~Counted(c) /\ ~Ahead(c)
PROOF
  <1>1. IsFiniteSet(CountedIn(d)) /\ Cardinality(CountedIn(d)) \in Nat
    BY Zenon, CountedFacts
  <1>2. st[d].pending = Own(d) + Cardinality(CountedIn(d)) /\ Own(d) \in Nat
    BY Zenon DEF CountInv, Walked, Own
  <1>3. CountedIn(d) = {}
    <2>1. Cardinality(CountedIn(d)) = 0
      BY <1>1, <1>2
    <2> QED
      BY Zenon, <1>1, <2>1 DEF FiniteFacts
  <1>4. ASSUME NEW c \in Children(d), Ahead(c) PROVE FALSE
    <2>1. PICK v \in Worker : pc[v] \in Walking /\ c \in job[v].todo
      BY Zenon, <1>4 DEF Ahead
    <2>2. job[v].dir \in Dir
      BY Zenon, <2>1, TaskFacts DEF Busy
    <2>3. c \in Children(job[v].dir) /\ ~st[job[v].dir].onComplete
      BY Zenon, <2>1 DEF JobInv, JobOK
    <2>4. job[v].dir = d
      BY <2>2, <2>3, TreeFacts
    <2> QED
      BY Zenon, <2>3, <2>4
  <1> QED
    BY Zenon, <1>3, <1>4 DEF CountedIn

\* A directory is marked or removed only if its flags say it may be.
LEMMA CompleteInv ==
    ASSUME FiniteFacts, Inv, NEW w \in Worker, Complete(w)
    PROVE  Inv'
PROOF
  <1> DEFINE d == job[w].dir
             gone == plan[d] = "delete" /\ st[d].empty
  <1>1. /\ TypeOK' /\ Quiet(w) /\ pc[w] = "complete" /\ st' = st /\ UNCHANGED outcome
        /\ \/ ~st[d].success /\ pc'[w] = "finish"
           \/ st[d].success /\ gone /\ pc'[w] = "rmAnc"
           \/ st[d].success /\ ~gone /\ pc'[w] = "markClient"
    BY Zenon, CompleteFacts DEF Inv
  <1>2. d \in Dir /\ st[d].onComplete /\ st[d].pending = 0
    BY Zenon, <1>1, TaskFacts DEF Inv, Shape, JobInv, JobOK, Busy, Closing
  <1>3. \A c \in Children(d) : ~Counted(c) /\ ~Ahead(c)
    BY Zenon, <1>2, AllHeard DEF Inv, Shape
  <1>4. st[d].success => AllDone(d)
    BY Zenon, <1>2, <1>3 DEF Inv, Flags, SuccessInv, Walked, Silent, AllDone
  <1>5. st[d].success /\ st[d].empty => AllGone(d)
    BY Zenon, <1>2, <1>3 DEF Inv, Flags, EmptyInv, Walked, Silent, AllGone
  <1>6. UNCHANGED <<parent, plan, keeps, settled, clean, removed>> /\ job' = job
    BY Zenon, <1>1 DEF fixed, outcome, Quiet
  <1>7. Reported
    BY Zenon, <1>1, QuietShape, ClosingReported DEF Inv, Closing
  <1>8. (AllDone(d) => AllDone(d)') /\ (AllGone(d) => AllGone(d)')
    BY Zenon, <1>6 DEF AllDone, AllGone, Done, Dirty, Children
  <1>9. CloseOK(w)'
    <2>1. CASE pc'[w] = "finish"
      BY Zenon, <1>1, <1>6, <2>1 DEF CloseOK, Marking, Removing
    <2>2. CASE pc'[w] = "rmAnc"
      BY Zenon, <1>1, <1>4, <1>5, <1>6, <1>8, <2>2 DEF CloseOK, Marking, Removing
    <2>3. CASE pc'[w] = "markClient"
      BY Zenon, <1>1, <1>4, <1>6, <1>8, <2>3 DEF CloseOK, Marking, Removing
    <2> QED
      BY Zenon, <1>1, <2>1, <2>2, <2>3
  <1> QED
    BY Zenon, <1>1, <1>6, <1>7, <1>9, QuietInv DEF Done, Dirty

\* After a failed mark or removal the directory counts as failed.
LEMMA CompletionFailsInv ==
    ASSUME Inv, NEW w \in Worker, CompletionFails(w)
    PROVE  Inv'
PROOF
  <1>1. /\ TypeOK' /\ Quiet(w) /\ pc'[w] = "finish" /\ UNCHANGED outcome
        /\ pc[w] \in Closing /\ ~st'[job[w].dir].success
    BY Zenon, CompletionFailsFacts DEF Inv
  <1>2. UNCHANGED <<settled, clean, removed>> /\ job' = job
    BY Zenon, <1>1 DEF outcome, Quiet
  <1>3. Reported
    BY Zenon, <1>1, QuietShape, ClosingReported DEF Inv
  <1>4. CloseOK(w)'
    BY Zenon, <1>1, <1>2 DEF CloseOK, Marking, Removing
  <1> QED
    BY Zenon, <1>1, <1>2, <1>3, <1>4, QuietInv DEF Done, Dirty

\* mark_both_clean: the second mark makes a directory one that later syncs skip.
LEMMA MarkClientInv ==
    ASSUME Inv, NEW w \in Worker, MarkClean(w, "client", "markClient", "markServer")
    PROVE  Inv'
PROOF
  <1> DEFINE d == job[w].dir
  <1>1. /\ TypeOK' /\ Quiet(w) /\ pc[w] = "markClient" /\ pc'[w] = "markServer" /\ st' = st
        /\ removed' = removed /\ d \in Dir
        /\ clean'["client"] = clean["client"] \cup {d}
        /\ \A s \in Side \ {"client"} : clean'[s] = clean[s]
    BY MarkCleanFacts DEF Inv, Side, Closing, Marking
  <1>2. UNCHANGED <<parent, plan, keeps>> /\ job' = job
    BY Zenon, <1>1 DEF fixed, Quiet
  <1>3. AllDone(d) /\ ~(plan[d] = "delete" /\ st[d].empty)
    BY Zenon, <1>1 DEF Inv, Flags, CloseInv, CloseOK, Marking
  <1>4. Reported
    BY Zenon, <1>1, QuietShape, ClosingReported DEF Inv, Closing, Marking
  <1>5. Grows => CloseOK(w)'
    BY Zenon, <1>1, <1>2, <1>3 DEF CloseOK, Marking, Removing, Grows
  <1>6. \A e \in Dir : ~Done(e) /\ Done(e)' => AllDone(e)
    BY Zenon, <1>1, <1>3 DEF Done, Dirty, Side
  <1> QED
    BY Zenon, <1>1, <1>4, <1>5, <1>6, QuietInv

\* With the second mark the directory is done, and so is all below it.
LEMMA MarkServerInv ==
    ASSUME Inv, NEW w \in Worker, MarkClean(w, "server", "markServer", "finish")
    PROVE  Inv'
PROOF
  <1> DEFINE d == job[w].dir
  <1>1. /\ TypeOK' /\ Quiet(w) /\ pc[w] = "markServer" /\ pc'[w] = "finish" /\ st' = st
        /\ removed' = removed /\ d \in Dir
        /\ clean'["server"] = clean["server"] \cup {d}
        /\ \A s \in Side \ {"server"} : clean'[s] = clean[s]
    BY MarkCleanFacts DEF Inv, Side, Closing, Marking
  <1>2. UNCHANGED <<parent, plan, keeps>> /\ job' = job
    BY Zenon, <1>1 DEF fixed, Quiet
  <1>3. AllDone(d) /\ ~(plan[d] = "delete" /\ st[d].empty) /\ d \in clean["client"]
    BY Zenon, <1>1 DEF Inv, Flags, CloseInv, CloseOK, Marking
  <1>4. Reported
    BY Zenon, <1>1, QuietShape, ClosingReported DEF Inv, Closing, Marking
  <1>5. Done(d)'
    BY Zenon, <1>1, <1>2, <1>3 DEF Done, Dirty, Side
  <1>6. CloseOK(w)'
    BY Zenon, <1>1, <1>2, <1>3, <1>5 DEF CloseOK, Marking, Removing
  <1>7. \A e \in Dir : ~Done(e) /\ Done(e)' => AllDone(e)
    BY Zenon, <1>1, <1>3 DEF Done, Dirty, Side
  <1> QED
    BY Zenon, <1>1, <1>4, <1>6, <1>7, QuietInv

\* delete_or_mark_clean asks the replicas to remove a directory one by one.
LEMMA RmdirInv ==
    ASSUME Inv, NEW w \in Worker, NEW replica \in Replica, NEW at \in Removing,
           NEW next \in Removing \cup {"finish"}, Rmdir(w, replica, at, next),
           \/ replica = "anc" /\ at = "rmAnc" /\ next = "rmClient"
           \/ replica = "client" /\ at = "rmClient" /\ next = "rmServer"
           \/ replica = "server" /\ at = "rmServer" /\ next = "finish"
    PROVE  Inv'
PROOF
  <1> DEFINE d == job[w].dir
  <1>0. at \in Closing /\ next \in Closing \cup {"finish"}
    BY Zenon DEF Closing
  <1>1. /\ TypeOK' /\ Quiet(w) /\ pc[w] = at /\ pc'[w] = next /\ st' = st /\ clean' = clean
        /\ d \in Dir /\ removed'[d] = removed[d] \cup {replica}
        /\ \A e \in Dir \ {d} : removed'[e] = removed[e]
    BY <1>0, RmdirFacts DEF Inv
  <1>2. UNCHANGED <<parent, plan, keeps>> /\ job' = job
    BY Zenon, <1>1 DEF fixed, Quiet
  <1>3. /\ AllDone(d) /\ AllGone(d)
        /\ at \in {"rmClient", "rmServer"} => "anc" \in removed[d]
        /\ at = "rmServer" => "client" \in removed[d]
    BY Zenon, <1>1 DEF Inv, Flags, CloseInv, CloseOK
  <1>4. Reported
    BY Zenon, <1>0, <1>1, QuietShape, ClosingReported DEF Inv
  <1>5. next = "finish" => removed'[d] = Replica
    <2>1. removed[d] \in SUBSET Replica
      BY Zenon, <1>1 DEF Inv, TypeOK
    <2> QED
      BY <1>1, <1>3, <2>1 DEF Replica, Side
  <1>6. next # "finish" => next \in {"rmClient", "rmServer"} /\ "anc" \in removed'[d]
    BY Zenon, <1>1, <1>3
  <1>7. next = "rmServer" => "client" \in removed'[d]
    BY Zenon, <1>1
  <1>8. Grows => CloseOK(w)'
    <2>1. CASE next = "finish"
      BY Zenon, <1>1, <1>2, <1>5, <2>1 DEF CloseOK, Marking, Removing, Done
    <2>2. CASE next # "finish"
      <3>1. next \in {"rmClient", "rmServer"}
        BY Zenon, <1>6, <2>2
      <3> QED
        BY Zenon, <1>1, <1>2, <1>3, <1>6, <1>7, <3>1 DEF CloseOK, Marking, Removing, Grows
    <2> QED
      BY Zenon, <2>1, <2>2
  <1>9. \A e \in Dir : ~Done(e) /\ Done(e)' => AllDone(e)
    BY Zenon, <1>1, <1>3 DEF Done, Dirty
  <1>10. \A e \in Dir : removed[e] = {} /\ removed'[e] # {} => AllGone(e)
    BY Zenon, <1>1, <1>3
  <1> QED
    BY Zenon, <1>1, <1>4, <1>8, <1>9, <1>10, QuietInv

=============================================================================
