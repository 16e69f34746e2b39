------------------------------ MODULE TreeWalk ------------------------------
(***************************************************************************)
(* The recursion over directories (reconcile/tree_walk.rs) by the threads  *)
(* that share a WorkStack (work_stack.rs).  A directory is processed by    *)
(* one task.  Its completion is another, which the last of its children to *)
(* finish puts on the stack, and which trusts the flags of its DirState.   *)
(*                                                                         *)
(* What happens to single files is DirSync's subject: here the files of a  *)
(* directory come out in sync, or something fails.  An interrupt, or a     *)
(* replica in a fatal state, makes everything that follows fail.           *)
(***************************************************************************)
EXTENDS Integers, Sequences, FiniteSets

CONSTANTS
    Worker,     \* threads
    Dir,        \* directories
    Root,       \* the one all others are below
    Tree,       \* trees: the parent of each directory but the root
    Top,        \* the DirState start_root creates above the root
    None

ASSUME TreeAssumption ==
    /\ IsFiniteSet(Dir) /\ Root \in Dir /\ Top \notin Dir
    /\ Tree \subseteq [Dir \ {Root} -> Dir]
    /\ \A p \in Tree : \A S \in SUBSET Dir :
          S # {} /\ (\A d \in S \ {Root} : p[d] \in S) => Root \in S

\* (`ensync sync` refuses to run with no threads.)
ASSUME WorkerAssumption == IsFiniteSet(Worker) /\ Worker # {}

VARIABLES
    parent,     \* the tree
    plan,       \* what is to become of each directory
    keeps,      \* directories in which files are to stay
    st,         \* the DirStates
    tasks,      \* WorkStack: the stack,
    inFlight,   \*            and the number of tasks being run
    pc,         \* where each thread is
    job,        \* the task it runs
    clean,      \* directories each end replica has marked clean
    settled,    \* directories whose own files are in sync
    removed     \* replicas each directory was removed from

vars == <<parent, plan, keeps, st, tasks, inFlight, pc, job, clean, settled, removed>>

Side == {"client", "server"}
Replica == Side \cup {"anc"}

\* `both`: on both sides, to be recursed into; `delete`: on one side, to be
\* deleted recursively; `leave`: not to be synchronised.
Plan == {"both", "delete", "leave"}

ParentOf(d) == IF d = Root THEN Top ELSE parent[d]
Children(d) == {c \in Dir \ {Root} : parent[c] = d}

DirState == [success : BOOLEAN, empty : BOOLEAN, pending : Nat, onComplete : BOOLEAN]
Fresh == [success |-> TRUE, empty |-> TRUE, pending |-> 1, onComplete |-> FALSE]

\* `process_dir` of a directory, or its completion.
Task == [what : {"process", "complete"}, dir : Dir]

\* `todo` are the subdirectories not yet looked at; `from` is the DirState whose
\* flags finish_task_in_dir adds to those of `into`.
Job == [dir : Dir, todo : SUBSET Dir, next : Dir \cup {None},
        into : Dir \cup {Top}, from : Dir \cup {Top}]

outcome == <<clean, settled, removed>>
fixed == <<parent, plan, keeps>>

-----------------------------------------------------------------------------
(* WorkStack. *)

\* `notify_one`, for a thread that then continues at `next`.
Notify(w, next) ==
    LET waiting == {v \in Worker : pc[v] = "waiting"} IN
    IF waiting = {} THEN pc' = [pc EXCEPT ![w] = next]
    ELSE \E v \in waiting : pc' = [pc EXCEPT ![w] = next, ![v] = "ready"]

Push(w, task, next) ==
    /\ tasks' = Append(tasks, task)
    /\ Notify(w, next)

\* The flight a thread that returns from a task has just ended is not counted.
Flying(w) == IF pc[w] = "return" THEN inFlight - 1 ELSE inFlight

\* WorkStack::run between two tasks, under the mutex: take one,
TakeTask(w) ==
    /\ pc[w] \in {"ready", "return"} /\ tasks # <<>>
    /\ LET t == tasks[Len(tasks)] IN
       /\ job' = [job EXCEPT ![w] =
                    [dir |-> t.dir, todo |-> Children(t.dir), next |-> None,
                     into |-> ParentOf(t.dir), from |-> t.dir]]
       /\ pc' = [pc EXCEPT ![w] = t.what]
    /\ tasks' = SubSeq(tasks, 1, Len(tasks) - 1)
    /\ inFlight' = Flying(w) + 1
    /\ UNCHANGED <<fixed, st, outcome>>

\* or wait for one that a running task may add,
Wait(w) ==
    /\ pc[w] \in {"ready", "return"} /\ tasks = <<>> /\ Flying(w) > 0
    /\ pc' = [pc EXCEPT ![w] = "waiting"]
    /\ inFlight' = Flying(w)
    /\ UNCHANGED <<fixed, st, tasks, job, outcome>>

\* Faulty variant: the first thread to notice the end does not tell the others.
StopSilently(w) ==
    /\ pc[w] \in {"ready", "return"} /\ tasks = <<>> /\ Flying(w) = 0
    /\ pc' = [pc EXCEPT ![w] = "stopped"]
    /\ inFlight' = 0
    /\ UNCHANGED <<fixed, st, tasks, job, outcome>>

\* or stop, and wake everybody up.
Stop(w) ==
    /\ pc[w] \in {"ready", "return"} /\ tasks = <<>> /\ Flying(w) = 0
    /\ pc' = [v \in Worker |-> IF v = w THEN "stopped"
                               ELSE IF pc[v] = "waiting" THEN "ready" ELSE pc[v]]
    /\ inFlight' = 0
    /\ UNCHANGED <<fixed, st, tasks, job, outcome>>

\* A condition variable may wake up by itself.
SpuriousWakeup(w) ==
    /\ pc[w] = "waiting"
    /\ pc' = [pc EXCEPT ![w] = "ready"]
    /\ UNCHANGED <<fixed, st, tasks, inFlight, job, outcome>>

-----------------------------------------------------------------------------
(* process_dir. *)

Goto(w, next) == pc' = [pc EXCEPT ![w] = next]

\* Faulty variant: nobody hears of the failure.
ProcessFailsQuietly(w) ==
    /\ pc[w] = "process"
    /\ job' = [job EXCEPT ![w].from = job[w].into]
    /\ Goto(w, "finish")
    /\ UNCHANGED <<fixed, st, tasks, inFlight, outcome>>

\* Faulty variant: the failed task is not counted as finished.
ProcessFailsUncounted(w) ==
    /\ pc[w] = "process"
    /\ st' = [st EXCEPT ![job[w].into].success = FALSE]
    /\ Goto(w, "return") /\ job' = [job EXCEPT ![w] = None]
    /\ UNCHANGED <<fixed, tasks, inFlight, outcome>>

\* The directory cannot be set up: the parent's `success` is cleared and the
\* task counts as finished there.
ProcessFails(w) ==
    /\ pc[w] = "process"
    /\ st' = [st EXCEPT ![job[w].into].success = FALSE]
    /\ job' = [job EXCEPT ![w].from = job[w].into]
    /\ Goto(w, "finish")
    /\ UNCHANGED <<fixed, tasks, inFlight, outcome>>

\* List it, and process its files, which succeeds for all of them or not (then
\* nobody reads `empty` any more).
ProcessFiles(w) ==
    /\ pc[w] = "process"
    /\ LET d == job[w].dir IN
       \/ /\ st' = [st EXCEPT ![d] = [Fresh EXCEPT !.empty = d \notin keeps]]
          /\ settled' = settled \cup {d}
       \/ /\ st' = [st EXCEPT ![d] = [Fresh EXCEPT !.success = FALSE]]
          /\ UNCHANGED settled
    /\ Goto(w, "walk")
    /\ UNCHANGED <<fixed, tasks, inFlight, job, clean, removed>>

Dirty(d) == \E s \in Side : d \notin clean[s]

\* What is to be deleted is always walked (recursive_delete), what is in both
\* replicas when one of them calls it dirty.
Descend(c) == plan[c] = "delete" \/ (plan[c] = "both" /\ Dirty(c))

\* process_file on a subdirectory.  It is counted in `pending` before the task
\* is on the stack.
WalkChild(w, c) ==
    /\ pc[w] = "walk" /\ c \in job[w].todo
    /\ LET d == job[w].dir IN
           /\ st' = [st EXCEPT ![d].empty = @ /\ plan[c] = "delete",
                               ![d].pending = IF Descend(c) THEN @ + 1 ELSE @]
           /\ job' = [job EXCEPT ![w].todo = @ \ {c},
                                 ![w].next = IF Descend(c) THEN c ELSE None]
           /\ Goto(w, IF Descend(c) THEN "push" ELSE "walk")
    /\ UNCHANGED <<fixed, tasks, inFlight, outcome>>

\* ApplyResult::Fail, or a replica that cannot change to the directory.
ChildFails(w, c) ==
    /\ pc[w] = "walk" /\ c \in job[w].todo
    /\ \E e \in {st[job[w].dir].empty, st[job[w].dir].empty /\ plan[c] # "both"} :
         st' = [st EXCEPT ![job[w].dir].success = FALSE, ![job[w].dir].empty = e]
    /\ job' = [job EXCEPT ![w].todo = @ \ {c}]
    /\ UNCHANGED <<fixed, tasks, inFlight, pc, outcome>>

PushChild(w) ==
    /\ pc[w] = "push"
    /\ Push(w, [what |-> "process", dir |-> job[w].next], "walk")
    /\ job' = [job EXCEPT ![w].next = None]
    /\ UNCHANGED <<fixed, st, inFlight, outcome>>

\* Every name has been processed: store the completion, then count the
\* directory itself as finished.
EndOfWalk(w) ==
    /\ pc[w] = "walk" /\ job[w].todo = {}
    /\ st' = [st EXCEPT ![job[w].dir].onComplete = TRUE]
    /\ job' = [job EXCEPT ![w].into = job[w].dir]
    /\ Goto(w, "finish")
    /\ UNCHANGED <<fixed, tasks, inFlight, outcome>>

-----------------------------------------------------------------------------
(* finish_task_in_dir: three atomic operations on the shared DirState. *)

\* Faulty variant: a child's failure stays with the child.
AndSuccessDropped(w) ==
    /\ pc[w] = "finish"
    /\ Goto(w, "andEmpty")
    /\ UNCHANGED <<fixed, st, tasks, inFlight, job, outcome>>

AndSuccess(w) ==
    /\ pc[w] = "finish"
    /\ st' = [st EXCEPT ![job[w].into].success = @ /\ st[job[w].from].success]
    /\ Goto(w, "andEmpty")
    /\ UNCHANGED <<fixed, tasks, inFlight, job, outcome>>

\* Faulty variant: a child that was not removed does not count.
AndEmptyForgotten(w) ==
    /\ pc[w] = "andEmpty"
    /\ Goto(w, "countDown")
    /\ UNCHANGED <<fixed, st, tasks, inFlight, job, outcome>>

AndEmpty(w) ==
    /\ pc[w] = "andEmpty"
    /\ st' = [st EXCEPT ![job[w].into].empty = @ /\ st[job[w].from].empty]
    /\ Goto(w, "countDown")
    /\ UNCHANGED <<fixed, tasks, inFlight, job, outcome>>

\* Whoever brings `pending` to zero queues the completion.
CountDown(w) ==
    /\ pc[w] = "countDown"
    /\ st' = [st EXCEPT ![job[w].into].pending = @ - 1]
    /\ IF st[job[w].into].pending = 1 THEN Goto(w, "queue") /\ UNCHANGED job
       ELSE Goto(w, "return") /\ job' = [job EXCEPT ![w] = None]
    /\ UNCHANGED <<fixed, tasks, inFlight, outcome>>

\* (Taking a completion that was never stored would panic.)
QueueCompletion(w) ==
    /\ pc[w] = "queue" /\ st[job[w].into].onComplete
    /\ Push(w, [what |-> "complete", dir |-> job[w].into], "return")
    /\ job' = [job EXCEPT ![w] = None]
    /\ UNCHANGED <<fixed, st, inFlight, outcome>>

-----------------------------------------------------------------------------
(* The completion of a directory. *)

Complete(w) ==
    /\ pc[w] = "complete"
    /\ LET s == st[job[w].dir] IN
       Goto(w, IF ~s.success THEN "finish"
               ELSE IF plan[job[w].dir] = "delete" /\ s.empty THEN "rmAnc"
               ELSE "markClient")
    /\ UNCHANGED <<fixed, st, tasks, inFlight, job, outcome>>

\* mark_both_clean.
MarkClean(w, side, at, next) ==
    /\ pc[w] = at
    /\ clean' = [clean EXCEPT ![side] = @ \cup {job[w].dir}]
    /\ Goto(w, next)
    /\ UNCHANGED <<fixed, st, tasks, inFlight, job, settled, removed>>

\* delete_or_mark_clean when everything in the directory is gone.
Rmdir(w, replica, at, next) ==
    /\ pc[w] = at
    /\ removed' = [removed EXCEPT ![job[w].dir] = @ \cup {replica}]
    /\ Goto(w, next)
    /\ UNCHANGED <<fixed, st, tasks, inFlight, job, clean, settled>>

\* Any of these may be refused or fail, and the rest is not tried.
CompletionFails(w) ==
    /\ pc[w] \in {"markClient", "markServer", "rmAnc", "rmClient", "rmServer"}
    /\ st' = [st EXCEPT ![job[w].dir].success = FALSE]
    /\ Goto(w, "finish")
    /\ UNCHANGED <<fixed, tasks, inFlight, job, outcome>>

-----------------------------------------------------------------------------
Work(w) ==
    \/ TakeTask(w) \/ Wait(w) \/ Stop(w)
    \/ ProcessFails(w) \/ ProcessFiles(w) \/ PushChild(w) \/ EndOfWalk(w)
    \/ \E c \in Dir : WalkChild(w, c) \/ ChildFails(w, c)
    \/ AndSuccess(w) \/ AndEmpty(w) \/ CountDown(w) \/ QueueCompletion(w)
    \/ Complete(w) \/ CompletionFails(w)
    \/ MarkClean(w, "client", "markClient", "markServer")
    \/ MarkClean(w, "server", "markServer", "finish")
    \/ Rmdir(w, "anc", "rmAnc", "rmClient")
    \/ Rmdir(w, "client", "rmClient", "rmServer")
    \/ Rmdir(w, "server", "rmServer", "finish")

Stopped == \A w \in Worker : pc[w] = "stopped"

Next ==
    \/ \E w \in Worker : Work(w) \/ SpuriousWakeup(w)
    \/ Stopped /\ UNCHANGED vars

\* start_root, over a tree where marks tell the truth: what is below a directory
\* that both sides have marked clean is marked clean as well.
Init ==
    /\ parent \in Tree
    /\ plan \in {p \in [Dir -> Plan] : p[Root] = "both"}
    /\ keeps \in SUBSET (Dir \ {Root})
    /\ clean \in [Side -> SUBSET {d \in Dir : plan[d] = "both"}]
    /\ \A d \in Dir \ {Root} : ~Dirty(parent[d]) => plan[d] # "delete" /\ (plan[d] = "both" => ~Dirty(d))
    /\ settled = {d \in Dir : ~Dirty(d)}
    /\ removed = [d \in Dir |-> {}]
    /\ st = [d \in Dir \cup {Top} |-> IF d = Top THEN [Fresh EXCEPT !.pending = 2] ELSE Fresh]
    /\ tasks = <<[what |-> "process", dir |-> Root]>>
    /\ inFlight = 0
    /\ pc = [w \in Worker |-> "ready"]
    /\ job = [w \in Worker |-> None]

Spec == Init /\ [][Next]_vars

-----------------------------------------------------------------------------
(* Properties. *)

\* A directory and those below it that are to be synchronised.
Below(d) ==
    {e \in Dir : \A S \in SUBSET Dir :
        d \in S /\ (\A x \in S : \A c \in Children(x) : plan[c] # "leave" => c \in S)
            => e \in S}

\* A directory that both replicas have marked clean, and that later syncs will
\* skip, is in sync with everything below it: no failure below, in whichever
\* thread and however late, is missed by the completion that sets the marks.
CleanMarksTrue == \A d \in Dir : ~Dirty(d) => Below(d) \subseteq settled

\* A directory is removed only when nothing is to stay in it and each of its
\* subdirectories has been removed everywhere: a child that stayed, in whichever
\* thread, is known from `empty` before any replica is asked to remove its parent.
RemovedWasEmpty ==
    \A d \in Dir : removed[d] # {} =>
        d \notin keeps /\ \A c \in Children(d) : removed[c] = Replica

\* "Syncing completed successfully" is the truth: every directory was brought
\* in sync and is marked clean or removed.
SuccessIsHonest ==
    Stopped /\ st[Top].success =>
        \A d \in Below(Root) : d \in settled /\ (removed[d] = Replica \/ ~Dirty(d))

\* The assertion in DirState::drop: when the threads have stopped, no directory
\* waits for a child, and the state above the root was not completed.
PendingBalanced ==
    Stopped => /\ \A d \in Dir : st[d].onComplete => st[d].pending = 0
               /\ st[Top].pending = 1 /\ tasks = <<>>

\* No thread sleeps through the end of the work: while one waits on the condition
\* variable there is another that is awake and has not stopped, and so will add a
\* task or notice the end and wake it up.
SleepersAreWoken ==
    \A v \in Worker : pc[v] = "waiting" =>
        \E w \in Worker : pc[w] \notin {"waiting", "stopped"}
=============================================================================
