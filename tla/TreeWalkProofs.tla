--------------------------- MODULE TreeWalkProofs ---------------------------
(***************************************************************************)
(* The safety of TreeWalk for any number of threads and any tree. The walk *)
(* of a directory and the last step of finish_task_in_dir, which counts a  *)
(* child as finished, and with them every step, preserve the invariant of  *)
(* TreeWalkInvariant; what the walk promises follows.                      *)
(***************************************************************************)
EXTENDS TreeWalkInvariant

-----------------------------------------------------------------------------
(* The subdirectories a walk comes to. *)

\* When the walk of a directory passes one of its subdirectories, the flags stay
\* right if they account for that one.
LEMMA FlagsWalk ==
    ASSUME Inv, TypeOK', NEW w \in Worker, \A v \in Worker \ {w} : Still(v),
           UNCHANGED <<fixed, outcome>>, FlagsFall, pc[w] = "walk", pc'[w] \in Walking,
           NEW c \in job[w].todo, job'[w].dir = job[w].dir, job'[w].todo = job[w].todo \ {c},
           \A x \in Dir : st'[x].onComplete = st[x].onComplete,
           \A x \in Dir : Counted(x) => Counted(x)',
           st'[job[w].dir].success /\ plan[c] # "leave" =>
              Silent(c, {"andEmpty", "countDown"})' \/ Done(c),
           st'[job[w].dir].success /\ st'[job[w].dir].empty =>
              plan[c] = "delete" /\ Silent(c, {"countDown"})'
    PROVE  Flags' /\ \A x \in Dir : Walked(x)' <=> Walked(x)
PROOF
  <1>0. TypeOK /\ Shape /\ SuccessInv /\ EmptyInv
    BY Zenon DEF Inv, Flags
  <1>1. UNCHANGED <<parent, plan, keeps, clean, settled, removed>>
    BY Zenon DEF fixed, outcome
  <1>2. \A v \in Worker \ {w} : job'[v] = job[v] /\ (pc'[v] \in Walking <=> pc[v] \in Walking)
    BY Zenon, StillFacts
  <1>3. /\ pc[w] \in Walking /\ pc[w] \in Busy
        /\ pc'[w] \notin Finishing \cup Closing \cup {"andEmpty", "countDown"}
    BY Zenon DEF Walking, Busy, Finishing, Closing, Marking, Removing
  <1>4. \A x \in Dir : Walked(x)' <=> Walked(x)
    BY Zenon, <1>2, <1>3 DEF Walked
  <1>5. \A x \in Dir \ {c} : Ahead(x) => Ahead(x)'
    BY Zenon, <1>2, <1>3 DEF Ahead
  <1>6. CloseOK(w)'
    BY Zenon, <1>3 DEF CloseOK, Finishing, Closing, Marking, Removing
  <1>7. Grows /\ CloseInv' /\ DoneInv'
    <2>1. \A v \in Worker \ {w} : pc[v] \in Closing \cup Finishing =>
             \A x \in {job[v].dir, job[v].into, job[v].from} : x \in Dir \cup {Top}
      BY Zenon, <1>0, TaskFacts DEF Busy
    <2> QED
      BY Zenon, <1>1, <1>6, <2>1, CloseStep DEF FlagsFall
  <1>8. \A x \in Dir :
          /\ Silent(x, {"andEmpty", "countDown"}) => Silent(x, {"andEmpty", "countDown"})'
          /\ Silent(x, {"countDown"}) => Silent(x, {"countDown"})'
    <2>1. ASSUME NEW x \in Dir, Counted(x)
          PROVE  /\ Silent(x, {"andEmpty", "countDown"}) => Silent(x, {"andEmpty", "countDown"})'
                 /\ Silent(x, {"countDown"}) => Silent(x, {"countDown"})'
      BY Zenon, <1>1, <1>3, <2>1, SilentKept
    <2> QED
      BY Zenon, <2>1 DEF Silent
  <1>9. \A d \in Dir : Children(d)' = Children(d) /\ Children(d) \subseteq Dir
    BY Zenon, <1>1 DEF Children
  <1>10. \A d \in Dir : c \in Children(d) => d = job[w].dir
    BY <1>0, <1>3, Untouched, TreeFacts
  <1>11. ASSUME NEW d \in Dir, Walked(d)', st'[d].success
         PROVE  /\ d \in settled'
                /\ \A x \in Children(d) : plan[x] # "leave" =>
                      Ahead(x)' \/ Silent(x, {"andEmpty", "countDown"})' \/ Done(x)'
    <2>1. Walked(d) /\ st[d].success
      BY Zenon, <1>4, <1>11 DEF FlagsFall
    <2>2. ASSUME NEW x \in Children(d), plan[x] # "leave"
          PROVE  Ahead(x)' \/ Silent(x, {"andEmpty", "countDown"})' \/ Done(x)'
      <3>1. x \in Dir
        BY Zenon, <1>9
      <3>2. CASE x = c
        BY Zenon, <1>7, <1>10, <1>11, <2>2, <3>1, <3>2 DEF Grows
      <3>3. CASE x # c
        <4>1. Ahead(x) \/ Silent(x, {"andEmpty", "countDown"}) \/ Done(x)
          BY Zenon, <1>0, <2>1, <2>2 DEF SuccessInv
        <4> QED
          BY Zenon, <1>5, <1>7, <1>8, <3>1, <3>3, <4>1 DEF Grows
      <3> QED
        BY Zenon, <3>2, <3>3
    <2> QED
      BY Zenon, <1>0, <1>1, <2>1, <2>2 DEF SuccessInv
  <1>12. st'[Top].success => Silent(Root, {"andEmpty", "countDown"})' \/ Done(Root)'
    BY Zenon, <1>0, <1>7, <1>8, TreeAssumption DEF SuccessInv, FlagsFall, Grows
  <1>13. SuccessInv'
    BY Zenon, <1>1, <1>9, <1>11, <1>12 DEF SuccessInv
  <1>14. ASSUME NEW d \in Dir, Walked(d)', st'[d].success, st'[d].empty
         PROVE  /\ d \notin keeps
                /\ \A x \in Children(d) :
                      \/ Ahead(x)'
                      \/ plan[x] = "delete" /\ (Silent(x, {"countDown"})' \/ removed'[x] = Replica)
    <2>1. Walked(d) /\ st[d].success /\ st[d].empty
      BY Zenon, <1>4, <1>14 DEF FlagsFall
    <2>2. ASSUME NEW x \in Children(d)
          PROVE  \/ Ahead(x)'
                 \/ plan[x] = "delete" /\ (Silent(x, {"countDown"})' \/ removed'[x] = Replica)
      <3>1. x \in Dir
        BY Zenon, <1>9
      <3>2. CASE x = c
        BY Zenon, <1>10, <1>14, <3>2
      <3>3. CASE x # c
        <4>1. \/ Ahead(x)
              \/ plan[x] = "delete" /\ (Silent(x, {"countDown"}) \/ removed[x] = Replica)
          BY Zenon, <1>0, <2>1 DEF EmptyInv
        <4> QED
          BY Zenon, <1>1, <1>5, <1>8, <3>1, <3>3, <4>1
      <3> QED
        BY Zenon, <3>2, <3>3
    <2> QED
      BY Zenon, <1>0, <2>1, <2>2 DEF EmptyInv
  <1>15. EmptyInv'
    BY Zenon, <1>1, <1>9, <1>14 DEF EmptyInv
  <1> QED
    BY Zenon, <1>4, <1>7, <1>13, <1>15 DEF Flags

\* process_file passes a subdirectory it does not descend into.
LEMMA WalkOnInv ==
    ASSUME Inv, TypeOK', NEW w \in Worker, \A v \in Worker \ {w} : Still(v),
           UNCHANGED <<fixed, tasks, outcome>>, FlagsFall, pc[w] = "walk", pc'[w] = "walk",
           NEW c \in job[w].todo, job'[w].dir = job[w].dir, job'[w].todo = job[w].todo \ {c},
           job'[w].into = job[w].into, job'[w].from = job[w].from,
           \A x \in Dir \cup {Top} :
              st'[x].onComplete = st[x].onComplete /\ st'[x].pending = st[x].pending,
           st'[job[w].dir].success /\ plan[c] # "leave" => Done(c),
           ~(st'[job[w].dir].success /\ st'[job[w].dir].empty)
    PROVE  Inv'
PROOF
  <1>0. TypeOK /\ Shape /\ UniqueInv /\ JobInv /\ ParentInv /\ CountInv
    BY Zenon DEF Inv, Shape
  <1>1. UNCHANGED <<parent, plan, keeps, clean, settled, removed>>
    BY Zenon DEF fixed, outcome
  <1>2. /\ pc[w] \in Busy \ {"push"} /\ pc'[w] \in Busy \ {"push"} /\ Carried(w)' = Carried(w)
        /\ pc[w] \in Walking /\ pc'[w] \in Walking
    BY Zenon DEF Busy, Walking, Carried
  <1>3. \A v \in Worker \ {w} :
          /\ job'[v] = job[v]
          /\ pc'[v] \in Walking <=> pc[v] \in Walking
          /\ \A x : Walks(v, x)' <=> Walks(v, x)
    BY Zenon, StillFacts
  <1>4. UniqueInv' /\ \A x : Held(x)' <=> Held(x)
    BY Zenon, <1>0, <1>2, KeepPlace
  <1>5. \A x \in Dir : Own(x)' = Own(x)
    <2>1. \A x : Walks(w, x)' <=> Walks(w, x)
      BY Zenon, <1>2 DEF Walks, Walking, Finishing
    <2> QED
      BY Zenon, <1>3, <2>1 DEF Own
  <1>6. \A x \in Dir : Counted(x)' <=> Counted(x)
    BY Zenon, <1>4 DEF Counted
  <1>7. Flags' /\ \A x \in Dir : Walked(x)' <=> Walked(x)
    BY Zenon, <1>2, <1>6, FlagsWalk
  <1>8. JobInv'
    <2>1. \A x \in Dir \ {Carried(w)} : Spares(x)
      BY Zenon DEF Spares
    <2>2. \A v \in Worker \ {w} : pc[v] \in Finishing =>
             (st'[job[v].into].success => st[job[v].into].success)
      BY Zenon, <1>0, TaskFacts DEF FlagsFall, Busy
    <2>3. JobOK(w)'
      <3>1. JobOK(w) /\ job[w].dir \in Dir
        BY Zenon, <1>0, <1>2, TaskFacts DEF JobInv
      <3> QED
        BY <1>1, <1>2, <3>1
           DEF JobOK, ParentOf, Children, Walking, Finishing, Closing, Marking, Removing
    <2> QED
      BY Zenon, <1>0, <1>1, <1>2, <2>1, <2>2, <2>3, OtherJobs
  <1>9. ParentInv'
    <2>1. \A x \in Dir \ {Root} : Passed(x) => Passed(x)'
      BY <1>0, <1>1, <1>2, <1>3, TreeFacts DEF Passed
    <2> QED
      BY Zenon, <1>0, <1>4, <2>1 DEF ParentInv
  <1>10. CountInv'
    <2>1. \A x \in Dir : CountedIn(x)' = CountedIn(x)
      BY Zenon, <1>1, <1>6 DEF CountedIn, Children
    <2>2. \A x \in Dir : Walked(x)' => st'[x].pending = Own(x)' + Cardinality(CountedIn(x)')
      BY Zenon, <1>0, <1>5, <1>7, <2>1 DEF CountInv
    <2> QED
      BY Zenon, <1>0, <1>6, <2>2, TreeAssumption DEF CountInv
  <1> QED
    BY Zenon, <1>4, <1>7, <1>8, <1>9, <1>10 DEF Inv, Shape

\* ApplyResult::Fail clears `success`.
LEMMA ChildFailsFacts ==
    ASSUME TypeOK, NEW w \in Worker, NEW c \in Dir, ChildFails(w, c)
    PROVE  LET j == job[w]
               d == j.dir
           IN  /\ TypeOK' /\ (\A v \in Worker \ {w} : Still(v)) /\ FlagsFall
               /\ UNCHANGED <<fixed, tasks, outcome>>
               /\ \A x \in Dir \cup {Top} :
                     st'[x].onComplete = st[x].onComplete /\ st'[x].pending = st[x].pending
               /\ pc[w] = "walk" /\ c \in j.todo /\ pc'[w] = "walk" /\ ~st'[d].success
               /\ job'[w].dir = d /\ job'[w].todo = j.todo \ {c} /\ job'[w].into = j.into
               /\ job'[w].from = j.from
PROOF
  <1> DEFINE j == job[w]
             d == j.dir
             k == [j EXCEPT !.todo = j.todo \ {c}]
             r(e) == [[st[d] EXCEPT !.success = FALSE] EXCEPT !.empty = e]
  <1>1. /\ pc[w] = "walk" /\ c \in j.todo /\ pc' = pc
        /\ job' = [job EXCEPT ![w] = k] /\ UNCHANGED <<fixed, tasks, inFlight, outcome>>
    BY Zenon DEF ChildFails
  <1>2. j \in Job /\ d \in Dir /\ st[d] \in DirState /\ j.todo \in SUBSET Dir
    BY Zenon, <1>1, TaskFacts DEF Busy, Walking, TypeOK
  <1>3. PICK e \in {st[d].empty, st[d].empty /\ plan[c] # "both"} : st' = [st EXCEPT ![d] = r(e)]
    <2>1. PICK e \in {st[d].empty, st[d].empty /\ plan[c] # "both"} :
             st' = [st EXCEPT ![d].success = FALSE, ![d].empty = e]
      BY Zenon DEF ChildFails
    <2>2. [st EXCEPT ![d].success = FALSE, ![d].empty = e] = [st EXCEPT ![d] = r(e)]
      BY Zenon, <1>2 DEF TypeOK
    <2> QED
      BY Zenon, <2>1, <2>2
  <1>4. e \in BOOLEAN /\ (e => st[d].empty)
    BY <1>2, <1>3, SetField
  <1>5. /\ r(e) \in DirState /\ r(e).success = FALSE /\ r(e).empty = e
        /\ r(e).pending = st[d].pending /\ r(e).onComplete = st[d].onComplete
    <2> DEFINE q == [st[d] EXCEPT !.success = FALSE]
    <2>1. /\ q \in DirState /\ q.success = FALSE /\ q.pending = st[d].pending
          /\ q.onComplete = st[d].onComplete
      BY <1>2, SetField
    <2> HIDE DEF q
    <2>2. LET p == [q EXCEPT !.empty = e] IN
          p \in DirState /\ p.success = q.success /\ p.empty = e
          /\ p.pending = q.pending /\ p.onComplete = q.onComplete
      BY <1>4, <2>1, SetField
    <2> QED
      BY Zenon, <2>1, <2>2 DEF q
  <1>6. k \in Job /\ k.dir = d /\ k.todo = j.todo \ {c} /\ k.into = j.into /\ k.from = j.from
    <2>1. j.todo \ {c} \in SUBSET Dir
      BY Zenon, <1>2
    <2> QED
      BY <1>2, <2>1, SetJobField, Zenon
  <1> HIDE DEF k, r
  <1>7. /\ st' \in [Dir \cup {Top} -> DirState] /\ st'[d] = r(e)
        /\ \A x \in (Dir \cup {Top}) \ {d} : st'[x] = st[x]
    BY Zenon, <1>2, <1>3, <1>5, SetState
  <1>8. /\ job' \in [Worker -> Job \cup {None}] /\ job'[w] = k
        /\ \A v \in Worker \ {w} : job'[v] = job[v]
    BY Zenon, <1>1, <1>6, SetJob
  <1>9. TypeOK'
    BY Zenon, <1>1, <1>6, <1>7, <1>8 DEF TypeOK, fixed, outcome
  <1>10. FlagsFall /\ \A x \in Dir \cup {Top} :
            st'[x].onComplete = st[x].onComplete /\ st'[x].pending = st[x].pending
    BY Zenon, <1>4, <1>5, <1>7 DEF FlagsFall
  <1>11. \A v \in Worker \ {w} : Still(v)
    BY Zenon, <1>1, <1>8 DEF Still
  <1> QED
    BY Zenon, <1>1, <1>5, <1>6, <1>7, <1>8, <1>9, <1>10, <1>11

\* A subdirectory that cannot be entered makes its directory fail.
LEMMA ChildFailsInv ==
    ASSUME Inv, NEW w \in Worker, NEW c \in Dir, ChildFails(w, c)
    PROVE  Inv'
PROOF
  <1>1. TypeOK
    BY Zenon DEF Inv
  <1> QED
    BY Zenon, <1>1, ChildFailsFacts, WalkOnInv

\* process_file on a subdirectory that is in sync or to be descended into.
LEMMA WalkChildFacts ==
    ASSUME TypeOK, NEW w \in Worker, NEW c \in Dir, WalkChild(w, c)
    PROVE  LET j == job[w]
               d == j.dir
           IN  /\ TypeOK' /\ (\A v \in Worker \ {w} : Still(v)) /\ FlagsFall
               /\ UNCHANGED <<fixed, tasks, outcome>> /\ d \in Dir
               /\ \A x \in Dir \cup {Top} : st'[x].onComplete = st[x].onComplete
               /\ \A x \in (Dir \cup {Top}) \ {d} : st'[x].pending = st[x].pending
               /\ st'[d].pending = IF Descend(c) THEN st[d].pending + 1 ELSE st[d].pending
               /\ st'[d].empty => plan[c] = "delete"
               /\ pc[w] = "walk" /\ c \in j.todo
               /\ pc'[w] = IF Descend(c) THEN "push" ELSE "walk"
               /\ job'[w].dir = d /\ job'[w].todo = j.todo \ {c} /\ job'[w].into = j.into
               /\ job'[w].from = j.from /\ (Descend(c) => job'[w].next = c)
PROOF
  <1> DEFINE j == job[w]
             d == j.dir
             n == IF Descend(c) THEN c ELSE None
             k == [j EXCEPT !.todo = j.todo \ {c}, !.next = n]
             e == st[d].empty /\ plan[c] = "delete"
             p == IF Descend(c) THEN st[d].pending + 1 ELSE st[d].pending
             at == IF Descend(c) THEN "push" ELSE "walk"
             q == [st[d] EXCEPT !.empty = e]
             r == [q EXCEPT !.pending = p]
  <1>1. /\ pc[w] = "walk" /\ c \in j.todo /\ pc' = [pc EXCEPT ![w] = at]
        /\ UNCHANGED <<fixed, tasks, inFlight, outcome>>
    BY Zenon DEF WalkChild, Goto
  <1>2. j \in Job /\ d \in Dir /\ st[d] \in DirState /\ j.todo \in SUBSET Dir
    BY Zenon, <1>1, TaskFacts DEF Busy, Walking, TypeOK
  <1>3. st' = [st EXCEPT ![d] = r]
    <2>1. st' = [st EXCEPT ![d].empty = @ /\ plan[c] = "delete",
                           ![d].pending = IF Descend(c) THEN @ + 1 ELSE @]
      BY Zenon DEF WalkChild
    <2> QED
      BY Zenon, <1>2, <2>1 DEF TypeOK, DirState
  <1>4. job' = [job EXCEPT ![w] = k]
    <2>1. job' = [job EXCEPT ![w].todo = @ \ {c}, ![w].next = n]
      BY Zenon DEF WalkChild
    <2> QED
      BY Zenon, <2>1 DEF TypeOK
  <1>5. /\ q \in DirState /\ q.success = st[d].success /\ q.empty = e
        /\ q.pending = st[d].pending /\ q.onComplete = st[d].onComplete
    <2>1. e \in BOOLEAN
      BY Zenon, <1>2, SetField
    <2> HIDE DEF e
    <2> QED
      BY <1>2, <2>1, SetField
  <1>6. /\ r \in DirState /\ r.success = st[d].success /\ r.empty = e
        /\ r.pending = p /\ r.onComplete = st[d].onComplete
    <2>1. p \in Nat
      BY <1>2, SetField
    <2> HIDE DEF p, q
    <2> QED
      BY <1>5, <2>1, SetField
  <1>7. /\ k \in Job /\ k.dir = d /\ k.todo = j.todo \ {c} /\ k.into = j.into
        /\ k.from = j.from /\ k.next = n
    <2> DEFINE left == j.todo \ {c}
    <2>1. left \in SUBSET Dir /\ n \in Dir \cup {None}
      BY Zenon, <1>2
    <2> HIDE DEF n, left
    <2>2. LET i == [j EXCEPT !.todo = left, !.next = n] IN
          i \in Job /\ i.dir = j.dir /\ i.todo = left /\ i.into = j.into /\ i.from = j.from
          /\ i.next = n
      BY <1>2, <2>1, Zenon DEF Job
    <2> QED
      BY Zenon, <2>2 DEF left
  <1>8. at \in {"push", "walk"}
    BY Zenon
  <1> HIDE DEF k, r, q, at
  <1>9. /\ st' \in [Dir \cup {Top} -> DirState] /\ st'[d] = r
        /\ \A x \in (Dir \cup {Top}) \ {d} : st'[x] = st[x]
    BY Zenon, <1>2, <1>3, <1>6, SetState
  <1>10. /\ job' \in [Worker -> Job \cup {None}] /\ job'[w] = k
         /\ \A v \in Worker \ {w} : job'[v] = job[v]
    BY Zenon, <1>4, <1>7, SetJob
  <1>11. /\ pc' \in [Worker -> Place] /\ pc'[w] = at
         /\ \A v \in Worker \ {w} : pc'[v] = pc[v]
    BY Zenon, <1>1, <1>8 DEF TypeOK, Place, Flight, Busy, Walking
  <1>12. TypeOK'
    BY Zenon, <1>1, <1>7, <1>9, <1>10, <1>11 DEF TypeOK, fixed, outcome
  <1>13. FlagsFall
    BY Zenon, <1>6, <1>9 DEF FlagsFall
  <1>14. /\ \A x \in Dir \cup {Top} : st'[x].onComplete = st[x].onComplete
         /\ \A x \in (Dir \cup {Top}) \ {d} : st'[x].pending = st[x].pending
         /\ st'[d].pending = p /\ (st'[d].empty => plan[c] = "delete")
    BY Zenon, <1>6, <1>9
  <1>15. \A v \in Worker \ {w} : Still(v)
    BY Zenon, <1>10, <1>11 DEF Still
  <1> QED
    BY Zenon, <1>1, <1>2, <1>7, <1>10, <1>11, <1>12, <1>13, <1>14, <1>15 DEF at

\* A subdirectory that is passed by is in sync, or not to be.
LEMMA SkipChildInv ==
    ASSUME Inv, NEW w \in Worker, NEW c \in Dir, WalkChild(w, c), ~Descend(c)
    PROVE  Inv'
PROOF
  <1>1. TypeOK
    BY Zenon DEF Inv
  <1>2. /\ TypeOK' /\ (\A v \in Worker \ {w} : Still(v)) /\ FlagsFall
        /\ UNCHANGED <<fixed, tasks, outcome>>
        /\ \A x \in Dir \cup {Top} :
              st'[x].onComplete = st[x].onComplete /\ st'[x].pending = st[x].pending
        /\ st'[job[w].dir].empty => plan[c] = "delete"
        /\ pc[w] = "walk" /\ c \in job[w].todo /\ pc'[w] = "walk"
        /\ job'[w].dir = job[w].dir /\ job'[w].todo = job[w].todo \ {c}
        /\ job'[w].into = job[w].into /\ job'[w].from = job[w].from
    BY <1>1, WalkChildFacts
  <1>3. plan[c] # "leave" => Done(c)
    BY Zenon, <1>1 DEF TypeOK, Plan, Descend, Done
  <1>4. ~st'[job[w].dir].empty
    BY Zenon, <1>2 DEF Descend
  <1> QED
    BY Zenon, <1>2, <1>3, <1>4, WalkOnInv

\* A subdirectory that is descended into is counted before it is on the stack.
LEMMA DescendInv ==
    ASSUME FiniteFacts, Inv, NEW w \in Worker, NEW c \in Dir, WalkChild(w, c), Descend(c)
    PROVE  Inv'
PROOF
  <1> DEFINE d == job[w].dir
  <1>0. TypeOK /\ Shape /\ UniqueInv /\ JobInv /\ ParentInv /\ CountInv
    BY Zenon DEF Inv, Shape
  <1>1. /\ TypeOK' /\ (\A v \in Worker \ {w} : Still(v)) /\ FlagsFall
        /\ UNCHANGED <<fixed, tasks, outcome>> /\ d \in Dir
        /\ \A x \in Dir \cup {Top} : st'[x].onComplete = st[x].onComplete
        /\ \A x \in (Dir \cup {Top}) \ {d} : st'[x].pending = st[x].pending
        /\ st'[d].pending = st[d].pending + 1
        /\ st'[d].empty => plan[c] = "delete"
        /\ pc[w] = "walk" /\ c \in job[w].todo /\ pc'[w] = "push"
        /\ job'[w].dir = d /\ job'[w].todo = job[w].todo \ {c} /\ job'[w].into = job[w].into
        /\ job'[w].from = job[w].from /\ job'[w].next = c
    BY Zenon, <1>0, WalkChildFacts
  <1>2. UNCHANGED <<parent, plan, keeps, clean, settled, removed>>
    BY Zenon, <1>1 DEF fixed, outcome
  <1>3. /\ pc[w] \in Busy /\ pc'[w] \in Busy /\ Carried(w)' = d /\ Carried(w) = d
        /\ pc[w] \in Walking /\ pc'[w] \in Walking
    BY Zenon, <1>1 DEF Busy, Walking, Carried
  <1>4. /\ c \in Dir \ {Root} /\ parent[c] = d /\ ~Held(c) /\ ~st[c].onComplete /\ ~Counted(c)
        /\ c # d /\ c \in Children(d) /\ Held(d)
    <2>1. c \in Dir \ {Root} /\ parent[c] = d /\ ~Held(c) /\ ~st[c].onComplete /\ ~Counted(c)
      BY Zenon, <1>0, <1>1, <1>3, Untouched
    <2>2. Held(d)
      BY Zenon, <1>3 DEF Held
    <2> QED
      BY Zenon, <1>0, <2>1, <2>2, TreeFacts
  <1>5. \A v \in Worker \ {w} :
          /\ job'[v] = job[v]
          /\ pc'[v] \in Busy <=> pc[v] \in Busy
          /\ pc'[v] \in Walking <=> pc[v] \in Walking
          /\ pc'[v] = "push" <=> pc[v] = "push"
          /\ pc'[v] \in {"andEmpty", "countDown"} <=> pc[v] \in {"andEmpty", "countDown"}
          /\ Carried(v)' = Carried(v)
          /\ \A x : Walks(v, x)' <=> Walks(v, x)
    BY Zenon, <1>1, StillFacts
  <1>6. /\ \A v \in Worker : pc[v] \in Busy => Carried(v) # c
        /\ \A v \in Worker : pc[v] = "push" => job[v].next # c
        /\ \A i \in DOMAIN tasks : tasks[i].dir # c
    BY Zenon, <1>4 DEF Held
  <1>16. /\ UNCHANGED tasks /\ job'[w].next = c /\ pc[w] # "push" /\ pc'[w] = "push"
    BY Zenon, <1>1
  <1>17. UniqueInv
    BY Zenon, <1>0
  <1>18. c # d
    BY Zenon, <1>4
  <1> HIDE DEF d
  <1>7. UniqueInv'
    BY <1>3, <1>5, <1>6, <1>16, <1>17, <1>18 DEF UniqueInv
  <1>8. \A x \in Dir : Held(x)' <=> (Held(x) \/ x = c)
    BY Zenon, <1>3, <1>5, <1>16 DEF Held
  <1>9. \A x \in Dir : Own(x)' = Own(x)
    <2>1. \A x : Walks(w, x)' <=> Walks(w, x)
      BY Zenon, <1>1, <1>3 DEF Walks, Walking, Finishing, d
    <2> QED
      BY Zenon, <1>5, <2>1 DEF Own
  <1>10. \A x \in Dir : Counted(x)' <=> (Counted(x) \/ x = c)
    <2>1. \A x \in Dir \ {c, d} : Counted(x)' <=> Counted(x)
      BY Zenon, <1>1, <1>8 DEF Counted
    <2>2. \A x \in {d} : Counted(x)' /\ Counted(x)
      BY Zenon, <1>1, <1>4, <1>8 DEF Counted
    <2>3. Counted(c)'
      BY Zenon, <1>4, <1>8 DEF Counted
    <2> QED
      BY <2>1, <2>2, <2>3, Zenon
  <1>11. Silent(c, {"andEmpty", "countDown"})' /\ Silent(c, {"countDown"})'
    <2>1. \A v \in Worker : pc'[v] \in {"andEmpty", "countDown"} => job'[v].dir # c
      <3>1. \A v \in Worker : pc[v] \in {"andEmpty", "countDown"} =>
               pc[v] \in Busy /\ Carried(v) = job[v].dir
        BY Zenon DEF Busy, Finishing, Carried
      <3> QED
        BY <1>1, <1>5, <1>6, <3>1
    <2> QED
      BY Zenon, <1>4, <1>10, <2>1 DEF Silent
  <1>12. Flags' /\ \A x \in Dir : Walked(x)' <=> Walked(x)
    BY Zenon, <1>1, <1>3, <1>10, <1>11, FlagsWalk DEF d
  <1>13. JobInv'
    <2>1. \A x \in Dir \ {Carried(w)} : Spares(x)
      BY Zenon, <1>1, <1>3 DEF Spares
    <2>2. \A v \in Worker \ {w} : pc[v] \in Finishing =>
             (st'[job[v].into].success => st[job[v].into].success)
      BY Zenon, <1>0, <1>1, TaskFacts DEF FlagsFall, Busy
    <2>3. JobOK(w)'
      <3>1. JobOK(w)
        BY Zenon, <1>0 DEF JobInv
      <3>2. /\ job[w].into = ParentOf(d) /\ job[w].from = d /\ ~st[d].onComplete
            /\ job[w].todo \subseteq Children(d)
        BY Zenon, <1>3, <3>1 DEF JobOK, d
      <3>3. ParentOf(job[w].dir)' = ParentOf(d) /\ Children(job[w].dir)' = Children(d)
        BY Zenon, <1>1, <1>2 DEF ParentOf, Children
      <3>4. /\ job'[w].into = ParentOf(job[w].dir)' /\ job'[w].from = job'[w].dir
            /\ ~st'[job'[w].dir].onComplete /\ job'[w].todo \subseteq Children(job[w].dir)'
            /\ job'[w].next \in Children(job[w].dir)' \ job'[w].todo /\ ~st'[job'[w].next].onComplete
        BY Zenon, <1>1, <1>4, <3>2, <3>3
      <3> QED
        BY Zenon, <1>1, <3>4 DEF JobOK, Finishing, Closing, Marking, Removing
    <2> QED
      BY Zenon, <1>0, <1>1, <1>2, <1>3, <2>1, <2>2, <2>3, OtherJobs
  <1>14. ParentInv'
    <2>1. \A x \in Dir \ {Root} : Passed(x) => Passed(x)'
      <3>1. \A x \in Dir \ {Root} : parent[x] \in Dir
        BY Zenon, <1>0, TreeFacts
      <3>2. /\ \A x \in Dir : st[x].onComplete => st'[x].onComplete
            /\ job'[w].dir = job[w].dir /\ job'[w].todo \subseteq job[w].todo
        BY Zenon, <1>1 DEF d
      <3> QED
        BY <1>2, <1>3, <1>5, <3>1, <3>2 DEF Passed
    <2>2. Passed(c)'
      BY Zenon, <1>1, <1>2, <1>3, <1>4 DEF Passed
    <2> QED
      BY Zenon, <1>0, <1>1, <1>8, <2>1, <2>2 DEF ParentInv
  <1>15. CountInv'
    <2>1. ASSUME NEW x \in Dir, x # d, Walked(x)'
          PROVE  st'[x].pending = Own(x)' + Cardinality(CountedIn(x)')
      <3>1. CountedIn(x)' = CountedIn(x)
        BY Zenon, <1>2, <1>4, <1>10, <2>1 DEF CountedIn, Children
      <3> QED
        BY Zenon, <1>0, <1>1, <1>9, <1>12, <2>1, <3>1 DEF CountInv
    <2>2. ASSUME NEW x \in Dir, x = d, Walked(x)'
          PROVE  st'[x].pending = Own(x)' + Cardinality(CountedIn(x)')
      <3>1. CountedIn(x)' = CountedIn(x) \cup {c} /\ c \notin CountedIn(x)
        BY Zenon, <1>2, <1>4, <1>10, <2>2 DEF CountedIn, Children
      <3>2. IsFiniteSet(CountedIn(x))
        BY Zenon, CountedFacts
      <3>3. Cardinality(CountedIn(x)') = Cardinality(CountedIn(x)) + 1
            /\ Cardinality(CountedIn(x)) \in Nat
        BY Zenon, <3>1, <3>2, CountedFacts DEF FiniteFacts
      <3>4. st[x].pending = Own(x) + Cardinality(CountedIn(x))
        BY Zenon, <1>0, <1>12, <2>2 DEF CountInv
      <3>5. Own(x) \in Nat
        BY Zenon DEF Own
      <3>6. st'[x].pending = st[x].pending + 1 /\ Own(x)' = Own(x)
        BY Zenon, <1>1, <1>9, <2>2
      <3> QED
        BY <3>3, <3>4, <3>5, <3>6
    <2>3. Counted(Root)' <=> Counted(Root)
      BY Zenon, <1>4, <1>10, TreeAssumption
    <2> QED
      BY Zenon, <1>0, <1>1, <2>1, <2>2, <2>3, TreeAssumption DEF CountInv
  <1> QED
    BY Zenon, <1>1, <1>7, <1>12, <1>13, <1>14, <1>15 DEF Inv, Shape

-----------------------------------------------------------------------------
(* A directory that is set up. *)

\* process_dir creates the DirState of its directory.
LEMMA ProcessFilesFacts ==
    ASSUME TypeOK, NEW w \in Worker, ProcessFiles(w)
    PROVE  LET d == job[w].dir IN
           /\ TypeOK' /\ (\A v \in Worker \ {w} : Still(v))
           /\ UNCHANGED <<fixed, tasks, job, clean, removed>> /\ d \in Dir
           /\ \A x \in (Dir \cup {Top}) \ {d} : st'[x] = st[x]
           /\ st'[d].pending = 1 /\ ~st'[d].onComplete
           /\ st'[d].success => d \in settled' /\ (st'[d].empty => d \notin keeps)
           /\ settled \subseteq settled'
           /\ pc[w] = "process" /\ pc'[w] = "walk"
PROOF
  <1> DEFINE d == job[w].dir
             e == d \notin keeps
             r1 == [Fresh EXCEPT !.empty = e]
             r2 == [Fresh EXCEPT !.success = FALSE]
  <1>1. /\ pc[w] = "process" /\ pc' = [pc EXCEPT ![w] = "walk"]
        /\ UNCHANGED <<fixed, tasks, inFlight, job, clean, removed>>
    BY Zenon DEF ProcessFiles, Goto
  <1>2. \/ st' = [st EXCEPT ![d] = r1] /\ settled' = settled \cup {d}
        \/ st' = [st EXCEPT ![d] = r2] /\ settled' = settled
    BY Zenon DEF ProcessFiles
  <1>3. d \in Dir
    BY Zenon, <1>1, TaskFacts DEF Busy
  <1>4. /\ Fresh \in DirState /\ Fresh.success = TRUE /\ Fresh.pending = 1
        /\ Fresh.onComplete = FALSE
    BY Zenon DEF Fresh, DirState
  <1>5. /\ r1 \in DirState /\ r1.empty = e /\ r1.pending = 1 /\ r1.onComplete = FALSE
    <2>1. e \in BOOLEAN
      BY Zenon
    <2> HIDE DEF e
    <2> QED
      BY <1>4, <2>1, SetField
  <1>6. /\ r2 \in DirState /\ r2.success = FALSE /\ r2.pending = 1 /\ r2.onComplete = FALSE
    BY Zenon, <1>4, SetField
  <1> HIDE DEF r1, r2
  <1>7. /\ st' \in [Dir \cup {Top} -> DirState]
        /\ \A x \in (Dir \cup {Top}) \ {d} : st'[x] = st[x]
        /\ (st'[d] = r1 /\ settled' = settled \cup {d}) \/ (st'[d] = r2 /\ settled' = settled)
    BY <1>2, <1>3, <1>5, <1>6, SetState
  <1>8. /\ pc' \in [Worker -> Place] /\ pc'[w] = "walk"
        /\ \A v \in Worker \ {w} : pc'[v] = pc[v]
    BY Zenon, <1>1 DEF TypeOK, Place, Flight, Busy, Walking
  <1>9. job[w] \in Job
    BY Zenon, <1>1, TaskFacts DEF Busy
  <1>10. TypeOK'
    BY Zenon, <1>1, <1>3, <1>7, <1>8, <1>9 DEF TypeOK, fixed
  <1>11. \A v \in Worker \ {w} : Still(v)
    BY Zenon, <1>1, <1>8 DEF Still
  <1>12. /\ st'[d].pending = 1 /\ ~st'[d].onComplete /\ settled \subseteq settled'
         /\ st'[d].success => d \in settled' /\ (st'[d].empty => d \notin keeps)
    BY Zenon, <1>5, <1>6, <1>7
  <1> QED
    BY Zenon, <1>1, <1>3, <1>7, <1>8, <1>10, <1>11, <1>12

\* Nobody else has anything to do with the DirState of a directory that is not
\* set up yet: no child of it is under way.
LEMMA NobodyBelow ==
    ASSUME TypeOK, Shape, NEW w \in Worker, pc[w] = "process",
           NEW v \in Worker \ {w}, pc[v] \in Closing \cup Finishing
    PROVE  \A x \in {job[v].dir, job[v].into, job[v].from} :
              x \in Dir \cup {Top} /\ x # job[w].dir
PROOF
  <1>0. UniqueInv /\ JobInv
    BY Zenon DEF Shape
  <1>1. /\ pc[w] \in Busy /\ pc[v] \in Busy /\ Carried(w) = job[w].dir /\ Carried(v) = job[v].dir
        /\ pc[v] \notin {"process"} \cup Walking
    BY Zenon DEF Busy, Finishing, Closing, Carried, Marking, Removing, Walking
  <1>2. /\ job[v].dir \in Dir /\ job[v].into \in Dir \cup {Top} /\ job[v].from \in Dir \cup {Top}
        /\ job[v].dir # job[w].dir /\ job[w].dir \in Dir
    BY Zenon, <1>0, <1>1, TaskFacts, OthersElsewhere
  <1>3. /\ job[v].from \in {job[v].dir, job[v].into}
        /\ job[v].into \in {job[v].dir, ParentOf(job[v].dir)}
    <2>1. JobOK(v)
      BY Zenon, <1>0 DEF JobInv
    <2>2. CASE pc[v] \in Finishing
      <3>1. FinishOK(job[v])
        BY Zenon, <2>1, <2>2 DEF JobOK
      <3> QED
        BY Zenon, <3>1 DEF FinishOK
    <2>3. CASE pc[v] \in Closing
      BY Zenon, <2>1, <2>3 DEF JobOK
    <2> QED
      BY Zenon, <2>2, <2>3
  <1>4. ParentOf(job[v].dir) # job[w].dir
    <2>1. SUFFICES ASSUME ParentOf(job[v].dir) = job[w].dir PROVE FALSE
      BY Zenon
    <2>2. job[v].dir \in Children(job[w].dir)
      BY Zenon, <1>2, <2>1, TreeAssumption DEF ParentOf, Children
    <2>3. job[v].dir \in job[w].todo
      BY Zenon, <1>0, <2>2 DEF JobInv, JobOK
    <2>4. ~Held(job[v].dir)
      BY Zenon, <2>3, Untouched
    <2> QED
      BY Zenon, <1>1, <2>4 DEF Held
  <1> QED
    BY Zenon, <1>2, <1>3, <1>4

\* A fresh DirState counts the walk itself, and nothing else.
LEMMA ProcessFilesInv ==
    ASSUME FiniteFacts, Inv, NEW w \in Worker, ProcessFiles(w)
    PROVE  Inv'
PROOF
  <1> DEFINE d == job[w].dir
  <1>0. TypeOK /\ Shape /\ UniqueInv /\ JobInv /\ ParentInv /\ CountInv /\ SuccessInv /\ EmptyInv
    BY Zenon DEF Inv, Shape, Flags
  <1>1. /\ TypeOK' /\ (\A v \in Worker \ {w} : Still(v))
        /\ UNCHANGED <<fixed, tasks, job, clean, removed>> /\ d \in Dir
        /\ \A x \in (Dir \cup {Top}) \ {d} : st'[x] = st[x]
        /\ st'[d].pending = 1 /\ ~st'[d].onComplete
        /\ st'[d].success => d \in settled' /\ (st'[d].empty => d \notin keeps)
        /\ settled \subseteq settled'
        /\ pc[w] = "process" /\ pc'[w] = "walk"
    BY Zenon, <1>0, ProcessFilesFacts
  <1>2. UNCHANGED <<parent, plan, keeps>> /\ \A x : Children(x)' = Children(x)
    BY Zenon, <1>1 DEF fixed, Children
  <1>3. /\ pc[w] \in Busy \ {"push"} /\ pc'[w] \in Busy \ {"push"} /\ Carried(w)' = d /\ Carried(w) = d
        /\ pc[w] \notin Walking /\ pc'[w] \in Walking
    BY Zenon, <1>1 DEF Busy, Walking, Carried
  <1>4. /\ job[w].into = ParentOf(d) /\ job[w].from = d /\ ~st[d].onComplete
        /\ job[w].todo = Children(d)
    BY Zenon, <1>0, <1>1 DEF JobInv, JobOK
  <1>5. \A c \in Children(d) : c \in Dir /\ c # d /\ ~Held(c) /\ ~st[c].onComplete /\ ~Counted(c)
    <2>1. \A c \in job[w].todo : c \in Dir /\ ~Held(c) /\ ~st[c].onComplete /\ ~Counted(c)
      BY Zenon, <1>0, <1>1, Untouched
    <2> QED
      BY <1>0, <1>1, <1>4, <2>1, TreeFacts
  <1>6. \A v \in Worker \ {w} :
          /\ pc'[v] \in Walking <=> pc[v] \in Walking
          /\ \A x : Walks(v, x)' <=> Walks(v, x)
    BY Zenon, <1>1, StillFacts
  <1>7. UniqueInv' /\ \A x : Held(x)' <=> Held(x)
    BY Zenon, <1>0, <1>1, <1>3, KeepPlace
  <1>8. Held(d)
    BY Zenon, <1>3 DEF Held
  <1>9. \A x \in {d} : Walks(w, x)'
    BY Zenon, <1>1, <1>3 DEF Walks
  <1> HIDE DEF d
  <1>10. \A x \in Dir : st'[x].onComplete <=> st[x].onComplete
    BY Zenon, <1>1, <1>4
  <1>11. /\ \A x \in Dir \ {d} : (Own(x)' = Own(x)) /\ (Walked(x)' <=> Walked(x))
         /\ \A x \in {d} : Own(x)' = 1
    <2>1. \A x \in Dir \ {d} : ~Walks(w, x) /\ ~Walks(w, x)'
      BY Zenon, <1>1 DEF Walks, d
    <2> QED
      BY Zenon, <1>1, <1>3, <1>6, <1>9, <1>10, <2>1 DEF Own, Walked, d
  <1>12. /\ \A x \in Dir : Ahead(x) => Ahead(x)'
         /\ \A x \in Children(d) : Ahead(x)'
    BY Zenon, <1>1, <1>3, <1>4, <1>6 DEF Ahead, d
  <1>13. \A x \in Dir : Counted(x)' <=> Counted(x)
    <2>1. \A x \in Dir \ {d} : Counted(x)' <=> Counted(x)
      BY Zenon, <1>1, <1>7 DEF Counted
    <2>2. \A x \in {d} : Counted(x)' /\ Counted(x)
      BY Zenon, <1>7, <1>8 DEF Counted
    <2> QED
      BY <2>1, <2>2, Zenon
  <1>14. \A v \in Worker \ {w} : pc[v] \in Closing \cup Finishing =>
           \A x \in {job[v].dir, job[v].into, job[v].from} : x \in Dir \cup {Top} /\ x # d
    BY Zenon, <1>0, <1>1, NobodyBelow DEF d
  <1>15. JobInv'
    <2>1. \A x \in Dir \ {Carried(w)} : Spares(x)
      BY Zenon, <1>1, <1>3 DEF Spares
    <2>2. \A v \in Worker \ {w} : pc[v] \in Finishing =>
             (st'[job[v].into].success => st[job[v].into].success)
      BY Zenon, <1>1, <1>14
    <2>3. JobOK(w)'
      <3>1. ParentOf(job[w].dir)' = ParentOf(d) /\ Children(job[w].dir)' = Children(d)
        BY Zenon, <1>1, <1>2 DEF ParentOf, d
      <3>2. /\ job'[w].into = ParentOf(job[w].dir)' /\ job'[w].from = job'[w].dir
            /\ ~st'[job'[w].dir].onComplete /\ job'[w].todo \subseteq Children(job[w].dir)'
        BY Zenon, <1>1, <1>4, <3>1 DEF d
      <3> QED
        BY Zenon, <1>1, <3>2 DEF JobOK, Walking, Finishing, Closing, Marking, Removing
    <2> QED
      BY Zenon, <1>0, <1>1, <1>2, <1>3, <2>1, <2>2, <2>3, OtherJobs
  <1>16. ParentInv'
    <2>1. \A x \in Dir \ {Root} : Passed(x) => Passed(x)'
      BY Zenon, <1>0, <1>1, <1>2, <1>3, <1>6, <1>10, TreeFacts DEF Passed
    <2> QED
      BY Zenon, <1>0, <1>7, <1>10, <2>1 DEF ParentInv
  <1>17. CountInv'
    <2>1. \A x \in Dir : CountedIn(x)' = CountedIn(x)
      BY Zenon, <1>2, <1>13 DEF CountedIn, Children
    <2>2. CountedIn(d) = {}
      BY Zenon, <1>5 DEF CountedIn
    <2>3. ASSUME NEW x \in Dir, Walked(x)'
          PROVE  st'[x].pending = Own(x)' + Cardinality(CountedIn(x)')
      <3>1. CASE x = d
        BY <1>1, <1>11, <2>1, <2>2, <3>1 DEF FiniteFacts
      <3>2. CASE x # d
        BY Zenon, <1>0, <1>1, <1>11, <2>1, <2>3, <3>2 DEF CountInv
      <3> QED
        BY Zenon, <3>1, <3>2
    <2>4. Top # d /\ Root \in Dir
      BY Zenon, <1>1, TreeAssumption
    <2> QED
      BY Zenon, <1>0, <1>1, <1>13, <2>3, <2>4 DEF CountInv
  <1>18. Grows /\ CloseInv' /\ DoneInv'
    <2>1. CloseOK(w)'
      BY Zenon, <1>1 DEF CloseOK, Marking, Removing
    <2> QED
      BY Zenon, <1>1, <1>14, <2>1, CloseStep
  <1>19. \A x \in Dir :
          /\ Silent(x, {"andEmpty", "countDown"}) => Silent(x, {"andEmpty", "countDown"})'
          /\ Silent(x, {"countDown"}) => Silent(x, {"countDown"})'
    <2>1. ASSUME NEW x \in Dir, Counted(x)
          PROVE  /\ Silent(x, {"andEmpty", "countDown"}) => Silent(x, {"andEmpty", "countDown"})'
                 /\ Silent(x, {"countDown"}) => Silent(x, {"countDown"})'
      BY Zenon, <1>1, <1>2, <1>13, <2>1, SilentKept
    <2> QED
      BY Zenon, <2>1 DEF Silent
  <1>20. SuccessInv'
    <2>1. ASSUME NEW e \in Dir, Walked(e)', st'[e].success
          PROVE  /\ e \in settled'
                 /\ \A x \in Children(e) : plan[x] # "leave" =>
                       Ahead(x)' \/ Silent(x, {"andEmpty", "countDown"})' \/ Done(x)'
      <3>1. CASE e = d
        BY Zenon, <1>1, <1>12, <2>1, <3>1
      <3>2. CASE e # d
        <4>1. /\ e \in settled
              /\ \A x \in Children(e) : plan[x] # "leave" =>
                    Ahead(x) \/ Silent(x, {"andEmpty", "countDown"}) \/ Done(x)
          BY Zenon, <1>0, <1>1, <1>11, <2>1, <3>2 DEF SuccessInv
        <4>2. \A x \in Children(e) : x \in Dir
          BY Zenon DEF Children
        <4> QED
          BY Zenon, <1>1, <1>12, <1>18, <1>19, <4>1, <4>2 DEF Grows
      <3> QED
        BY Zenon, <3>1, <3>2
    <2>2. st'[Top].success => Silent(Root, {"andEmpty", "countDown"})' \/ Done(Root)'
      <3>1. Top # d /\ Root \in Dir
        BY Zenon, <1>1, TreeAssumption
      <3> QED
        BY Zenon, <1>0, <1>1, <1>18, <1>19, <3>1 DEF SuccessInv, Grows
    <2> QED
      BY Zenon, <1>2, <2>1, <2>2 DEF SuccessInv
  <1>21. EmptyInv'
    <2>1. ASSUME NEW e \in Dir, Walked(e)', st'[e].success, st'[e].empty
          PROVE  /\ e \notin keeps
                 /\ \A x \in Children(e) :
                      \/ Ahead(x)'
                      \/ plan[x] = "delete" /\ (Silent(x, {"countDown"})' \/ removed'[x] = Replica)
      <3>1. CASE e = d
        BY Zenon, <1>1, <1>12, <2>1, <3>1
      <3>2. CASE e # d
        <4>1. /\ e \notin keeps
              /\ \A x \in Children(e) :
                   \/ Ahead(x)
                   \/ plan[x] = "delete" /\ (Silent(x, {"countDown"}) \/ removed[x] = Replica)
          BY Zenon, <1>0, <1>1, <1>11, <2>1, <3>2 DEF EmptyInv
        <4>2. \A x \in Children(e) : x \in Dir
          BY Zenon DEF Children
        <4> QED
          BY Zenon, <1>1, <1>12, <1>19, <4>1, <4>2
      <3> QED
        BY Zenon, <3>1, <3>2
    <2> QED
      BY Zenon, <1>2, <2>1 DEF EmptyInv
  <1> QED
    BY Zenon, <1>1, <1>7, <1>15, <1>16, <1>17, <1>18, <1>20, <1>21 DEF Inv, Shape, Flags


-----------------------------------------------------------------------------
(* The last step of finish_task_in_dir. *)

\* What is counted as finished: a directory's own walk, the root, or a child.
OwnEnd(w) ==
    LET c == job[w].dir IN
    /\ job[w].into = c /\ st[c].onComplete /\ Own(c) = 1 /\ Walked(c)

RootEnd(w) ==
    LET c == job[w].dir IN
    /\ job[w].into = Top /\ c = Root /\ Counted(Root) /\ ~(st[c].onComplete /\ st[c].pending > 0)

ChildEnd(w) ==
    LET c == job[w].dir
        p == job[w].into
    IN  /\ p \in Dir /\ c \in Children(p) /\ p # c /\ c # Root /\ ParentOf(c) = p
        /\ Walked(p) /\ Counted(c) /\ ~(st[c].onComplete /\ st[c].pending > 0)

\* One of the three it is.
LEMMA EndKinds ==
    ASSUME TypeOK, Shape, NEW w \in Worker, pc[w] = "countDown"
    PROVE  OwnEnd(w) \/ RootEnd(w) \/ ChildEnd(w)
PROOF
  <1> DEFINE c == job[w].dir
             p == job[w].into
  <1>0. JobInv /\ ParentInv
    BY Zenon DEF Shape
  <1>1. pc[w] \in Finishing /\ pc[w] \in Busy /\ Carried(w) = c
    BY Zenon DEF Finishing, Busy, Carried
  <1>2. c \in Dir /\ p \in Dir \cup {Top} /\ Held(c) /\ Counted(c)
    BY Zenon, <1>1, TaskFacts DEF Held, Counted
  <1>3. FinishOK(job[w])
    BY Zenon, <1>0, <1>1 DEF JobInv, JobOK
  <1>4. CASE p = c /\ st[c].onComplete
    BY Zenon, <1>1, <1>4 DEF OwnEnd, Own, Walks, Walked
  <1>5. CASE p = ParentOf(c) /\ (~st[c].onComplete \/ st[c].pending = 0)
    <2>1. ~(st[c].onComplete /\ st[c].pending > 0)
      BY <1>5
    <2>2. CASE c = Root
      BY Zenon, <1>2, <1>5, <2>1, <2>2 DEF RootEnd, ParentOf
    <2>3. CASE c # Root
      <3>1. p \in Dir /\ p = parent[c] /\ c \in Children(p) /\ p # c /\ ParentOf(c) = p
        BY <1>2, <1>5, <2>3, TreeFacts
      <3>2. Passed(c)
        BY Zenon, <1>0, <1>2, <2>3 DEF ParentInv
      <3>3. Walked(p)
        BY Zenon, <3>1, <3>2 DEF Passed, Walked
      <3> QED
        BY Zenon, <1>2, <2>1, <2>3, <3>1, <3>3 DEF ChildEnd
    <2> QED
      BY Zenon, <2>2, <2>3
  <1> QED
    BY Zenon, <1>3, <1>4, <1>5 DEF FinishOK

\* `pending` never goes below zero.
LEMMA CountPositive ==
    ASSUME FiniteFacts, TypeOK, Shape, NEW w \in Worker, pc[w] = "countDown"
    PROVE  st[job[w].into].pending \in Nat /\ st[job[w].into].pending >= 1
PROOF
  <1> DEFINE c == job[w].dir
             p == job[w].into
  <1>0. CountInv
    BY Zenon DEF Shape
  <1>1. \A x \in Dir : IsFiniteSet(CountedIn(x)) /\ Cardinality(CountedIn(x)) \in Nat
    BY Zenon, CountedFacts
  <1>2. c \in Dir /\ p \in Dir \cup {Top} /\ st[p].pending \in Nat
    <2>1. c \in Dir /\ p \in Dir \cup {Top} /\ st[p] \in DirState
      BY Zenon, TaskFacts DEF Busy, Finishing, TypeOK
    <2> QED
      BY Zenon, <2>1, SetField
  <1>3. CASE OwnEnd(w)
    BY <1>0, <1>1, <1>2, <1>3 DEF OwnEnd, CountInv
  <1>4. CASE RootEnd(w)
    BY <1>0, <1>4 DEF RootEnd, CountInv
  <1>5. CASE ChildEnd(w)
    <2>1. c \in CountedIn(p) /\ p \in Dir /\ st[p].pending = Own(p) + Cardinality(CountedIn(p))
      BY Zenon, <1>0, <1>5 DEF ChildEnd, CountedIn, CountInv
    <2>2. Cardinality(CountedIn(p)) # 0
      BY Zenon, <1>1, <2>1 DEF FiniteFacts
    <2>3. Own(p) \in Nat
      BY Zenon DEF Own
    <2> QED
      BY <1>1, <1>2, <2>1, <2>2, <2>3
  <1> QED
    BY Zenon, <1>3, <1>4, <1>5, EndKinds

\* The `fetch_sub` on `pending`.
LEMMA CountDownFacts ==
    ASSUME FiniteFacts, TypeOK, Shape, NEW w \in Worker, CountDown(w)
    PROVE  LET p == job[w].into
               n == st[p].pending
           IN  /\ TypeOK' /\ (\A v \in Worker \ {w} : Still(v)) /\ FlagsFall
               /\ UNCHANGED <<fixed, tasks, outcome>> /\ p \in Dir \cup {Top} /\ n \in Nat /\ n >= 1
               /\ \A x \in Dir \cup {Top} : st'[x].onComplete = st[x].onComplete
               /\ \A x \in (Dir \cup {Top}) \ {p} : st'[x].pending = st[x].pending
               /\ st'[p].pending = n - 1 /\ pc[w] = "countDown"
               /\ \/ n = 1 /\ pc'[w] = "queue" /\ job'[w] = job[w]
                  \/ n > 1 /\ pc'[w] = "return"
PROOF
  <1> DEFINE p == job[w].into
             n == st[p].pending
             r == [st[p] EXCEPT !.pending = n - 1]
  <1>1. pc[w] = "countDown" /\ st' = [st EXCEPT ![p] = r] /\ UNCHANGED <<fixed, tasks, inFlight, outcome>>
    BY Zenon DEF CountDown
  <1>2. p \in Dir \cup {Top} /\ st[p] \in DirState /\ job[w] \in Job
    BY Zenon, <1>1, TaskFacts DEF Busy, Finishing, TypeOK
  <1>3. n \in Nat /\ n >= 1 /\ n - 1 \in Nat
    BY <1>1, CountPositive
  <1>4. /\ r \in DirState /\ r.success = st[p].success /\ r.empty = st[p].empty
        /\ r.pending = n - 1 /\ r.onComplete = st[p].onComplete
    BY <1>2, <1>3, SetField
  <1>5. \/ n = 1 /\ pc' = [pc EXCEPT ![w] = "queue"] /\ job' = job
        \/ n > 1 /\ pc' = [pc EXCEPT ![w] = "return"] /\ job' = [job EXCEPT ![w] = None]
    BY <1>3 DEF CountDown, Goto
  <1> HIDE DEF r
  <1>6. /\ st' \in [Dir \cup {Top} -> DirState] /\ st'[p] = r
        /\ \A x \in (Dir \cup {Top}) \ {p} : st'[x] = st[x]
    BY Zenon, <1>1, <1>2, <1>4, SetState
  <1> HIDE DEF n
  <1>7. /\ job' \in [Worker -> Job \cup {None}] /\ pc' \in [Worker -> Place]
        /\ \A v \in Worker \ {w} : job'[v] = job[v] /\ pc'[v] = pc[v]
        /\ \/ n = 1 /\ pc'[w] = "queue" /\ job'[w] = job[w]
           \/ n > 1 /\ pc'[w] = "return"
    BY Zenon, <1>5 DEF TypeOK, Place, Flight, Busy
  <1>8. pc'[w] \in Busy => job'[w] \in Job
    BY Zenon, <1>2, <1>7 DEF Busy, Walking, Finishing, Closing, Marking, Removing
  <1>9. TypeOK'
    BY Zenon, <1>1, <1>6, <1>7, <1>8 DEF TypeOK, fixed, outcome
  <1>10. FlagsFall /\ (\A x \in Dir \cup {Top} : st'[x].onComplete = st[x].onComplete)
         /\ (\A x \in (Dir \cup {Top}) \ {p} : st'[x].pending = st[x].pending)
         /\ st'[p].pending = n - 1
    BY Zenon, <1>4, <1>6 DEF FlagsFall, n
  <1>11. \A v \in Worker \ {w} : Still(v)
    BY Zenon, <1>7 DEF Still
  <1> QED
    BY Zenon, <1>1, <1>2, <1>3, <1>7, <1>9, <1>10, <1>11 DEF n

\* The last child to report finds its parent's completion stored, and nobody
\* else at work on it.
LEMMA LastChild ==
    ASSUME FiniteFacts, TypeOK, Shape, NEW w \in Worker, pc[w] = "countDown", ChildEnd(w),
           st[job[w].into].pending = 1
    PROVE  st[job[w].into].onComplete /\ ~Held(job[w].into)
PROOF
  <1> DEFINE c == job[w].dir
             p == job[w].into
  <1>0. UniqueInv /\ JobInv /\ CountInv
    BY Zenon DEF Shape
  <1>1. p \in Dir /\ Walked(p) /\ c \in CountedIn(p) /\ st[p].pending = 1
    BY Zenon DEF ChildEnd, CountedIn
  <1>2. Own(p) = 0
    <2>1. IsFiniteSet(CountedIn(p)) /\ Cardinality(CountedIn(p)) \in Nat
      BY Zenon, CountedFacts
    <2>2. Cardinality(CountedIn(p)) # 0
      BY Zenon, <1>1, <2>1 DEF FiniteFacts
    <2>3. Own(p) \in Nat /\ 1 = Own(p) + Cardinality(CountedIn(p))
      BY Zenon, <1>0, <1>1 DEF Own, CountInv
    <2> QED
      BY <2>1, <2>2, <2>3
  <1>3. \A v \in Worker : ~Walks(v, p)
    BY <1>2 DEF Own
  <1>4. st[p].onComplete
    BY Zenon, <1>1, <1>3 DEF Walked, Walks
  <1> HIDE DEF p
  <1>5. \A i \in DOMAIN tasks : tasks[i].dir # p
    <2>1. ASSUME NEW i \in DOMAIN tasks, tasks[i].dir = p PROVE FALSE
      <3>1. TaskOK(tasks[i]) /\ tasks[i].what \in {"process", "complete"}
        BY Zenon, <1>0, TaskFacts DEF JobInv
      <3> QED
        BY <1>1, <1>4, <2>1, <3>1 DEF TaskOK
    <2> QED
      BY Zenon, <2>1
  <1>6. \A v \in Worker : pc[v] = "push" => job[v].next # p
    BY Zenon, <1>0, <1>4 DEF JobInv, JobOK
  <1>7. \A v \in Worker : pc[v] \in Busy => Carried(v) # p
    <2>1. ASSUME NEW v \in Worker, pc[v] \in Busy, Carried(v) = p PROVE FALSE
      <3>1. JobOK(v)
        BY Zenon, <1>0 DEF JobInv
      <3>2. CASE pc[v] = "queue"
        BY <1>1, <2>1, <3>1, <3>2 DEF JobOK, Carried
      <3>3. CASE pc[v] \in Finishing
        <4>1. FinishOK(job[v]) /\ job[v].dir = p
          BY Zenon, <2>1, <3>1, <3>3 DEF JobOK, Carried, Finishing
        <4> QED
          BY <1>1, <1>3, <1>4, <3>3, <4>1 DEF FinishOK, Walks
      <3>4. CASE pc[v] \in Closing
        BY <1>1, <2>1, <3>1, <3>4 DEF JobOK, Carried, Closing, Marking, Removing
      <3>5. CASE pc[v] \in {"process"} \cup Walking
        BY Zenon, <1>4, <2>1, <3>1, <3>5 DEF JobOK, Carried, Walking
      <3> QED
        BY Zenon, <2>1, <3>2, <3>3, <3>4, <3>5 DEF Busy
    <2> QED
      BY Zenon, <2>1
  <1> QED
    BY Zenon, <1>4, <1>5, <1>6, <1>7 DEF Held, p

\* A thread that returns lets its directory go,
LEMMA LeavePlace ==
    ASSUME TypeOK, UniqueInv, NEW w \in Worker, \A v \in Worker \ {w} : Still(v), tasks' = tasks,
           pc[w] \in Busy \ {"push"}, pc'[w] \notin Busy
    PROVE  UniqueInv' /\ \A x : Held(x)' <=> (Held(x) /\ x # Carried(w))
PROOF
  <1>1. \A v \in Worker \ {w} :
          /\ job'[v] = job[v]
          /\ pc'[v] \in Busy <=> pc[v] \in Busy
          /\ pc'[v] = "push" <=> pc[v] = "push"
          /\ Carried(v)' = Carried(v)
    BY Zenon, StillFacts
  <1>2. pc'[w] # "push"
    BY Zenon DEF Busy, Walking
  <1>3. UniqueInv'
    BY <1>1, <1>2 DEF UniqueInv
  <1>4. ASSUME NEW x PROVE Held(x)' <=> (Held(x) /\ x # Carried(w))
    BY <1>1, <1>2, OthersElsewhere DEF Held
  <1> QED
    BY Zenon, <1>3, <1>4

\* and the one that brings `pending` to zero has the parent in its place.
LEMMA MovePlace ==
    ASSUME TypeOK, UniqueInv, NEW w \in Worker, \A v \in Worker \ {w} : Still(v), tasks' = tasks,
           pc[w] \in Busy \ {"push"}, pc'[w] \in Busy \ {"push"}, NEW p, Carried(w)' = p, ~Held(p)
    PROVE  UniqueInv' /\ \A x : Held(x)' <=> ((Held(x) /\ x # Carried(w)) \/ x = p)
PROOF
  <1>1. \A v \in Worker \ {w} :
          /\ job'[v] = job[v]
          /\ pc'[v] \in Busy <=> pc[v] \in Busy
          /\ pc'[v] = "push" <=> pc[v] = "push"
          /\ Carried(v)' = Carried(v)
    BY Zenon, StillFacts
  <1>2. /\ \A v \in Worker : pc[v] \in Busy => Carried(v) # p
        /\ \A v \in Worker : pc[v] = "push" => job[v].next # p
        /\ \A i \in DOMAIN tasks : tasks[i].dir # p
    BY Zenon DEF Held
  <1>3. UniqueInv'
    BY <1>1, <1>2 DEF UniqueInv
  <1>4. ASSUME NEW x PROVE Held(x)' <=> ((Held(x) /\ x # Carried(w)) \/ x = p)
    BY <1>1, OthersElsewhere DEF Held
  <1> QED
    BY Zenon, <1>3, <1>4

\* Who holds what once a task has been counted as finished.
LEMMA CountDownPlaces ==
    ASSUME FiniteFacts, TypeOK, Shape, NEW w \in Worker, CountDown(w)
    PROVE  /\ UniqueInv' /\ JobOK(w)'
           /\ \A x \in Dir : Held(x)' => Held(x) \/ st[x].onComplete
           /\ OwnEnd(w) => \A x \in Dir : Counted(x)' <=> Counted(x)
           /\ ~OwnEnd(w) => \A x \in Dir : Counted(x)' <=> (Counted(x) /\ x # job[w].dir)
PROOF
  <1> DEFINE c == job[w].dir
             p == job[w].into
             n == st[p].pending
  <1>0. UniqueInv
    BY Zenon DEF Shape
  <1>1. /\ TypeOK' /\ (\A v \in Worker \ {w} : Still(v))
        /\ UNCHANGED <<fixed, tasks, outcome>> /\ p \in Dir \cup {Top} /\ n \in Nat /\ n >= 1
        /\ \A x \in Dir \cup {Top} : st'[x].onComplete = st[x].onComplete
        /\ \A x \in (Dir \cup {Top}) \ {p} : st'[x].pending = st[x].pending
        /\ st'[p].pending = n - 1 /\ pc[w] = "countDown"
        /\ \/ n = 1 /\ pc'[w] = "queue" /\ job'[w] = job[w]
           \/ n > 1 /\ pc'[w] = "return"
    BY Zenon, CountDownFacts
  <1>2. pc[w] \in Busy \ {"push"} /\ Carried(w) = c /\ c \in Dir /\ Held(c)
    <2>1. pc[w] \in Busy \ {"push"} /\ Carried(w) = c
      BY Zenon, <1>1 DEF Busy, Finishing, Carried
    <2> QED
      BY Zenon, <2>1, TaskFacts DEF Held
  <1>3. OwnEnd(w) \/ RootEnd(w) \/ ChildEnd(w)
    BY Zenon, <1>1, EndKinds
  <1> HIDE DEF c, p, n
  <1>4. CASE n > 1
    <2>1. pc'[w] = "return" /\ pc'[w] \notin Busy
      BY <1>1, <1>4 DEF Busy, Walking, Finishing, Closing, Marking, Removing
    <2>2. UniqueInv' /\ \A x : Held(x)' <=> (Held(x) /\ x # c)
      BY Zenon, <1>0, <1>1, <1>2, <2>1, LeavePlace
    <2>3. JobOK(w)'
      BY Zenon, <2>1 DEF JobOK, Walking, Finishing, Closing, Marking, Removing
    <2>4. \A x \in Dir \ {c} : Counted(x)' <=> Counted(x)
      <3>1. \A x \in Dir : (st'[x].pending > 0 <=> st[x].pending > 0)
        BY <1>1, <1>4 DEF n
      <3> QED
        BY Zenon, <1>1, <2>2, <3>1 DEF Counted
    <2>5. CASE OwnEnd(w)
      <3>1. \A x \in {c} : Counted(x) /\ Counted(x)'
        BY <1>1, <1>2, <1>4, <2>5 DEF OwnEnd, Counted, c, p, n
      <3>2. \A x \in Dir : Counted(x)' <=> Counted(x)
        BY <2>4, <3>1, Zenon
      <3> QED
        BY Zenon, <2>2, <2>3, <2>5, <3>2
    <2>6. CASE RootEnd(w) \/ ChildEnd(w)
      <3>1. c # p /\ ~(st[c].onComplete /\ st[c].pending > 0)
        BY Zenon, <2>6, TreeAssumption DEF RootEnd, ChildEnd, c, p
      <3>2. \A x \in {c} : ~Counted(x)'
        BY Zenon, <1>1, <1>2, <2>2, <3>1 DEF Counted
      <3>3. \A x \in Dir : Counted(x)' <=> (Counted(x) /\ x # c)
        BY <2>4, <3>2, Zenon
      <3>4. ~OwnEnd(w)
        BY Zenon, <3>1 DEF OwnEnd, c, p
      <3> QED
        BY Zenon, <2>2, <2>3, <3>3, <3>4 DEF c
    <2> QED
      BY Zenon, <1>3, <2>5, <2>6
  <1>5. CASE n = 1
    <2>1. pc'[w] = "queue" /\ job'[w] = job[w] /\ pc'[w] \in Busy \ {"push"} /\ Carried(w)' = p
      BY <1>1, <1>5 DEF Busy, Carried, p
    <2>2. \A x \in Dir \ {c, p} : st'[x].pending = st[x].pending
      BY Zenon, <1>1
    <2>3. CASE OwnEnd(w)
      <3>1. p = c /\ st[c].onComplete
        BY Zenon, <2>3 DEF OwnEnd, c, p
      <3>2. UniqueInv' /\ \A x : Held(x)' <=> Held(x)
        BY Zenon, <1>0, <1>1, <1>2, <2>1, <3>1, KeepPlace
      <3>3. \A x \in Dir \ {c} : Counted(x)' <=> Counted(x)
        BY Zenon, <1>1, <2>2, <3>1, <3>2 DEF Counted
      <3>4. \A x \in {c} : Counted(x) /\ Counted(x)'
        BY Zenon, <1>2, <3>2 DEF Counted
      <3>5. \A x \in Dir : Counted(x)' <=> Counted(x)
        BY <3>3, <3>4, Zenon
      <3>6. JobOK(w)'
        BY <1>1, <1>2, <1>5, <2>1, <3>1
           DEF JobOK, Walking, Finishing, Closing, Marking, Removing, p
      <3> QED
        BY Zenon, <2>3, <3>2, <3>5, <3>6
    <2>4. CASE RootEnd(w)
      <3>1. st[Top].pending = 2 /\ p = Top
        BY <2>4 DEF RootEnd, Shape, CountInv, p
      <3> QED
        BY <1>5, <3>1 DEF n
    <2>5. CASE ChildEnd(w)
      <3>1. st[p].onComplete /\ ~Held(p)
        BY Zenon, <1>1, <1>5, <2>5, LastChild DEF n, p
      <3>2. p \in Dir /\ p # c /\ ~(st[c].onComplete /\ st[c].pending > 0)
        BY Zenon, <2>5 DEF ChildEnd, c, p
      <3>3. UniqueInv' /\ \A x : Held(x)' <=> ((Held(x) /\ x # c) \/ x = p)
        BY Zenon, <1>0, <1>1, <1>2, <2>1, <3>1, MovePlace
      <3>4. \A x \in Dir \ {c, p} : Counted(x)' <=> Counted(x)
        BY Zenon, <1>1, <2>2, <3>3 DEF Counted
      <3>5. \A x \in {c} : ~Counted(x)'
        BY Zenon, <1>1, <1>2, <3>2, <3>3 DEF Counted
      <3>6. \A x \in {p} : Counted(x) /\ Counted(x)'
        BY <1>5, <3>1, <3>3 DEF Counted, n
      <3>7. \A x \in Dir : Counted(x)' <=> (Counted(x) /\ x # c)
        BY <3>2, <3>4, <3>5, <3>6, Zenon
      <3>8. JobOK(w)'
        BY <1>1, <1>5, <2>1, <3>1, <3>2
           DEF JobOK, Walking, Finishing, Closing, Marking, Removing, p
      <3>9. ~OwnEnd(w)
        BY Zenon, <3>2 DEF OwnEnd, c, p
      <3> QED
        BY Zenon, <3>1, <3>3, <3>7, <3>8, <3>9 DEF c
    <2> QED
      BY Zenon, <1>3, <2>3, <2>4, <2>5
  <1> QED
    BY Zenon, <1>1, <1>4, <1>5

\* `pending` goes down by what is counted as finished.
LEMMA CountDownCounts ==
    ASSUME FiniteFacts, TypeOK, Shape, NEW w \in Worker, CountDown(w),
           \A x \in Dir : Walked(x)' <=> Walked(x)
    PROVE  CountInv'
PROOF
  <1> DEFINE c == job[w].dir
             p == job[w].into
             n == st[p].pending
  <1>0. UniqueInv /\ CountInv
    BY Zenon DEF Shape
  <1>1. /\ (\A v \in Worker \ {w} : Still(v))
        /\ UNCHANGED <<fixed, tasks, outcome>> /\ p \in Dir \cup {Top} /\ n \in Nat /\ n >= 1
        /\ \A x \in Dir \cup {Top} : st'[x].onComplete = st[x].onComplete
        /\ \A x \in (Dir \cup {Top}) \ {p} : st'[x].pending = st[x].pending
        /\ st'[p].pending = n - 1 /\ pc[w] = "countDown" /\ pc'[w] \in {"queue", "return"}
    BY Zenon, CountDownFacts
  <1>2. parent' = parent
    BY Zenon, <1>1 DEF fixed
  <1>3. OwnEnd(w) \/ RootEnd(w) \/ ChildEnd(w)
    BY Zenon, <1>1, EndKinds
  <1>4. \A v \in Worker \ {w} : \A x : Walks(v, x)' <=> Walks(v, x)
    BY Zenon, <1>1, StillFacts
  <1>5. \A x : ~Walks(w, x)'
    BY Zenon, <1>1 DEF Walks, Walking, Finishing
  <1>6. \A x \in Dir : /\ IsFiniteSet(CountedIn(x)) /\ Cardinality(CountedIn(x)) \in Nat
                       /\ Own(x) \in Nat
    BY Zenon, CountedFacts DEF Own
  <1>7. Root \in Dir /\ Top \notin Dir
    BY Zenon, TreeAssumption
  <1>8. pc[w] \in Busy /\ Carried(w) = c /\ c \in Dir
    <2>1. pc[w] \in Busy /\ Carried(w) = c
      BY Zenon, <1>1 DEF Busy, Finishing, Carried
    <2> QED
      BY Zenon, <2>1, TaskFacts
  <1>9. OwnEnd(w) => c = p
    BY Zenon DEF OwnEnd
  <1>10. ~OwnEnd(w) => c # p
    BY Zenon, <1>3, <1>7 DEF RootEnd, ChildEnd
  <1> HIDE DEF c, p, n
  <1>11. ~OwnEnd(w) => \A x \in Dir : Own(x)' = Own(x)
    <2>1. ~OwnEnd(w) => \A x : ~Walks(w, x)
      BY Zenon, <1>1, <1>10 DEF Walks, Walking, c, p
    <2> QED
      BY Zenon, <1>4, <1>5, <2>1 DEF Own
  <1>12. CASE OwnEnd(w)
    <2>1. \A x \in Dir : Counted(x)' <=> Counted(x)
      BY Zenon, <1>12, CountDownPlaces
    <2>2. \A x \in Dir : CountedIn(x)' = CountedIn(x)
      BY Zenon, <1>2, <2>1 DEF CountedIn, Children
    <2>3. \A x \in Dir \ {c} : Own(x)' = Own(x)
      <3>1. \A x \in Dir \ {c} : ~Walks(w, x)
        BY Zenon DEF Walks, c
      <3> QED
        BY Zenon, <1>4, <1>5, <3>1 DEF Own
    <2>4. \A x \in {c} : Own(x) = 1 /\ Own(x)' = 0
      <3>1. \A v \in Worker \ {w} : ~Walks(v, c)
        <4>1. ASSUME NEW v \in Worker, Walks(v, c) PROVE pc[v] \in Busy /\ Carried(v) = c
          BY Zenon, <4>1 DEF Walks, Carried, Busy, Walking, Finishing
        <4> QED
          BY Zenon, <1>0, <1>8, <4>1, OthersElsewhere
      <3>2. Own(c) = 1
        BY Zenon, <1>12 DEF OwnEnd, c
      <3> QED
        BY Zenon, <1>4, <1>5, <3>1, <3>2 DEF Own
    <2>5. ASSUME NEW x \in Dir, Walked(x)'
          PROVE  st'[x].pending = Own(x)' + Cardinality(CountedIn(x)')
      <3>1. Walked(x) /\ st[x].pending = Own(x) + Cardinality(CountedIn(x))
        BY Zenon, <1>0, <2>5 DEF CountInv
      <3>2. CASE x = c
        BY <1>1, <1>6, <1>9, <1>12, <2>2, <2>4, <3>1, <3>2 DEF n
      <3>3. CASE x # c
        BY Zenon, <1>1, <1>9, <1>12, <2>2, <2>3, <3>1, <3>3
      <3> QED
        BY Zenon, <3>2, <3>3
    <2> QED
      BY Zenon, <1>0, <1>1, <1>7, <1>8, <1>9, <1>12, <2>1, <2>5 DEF CountInv
  <1>13. CASE RootEnd(w)
    <2>1. c = Root /\ p = Top /\ Counted(Root) /\ ~OwnEnd(w)
      BY Zenon, <1>7, <1>13 DEF RootEnd, OwnEnd, c, p
    <2>2. \A x \in Dir : Counted(x)' <=> (Counted(x) /\ x # c)
      BY Zenon, <2>1, CountDownPlaces DEF c
    <2>3. \A x \in Dir : CountedIn(x)' = CountedIn(x)
      BY Zenon, <1>2, <2>1, <2>2 DEF CountedIn, Children
    <2>4. ASSUME NEW x \in Dir, Walked(x)'
          PROVE  st'[x].pending = Own(x)' + Cardinality(CountedIn(x)')
      BY Zenon, <1>0, <1>1, <1>7, <1>11, <2>1, <2>3, <2>4 DEF CountInv
    <2>5. st[Top].pending = 2 /\ ~Counted(Root)' /\ ~st[Top].onComplete
      BY <1>0, <1>7, <2>1, <2>2 DEF CountInv
    <2> QED
      BY <1>1, <2>1, <2>4, <2>5 DEF CountInv, n
  <1>14. CASE ChildEnd(w)
    <2>1. p \in Dir /\ c \in Children(p) /\ p # c /\ c # Root /\ Counted(c) /\ ~OwnEnd(w)
      BY Zenon, <1>14 DEF ChildEnd, OwnEnd, c, p
    <2>2. \A x \in Dir : Counted(x)' <=> (Counted(x) /\ x # c)
      BY Zenon, <2>1, CountDownPlaces DEF c
    <2>3. ASSUME NEW x \in Dir \ {p}, Walked(x)'
          PROVE  st'[x].pending = Own(x)' + Cardinality(CountedIn(x)')
      <3>1. c \notin Children(x)
        BY Zenon, <2>1 DEF Children
      <3>2. CountedIn(x)' = CountedIn(x)
        BY Zenon, <1>2, <2>2, <3>1 DEF CountedIn, Children
      <3> QED
        BY Zenon, <1>0, <1>1, <1>11, <2>1, <2>3, <3>2 DEF CountInv
    <2>4. ASSUME NEW x \in {p}, Walked(x)'
          PROVE  st'[x].pending = Own(x)' + Cardinality(CountedIn(x)')
      <3>1. x \in Dir /\ c \in CountedIn(x) /\ CountedIn(x)' = CountedIn(x) \ {c}
        BY Zenon, <1>2, <2>1, <2>2 DEF CountedIn, Children
      <3>2. Cardinality(CountedIn(x)') = Cardinality(CountedIn(x)) - 1
        BY Zenon, <1>6, <3>1 DEF FiniteFacts
      <3>3. st[x].pending = Own(x) + Cardinality(CountedIn(x))
        BY Zenon, <1>0, <2>4, <3>1 DEF CountInv
      <3> QED
        BY <1>1, <1>6, <1>11, <2>1, <3>1, <3>2, <3>3 DEF n
    <2>5. Counted(Root)' <=> Counted(Root)
      BY Zenon, <1>7, <2>1, <2>2
    <2> QED
      BY Zenon, <1>0, <1>1, <1>7, <2>1, <2>3, <2>4, <2>5 DEF CountInv
  <1> QED
    BY Zenon, <1>3, <1>12, <1>13, <1>14

\* The last step of finish_task_in_dir.
LEMMA CountDownInv ==
    ASSUME FiniteFacts, Inv, NEW w \in Worker, CountDown(w)
    PROVE  Inv'
PROOF
  <1> DEFINE c == job[w].dir
             p == job[w].into
  <1>0. TypeOK /\ Shape /\ UniqueInv /\ JobInv /\ ParentInv
    BY Zenon DEF Inv, Shape
  <1>1. /\ TypeOK' /\ (\A v \in Worker \ {w} : Still(v)) /\ FlagsFall
        /\ UNCHANGED <<fixed, tasks, outcome>> /\ p \in Dir \cup {Top}
        /\ st[p].pending \in Nat /\ st[p].pending >= 1
        /\ \A x \in Dir \cup {Top} : st'[x].onComplete = st[x].onComplete
        /\ \A x \in (Dir \cup {Top}) \ {p} : st'[x].pending = st[x].pending
        /\ pc[w] = "countDown" /\ pc'[w] \in {"queue", "return"}
    BY Zenon, <1>0, CountDownFacts
  <1>2. UNCHANGED <<parent, plan, keeps, clean, settled, removed>>
    BY Zenon, <1>1 DEF fixed, outcome
  <1>3. pc[w] \in Busy /\ pc[w] \notin Walking /\ pc'[w] \notin Walking
    BY Zenon, <1>1 DEF Busy, Walking, Finishing
  <1>4. \A v \in Worker \ {w} : job'[v] = job[v] /\ (pc'[v] \in Walking <=> pc[v] \in Walking)
    BY Zenon, <1>1, StillFacts
  <1>5. \A x \in Dir : (Walked(x)' <=> Walked(x)) /\ (Ahead(x)' <=> Ahead(x))
    BY Zenon, <1>1, <1>3, <1>4 DEF Walked, Ahead
  <1>6. CountInv'
    BY Zenon, <1>0, <1>5, CountDownCounts
  <1>7. /\ UniqueInv' /\ JobOK(w)'
        /\ \A x \in Dir : Held(x)' => Held(x) \/ st[x].onComplete
        /\ OwnEnd(w) => \A x \in Dir : Counted(x)' <=> Counted(x)
        /\ ~OwnEnd(w) => \A x \in Dir : Counted(x)' <=> (Counted(x) /\ x # c)
    BY Zenon, <1>0, CountDownPlaces
  <1>8. JobInv'
    <2>1. \A x \in Dir \ {Carried(w)} : Spares(x)
      BY <1>1 DEF Spares
    <2>2. \A v \in Worker \ {w} : pc[v] \in Finishing =>
             (st'[job[v].into].success => st[job[v].into].success)
      BY Zenon, <1>0, <1>1, TaskFacts DEF FlagsFall, Busy
    <2> QED
      BY Zenon, <1>0, <1>1, <1>2, <1>3, <1>7, <2>1, <2>2, OtherJobs
  <1>9. ParentInv'
    <2>1. \A x \in Dir \ {Root} : Passed(x) => Passed(x)'
      BY Zenon, <1>0, <1>1, <1>2, <1>3, <1>4, TreeFacts DEF Passed
    <2> QED
      BY Zenon, <1>0, <1>1, <1>7, <2>1 DEF ParentInv
  <1>10. Flags'
    <2>1. \A x \in Dir : Counted(x)' \/ ~Silent(x, {"countDown"})
      <3>1. CASE OwnEnd(w)
        BY Zenon, <1>7, <3>1 DEF Silent
      <3>2. CASE ~OwnEnd(w)
        <4>1. p = ParentOf(c)
          <5>1. RootEnd(w) \/ ChildEnd(w)
            BY Zenon, <1>0, <1>1, <3>2, EndKinds
          <5> QED
            BY Zenon, <5>1 DEF RootEnd, ChildEnd, ParentOf
        <4>2. ~Silent(c, {"countDown"})
          BY Zenon, <1>1, <4>1 DEF Silent
        <4> QED
          BY Zenon, <1>7, <3>2, <4>2 DEF Silent
      <3> QED
        BY Zenon, <3>1, <3>2
    <2>2. CloseOK(w)'
      BY Zenon, <1>1 DEF CloseOK, Marking, Removing
    <2>3. pc'[w] \notin {"andEmpty", "countDown"}
      BY Zenon, <1>1
    <2> QED
      BY Zenon, <1>1, <1>2, <1>5, <2>1, <2>2, <2>3, FlagsStep
  <1> QED
    BY Zenon, <1>1, <1>6, <1>7, <1>8, <1>9, <1>10 DEF Inv, Shape

-----------------------------------------------------------------------------
(* The invariant. *)

\* start_root.
LEMMA InitInv ==
    ASSUME FiniteFacts, Init
    PROVE  Inv /\ FlightInv /\ SleepersAreWoken
PROOF
  <1> DEFINE t == [what |-> "process", dir |-> Root]
             top == [Fresh EXCEPT !.pending = 2]
  <1>0. Root \in Dir /\ Top \notin Dir
    BY Zenon, TreeAssumption
  <1>1. /\ parent \in Tree /\ plan \in [Dir -> Plan] /\ keeps \in SUBSET Dir
        /\ clean \in [Side -> SUBSET Dir] /\ settled = {d \in Dir : ~Dirty(d)}
        /\ removed = [d \in Dir |-> {}] /\ tasks = <<t>> /\ inFlight = 0
        /\ pc = [w \in Worker |-> "ready"] /\ job = [w \in Worker |-> None]
        /\ \A d \in Dir \ {Root} :
              ~Dirty(parent[d]) => plan[d] # "delete" /\ (plan[d] = "both" => ~Dirty(d))
    BY Zenon DEF Init
  <1>2. /\ Fresh \in DirState /\ Fresh.success = TRUE /\ Fresh.pending = 1
        /\ Fresh.onComplete = FALSE
    BY Zenon DEF Fresh, DirState
  <1>3. top \in DirState /\ top.pending = 2 /\ top.onComplete = FALSE
    BY <1>2, SetField
  <1>4. /\ st \in [Dir \cup {Top} -> DirState] /\ st[Top] = top
        /\ \A d \in Dir : st[d] = Fresh
    <2>1. st = [d \in Dir \cup {Top} |-> IF d = Top THEN top ELSE Fresh]
      BY Zenon DEF Init
    <2> HIDE DEF top
    <2> QED
      BY Zenon, <1>0, <1>2, <1>3, <2>1
  <1> HIDE DEF top
  <1>5. tasks \in Seq(Task) /\ Len(tasks) = 1 /\ tasks[1] = t /\ 1 \in DOMAIN tasks
        /\ (\A i \in DOMAIN tasks : i = 1)
    BY <1>0, <1>1 DEF Task
  <1>6. t.dir = Root /\ t.what = "process"
    BY Zenon
  <1> HIDE DEF t
  <1>7. \A w \in Worker : pc[w] = "ready" /\ pc[w] \notin Flight /\ pc[w] \notin Busy
                          /\ pc[w] \notin Walking /\ pc[w] \notin Finishing /\ pc[w] \notin Closing
    BY Zenon, <1>1 DEF Flight, Busy, Walking, Finishing, Closing, Marking, Removing
  <1>8. TypeOK
    BY Zenon, <1>1, <1>4, <1>5, <1>7 DEF TypeOK, Place, Replica, Side
  <1>9. \A x : Held(x) <=> x = Root
    BY Zenon, <1>5, <1>6, <1>7 DEF Held
  <1>10. \A x \in Dir : ~st[x].onComplete /\ ~Walked(x)
    BY Zenon, <1>2, <1>4, <1>7 DEF Walked
  <1>11. UniqueInv
    BY Zenon, <1>5, <1>7 DEF UniqueInv
  <1>12. JobInv
    BY Zenon, <1>0, <1>5, <1>6, <1>7, <1>10
       DEF JobInv, TaskOK, JobOK
  <1>13. ParentInv
    BY Zenon, <1>9, <1>10 DEF ParentInv
  <1>14. CountInv
    BY <1>0, <1>3, <1>4, <1>9, <1>10 DEF CountInv, Counted
  <1>15. SuccessInv /\ EmptyInv
    BY Zenon, <1>0, <1>7, <1>9, <1>10 DEF SuccessInv, EmptyInv, Silent, Counted
  <1>16. CloseInv
    BY Zenon, <1>7 DEF CloseInv, CloseOK, Marking, Removing
  <1>17. DoneInv
    <2>1. \A d \in Dir : removed[d] = {} /\ removed[d] # Replica
      BY Zenon, <1>1 DEF Replica
    <2>2. ASSUME NEW d \in Dir, Done(d) PROVE AllDone(d)
      <3>1. ~Dirty(d) /\ d \in settled
        BY Zenon, <1>1, <2>1, <2>2 DEF Done
      <3>2. ASSUME NEW c \in Children(d), plan[c] # "leave" PROVE Done(c)
        <4>1. c \in Dir \ {Root} /\ parent[c] = d
          BY Zenon DEF Children
        <4>2. plan[c] \in Plan
          BY Zenon, <1>1, <4>1
        <4>3. ~Dirty(c)
          BY Zenon, <1>1, <3>1, <3>2, <4>1, <4>2 DEF Plan
        <4> QED
          BY Zenon, <4>3 DEF Done
      <3> QED
        BY Zenon, <3>1, <3>2 DEF AllDone
    <2> QED
      BY Zenon, <2>1, <2>2 DEF DoneInv, RemovedWasEmpty
  <1>18. FlightInv
    <2>1. {w \in Worker : pc[w] \in Flight} = {}
      BY Zenon, <1>7
    <2> QED
      BY Zenon, <1>1, <1>7, <2>1 DEF FlightInv, FiniteFacts
  <1>19. SleepersAreWoken
    BY Zenon, <1>7 DEF SleepersAreWoken
  <1> QED
    BY Zenon, <1>8, <1>11, <1>12, <1>13, <1>14, <1>15, <1>16, <1>17, <1>18, <1>19 DEF Inv, Shape, Flags

\* Every step preserves the invariant.
LEMMA NextInv ==
    ASSUME FiniteFacts, Inv, [Next]_vars
    PROVE  Inv'
PROOF
  <1>1. CASE UNCHANGED vars
    <2>1. TypeOK' /\ \A v \in Worker : Still(v)
      BY Zenon, <1>1 DEF vars, Inv, TypeOK, Still
    <2> QED
      BY Zenon, <1>1, <2>1, IdleInv DEF vars, fixed, outcome
  <1>2. ASSUME NEW w \in Worker, Work(w) PROVE Inv'
    <2>1. CASE \/ ProcessFails(w) \/ ProcessFiles(w) \/ PushChild(w) \/ EndOfWalk(w)
               \/ AndSuccess(w) \/ AndEmpty(w) \/ CountDown(w) \/ QueueCompletion(w)
      BY Zenon, <2>1, ProcessFailsInv, ProcessFilesInv, PushChildInv, EndOfWalkInv,
         AndSuccessInv, AndEmptyInv, CountDownInv, QueueCompletionInv
    <2>2. CASE \E c \in Dir : WalkChild(w, c) \/ ChildFails(w, c)
      BY Zenon, <2>2, SkipChildInv, DescendInv, ChildFailsInv
    <2>3. CASE \/ Complete(w) \/ CompletionFails(w)
               \/ MarkClean(w, "client", "markClient", "markServer")
               \/ MarkClean(w, "server", "markServer", "finish")
      BY Zenon, <2>3, CompleteInv, CompletionFailsInv, MarkClientInv, MarkServerInv
    <2>4. CASE Rmdir(w, "anc", "rmAnc", "rmClient")
      BY Zenon, <2>4, RmdirInv DEF Replica, Side, Removing
    <2>5. CASE Rmdir(w, "client", "rmClient", "rmServer")
      BY Zenon, <2>5, RmdirInv DEF Replica, Side, Removing
    <2>6. CASE Rmdir(w, "server", "rmServer", "finish")
      BY Zenon, <2>6, RmdirInv DEF Replica, Side, Removing
    <2>7. CASE TakeTask(w)
      BY Zenon, <2>7, TakeTaskInv
    <2>8. CASE Wait(w) \/ Stop(w)
      BY Zenon, <2>8, IdleStepInv
    <2> QED
      BY Zenon, <1>2, <2>1, <2>2, <2>3, <2>4, <2>5, <2>6, <2>7, <2>8 DEF Work
  <1>3. ASSUME NEW w \in Worker, SpuriousWakeup(w) PROVE Inv'
    BY Zenon, <1>3, IdleStepInv
  <1> QED
    BY Zenon, <1>1, <1>2, <1>3 DEF Next

-----------------------------------------------------------------------------
(* What the walk promises. *)

\* What is below a directory that has been synchronised is, too.
LEMMA BelowDone ==
    ASSUME Inv, NEW d \in Dir, Done(d)
    PROVE  \A e \in Below(d) : e \in settled /\ Done(e)
PROOF
  <1> DEFINE S == {x \in Dir : Done(x)}
  <1>1. DoneInv
    BY Zenon DEF Inv, Flags
  <1>2. S \in SUBSET Dir /\ d \in S
    BY Zenon
  <1>3. \A x \in S : x \in settled /\ \A c \in Children(x) : plan[c] # "leave" => c \in S
    BY Zenon, <1>1 DEF DoneInv, AllDone, Children
  <1>4. \A e \in Below(d) : e \in S
    <2> HIDE DEF S
    <2> QED
      BY Zenon, <1>2, <1>3 DEF Below
  <1> QED
    BY Zenon, <1>3, <1>4

\* A finite set is no smaller than one that a function on it covers.
Covering ==
    \A S, T : \A f \in [S -> T] :
       IsFiniteSet(S) /\ (\A y \in T : \E x \in S : f[x] = y) => Cardinality(T) =< Cardinality(S)

\* When the threads have stopped, no directory waits for a child: one that did
\* would wait for a child that waits, and so would its parent, up to the root,
\* and there are not enough directories for that.
LEMMA NobodyWaits ==
    ASSUME FiniteFacts, Covering, Inv, FlightInv, Stopped
    PROVE  tasks = <<>> /\ \A d \in Dir : ~Counted(d)
PROOF
  <1> DEFINE W == {d \in Dir : st[d].onComplete /\ st[d].pending > 0}
             f == [c \in W \ {Root} |-> parent[c]]
  <1>0. TypeOK /\ ParentInv /\ CountInv
    BY Zenon DEF Inv, Shape
  <1>1. tasks = <<>>
    BY Zenon, WorkerAssumption DEF FlightInv, Stopped
  <1>2. \A w \in Worker : pc[w] \notin Busy /\ pc[w] \notin Walking /\ pc[w] \notin Finishing
                          /\ pc[w] # "push"
    BY Zenon DEF Stopped, Busy, Walking, Finishing, Closing, Marking, Removing
  <1>3. DOMAIN tasks = {}
    BY <1>1
  <1>4. \A x : ~Held(x)
    BY Zenon, <1>2, <1>3 DEF Held
  <1>5. \A x : Own(x) = 0
    BY Zenon, <1>2 DEF Own, Walks
  <1>6. \A d \in Dir : Counted(d) <=> d \in W
    BY Zenon, <1>4 DEF Counted
  <1>7. IsFiniteSet(W) /\ W \in SUBSET Dir
    <2>1. W \subseteq Dir /\ IsFiniteSet(Dir)
      BY Zenon, TreeAssumption
    <2> HIDE DEF W
    <2> QED
      BY Zenon, <2>1 DEF FiniteFacts
  <1>8. \A d \in Dir : IsFiniteSet(CountedIn(d)) /\ Cardinality(CountedIn(d)) \in Nat
    BY Zenon, CountedFacts
  <1>9. \A d \in Dir : st[d].onComplete => st[d].pending = Cardinality(CountedIn(d))
    BY <1>0, <1>5, <1>8 DEF CountInv, Walked
  <1>10. ASSUME NEW d \in W \ {Root} PROVE parent[d] \in W
    <2>1. d \in Dir \ {Root} /\ parent[d] \in Dir /\ d \in Children(parent[d])
      BY Zenon, <1>0, TreeFacts
    <2>2. st[parent[d]].onComplete
      BY Zenon, <1>0, <1>2, <2>1 DEF ParentInv, Passed
    <2>3. d \in CountedIn(parent[d])
      BY Zenon, <1>6, <2>1 DEF CountedIn
    <2>4. Cardinality(CountedIn(parent[d])) # 0
      BY Zenon, <1>8, <2>1, <2>3 DEF FiniteFacts
    <2> QED
      BY <1>8, <1>9, <2>1, <2>2, <2>4
  <1>11. ASSUME NEW d \in W PROVE \E c \in W \ {Root} : parent[c] = d
    <2>1. Cardinality(CountedIn(d)) > 0
      BY Zenon, <1>9
    <2>2. CountedIn(d) # {}
      BY <2>1 DEF FiniteFacts
    <2> QED
      BY Zenon, <1>6, <2>2 DEF CountedIn, Children
  <1> HIDE DEF W
  <1>12. W = {}
    <2>1. SUFFICES ASSUME W # {} PROVE FALSE
      BY Zenon
    <2>2. Root \in W
      BY Zenon, <1>0, <1>7, <1>10, <2>1, TreeAssumption DEF TypeOK
    <2>3. /\ IsFiniteSet(W \ {Root}) /\ Cardinality(W) \in Nat
          /\ Cardinality(W \ {Root}) = Cardinality(W) - 1
      BY Zenon, <1>7, <2>2 DEF FiniteFacts
    <2>4. f \in [W \ {Root} -> W] /\ \A d \in W : \E c \in W \ {Root} : f[c] = d
      BY Zenon, <1>10, <1>11
    <2> HIDE DEF f
    <2>5. Cardinality(W) =< Cardinality(W \ {Root})
      BY Zenon, <2>3, <2>4 DEF Covering
    <2> QED
      BY <2>3, <2>5
  <1> QED
    BY Zenon, <1>1, <1>6, <1>12

F == INSTANCE FiniteSetTheorems

\* The library's notion of a finite set and of its size.
LEMMA SameFinite == \A S : F!IsFiniteSet(S) <=> IsFiniteSet(S)
PROOF
  BY Zenon DEF F!IsFiniteSet, IsFiniteSet

LEMMA SameCardinality == \A S : F!Cardinality(S) = Cardinality(S)
PROOF
  BY Zenon DEF F!Cardinality, Cardinality

\* What the lemmas above assumed of finite sets is so.
LEMMA FiniteSetFacts == FiniteFacts
PROOF
  <1>1. \A S, T : IsFiniteSet(T) /\ S \subseteq T => IsFiniteSet(S)
    BY Zenon, F!FS_Subset, SameFinite
  <1>2. \A S : IsFiniteSet(S) => Cardinality(S) \in Nat /\ (Cardinality(S) = 0 <=> S = {})
    BY Zenon, F!FS_CardinalityType, F!FS_EmptySet, SameFinite, SameCardinality
  <1>3. \A S, x : IsFiniteSet(S) /\ x \notin S =>
          IsFiniteSet(S \cup {x}) /\ Cardinality(S \cup {x}) = Cardinality(S) + 1
    BY Zenon, F!FS_AddElement, SameFinite, SameCardinality
  <1>4. \A S, x : IsFiniteSet(S) /\ x \in S =>
          IsFiniteSet(S \ {x}) /\ Cardinality(S \ {x}) = Cardinality(S) - 1
    BY Zenon, F!FS_RemoveElement, SameFinite, SameCardinality
  <1>5. IsFiniteSet({}) /\ Cardinality({}) = 0
    BY Zenon, F!FS_EmptySet, SameFinite, SameCardinality
  <1> QED
    BY Zenon, <1>1, <1>2, <1>3, <1>4, <1>5 DEF FiniteFacts

\* And what the argument about the end assumed of them.
LEMMA CoveringFact == Covering
PROOF
  <1>1. ASSUME NEW S, NEW T, NEW f \in [S -> T], IsFiniteSet(S),
               \A y \in T : \E x \in S : f[x] = y
        PROVE  Cardinality(T) =< Cardinality(S)
    <2>1. f \in F!Surjection(S, T) /\ F!IsFiniteSet(S)
      BY Zenon, <1>1, SameFinite DEF F!Surjection
    <2>2. F!Cardinality(T) =< F!Cardinality(S)
      BY Zenon, <2>1, F!FS_Surjection
    <2> QED
      BY Zenon, <2>2, SameCardinality
  <1> QED
    BY Zenon, <1>1 DEF Covering

\* The inductive invariant of the tree walk.
THEOREM WalkInvariant == Spec => [](Inv /\ FlightInv /\ SleepersAreWoken)
PROOF
  <1>1. Init => Inv /\ FlightInv /\ SleepersAreWoken
    BY Zenon, FiniteSetFacts, InitInv
  <1>2. Inv /\ FlightInv /\ SleepersAreWoken /\ [Next]_vars
           => (Inv /\ FlightInv /\ SleepersAreWoken)'
    BY Zenon, FiniteSetFacts, NextInv, FlightStep DEF Inv
  <1> QED
    BY <1>1, <1>2, PTL DEF Spec

\* No thread of the pool sleeps through the end of the work, however many there
\* are: WorkStack::run wakes up who waits.
THEOREM WalkWakesSleepers == Spec => []SleepersAreWoken
PROOF
  BY WalkInvariant, PTL

\* A directory both replicas have marked clean is in sync with all that is below
\* it, in any tree and with any number of threads: mark_both_clean only follows
\* a `success` to which every child has added its own.
THEOREM WalkMarksTrue == Spec => []CleanMarksTrue
PROOF
  <1>1. Inv => CleanMarksTrue
    BY Zenon, BelowDone DEF CleanMarksTrue, Done
  <1> QED
    BY <1>1, WalkInvariant, PTL

\* delete_or_mark_clean removes a directory only when everything in it is gone.
THEOREM WalkRemovesEmpty == Spec => []RemovedWasEmpty
PROOF
  <1>1. Inv => RemovedWasEmpty
    BY Zenon DEF Inv, Flags, DoneInv
  <1> QED
    BY <1>1, WalkInvariant, PTL

\* When the walk reports success, every directory to be synchronised is in sync,
\* and marked clean or removed.
THEOREM WalkSuccessHonest == Spec => []SuccessIsHonest
PROOF
  <1>1. ASSUME Inv, FlightInv, Stopped, st[Top].success
        PROVE  \A d \in Below(Root) : d \in settled /\ (removed[d] = Replica \/ ~Dirty(d))
    <2>1. Root \in Dir
      BY Zenon, TreeAssumption
    <2>2. SuccessInv /\ ~Counted(Root)
      BY Zenon, <1>1, <2>1, FiniteSetFacts, CoveringFact, NobodyWaits DEF Inv, Flags
    <2>3. Done(Root)
      BY Zenon, <1>1, <2>2 DEF SuccessInv, Silent
    <2> QED
      BY Zenon, <1>1, <2>1, <2>3, BelowDone DEF Done
  <1>2. Inv /\ FlightInv => SuccessIsHonest
    BY Zenon, <1>1 DEF SuccessIsHonest
  <1> QED
    BY <1>2, WalkInvariant, PTL

\* When the threads have stopped, every directory has heard from all its
\* children, as DirState's `drop` asserts.
THEOREM WalkPendingBalanced == Spec => []PendingBalanced
PROOF
  <1>1. ASSUME Inv, FlightInv, Stopped
        PROVE  /\ \A d \in Dir : st[d].onComplete => st[d].pending = 0
               /\ st[Top].pending = 1 /\ tasks = <<>>
    <2>1. tasks = <<>> /\ \A d \in Dir : ~Counted(d)
      BY Zenon, <1>1, FiniteSetFacts, CoveringFact, NobodyWaits
    <2>2. \A d \in Dir : st[d].pending \in Nat
      BY <1>1, SetField DEF Inv, TypeOK
    <2>3. st[Top].pending = 1
      BY <1>1, <2>1, TreeAssumption DEF Inv, Shape, CountInv
    <2> QED
      BY <2>1, <2>2, <2>3 DEF Counted
  <1>2. Inv /\ FlightInv => PendingBalanced
    BY Zenon, <1>1 DEF PendingBalanced
  <1> QED
    BY <1>2, WalkInvariant, PTL

=============================================================================
