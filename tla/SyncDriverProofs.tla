-------------------------- MODULE SyncDriverProofs --------------------------
(***************************************************************************)
(* No walk trusts a clean mark made under another configuration, for any    *)
(* tree, any configurations and any number of processes one after another.  *)
(***************************************************************************)
EXTENDS SyncDriver, TLAPS

-----------------------------------------------------------------------------
(* The inductive invariant. *)

Shape ==
    /\ scope \in Scope /\ proc \in scope.usage
    /\ typ \in {Watched, Fast, Clean}
    /\ row = [d \in Dir |-> row[d]]

Made(config) == \A d \in Dir : row[d] # None => row[d].config = config

\* Between two runs the rows were made under the recorded configuration; once
\* prepare is over, under that of the process, and from the moment the file is
\* written it says so, or nothing.
ConfigInv ==
    ~kept =>
        /\ last # None => Made(last)
        /\ pc \in {"check", "walk"} => Made(proc.config)
        /\ pc = "walk" => last \in {proc.config, None}

Inv == Shape /\ ConfigInv

-----------------------------------------------------------------------------
\* A prepare weaker than Clean is possible only when the recorded configuration
\* is that of the process (min_prepare_type in run_sync).
LEMMA WeakPrepare ==
    ASSUME typ \in {Watched, Fast, Clean}, PrepareType < Clean
    PROVE  last = proc.config
<1> DEFINE S == {typ, MinType}
<1>1. MinType \in {Fast, Clean} /\ S \subseteq {0, 1, 2} /\ S # {}
  BY Zenon DEF MinType, Watched, Fast, Clean
<1>2. \E x \in S : \A y \in S : x >= y
  BY <1>1 DEF Watched, Fast, Clean
<1>3. PrepareType \in S /\ \A y \in S : PrepareType >= y
  BY Zenon, <1>2 DEF PrepareType, Max
<1>4. PrepareType >= MinType /\ PrepareType \in {0, 1, 2}
  BY Zenon, <1>1, <1>3
<1>5. MinType # Clean
  BY <1>4 DEF Clean
<1> QED BY <1>5 DEF MinType

\* No process has run yet: there are no rows.
LEMMA InitInv == Init => Inv
<1> SUFFICES ASSUME Init PROVE Inv
  BY Zenon
<1>1. proc \in scope.usage
  BY Zenon, ScopeAssumption DEF Init
<1>2. row = [d \in Dir |-> row[d]] /\ \A d \in Dir : row[d] = None
  BY Zenon DEF Init, NoDirs
<1> QED BY <1>1, <1>2 DEF Inv, Shape, ConfigInv, Made, Init, Watched, Fast, Clean

\* Steps that leave the tables, the file and the process alone, and do not enter
\* the walk, change nothing the invariant is about.
LEMMA Quiet ==
    ASSUME Inv, UNCHANGED <<disk, proc>>, typ' \in {typ, Watched, Fast},
           pc' \in {"check", "walk"} => pc' = pc
    PROVE  Inv'
<1>1. Shape'
  BY Zenon DEF Inv, Shape, disk, Watched, Fast
<1>2. ConfigInv'
  BY Zenon DEF Inv, ConfigInv, Made, disk
<1> QED BY <1>1, <1>2 DEF Inv

\* The process ends, or another begins: only the files matter then.
LEMMA Handover ==
    ASSUME Inv, UNCHANGED disk, proc' \in scope.usage, typ' \in {Watched, Fast, Clean},
           pc' \notin {"check", "walk"}
    PROVE  Inv'
BY DEF Inv, Shape, ConfigInv, Made, disk

\* A process has a configuration, and asks for at least a Fast prepare.
LEMMA StrategyOf ==
    ASSUME Inv, NEW u \in scope.usage
    PROVE  u.strategy \in {Watched, Fast, Clean} /\ u.config # None
BY ScopeAssumption DEF Inv, Shape, Watched, Fast, Clean

\* The end of the process: by itself, by a failure or by a crash.
LEMMA EndedInv == ASSUME Inv, Ended PROVE Inv'
<1>1. proc' \in scope.usage
  BY Zenon, ScopeAssumption DEF Inv, Shape, Ended
<1> QED BY <1>1, Handover DEF Ended, Fast, Watched, Clean

\* The end of do_run in an error: the process ends, or tries again with the
\* configuration it has.
LEMMA FailedInv == ASSUME Inv, Failed PROVE Inv'
<1>1. CASE Ended
  BY Zenon, <1>1, EndedInv
<1>2. CASE pc' = "retry" /\ typ' = proc.strategy /\ UNCHANGED <<disk, proc>>
  BY Zenon, <1>2, Handover, StrategyOf DEF Inv, Shape, disk
<1> QED BY <1>1, <1>2 DEF Failed

\* prepare: either every row goes, or they were made under this configuration.
LEMMA PrepareInv == ASSUME Inv, Prepare PROVE Inv'
<1>1. Shape'
  <2>1. row' = [d \in Dir |-> row'[d]]
    BY Zenon DEF Inv, Shape, Prepare, NoDirs
  <2> QED BY <2>1 DEF Inv, Shape, Prepare, Watched, Fast, Clean
<1>2. CASE PrepareType >= Clean
  <2>1. \A d \in Dir : row'[d] = None
    BY Zenon, <1>2 DEF Prepare, NoDirs
  <2> QED BY <1>1, <2>1 DEF Inv, ConfigInv, Made, Prepare
<1>3. CASE ~(PrepareType >= Clean)
  <2>1. PrepareType \in {0, 1, 2}
    <3> DEFINE S == {typ, MinType}
    <3>1. S \subseteq {0, 1, 2} /\ S # {}
      BY Zenon DEF Inv, Shape, MinType, Watched, Fast, Clean
    <3>2. \E x \in S : \A y \in S : x >= y
      BY <3>1 DEF Inv, Shape, MinType, Watched, Fast, Clean
    <3> QED BY <3>1, <3>2 DEF PrepareType, Max
  <2>2. PrepareType < Clean
    BY <1>3, <2>1 DEF Clean
  <2>3. last = proc.config
    BY Zenon, <2>2, WeakPrepare DEF Inv, Shape
  <2>4. proc.config # None
    BY Zenon, StrategyOf DEF Inv, Shape
  <2>5. row' = row /\ last' = last /\ proc' = proc /\ pc' = "check" /\ (kept' => kept)
        /\ (kept => kept')
    BY Zenon, <1>3, <2>2 DEF Prepare
  <2> QED BY <1>1, <2>3, <2>4, <2>5 DEF Inv, ConfigInv, Made
<1> QED BY <1>2, <1>3

\* for_dirty_dir: rows only go.
LEMMA DropRowInv == ASSUME Inv, DropRow PROVE Inv'
<1>1. PICK t \in ForDirtyDir : row' = [row EXCEPT ![t] = None]
  BY Zenon DEF DropRow
<1>2. row' = [d \in Dir |-> row'[d]] /\ \A d \in Dir : row'[d] \in {row[d], None}
  BY Zenon, <1>1 DEF Inv, Shape
<1>3. UNCHANGED <<scope, last, kept, pc, proc, typ>>
  BY Zenon DEF DropRow
<1> QED BY <1>2, <1>3 DEF Inv, Shape, ConfigInv, Made

\* last-config.dat: the rows that prepare has left belong to this configuration.
LEMMA WriteConfigInv == ASSUME Inv, WriteConfig PROVE Inv'
<1>1. UNCHANGED <<scope, row, proc, typ>> /\ pc = "check" /\ pc' = "walk"
  BY Zenon DEF WriteConfig, mem
<1>2. last' \in {proc.config, last, None} /\ kept' = (kept \/ last' \notin {proc.config, None})
  BY Zenon DEF WriteConfig
<1> QED BY <1>1, <1>2 DEF Inv, Shape, ConfigInv, Made

\* set_dir_clean: a new row has the configuration of the process.
LEMMA MarkInv == ASSUME Inv, Mark PROVE Inv'
<1>1. UNCHANGED <<scope, last, kept, pc, proc, typ>> /\ pc = "walk"
  BY Zenon DEF Mark
<1>2. row' = [d \in Dir |-> row'[d]]
      /\ \A d \in Dir : row'[d] = row[d] \/ row'[d].config = proc.config
  BY DEF Mark, Inv, Shape
<1> QED BY <1>1, <1>2 DEF Inv, Shape, ConfigInv, Made

\* Every step preserves the invariant.
LEMMA NextInv == ASSUME Inv, [Next]_vars PROVE Inv'
<1>1. CASE UNCHANGED vars
  BY Zenon, <1>1, Quiet DEF vars, mem, disk
<1>2. CASE Start
  BY Zenon, <1>2, Handover, StrategyOf DEF Start
<1>3. CASE Crash
  BY Zenon, <1>3, EndedInv DEF Crash
<1>4. CASE Over
  BY Zenon, <1>4, EndedInv DEF Over
<1>5. CASE Fail \/ SetUpFails \/ ScanFails
  BY Zenon, <1>5, FailedInv DEF Fail, SetUpFails, ScanFails
<1>6. CASE Prepare
  BY Zenon, <1>6, PrepareInv
<1>7. CASE DropRow
  BY Zenon, <1>7, DropRowInv
<1>8. CASE WriteConfig
  BY Zenon, <1>8, WriteConfigInv
<1>9. CASE Mark
  BY Zenon, <1>9, MarkInv
<1>10. CASE Edit \/ Change
  BY Zenon, <1>10 DEF Edit, Change, Inv, Shape, ConfigInv, Made, mem
<1>11. CASE Connect \/ SetUp \/ Reconnect \/ CheckDir \/ Enter \/ WalkOver
  BY Zenon, <1>11, Quiet DEF Connect, SetUp, Reconnect, CheckDir, Enter, WalkOver, mem
<1>13. CASE Wait \/ Recv \/ Woken \/ Ask
  BY Zenon, <1>13, Quiet DEF Wait, Recv, Woken, Ask, mem
<1>12. CASE Poll \/ Send \/ LocalEvent \/ Interrupt \/ HandlerNotify \/ LoseLink \/ ReaderTells
  BY Zenon, <1>12, Quiet DEF Poll, PollCopy, PollOne, Send, LocalEvent, Interrupt, HandlerNotify,
                      LoseLink, ReaderTells, mem
<1> QED BY <1>1, <1>2, <1>3, <1>4, <1>5, <1>6, <1>7, <1>8, <1>9, <1>10, <1>11, <1>12, <1>13
        DEF Next, Main

\* A walk never skips a directory because of a mark made under another
\* configuration: prepare compares the hash of config.toml with the recorded one,
\* which is written after the old rows are gone and before new ones are made,
\* whichever crash, failed write or reconnection comes between.
THEOREM ConfigSafe == Spec => []ConfigHonoured
<1>1. Init => Inv
  BY Zenon, InitInv
<1>2. Inv /\ [Next]_vars => Inv'
  BY Zenon, NextInv
<1>3. Inv => ConfigHonoured
  BY Zenon DEF Inv, ConfigInv, Made, ConfigHonoured
<1> QED BY <1>1, <1>2, <1>3, PTL DEF Spec
=============================================================================
