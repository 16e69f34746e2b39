------------------------- MODULE LocalStorageProofs -------------------------
(***************************************************************************)
(* What holds of LocalStorage for any number of sessions, readers,         *)
(* directories, versions and entries: the types, and that a `getdir`       *)
(* racing with commits, rollbacks and removals answers with committed      *)
(* content and never waits for a file that will not come back.             *)
(***************************************************************************)
EXTENDS LocalStorage, TLAPS

-----------------------------------------------------------------------------
(* The inductive invariant. *)

Committing(s) == pc[s] \in {"commit", "apply"}

\* What every sequence of directory edits dir.rs schedules looks like: a
\* directory is created at version 1 by the first edit or at the next version
\* right after its removal; a well-known directory is never just removed; none
\* is removed twice; one created first is not removed.
Orderly(ops) ==
    /\ Len(ops) > 0
    /\ \A j \in 1 .. Len(ops) : ops[j].op = "mkdir" =>
          \/ j = 1 /\ ops[j].ver = 1
          \/ /\ j > 1 /\ ops[j - 1].op = "rmdir" /\ ops[j - 1].id = ops[j].id
             /\ ops[j].ver = ops[j - 1].ver + 1
    /\ \A j \in 1 .. Len(ops) : ops[j].op = "rmdir" /\ ops[j].id \in Fixed =>
          j < Len(ops) /\ ops[j + 1].op = "mkdir" /\ ops[j + 1].id = ops[j].id
    /\ \A j, k \in 1 .. Len(ops) :
          ops[j].op = "rmdir" /\ ops[k].op = "rmdir" /\ ops[j].id = ops[k].id => j = k
    /\ ops[1].op = "mkdir" =>
          \A j \in 1 .. Len(ops) : ops[j].op = "rmdir" => ops[j].id # ops[1].id

\* A session in a transaction has one, in order.
TxInv ==
    \A s \in Session :
        /\ pc[s] \in {"open", "put", "commit", "apply", "post"} => tx[s] \in Transaction
        /\ pc[s] = "put" => tx[s].put \in Block
        /\ pc[s] \in {"commit", "apply", "post"} =>
              Orderly(tx[s].dirops) /\ tx[s].next <= Len(tx[s].dirops)
        /\ pc[s] \in {"open", "put", "commit"} => tx[s].next = 0

\* Session s is about to create d under an id it has drawn.
Mint(s, d) ==
    /\ Committing(s) /\ d \notin Fixed
    /\ tx[s].dirops[1].op = "mkdir" /\ tx[s].dirops[1].id = d

\* The row w has entries in its file.
HasFile(d, w) ==
    /\ dirFile[<<d, w.ver>>] \in File
    /\ \A i \in 1 .. w.len : dirFile[<<d, w.ver>>][i] \in Entry

\* The writer's tables: equal to the committed ones until the first edit; every
\* row ahead of the committed one; and what the edits so far have done.
WriterInv ==
    /\ (\A s \in Session : pc[s] # "apply") => wdirs = dirs
    /\ \A d \in Dir :
        /\ dirs[d] # None => HasFile(d, dirs[d]) /\ d \in Fixed \cup minted
        /\ wdirs[d] # None => HasFile(d, wdirs[d]) /\ d \in Fixed \cup minted
        /\ dirs[d] # None /\ wdirs[d] # None =>
              \/ wdirs[d].ver > dirs[d].ver
              \/ wdirs[d].ver = dirs[d].ver /\ wdirs[d].len >= dirs[d].len

EditInv ==
    \A s \in Session : pc[s] = "apply" =>
        LET ops == tx[s].dirops
            next == tx[s].next
        IN  /\ next = 0 => wdirs = dirs
            /\ \A d \in Dir : dirs[d] = None /\ wdirs[d] # None =>
                  ops[1].op = "mkdir" /\ ops[1].id = d
            /\ \A d \in Fixed : dirs[d] # None /\ wdirs[d] = None =>
                  next < Len(ops) /\ ops[next + 1].op = "mkdir" /\ ops[next + 1].id = d
            /\ \A j \in 1 .. next : ops[j].op = "rmdir" =>
                  /\ dirs[ops[j].id] # None /\ dirs[ops[j].id].ver <= ops[j].ver
                  /\ wdirs[ops[j].id] # None => wdirs[ops[j].id].ver > ops[j].ver

\* Nobody reads d or is about to remove a file of it.
Unobserved(d) ==
    /\ \A r \in Reader : reading[r] # None => reading[r].id # d
    /\ \A s \in Session : pc[s] = "post" =>
          \A j \in 1 .. Len(tx[s].dirops) :
              tx[s].dirops[j].op = "rmdir" => tx[s].dirops[j].id # d

\* A directory that was never committed is unobserved.
BirthInv ==
    /\ \A d \in Dir : d \notin Fixed \cup minted => Unobserved(d)
    /\ \A d \in Fixed : dirs[d] = None => Unobserved(d)
    /\ \A s \in Session, d \in Dir : Mint(s, d) =>
          /\ d \in minted /\ dirs[d] = None /\ Unobserved(d)
          /\ wdirs[d] # None => pc[s] = "apply"
          /\ \A t \in Session : Mint(t, d) => t = s

\* Readers are behind the committed row, and their file, if it is still there,
\* begins with what they are to return.
ReaderInv ==
    \A r \in Reader : reading[r] # None =>
        LET rd == reading[r]
            row == dirs[rd.id]
            file == dirFile[<<rd.id, rd.ver>>]
        IN  /\ row # None => row.ver > rd.ver \/ (row.ver = rd.ver /\ row.len >= rd.len)
            /\ DOMAIN rd.want = 1 .. rd.len
            /\ file # None => \A i \in 1 .. rd.len : file[i] = rd.want[i]

\* The files a finished commit still has to remove are of superseded versions.
PostInv ==
    \A s \in Session : pc[s] = "post" =>
        \A j \in 1 .. Len(tx[s].dirops) :
            LET op == tx[s].dirops[j]
            IN  op.op = "rmdir" /\ dirs[op.id] # None => dirs[op.id].ver > op.ver

Inv == TypeOK /\ TxInv /\ WriterInv /\ EditInv /\ BirthInv /\ ReaderInv /\ PostInv

-----------------------------------------------------------------------------
(* What EditInv says of the session that holds the write lock. *)

\* A row only it sees is of the directory its first edit creates.
LEMMA EditCreates ==
    ASSUME Inv, NEW s \in Session, pc[s] = "apply"
    PROVE  \A d \in Dir : dirs[d] = None /\ wdirs[d] # None =>
              tx[s].dirops[1].op = "mkdir" /\ tx[s].dirops[1].id = d
PROOF
  BY Zenon DEF Inv, EditInv

\* A well-known directory whose row it has removed is created by its next edit.
LEMMA EditFixed ==
    ASSUME Inv, NEW s \in Session, pc[s] = "apply"
    PROVE  \A d \in Fixed : dirs[d] # None /\ wdirs[d] = None =>
              /\ tx[s].next < Len(tx[s].dirops)
              /\ tx[s].dirops[tx[s].next + 1].op = "mkdir"
              /\ tx[s].dirops[tx[s].next + 1].id = d
PROOF
  BY Zenon DEF Inv, EditInv

\* A version it has removed was committed and is superseded.
LEMMA EditRemoves ==
    ASSUME Inv, NEW s \in Session, pc[s] = "apply",
           NEW j \in 1 .. tx[s].next, tx[s].dirops[j].op = "rmdir"
    PROVE  LET o == tx[s].dirops[j]
           IN  /\ dirs[o.id] # None /\ dirs[o.id].ver <= o.ver
               /\ wdirs[o.id] # None => wdirs[o.id].ver > o.ver
PROOF
  BY Zenon DEF Inv, EditInv

\* Together, that is all there is to it once the first edit is done.
LEMMA EditStep ==
    ASSUME NEW s \in Session, \A u \in Session \ {s} : pc'[u] # "apply",
           UNCHANGED dirs, tx'[s].next # 0,
           \A d \in Dir : dirs[d] = None /\ wdirs'[d] # None =>
              tx'[s].dirops[1].op = "mkdir" /\ tx'[s].dirops[1].id = d,
           \A d \in Fixed : dirs[d] # None /\ wdirs'[d] = None =>
              /\ tx'[s].next < Len(tx'[s].dirops)
              /\ tx'[s].dirops[tx'[s].next + 1].op = "mkdir"
              /\ tx'[s].dirops[tx'[s].next + 1].id = d,
           \A j \in 1 .. tx'[s].next : tx'[s].dirops[j].op = "rmdir" =>
              LET o == tx'[s].dirops[j]
              IN  /\ dirs[o.id] # None /\ dirs[o.id].ver <= o.ver
                  /\ wdirs'[o.id] # None => wdirs'[o.id].ver > o.ver
    PROVE  EditInv'
PROOF
  BY DEF EditInv

\* It is about the tables and the transaction only.
LEMMA EditFrame ==
    ASSUME EditInv, UNCHANGED <<dirs, wdirs>>,
           \A t \in Session : pc'[t] = "apply" =>
              pc[t] = "apply" /\ tx'[t].dirops = tx[t].dirops /\ tx'[t].next = tx[t].next
    PROVE  EditInv'
PROOF
  BY DEF EditInv

-----------------------------------------------------------------------------
(* The edits dir.rs schedules are orderly. *)

\* An entry is added by one append, or by a removal and a creation.
LEMMA AddEntryShape ==
    ASSUME NEW s \in Session, NEW d \in Dir, NEW ver \in Ver,
           NEW len \in 0 .. MaxLen, NEW live \in SUBSET Block,
           NEW e \in AddEntry(s, d, ver, len, live)
    PROVE  /\ e \in Seq(DirOp)
           /\ \/ /\ Len(e) = 1 /\ e[1].op = "updir" /\ e[1].id = d
                 /\ e[1].ver = ver /\ e[1].len = len
              \/ /\ Len(e) = 2 /\ e[1].op = "rmdir" /\ e[2].op = "mkdir"
                 /\ e[1].id = d /\ e[2].id = d /\ e[1].ver = ver
                 /\ e[2].ver = ver + 1 /\ e[2].len = 0
PROOF
  <1> DEFINE up == Op("updir", d, ver, len, live, s)
             rm == Op("rmdir", d, ver, len, live, s)
             mk == Op("mkdir", d, ver + 1, 0, live, s)
  <1>1. up \in DirOp /\ rm \in DirOp
    BY Zenon DEF Op, DirOp, Entry
  <1>2. CASE e = <<up>>
    BY <1>1, <1>2 DEF Op
  <1>3. CASE ver < MaxVer /\ e = <<rm, mk>>
    <2>1. mk \in DirOp
      BY <1>3, ConstantsAssumption DEF Op, DirOp, Entry, Ver
    <2>2. QED
      BY <1>1, <1>3, <2>1 DEF Op
  <1>4. QED
    BY Zenon, <1>2, <1>3 DEF AddEntry

\* Adding an entry is an orderly transaction.
LEMMA AddEntryOrderly ==
    ASSUME NEW s \in Session, NEW d \in Dir, NEW ver \in Ver,
           NEW len \in 0 .. MaxLen, NEW live \in SUBSET Block,
           NEW e \in AddEntry(s, d, ver, len, live)
    PROVE  Orderly(e) /\ e[1].op # "mkdir"
PROOF
  <1>1. CASE Len(e) = 1 /\ e[1].op = "updir"
    <2>1. \A j \in 1 .. Len(e) : j = 1
      BY <1>1
    <2> QED
      BY <1>1, <2>1 DEF Orderly
  <1>2. CASE /\ Len(e) = 2 /\ e[1].op = "rmdir" /\ e[2].op = "mkdir"
             /\ e[1].id = d /\ e[2].id = d /\ e[1].ver = ver /\ e[2].ver = ver + 1
    <2>1. \A j \in 1 .. Len(e) : j = 1 \/ j = 2
      BY <1>2
    <2> QED
      BY <1>2, <2>1 DEF Orderly
  <1> QED
    BY <1>1, <1>2, AddEntryShape

\* So is an edit of another directory followed by that, if it does not remove a
\* well-known one.
LEMMA ConsOrderly ==
    ASSUME NEW s \in Session, NEW d \in Dir, NEW ver \in Ver,
           NEW len \in 0 .. MaxLen, NEW live \in SUBSET Block,
           NEW e \in AddEntry(s, d, ver, len, live),
           NEW op \in DirOp, op.id # d, op.op = "rmdir" \/ (op.op = "mkdir" /\ op.ver = 1),
           op.id \notin Fixed
    PROVE  /\ Orderly(<<op>> \o e) /\ (<<op>> \o e)[1] = op
           /\ <<op>> \o e \in Seq(DirOp)
PROOF
  <1> DEFINE ops == <<op>> \o e
  <1>1. /\ e \in Seq(DirOp) /\ ops \in Seq(DirOp)
        /\ Len(ops) = Len(e) + 1 /\ ops[1] = op
        /\ \A j \in 2 .. Len(ops) : ops[j] = e[j - 1]
    BY AddEntryShape
  <1>2. CASE Len(e) = 1 /\ e[1].op = "updir"
    <2>1. Len(ops) = 2 /\ ops[2].op = "updir"
      BY <1>1, <1>2
    <2> QED
      BY <1>1, <2>1 DEF Orderly, ops
  <1>3. CASE /\ Len(e) = 2 /\ e[1].op = "rmdir" /\ e[2].op = "mkdir"
             /\ e[1].id = d /\ e[2].id = d /\ e[2].ver = e[1].ver + 1
    <2>1. /\ Len(ops) = 3 /\ ops[2].op = "rmdir" /\ ops[2].id = d
          /\ ops[3].op = "mkdir" /\ ops[3].id = d /\ ops[3].ver = ops[2].ver + 1
      BY <1>1, <1>3
    <2> QED
      BY <1>1, <2>1 DEF Orderly, ops
  <1> QED
    BY <1>1, <1>2, <1>3, AddEntryShape


\* So is a rename: two entries, at most one of them by a rewrite.
LEMMA RenameOrderly ==
    ASSUME NEW s \in Session, NEW d \in Dir, NEW ver \in Ver, NEW len \in 0 .. MaxLen,
           NEW live \in SUBSET Block,
           NEW e1 \in AddEntry(s, d, ver, len, {}),
           e1[Len(e1)].len + 1 <= MaxLen,
           NEW e2 \in AddEntry(s, d, e1[Len(e1)].ver, e1[Len(e1)].len + 1, live),
           Len(e1) + Len(e2) < 4
    PROVE  Orderly(e1 \o e2) /\ (e1 \o e2)[1].op # "mkdir" /\ e1 \o e2 \in Seq(DirOp)
PROOF
  <1> DEFINE v2 == e1[Len(e1)].ver
             n2 == e1[Len(e1)].len + 1
             ops == e1 \o e2
  <1>1. /\ e1 \in Seq(DirOp)
        /\ \/ Len(e1) = 1 /\ e1[1].op = "updir"
           \/ /\ Len(e1) = 2 /\ e1[1].op = "rmdir" /\ e1[2].op = "mkdir"
              /\ e1[1].id = d /\ e1[2].id = d /\ e1[2].ver = e1[1].ver + 1
    <2>1. {} \in SUBSET Block
      BY Zenon
    <2> QED
      BY <2>1, AddEntryShape
  <1>2. v2 \in Ver /\ n2 \in 0 .. MaxLen
    <2>1. e1[Len(e1)] \in DirOp
      BY <1>1
    <2> QED
      BY <2>1, ConstantsAssumption DEF DirOp
  <1>3. /\ e2 \in Seq(DirOp)
        /\ \/ Len(e2) = 1 /\ e2[1].op = "updir"
           \/ /\ Len(e2) = 2 /\ e2[1].op = "rmdir" /\ e2[2].op = "mkdir"
              /\ e2[1].id = d /\ e2[2].id = d /\ e2[2].ver = e2[1].ver + 1
    <2> HIDE DEF v2, n2
    <2>1. e2 \in AddEntry(s, d, v2, n2, live)
      BY Zenon DEF v2, n2
    <2> QED
      BY <1>2, <2>1, AddEntryShape
  <1>4. /\ ops \in Seq(DirOp) /\ Len(ops) = Len(e1) + Len(e2)
        /\ \A j \in 1 .. Len(e1) : ops[j] = e1[j]
        /\ \A j \in 1 .. Len(e2) : ops[Len(e1) + j] = e2[j]
    BY <1>1, <1>3
  <1> HIDE DEF v2, n2, ops
  <1>5. CASE Len(e1) = 1 /\ e1[1].op = "updir" /\ Len(e2) = 1 /\ e2[1].op = "updir"
    <2>1. Len(ops) = 2 /\ ops[1].op = "updir" /\ ops[2].op = "updir"
      BY <1>4, <1>5
    <2> QED
      BY <1>4, <2>1 DEF Orderly, ops
  <1>6. CASE /\ Len(e1) = 1 /\ e1[1].op = "updir"
             /\ Len(e2) = 2 /\ e2[1].op = "rmdir" /\ e2[2].op = "mkdir"
             /\ e2[1].id = d /\ e2[2].id = d /\ e2[2].ver = e2[1].ver + 1
    <2>1. /\ Len(ops) = 3 /\ ops[1].op = "updir" /\ ops[2].op = "rmdir"
          /\ ops[3].op = "mkdir" /\ ops[2].id = d /\ ops[3].id = d
          /\ ops[3].ver = ops[2].ver + 1
      BY <1>4, <1>6
    <2>2. \A j \in 1 .. Len(ops) : j = 1 \/ j = 2 \/ j = 3
      BY <2>1
    <2>3. Orderly(ops)
      BY <2>1, <2>2 DEF Orderly
    <2> QED
      BY Zenon, <1>4, <2>1, <2>3 DEF ops
  <1>7. CASE /\ Len(e1) = 2 /\ e1[1].op = "rmdir" /\ e1[2].op = "mkdir"
             /\ e1[1].id = d /\ e1[2].id = d /\ e1[2].ver = e1[1].ver + 1
             /\ Len(e2) = 1 /\ e2[1].op = "updir"
    <2>1. /\ Len(ops) = 3 /\ ops[1].op = "rmdir" /\ ops[2].op = "mkdir"
          /\ ops[3].op = "updir" /\ ops[1].id = d /\ ops[2].id = d
          /\ ops[2].ver = ops[1].ver + 1
      BY <1>4, <1>7
    <2>2. \A j \in 1 .. Len(ops) : j = 1 \/ j = 2 \/ j = 3
      BY <2>1
    <2>3. Orderly(ops)
      BY <2>1, <2>2 DEF Orderly
    <2> QED
      BY Zenon, <1>4, <2>1, <2>3 DEF ops
  <1> QED
    BY <1>1, <1>3, <1>5, <1>6, <1>7

-----------------------------------------------------------------------------
(* The invariant holds initially. *)

\* A just created store satisfies the invariant.
LEMMA InitInv == Init => Inv
PROOF
  <1> SUFFICES ASSUME Init PROVE Inv
    BY Zenon
  <1>1. TypeOK
    BY Zenon, NoneAssumption, ConstantsAssumption DEF Init, TypeOK
  <1>2. TxInv
    BY Zenon DEF Init, TxInv
  <1>3. WriterInv /\ EditInv
    BY Zenon DEF Init, WriterInv, EditInv
  <1>4. BirthInv /\ ReaderInv /\ PostInv
    BY Zenon, ConstantsAssumption DEF Init, BirthInv, ReaderInv, PostInv, Unobserved, Mint, Committing
  <1> QED
    BY Zenon, <1>1, <1>2, <1>3, <1>4 DEF Inv


-----------------------------------------------------------------------------
(* Steps that leave directories, their files and their readers alone. *)

\* The invariant survives a step that changes none of these and puts no session
\* into a commit.
LEMMA Frame ==
    ASSUME Inv, TypeOK', TxInv',
           UNCHANGED <<dirs, wdirs, dirFile, minted, reading>>,
           \A t \in Session : pc'[t] \in {"commit", "apply", "post"} =>
               /\ pc'[t] = pc[t] /\ tx'[t].dirops = tx[t].dirops
               /\ tx'[t].next = tx[t].next,
           (\A t \in Session : pc[t] = "apply" => pc'[t] = "apply") \/ wdirs = dirs
    PROVE  Inv'
PROOF
  <1>1. WriterInv'
    BY Zenon DEF Inv, WriterInv, HasFile
  <1>2. EditInv'
    BY Zenon, EditFrame DEF Inv
  <1>3. \A d \in Dir : Unobserved(d) => Unobserved(d)'
    BY DEF Unobserved
  <1>4. \A t \in Session, d \in Dir : Mint(t, d)' => Mint(t, d) /\ pc'[t] = pc[t]
    BY Zenon DEF Mint, Committing
  <1>5. BirthInv'
    BY Zenon, <1>3, <1>4, ConstantsAssumption DEF Inv, BirthInv
  <1>6. ReaderInv'
    BY Zenon DEF Inv, ReaderInv
  <1>7. PostInv'
    BY DEF Inv, PostInv
  <1> QED
    BY Zenon, <1>1, <1>2, <1>5, <1>6, <1>7 DEF Inv

\* It survives the end of building a transaction: any directory the session is
\* to create under a drawn id was drawn in this step.
LEMMA Scheduled ==
    ASSUME Inv, TypeOK', TxInv', NEW s \in Session, pc[s] \in {"idle", "open"},
           pc' = [pc EXCEPT ![s] = "commit"],
           \A t \in Session \ {s} : tx'[t] = tx[t],
           UNCHANGED <<dirs, wdirs, dirFile, reading>>,
           minted \subseteq minted',
           \A d \in Dir : Mint(s, d)' => d \in minted' \ minted
    PROVE  Inv'
PROOF
  <1>0. /\ pc \in [Session -> {"idle", "open", "put", "commit", "apply", "post", "clean"}]
        /\ pc'[s] = "commit" /\ \A t \in Session \ {s} : pc'[t] = pc[t]
    BY Zenon DEF Inv, TypeOK
  <1>1. WriterInv'
    BY Zenon, <1>0 DEF Inv, WriterInv, HasFile
  <1>2. EditInv'
    BY Zenon, <1>0, EditFrame DEF Inv
  <1>3. \A d \in Dir : Unobserved(d) => Unobserved(d)'
    BY <1>0 DEF Unobserved
  <1>4. \A t \in Session \ {s}, d \in Dir : Mint(t, d)' => Mint(t, d) /\ pc'[t] = pc[t]
    BY Zenon, <1>0 DEF Mint, Committing
  <1>5. BirthInv'
    <2>1. \A d \in Dir : d \notin Fixed \cup minted' => Unobserved(d)'
      BY Zenon, <1>3 DEF Inv, BirthInv
    <2>2. \A d \in Fixed : dirs'[d] = None => Unobserved(d)'
      BY Zenon, <1>3, ConstantsAssumption DEF Inv, BirthInv
    <2>3. ASSUME NEW t \in Session, NEW d \in Dir, Mint(t, d)'
          PROVE  /\ d \in minted' /\ dirs'[d] = None /\ Unobserved(d)'
                 /\ wdirs'[d] # None => pc'[t] = "apply"
                 /\ \A u \in Session : Mint(u, d)' => u = t
      <3>1. CASE t # s
        BY <1>3, <1>4, <2>3, <3>1 DEF Inv, BirthInv
      <3>2. CASE t = s
        <4>1. d \in minted' /\ d \notin minted /\ d \notin Fixed
          BY Zenon, <2>3, <3>2 DEF Mint
        <4>2. dirs[d] = None /\ wdirs[d] = None
          BY Zenon, <4>1 DEF Inv, WriterInv
        <4>3. \A u \in Session \ {s} : ~Mint(u, d)
          BY Zenon, <4>1 DEF Inv, BirthInv
        <4> QED
          BY Zenon, <1>3, <1>4, <2>1, <3>2, <4>1, <4>2, <4>3 DEF Inv, BirthInv
      <3> QED
        BY Zenon, <3>1, <3>2
    <2> QED
      BY Zenon, <2>1, <2>2, <2>3 DEF BirthInv
  <1>6. ReaderInv'
    BY Zenon DEF Inv, ReaderInv
  <1>7. PostInv'
    BY <1>0 DEF Inv, PostInv
  <1> QED
    BY Zenon, <1>1, <1>2, <1>5, <1>6, <1>7 DEF Inv


-----------------------------------------------------------------------------
(* Building a transaction. *)

\* A new transaction is one.
LEMMA NewTxType ==
    ASSUME NEW id \in Dir, NEW ver \in Ver, NEW len \in 0 .. MaxLen,
           NEW unlink \in SUBSET Block, NEW ops \in Seq(DirOp)
    PROVE  /\ NewTx(id, ver, len, unlink, ops) \in Transaction
           /\ NewTx(id, ver, len, unlink, ops).dirops = ops
           /\ NewTx(id, ver, len, unlink, ops).next = 0
PROOF
  BY Zenon DEF NewTx, Transaction

\* A committed directory has a row, a last entry and links.
LEMMA CommittedDir ==
    ASSUME Inv, NEW d \in Dir, dirs[d] # None
    PROVE  /\ dirs[d].ver \in Ver /\ dirs[d].len \in 1 .. MaxLen
           /\ dirs[d].len \in 0 .. MaxLen
           /\ LiveOf(d) \in SUBSET Block
PROOF
  <1>1. dirs[d] \in Row
    BY Zenon DEF Inv, TypeOK
  <1>2. dirs[d].ver \in Ver /\ dirs[d].len \in 1 .. MaxLen /\ dirs[d].len \in 0 .. MaxLen
    BY <1>1, ConstantsAssumption DEF Row
  <1>3. dirFile[<<d, dirs[d].ver>>][dirs[d].len] \in Entry
    <2>1. HasFile(d, dirs[d]) /\ dirs[d].len \in 1 .. dirs[d].len
      BY <1>2 DEF Inv, WriterInv
    <2> QED
      BY Zenon, <2>1 DEF HasFile
  <1> QED
    BY Zenon, <1>2, <1>3 DEF LiveOf, Entry

\* The variables of sessions, when one of them changes its own.
LEMMA SessionTypes ==
    ASSUME Inv, NEW s \in Session,
           NEW at \in {"idle", "open", "put", "commit", "apply", "post", "clean"},
           NEW t \in Transaction \cup {None},
           pc' = [pc EXCEPT ![s] = at], tx' = [tx EXCEPT ![s] = t]
    PROVE  /\ pc' \in [Session -> {"idle", "open", "put", "commit", "apply", "post", "clean"}]
           /\ tx' \in [Session -> Transaction \cup {None}]
           /\ pc'[s] = at /\ tx'[s] = t
           /\ \A u \in Session \ {s} : pc'[u] = pc[u] /\ tx'[u] = tx[u]
PROOF
  BY Zenon DEF Inv, TypeOK

\* A transaction of orderly edits has been built.
LEMMA Built ==
    ASSUME Inv, NEW s \in Session, pc[s] \in {"idle", "open"},
           NEW t \in Transaction, Orderly(t.dirops), t.next = 0,
           pc' = [pc EXCEPT ![s] = "commit"], tx' = [tx EXCEPT ![s] = t],
           UNCHANGED <<storeVars, writerVars, files, drawn, reading>>,
           minted \subseteq minted', minted' \subseteq Dir,
           t.dirops[1].op = "mkdir" /\ t.dirops[1].id \notin Fixed =>
               t.dirops[1].id \in minted' \ minted
    PROVE  Inv'
PROOF
  <1>1. /\ pc' \in [Session -> {"idle", "open", "put", "commit", "apply", "post", "clean"}]
        /\ tx' \in [Session -> Transaction \cup {None}]
        /\ pc'[s] = "commit" /\ tx'[s] = t
        /\ \A u \in Session \ {s} : pc'[u] = pc[u] /\ tx'[u] = tx[u]
    BY Zenon, SessionTypes
  <1>2. TypeOK'
    BY Zenon, <1>1 DEF Inv, TypeOK, storeVars, writerVars, files
  <1>3. TxInv'
    BY <1>1 DEF Inv, TxInv, Transaction
  <1>4. \A d \in Dir : Mint(s, d)' => d \in minted' \ minted
    BY Zenon, <1>1 DEF Mint
  <1> QED
    BY Zenon, <1>1, <1>2, <1>3, <1>4, Scheduled DEF storeVars, writerVars, files

\* Scheduling the creation of a well-known directory (Dir::root).
LEMMA CreateRootInv ==
    ASSUME Inv, NEW s \in Session, NEW d \in Dir, CreateRoot(s, d)
    PROVE  Inv'
PROOF
  <1> DEFINE ops == <<Op("mkdir", d, 1, 0, {}, s)>>
             t == NewTx(d, 1, 0, {}, ops)
  <1>1. ops \in Seq(DirOp) /\ Orderly(ops) /\ ops[1].id \in Fixed
    <2>1. Op("mkdir", d, 1, 0, {}, s) \in DirOp
      BY ConstantsAssumption DEF Op, DirOp, Entry, Ver
    <2>2. Len(ops) = 1 /\ ops[1].op = "mkdir" /\ ops[1].ver = 1 /\ ops[1].id = d
      BY Zenon DEF Op
    <2> QED
      BY <2>1, <2>2 DEF Orderly, CreateRoot
  <1> HIDE DEF ops
  <1>2. t \in Transaction /\ t.dirops = ops /\ t.next = 0
    <2>1. 1 \in Ver /\ 0 \in 0 .. MaxLen /\ {} \in SUBSET Block
      BY ConstantsAssumption DEF Ver
    <2> QED
      BY Zenon, <1>1, <2>1, NewTxType
  <1>3. minted' = minted /\ minted \subseteq Dir
    BY Zenon DEF CreateRoot, Inv, TypeOK
  <1> QED
    BY Zenon, <1>1, <1>2, <1>3, Built DEF CreateRoot, ops

\* Scheduling the new entry at the end of Dir::edit.
LEMMA FinishEditInv ==
    ASSUME Inv, NEW s \in Session, FinishEdit(s)
    PROVE  Inv'
PROOF
  <1>1. tx[s] \in Transaction /\ pc[s] = "open" /\ tx[s].next = 0
    BY Zenon DEF FinishEdit, Inv, TxInv
  <1>2. PICK e \in AddEntry(s, tx[s].id, tx[s].ver, tx[s].len, tx[s].link) :
          tx' = [tx EXCEPT ![s].dirops = e, ![s].todo = tx[s].unlink \cup tx[s].link]
    BY Zenon DEF FinishEdit
  <1>3. e \in Seq(DirOp) /\ Orderly(e) /\ e[1].op # "mkdir"
    BY <1>1, AddEntryShape, AddEntryOrderly DEF Transaction
  <1> DEFINE t == [tx[s] EXCEPT !.dirops = e, !.todo = tx[s].unlink \cup tx[s].link]
  <1>4. t \in Transaction /\ t.dirops = e /\ t.next = tx[s].next
    BY Zenon, <1>1, <1>3 DEF Transaction
  <1>5. tx' = [tx EXCEPT ![s] = t]
    BY Zenon, <1>2 DEF Inv, TypeOK
  <1>6. minted' = minted /\ minted \subseteq Dir
    BY Zenon DEF FinishEdit, Inv, TypeOK
  <1> HIDE DEF t
  <1> QED
    BY Zenon, <1>1, <1>3, <1>4, <1>5, <1>6, Built DEF FinishEdit


\* Scheduling a new directory and its entry: the id has just been drawn.
LEMMA MakeSubdirInv ==
    ASSUME Inv, NEW s \in Session, NEW c \in Dir, NEW p \in Dir, MakeSubdir(s, c, p)
    PROVE  Inv'
PROOF
  <1>1. /\ pc[s] = "idle" /\ c \notin Fixed \cup minted /\ dirs[p] # None
        /\ minted' = minted \cup {c} /\ minted \subseteq Dir /\ p # c
    BY Zenon DEF MakeSubdir, Inv, TypeOK, WriterInv
  <1>2. /\ dirs[p].ver \in Ver /\ dirs[p].len \in 0 .. MaxLen
        /\ LiveOf(p) \in SUBSET Block /\ {} \in SUBSET Block
    BY Zenon, <1>1, CommittedDir
  <1>3. PICK keep \in {LiveOf(p), {}} :
          \E e \in AddEntry(s, p, dirs[p].ver, dirs[p].len, keep) :
            tx' = [tx EXCEPT ![s] =
                    [NewTx(p, dirs[p].ver, dirs[p].len, LiveOf(p) \ keep,
                           <<Op("mkdir", c, 1, 0, {}, s)>> \o e)
                     EXCEPT !.todo = LiveOf(p) \ keep]]
    BY Zenon DEF MakeSubdir
  <1>4. PICK e \in AddEntry(s, p, dirs[p].ver, dirs[p].len, keep) :
          tx' = [tx EXCEPT ![s] =
                  [NewTx(p, dirs[p].ver, dirs[p].len, LiveOf(p) \ keep,
                         <<Op("mkdir", c, 1, 0, {}, s)>> \o e)
                   EXCEPT !.todo = LiveOf(p) \ keep]]
    BY Zenon, <1>3
  <1> DEFINE op == Op("mkdir", c, 1, 0, {}, s)
             ops == <<op>> \o e
             n == NewTx(p, dirs[p].ver, dirs[p].len, LiveOf(p) \ keep, ops)
             t == [n EXCEPT !.todo = LiveOf(p) \ keep]
  <1>5. op \in DirOp /\ op.id = c /\ op.op = "mkdir" /\ op.ver = 1
    BY ConstantsAssumption DEF Op, DirOp, Entry, Ver
  <1>6. keep \in SUBSET Block /\ LiveOf(p) \ keep \in SUBSET Block
    BY Zenon, <1>2
  <1>7. tx' = [tx EXCEPT ![s] = t]
    BY Zenon, <1>4
  <1> HIDE DEF op
  <1>8. Orderly(ops) /\ ops[1] = op /\ ops \in Seq(DirOp)
    BY <1>1, <1>2, <1>5, <1>6, ConsOrderly
  <1> HIDE DEF ops
  <1>9. n \in Transaction /\ n.dirops = ops /\ n.next = 0
    BY <1>2, <1>6, <1>8, NewTxType
  <1> HIDE DEF n
  <1>10. t \in Transaction /\ t.dirops = ops /\ t.next = 0
    BY Zenon, <1>6, <1>9 DEF Transaction
  <1> HIDE DEF t
  <1> QED
    BY <1>1, <1>5, <1>7, <1>8, <1>10, Built DEF MakeSubdir

\* Scheduling the two entries of Dir::rename.
LEMMA RenameInv ==
    ASSUME Inv, NEW s \in Session, NEW d \in Dir, Rename(s, d)
    PROVE  Inv'
PROOF
  <1>1. /\ pc[s] = "idle" /\ dirs[d] # None
        /\ minted' = minted /\ minted \subseteq Dir
    BY Zenon DEF Rename, Inv, TypeOK
  <1>2. /\ dirs[d].ver \in Ver /\ dirs[d].len \in 0 .. MaxLen
        /\ LiveOf(d) \in SUBSET Block /\ {} \in SUBSET Block
    BY Zenon, <1>1, CommittedDir
  <1>3. PICK e1 \in AddEntry(s, d, dirs[d].ver, dirs[d].len, {}) :
          \E e2 \in AddEntry(s, d, e1[Len(e1)].ver, e1[Len(e1)].len + 1, LiveOf(d)) :
            /\ Len(e1) + Len(e2) < 4 /\ e1[Len(e1)].len + 1 <= MaxLen
            /\ tx' = [tx EXCEPT ![s] =
                        NewTx(d, dirs[d].ver, dirs[d].len, {}, e1 \o e2)]
    BY Zenon DEF Rename
  <1>4. PICK e2 \in AddEntry(s, d, e1[Len(e1)].ver, e1[Len(e1)].len + 1, LiveOf(d)) :
            /\ Len(e1) + Len(e2) < 4 /\ e1[Len(e1)].len + 1 <= MaxLen
            /\ tx' = [tx EXCEPT ![s] =
                        NewTx(d, dirs[d].ver, dirs[d].len, {}, e1 \o e2)]
    BY Zenon, <1>3
  <1> DEFINE ops == e1 \o e2
             t == NewTx(d, dirs[d].ver, dirs[d].len, {}, ops)
  <1>5. Orderly(ops) /\ ops[1].op # "mkdir" /\ ops \in Seq(DirOp)
    BY Zenon, <1>2, <1>4, RenameOrderly
  <1>6. tx' = [tx EXCEPT ![s] = t]
    BY Zenon, <1>4
  <1> HIDE DEF ops
  <1>7. t \in Transaction /\ t.dirops = ops /\ t.next = 0
    BY <1>2, <1>5, NewTxType
  <1> HIDE DEF t
  <1> QED
    BY Zenon, <1>1, <1>5, <1>6, <1>7, Built DEF Rename

\* Scheduling the removal of a directory and of its entry.
LEMMA RemoveSubdirInv ==
    ASSUME Inv, NEW s \in Session, NEW c \in Dir, NEW p \in Dir, RemoveSubdir(s, c, p)
    PROVE  Inv'
PROOF
  <1>1. /\ pc[s] = "idle" /\ c \notin Fixed /\ dirs[p] # None /\ dirs[c] # None
        /\ minted' = minted /\ minted \subseteq Dir /\ p # c
    BY Zenon DEF RemoveSubdir, Inv, TypeOK
  <1>2. /\ dirs[p].ver \in Ver /\ dirs[p].len \in 0 .. MaxLen
        /\ dirs[c].ver \in Ver /\ dirs[c].len \in 0 .. MaxLen
        /\ LiveOf(p) \in SUBSET Block /\ {} \in SUBSET Block
    BY Zenon, <1>1, CommittedDir
  <1>3. PICK e \in AddEntry(s, p, dirs[p].ver, dirs[p].len, LiveOf(p)) :
          tx' = [tx EXCEPT ![s] =
                  NewTx(p, dirs[p].ver, dirs[p].len, {},
                        <<Op("rmdir", c, dirs[c].ver, dirs[c].len, {}, s)>> \o e)]
    BY Zenon DEF RemoveSubdir
  <1> DEFINE op == Op("rmdir", c, dirs[c].ver, dirs[c].len, {}, s)
             ops == <<op>> \o e
             t == NewTx(p, dirs[p].ver, dirs[p].len, {}, ops)
  <1>4. op \in DirOp /\ op.id = c /\ op.op = "rmdir"
    BY Zenon, <1>2 DEF Op, DirOp, Entry
  <1>5. tx' = [tx EXCEPT ![s] = t]
    BY Zenon, <1>3
  <1> HIDE DEF op
  <1>6. Orderly(ops) /\ ops[1] = op /\ ops \in Seq(DirOp)
    BY <1>1, <1>2, <1>4, ConsOrderly
  <1> HIDE DEF ops
  <1>7. t \in Transaction /\ t.dirops = ops /\ t.next = 0
    BY <1>2, <1>6, NewTxType
  <1> HIDE DEF t
  <1> QED
    BY Zenon, <1>1, <1>4, <1>5, <1>6, <1>7, Built DEF RemoveSubdir


-----------------------------------------------------------------------------
(* Steps outside the commit. *)

\* A session outside `apply` moves on, stays out of commits, and gives back the
\* lock if it was cleaning.
LEMMA OwnStep ==
    ASSUME Inv, NEW s \in Session, pc[s] # "apply",
           NEW at \in {"idle", "open", "put"}, NEW t \in Transaction \cup {None},
           at \in {"open", "put"} => t \in Transaction /\ t.next = 0,
           at = "put" => t.put \in Block,
           pc' = [pc EXCEPT ![s] = at], tx' = [tx EXCEPT ![s] = t],
           UNCHANGED <<dirs, wdirs, dirFile, minted, reading>>,
           objs' \in [Obj -> (SUBSET Link) \cup {None}],
           wobjs' \in [Obj -> (SUBSET Link) \cup {None}],
           objFile' \subseteq Obj, drawn' \subseteq Link,
           lock' = IF pc[s] = "clean" THEN None ELSE lock
    PROVE  Inv'
PROOF
  <1>1. /\ pc' \in [Session -> {"idle", "open", "put", "commit", "apply", "post", "clean"}]
        /\ tx' \in [Session -> Transaction \cup {None}]
        /\ pc'[s] = at /\ tx'[s] = t
        /\ \A u \in Session \ {s} : pc'[u] = pc[u] /\ tx'[u] = tx[u]
    BY Zenon, SessionTypes
  <1>2. \A u \in Session : (lock' = u) <=> (pc'[u] \in {"apply", "clean"})
    BY Zenon, <1>1, NoneAssumption DEF Inv, TypeOK
  <1>3. TypeOK'
    BY Zenon, <1>1, <1>2 DEF Inv, TypeOK
  <1>4. TxInv'
    BY Zenon, <1>1 DEF Inv, TxInv
  <1> QED
    BY Zenon, <1>1, <1>3, <1>4, Frame

\* Opening a transaction with the unlinks of the old version.
LEMMA StartEditInv ==
    ASSUME Inv, NEW s \in Session, NEW d \in Dir, StartEdit(s, d)
    PROVE  Inv'
PROOF
  <1> DEFINE t == NewTx(d, dirs[d].ver, dirs[d].len, LiveOf(d), <<>>)
  <1>1. /\ dirs[d].ver \in Ver /\ dirs[d].len \in 0 .. MaxLen
        /\ LiveOf(d) \in SUBSET Block /\ <<>> \in Seq(DirOp)
    BY CommittedDir DEF StartEdit
  <1>2. t \in Transaction /\ t.next = 0
    BY Zenon, <1>1, NewTxType
  <1>3. /\ tx' = [tx EXCEPT ![s] = t] /\ pc' = [pc EXCEPT ![s] = "open"]
        /\ pc[s] = "idle"
    BY Zenon DEF StartEdit
  <1>4. /\ UNCHANGED <<dirs, wdirs, dirFile, minted, reading>>
        /\ objs' \in [Obj -> (SUBSET Link) \cup {None}]
        /\ wobjs' \in [Obj -> (SUBSET Link) \cup {None}]
        /\ objFile' \subseteq Obj /\ drawn' \subseteq Link /\ lock' = lock
    BY Zenon DEF StartEdit, storeVars, writerVars, files, Inv, TypeOK
  <1> HIDE DEF t
  <1> QED
    BY Zenon, <1>2, <1>3, <1>4, OwnStep

\* linkobj buffers a link and nothing else.
LEMMA LinkObjInv ==
    ASSUME Inv, NEW s \in Session, NEW o \in Obj, NEW l \in Link, LinkObj(s, o, l)
    PROVE  Inv'
PROOF
  <1> DEFINE t == [tx[s] EXCEPT !.link = @ \cup {<<o, l>>}]
  <1>1. pc[s] = "open" /\ tx[s] \in Transaction /\ tx[s].next = 0
    BY Zenon DEF LinkObj, Inv, TxInv
  <1>2. t \in Transaction /\ t.next = 0
    <2>1. tx[s].link \cup {<<o, l>>} \in SUBSET Block
      BY <1>1 DEF Transaction, Block
    <2> QED
      BY Zenon, <1>1, <2>1 DEF Transaction
  <1>3. tx' = [tx EXCEPT ![s] = t] /\ pc' = [pc EXCEPT ![s] = "open"]
    BY Zenon, <1>1 DEF LinkObj, Inv, TypeOK
  <1>4. /\ UNCHANGED <<dirs, wdirs, dirFile, minted, reading>>
        /\ objs' \in [Obj -> (SUBSET Link) \cup {None}]
        /\ wobjs' \in [Obj -> (SUBSET Link) \cup {None}]
        /\ objFile' \subseteq Obj /\ drawn' \subseteq Link /\ lock' = lock
    BY Zenon DEF LinkObj, storeVars, writerVars, files, Inv, TypeOK
  <1> HIDE DEF t
  <1> QED
    BY Zenon, <1>1, <1>2, <1>3, <1>4, OwnStep

\* The first half of putobj: the row of the object.
LEMMA PutObjInsertInv ==
    ASSUME Inv, NEW s \in Session, NEW o \in Obj, NEW l \in Link, PutObjInsert(s, o, l)
    PROVE  Inv'
PROOF
  <1> DEFINE t == [tx[s] EXCEPT !.put = <<o, l>>]
  <1>1. pc[s] = "open" /\ tx[s] \in Transaction /\ tx[s].next = 0
    BY Zenon DEF PutObjInsert, Inv, TxInv
  <1>2. t \in Transaction /\ t.next = 0 /\ t.put \in Block
    BY Zenon, <1>1 DEF Transaction, Block
  <1>3. tx' = [tx EXCEPT ![s] = t] /\ pc' = [pc EXCEPT ![s] = "put"]
    BY Zenon DEF PutObjInsert
  <1>4. objs' \in [Obj -> (SUBSET Link) \cup {None}]
    BY Zenon DEF PutObjInsert, Inv, TypeOK
  <1>5. /\ UNCHANGED <<dirs, wdirs, dirFile, minted, reading>>
        /\ wobjs' \in [Obj -> (SUBSET Link) \cup {None}]
        /\ objFile' \subseteq Obj /\ drawn' \subseteq Link /\ lock' = lock
    BY Zenon, <1>4 DEF PutObjInsert, files, Inv, TypeOK
  <1> HIDE DEF t
  <1> QED
    BY Zenon, <1>1, <1>2, <1>3, <1>4, <1>5, OwnStep

\* The second half of putobj: the file of the object.
LEMMA PutObjPersistInv ==
    ASSUME Inv, NEW s \in Session, PutObjPersist(s)
    PROVE  Inv'
PROOF
  <1> DEFINE t == [tx[s] EXCEPT !.link = @ \cup {tx[s].put}, !.put = None]
  <1>1. /\ pc[s] = "put" /\ tx[s] \in Transaction /\ tx[s].next = 0
        /\ tx[s].put \in Block
    BY Zenon DEF PutObjPersist, Inv, TxInv
  <1>2. t \in Transaction /\ t.next = 0
    BY Zenon, <1>1 DEF Transaction
  <1>3. tx' = [tx EXCEPT ![s] = t] /\ pc' = [pc EXCEPT ![s] = "open"]
    BY Zenon, <1>1 DEF PutObjPersist, Transaction
  <1>4. tx[s].put[1] \in Obj
    BY Zenon, <1>1 DEF Block
  <1>5. /\ UNCHANGED <<dirs, wdirs, dirFile, minted, reading>>
        /\ objs' \in [Obj -> (SUBSET Link) \cup {None}]
        /\ wobjs' \in [Obj -> (SUBSET Link) \cup {None}]
        /\ objFile' \subseteq Obj /\ drawn' \subseteq Link /\ lock' = lock
    BY Zenon, <1>4 DEF PutObjPersist, storeVars, writerVars, Inv, TypeOK
  <1> HIDE DEF t
  <1> QED
    BY Zenon, <1>1, <1>2, <1>3, <1>5, OwnStep

\* Dropping a transaction that has no lock.
LEMMA ForgetInv ==
    ASSUME Inv, NEW s \in Session, pc[s] \notin {"apply", "clean"}, Forget(s),
           UNCHANGED <<storeVars, writerVars, files, drawn, minted, reading>>
    PROVE  Inv'
PROOF
  <1>1. /\ objs' \in [Obj -> (SUBSET Link) \cup {None}]
        /\ wobjs' \in [Obj -> (SUBSET Link) \cup {None}]
        /\ objFile' \subseteq Obj /\ drawn' \subseteq Link
    BY Zenon DEF storeVars, writerVars, files, Inv, TypeOK
  <1> QED
    BY Zenon, <1>1, OwnStep DEF Forget, storeVars, writerVars, files

\* Ending a cleaning, with or without its effects.
LEMMA EndCleanInv ==
    ASSUME Inv, NEW s \in Session, EndClean(s) \/ FailClean(s)
    PROVE  Inv'
PROOF
  <1>1. pc[s] = "clean" /\ lock = s /\ wdirs = dirs
    BY Zenon DEF EndClean, FailClean, Inv, TypeOK, WriterInv
  <1>2. /\ objs' \in [Obj -> (SUBSET Link) \cup {None}]
        /\ wobjs' \in [Obj -> (SUBSET Link) \cup {None}]
        /\ objFile' \subseteq Obj /\ drawn' \subseteq Link
        /\ UNCHANGED <<dirs, wdirs, dirFile, minted, reading>> /\ lock' = None
        /\ pc' = [pc EXCEPT ![s] = "idle"]
    BY Zenon, <1>1 DEF EndClean, FailClean, Rollback, Forget, storeVars, writerVars, files, Inv, TypeOK
  <1>3. PICK t \in Transaction \cup {None} : tx' = [tx EXCEPT ![s] = t]
    <2>1. tx = [tx EXCEPT ![s] = tx[s]] /\ tx[s] \in Transaction \cup {None}
      BY Zenon DEF Inv, TypeOK
    <2> QED
      BY Zenon, <2>1 DEF EndClean, FailClean, Forget
  <1> QED
    BY Zenon, <1>1, <1>2, <1>3, OwnStep

\* The cleaner takes the write lock.
LEMMA BeginCleanInv ==
    ASSUME Inv, NEW s \in Session, BeginClean(s)
    PROVE  Inv'
PROOF
  <1>1. /\ pc[s] = "idle" /\ pc'[s] = "clean" /\ lock = None /\ lock' = s
        /\ \A u \in Session \ {s} : pc'[u] = pc[u]
        /\ pc' \in [Session -> {"idle", "open", "put", "commit", "apply", "post", "clean"}]
    BY Zenon DEF BeginClean, Inv, TypeOK
  <1>2. TypeOK'
    <2>1. \A u \in Session : (lock' = u) <=> (pc'[u] \in {"apply", "clean"})
      BY Zenon, <1>1, NoneAssumption DEF Inv, TypeOK
    <2> QED
      BY Zenon, <1>1, <2>1 DEF BeginClean, storeVars, files, Inv, TypeOK
  <1>3. TxInv'
    BY Zenon, <1>1 DEF BeginClean, Inv, TxInv
  <1> QED
    BY Zenon, <1>1, <1>2, <1>3, Frame DEF BeginClean, storeVars, files

\* The cleaner removes an object.
LEMMA CleanObjectInv ==
    ASSUME Inv, NEW s \in Session, NEW o \in Obj, CleanObject(s, o)
    PROVE  Inv'
PROOF
  <1>1. /\ UNCHANGED <<dirs, wdirs, dirFile, minted, reading, pc, tx>>
        /\ wobjs' \in [Obj -> (SUBSET Link) \cup {None}] /\ objFile' \subseteq Obj
    BY Zenon DEF CleanObject, storeVars, Inv, TypeOK
  <1>2. TypeOK'
    BY Zenon, <1>1 DEF CleanObject, storeVars, Inv, TypeOK
  <1>3. TxInv'
    BY Zenon, <1>1 DEF Inv, TxInv
  <1> QED
    BY Zenon, <1>1, <1>2, <1>3, Frame


-----------------------------------------------------------------------------
(* The steps of a commit that touch no directory, and the ones that undo it. *)

\* update_ref touches objects only.
LEMMA ApplyLinkInv ==
    ASSUME Inv, NEW s \in Session, NEW b \in Block, ApplyLink(s, b)
    PROVE  Inv'
PROOF
  <1> DEFINE t == [tx[s] EXCEPT !.todo = @ \ {b}]
  <1>1. pc[s] = "apply" /\ tx[s] \in Transaction
    BY Zenon DEF ApplyLink, Inv, TxInv
  <1>2. t \in Transaction /\ t.dirops = tx[s].dirops /\ t.next = tx[s].next
    BY Zenon, <1>1 DEF Transaction
  <1>3. /\ tx' = [tx EXCEPT ![s] = t]
        /\ UNCHANGED <<dirs, wdirs, dirFile, minted, reading, pc>>
    BY Zenon DEF ApplyLink, storeVars
  <1> HIDE DEF t
  <1>4. /\ tx'[s] = t /\ \A u \in Session \ {s} : tx'[u] = tx[u]
        /\ tx' \in [Session -> Transaction \cup {None}]
    BY Zenon, <1>2, <1>3 DEF Inv, TypeOK
  <1>5. b[1] \in Obj /\ b[2] \in Link
    BY Zenon DEF Block
  <1>6. wobjs' \in [Obj -> (SUBSET Link) \cup {None}] /\ objFile' \subseteq Obj
    BY <1>5 DEF ApplyLink, UpdateRef, Xor, Refs, Inv, TypeOK
  <1>7. TypeOK'
    BY Zenon, <1>3, <1>4, <1>6 DEF ApplyLink, storeVars, Inv, TypeOK
  <1>8. TxInv'
    BY Zenon, <1>1, <1>2, <1>3, <1>4 DEF Inv, TxInv
  <1> QED
    BY Zenon, <1>2, <1>3, <1>4, <1>7, <1>8, Frame

-----------------------------------------------------------------------------
\* When one session is in `apply` no other is, and none is when there is no lock.
LEMMA OneWriter ==
    ASSUME Inv, NEW s \in Session, lock = None \/ pc[s] = "apply"
    PROVE  /\ \A u \in Session \ {s} : pc[u] # "apply"
           /\ lock = None => wdirs = dirs /\ \A u \in Session : pc[u] # "apply"
PROOF
  <1>1. \A u \in Session : pc[u] = "apply" => lock = u
    BY Zenon DEF Inv, TypeOK
  <1> QED
    BY Zenon, <1>1, NoneAssumption DEF Inv, WriterInv

\* Taking the write lock: the tables are as committed.
LEMMA BeginCommitInv ==
    ASSUME Inv, NEW s \in Session, BeginCommit(s)
    PROVE  Inv'
PROOF
  <1>1. /\ pc[s] = "commit" /\ pc'[s] = "apply" /\ lock = None /\ lock' = s
        /\ \A u \in Session \ {s} : pc'[u] = pc[u]
        /\ pc' \in [Session -> {"idle", "open", "put", "commit", "apply", "post", "clean"}]
        /\ UNCHANGED <<dirs, wdirs, dirFile, minted, reading, tx>>
    BY Zenon DEF BeginCommit, storeVars, files, Inv, TypeOK
  <1>2. wdirs = dirs /\ \A u \in Session : pc[u] # "apply"
    BY Zenon, <1>1, OneWriter
  <1>3. TypeOK'
    <2>1. \A u \in Session : (lock' = u) <=> (pc'[u] \in {"apply", "clean"})
      BY Zenon, <1>1, NoneAssumption DEF Inv, TypeOK
    <2> QED
      BY Zenon, <1>1, <2>1 DEF BeginCommit, storeVars, files, Inv, TypeOK
  <1>4. TxInv'
    BY Zenon, <1>1 DEF Inv, TxInv
  <1>5. WriterInv'
    BY Zenon, <1>1, <1>2 DEF Inv, WriterInv, HasFile
  <1>6. EditInv'
    <2>1. tx[s].next = 0
      BY Zenon, <1>1 DEF Inv, TxInv
    <2> QED
      BY <1>1, <1>2, <2>1 DEF EditInv
  <1>7. \A d \in Dir : Unobserved(d) => Unobserved(d)'
    BY Zenon, <1>1 DEF Unobserved
  <1>8. \A t \in Session, d \in Dir : Mint(t, d)' => Mint(t, d)
    BY Zenon, <1>1 DEF Mint, Committing
  <1>9. BirthInv'
    BY Zenon, <1>1, <1>2, <1>7, <1>8, ConstantsAssumption DEF Inv, BirthInv
  <1>10. ReaderInv' /\ PostInv'
    BY <1>1 DEF Inv, ReaderInv, PostInv
  <1> QED
    BY Zenon, <1>3, <1>4, <1>5, <1>6, <1>9, <1>10 DEF Inv

\* Giving up a commit, for whatever reason: the tables are as before, the files
\* are not, and nobody can tell.
LEMMA RollbackInv ==
    ASSUME Inv, NEW s \in Session, pc[s] = "apply", Rollback, Forget(s),
           UNCHANGED <<files, drawn, minted, reading>>
    PROVE  Inv'
PROOF
  <1>1. /\ pc'[s] = "idle" /\ tx'[s] = None /\ lock = s /\ lock' = None
        /\ \A u \in Session \ {s} : pc'[u] = pc[u] /\ tx'[u] = tx[u]
        /\ pc' \in [Session -> {"idle", "open", "put", "commit", "apply", "post", "clean"}]
        /\ tx' \in [Session -> Transaction \cup {None}]
        /\ UNCHANGED <<dirs, objs, dirFile, minted, reading>> /\ wdirs' = dirs
    BY DEF Rollback, Forget, storeVars, files, Inv, TypeOK
  <1>2. \A u \in Session : pc'[u] # "apply"
    BY Zenon, <1>1, OneWriter
  <1>3. TypeOK'
    <2>1. \A u \in Session : (lock' = u) <=> (pc'[u] \in {"apply", "clean"})
      BY Zenon, <1>1, NoneAssumption DEF Inv, TypeOK
    <2> QED
      BY Zenon, <1>1, <2>1 DEF Rollback, files, Inv, TypeOK
  <1>4. TxInv'
    BY Zenon, <1>1 DEF Inv, TxInv
  <1>5. WriterInv'
    <2>1. \A d \in Dir : dirs[d] # None =>
            dirs[d].ver = dirs[d].ver /\ dirs[d].len >= dirs[d].len
      BY ConstantsAssumption DEF Inv, TypeOK, Row
    <2>2. \A d \in Dir : dirs[d] # None =>
            HasFile(d, dirs[d])' /\ d \in Fixed \cup minted
      BY Zenon, <1>1 DEF Inv, WriterInv, HasFile
    <2> QED
      BY Zenon, <1>1, <2>1, <2>2 DEF WriterInv, HasFile
  <1>6. EditInv'
    BY Zenon, <1>2 DEF EditInv
  <1>7. \A d \in Dir : Unobserved(d) => Unobserved(d)'
    BY <1>1 DEF Unobserved
  <1>8. \A t \in Session, d \in Dir : Mint(t, d)' => Mint(t, d) /\ t # s
    BY Zenon, <1>1 DEF Mint, Committing
  <1>9. BirthInv'
    BY Zenon, <1>1, <1>7, <1>8, ConstantsAssumption DEF Inv, BirthInv
  <1>10. ReaderInv' /\ PostInv'
    BY <1>1 DEF Inv, ReaderInv, PostInv
  <1> QED
    BY Zenon, <1>3, <1>4, <1>5, <1>6, <1>9, <1>10 DEF Inv

\* A process that dies at any point is rolled back or just forgotten.
LEMMA CrashInv ==
    ASSUME Inv, NEW s \in Session, Crash(s)
    PROVE  Inv'
PROOF
  <1>1. CASE pc[s] = "apply"
    <2>1. lock = s
      BY Zenon, <1>1 DEF Inv, TypeOK
    <2> QED
      BY Zenon, <1>1, <2>1, RollbackInv DEF Crash
  <1>2. CASE pc[s] = "clean"
    <2>1. lock = s
      BY Zenon, <1>2 DEF Inv, TypeOK
    <2>2. FailClean(s)
      BY Zenon, <1>2, <2>1 DEF Crash, FailClean
    <2> QED
      BY Zenon, <2>2, EndCleanInv
  <1>3. CASE pc[s] \notin {"apply", "clean"}
    <2>1. lock # s
      BY Zenon, <1>3 DEF Inv, TypeOK
    <2>2. Forget(s) /\ UNCHANGED <<storeVars, writerVars, files, drawn, minted, reading>>
      BY Zenon, <2>1 DEF Crash
    <2> QED
      BY Zenon, <1>3, <2>2, ForgetInv
  <1> QED
    BY Zenon, <1>1, <1>2, <1>3


-----------------------------------------------------------------------------
(* COMMIT, and the removal of files after it. *)

\* A directory only the writer can see was created by its first edit, and nobody
\* reads it or is about to remove its files.
LEMMA Born ==
    ASSUME Inv, NEW s \in Session, pc[s] = "apply", NEW d \in Dir,
           dirs[d] = None, wdirs[d] # None
    PROVE  Unobserved(d)
PROOF
  <1>1. tx[s].dirops[1].op = "mkdir" /\ tx[s].dirops[1].id = d
    BY Zenon, EditCreates
  <1>2. d \in Fixed \/ Mint(s, d)
    BY Zenon, <1>1 DEF Mint, Committing
  <1> QED
    BY Zenon, <1>2 DEF Inv, BirthInv

\* A directory nobody observes is neither read nor about to lose a file.
LEMMA UnobservedUse ==
    ASSUME NEW d \in Dir, Unobserved(d)
    PROVE  /\ \A r \in Reader : reading[r] # None => reading[r].id # d
           /\ \A u \in Session : pc[u] = "post" =>
                 \A j \in 1 .. Len(tx[u].dirops) :
                     tx[u].dirops[j].op = "rmdir" => tx[u].dirops[j].id # d
PROOF
  BY Zenon DEF Unobserved

\* (Used where the versions are long to write.)
LEMMA Later ==
    /\ \A x, y, z \in Nat : x >= y /\ y > z => x > z
    /\ \A x, y \in Nat : x < y => ~(x > y) /\ x # y
PROOF
  OBVIOUS

\* The rows of a directory in the two tables.
LEMMA RowOrder ==
    ASSUME Inv, NEW d \in Dir
    PROVE  /\ dirs[d] # None => dirs[d].ver \in Nat /\ dirs[d].len \in Nat
           /\ wdirs[d] # None => wdirs[d].ver \in Nat /\ wdirs[d].len \in Nat
           /\ dirs[d] # None /\ wdirs[d] # None =>
                 \/ wdirs[d].ver > dirs[d].ver
                 \/ wdirs[d].ver = dirs[d].ver /\ wdirs[d].len >= dirs[d].len
           /\ dirs[d] # None /\ wdirs[d] # None => wdirs[d].ver >= dirs[d].ver
PROOF
  <1>1. dirs[d] \in Row \cup {None} /\ wdirs[d] \in Row \cup {None}
    BY Zenon DEF Inv, TypeOK
  <1>2. \A w \in Row : w.ver \in Nat /\ w.len \in Nat
    BY ConstantsAssumption DEF Row, Ver
  <1>3. dirs[d] # None /\ wdirs[d] # None =>
          \/ wdirs[d].ver > dirs[d].ver
          \/ wdirs[d].ver = dirs[d].ver /\ wdirs[d].len >= dirs[d].len
    BY Zenon DEF Inv, WriterInv
  <1> QED
    BY <1>1, <1>2, <1>3

\* COMMIT: what was the writer's alone is everybody's; the removed directories
\* are superseded and the created ones have been nobody's.
LEMMA CommitTxInv ==
    ASSUME Inv, NEW s \in Session, CommitTx(s)
    PROVE  Inv'
PROOF
  <1>1. /\ pc[s] = "apply" /\ pc'[s] = "post" /\ lock = s /\ lock' = None
        /\ \A u \in Session \ {s} : pc'[u] = pc[u]
        /\ pc' \in [Session -> {"idle", "open", "put", "commit", "apply", "post", "clean"}]
        /\ UNCHANGED <<wdirs, dirFile, minted, reading, tx>> /\ dirs' = wdirs
        /\ tx[s].next = Len(tx[s].dirops)
    BY Zenon DEF CommitTx, files, Inv, TypeOK
  <1>2. \A u \in Session \ {s} : pc[u] # "apply"
    BY Zenon, <1>1, OneWriter
  <1>3. TypeOK'
    <2>1. \A u \in Session : (lock' = u) <=> (pc'[u] \in {"apply", "clean"})
      BY Zenon, <1>1, NoneAssumption DEF Inv, TypeOK
    <2> QED
      BY Zenon, <1>1, <2>1 DEF CommitTx, files, Inv, TypeOK
  <1>4. TxInv'
    BY Zenon, <1>1 DEF Inv, TxInv
  <1>5. WriterInv'
    <2>1. \A d \in Dir : wdirs[d] # None =>
            HasFile(d, wdirs[d])' /\ d \in Fixed \cup minted
      BY Zenon, <1>1 DEF Inv, WriterInv, HasFile
    <2> QED
      BY <1>1, <2>1, RowOrder DEF WriterInv, HasFile
  <1>6. EditInv'
    BY <1>1, <1>2 DEF EditInv
  <1>7. \A j \in 1 .. Len(tx[s].dirops) : tx[s].dirops[j].op = "rmdir" =>
          LET d == tx[s].dirops[j].id
          IN  /\ dirs[d] # None
              /\ wdirs[d] # None => wdirs[d].ver > tx[s].dirops[j].ver
    BY Zenon, <1>1, EditRemoves
  <1>8. \A d \in Dir : dirs[d] = None /\ Unobserved(d) => Unobserved(d)'
    BY <1>1, <1>7 DEF Unobserved
  <1>9. BirthInv'
    <2>1. \A d \in Dir : d \notin Fixed \cup minted' => Unobserved(d)'
      BY Zenon, <1>1, <1>8 DEF Inv, BirthInv, WriterInv
    <2>2. \A d \in Fixed : dirs'[d] = None => Unobserved(d)'
      <3>1. \A d \in Fixed : wdirs[d] = None => dirs[d] = None
        BY <1>1, EditFixed
      <3> QED
        BY Zenon, <1>1, <1>8, <3>1, ConstantsAssumption DEF Inv, BirthInv
    <2>3. \A t \in Session, d \in Dir : Mint(t, d)' => Mint(t, d) /\ t # s
      BY Zenon, <1>1 DEF Mint, Committing
    <2>4. ASSUME NEW t \in Session, NEW d \in Dir, Mint(t, d)'
          PROVE  /\ d \in minted' /\ dirs'[d] = None /\ Unobserved(d)'
                 /\ wdirs'[d] # None => pc'[t] = "apply"
                 /\ \A u \in Session : Mint(u, d)' => u = t
      <3>1. /\ d \in minted /\ dirs[d] = None /\ Unobserved(d) /\ wdirs[d] = None
            /\ \A u \in Session : Mint(u, d) => u = t
        BY Zenon, <1>2, <2>3, <2>4 DEF Inv, BirthInv
      <3> QED
        BY Zenon, <1>1, <1>8, <2>3, <3>1
    <2> QED
      BY Zenon, <2>1, <2>2, <2>4 DEF BirthInv
  <1>10. ReaderInv'
    <2> SUFFICES ASSUME NEW r \in Reader, reading[r] # None, wdirs[reading[r].id] # None
                 PROVE  \/ wdirs[reading[r].id].ver > reading[r].ver
                        \/ /\ wdirs[reading[r].id].ver = reading[r].ver
                           /\ wdirs[reading[r].id].len >= reading[r].len
      BY Zenon, <1>1 DEF Inv, ReaderInv
    <2>1. reading[r].id \in Dir /\ reading[r].ver \in Nat /\ reading[r].len \in Nat
      BY ConstantsAssumption DEF Inv, TypeOK, Ver
    <2>2. dirs[reading[r].id] # None
      BY Zenon, <1>1, <2>1, Born, UnobservedUse
    <2>3. \/ dirs[reading[r].id].ver > reading[r].ver
          \/ /\ dirs[reading[r].id].ver = reading[r].ver
             /\ dirs[reading[r].id].len >= reading[r].len
      BY Zenon, <2>2 DEF Inv, ReaderInv
    <2>4. /\ dirs[reading[r].id].ver \in Nat /\ dirs[reading[r].id].len \in Nat
          /\ wdirs[reading[r].id].ver \in Nat /\ wdirs[reading[r].id].len \in Nat
          /\ \/ wdirs[reading[r].id].ver > dirs[reading[r].id].ver
             \/ /\ wdirs[reading[r].id].ver = dirs[reading[r].id].ver
                /\ wdirs[reading[r].id].len >= dirs[reading[r].id].len
      BY Zenon, <2>1, <2>2, RowOrder
    <2> QED
      BY <2>1, <2>3, <2>4
  <1>11. PostInv'
    <2> SUFFICES ASSUME NEW u \in Session, u # s, pc[u] = "post",
                        NEW j \in 1 .. Len(tx[u].dirops), tx[u].dirops[j].op = "rmdir",
                        wdirs[tx[u].dirops[j].id] # None
                 PROVE  wdirs[tx[u].dirops[j].id].ver > tx[u].dirops[j].ver
      BY <1>1, <1>7 DEF PostInv
    <2>1. tx[u].dirops[j].id \in Dir /\ tx[u].dirops[j].ver \in Nat
      <3>1. tx[u].dirops[j] \in DirOp
        BY DEF Inv, TxInv, Transaction
      <3> QED
        BY <3>1, ConstantsAssumption DEF DirOp, Ver
    <2>2. dirs[tx[u].dirops[j].id] # None
      BY Zenon, <1>1, <2>1, Born, UnobservedUse
    <2>3. dirs[tx[u].dirops[j].id].ver > tx[u].dirops[j].ver
      BY Zenon, <2>2 DEF Inv, PostInv
    <2>4. /\ dirs[tx[u].dirops[j].id].ver \in Nat /\ wdirs[tx[u].dirops[j].id].ver \in Nat
          /\ wdirs[tx[u].dirops[j].id].ver >= dirs[tx[u].dirops[j].id].ver
      BY Zenon, <2>1, <2>2, RowOrder
    <2> QED
      BY Zenon, <2>1, <2>3, <2>4, Later
  <1> QED
    BY Zenon, <1>3, <1>4, <1>5, <1>6, <1>9, <1>10, <1>11 DEF Inv

\* postcommit_cleanup removes files of superseded versions only.
LEMMA PostCommitInv ==
    ASSUME Inv, NEW s \in Session, PostCommit(s)
    PROVE  Inv'
PROOF
  <1>1. /\ pc[s] = "post" /\ pc'[s] = "idle" /\ tx'[s] = None
        /\ \A u \in Session \ {s} : pc'[u] = pc[u] /\ tx'[u] = tx[u]
        /\ pc' \in [Session -> {"idle", "open", "put", "commit", "apply", "post", "clean"}]
        /\ tx' \in [Session -> Transaction \cup {None}]
        /\ UNCHANGED <<dirs, objs, wdirs, wobjs, lock, objFile, drawn, minted, reading>>
    BY Zenon DEF PostCommit, Forget, storeVars, writerVars, Inv, TypeOK
  <1>2. PICK gone \in SUBSET Removed(s) :
          dirFile' = [q \in Dir \X Ver |-> IF q \in gone THEN None ELSE dirFile[q]]
    BY Zenon DEF PostCommit
  <1>3. TypeOK'
    BY Zenon, <1>1, <1>2 DEF Inv, TypeOK
  <1>4. TxInv'
    BY Zenon, <1>1 DEF Inv, TxInv
  <1>5. ASSUME NEW d \in Dir, NEW v \in Ver, <<d, v>> \in gone
        PROVE  /\ dirs[d] # None => dirs[d].ver # v
               /\ wdirs[d] # None => wdirs[d].ver # v
    <2>1. PICK j \in 1 .. Len(tx[s].dirops) :
            tx[s].dirops[j].op = "rmdir" /\ tx[s].dirops[j].id = d /\ tx[s].dirops[j].ver = v
      BY Zenon, <1>2, <1>5 DEF Removed
    <2>2. ~Unobserved(d)
      BY Zenon, <1>1, <2>1 DEF Unobserved
    <2>3. wdirs[d] # None => dirs[d] # None
      <3>1. CASE \E u \in Session : pc[u] = "apply"
        BY Zenon, <2>2, <3>1, Born
      <3>2. CASE \A u \in Session : pc[u] # "apply"
        BY Zenon, <3>2 DEF Inv, WriterInv
      <3> QED
        BY Zenon, <3>1, <3>2
    <2>4. dirs[d] # None => dirs[d].ver > v
      BY Zenon, <1>1, <2>1 DEF Inv, PostInv
    <2>5. v \in Nat
      BY ConstantsAssumption DEF Ver
    <2> QED
      BY <2>3, <2>4, <2>5, RowOrder
  <1>6. WriterInv'
    <2>1. \A d \in Dir : /\ dirs[d] # None => dirs[d].ver \in Ver
                         /\ wdirs[d] # None => wdirs[d].ver \in Ver
      BY Zenon DEF Inv, TypeOK, Row
    <2>2. \A d \in Dir :
            /\ dirs[d] # None => dirFile'[<<d, dirs[d].ver>>] = dirFile[<<d, dirs[d].ver>>]
            /\ wdirs[d] # None => dirFile'[<<d, wdirs[d].ver>>] = dirFile[<<d, wdirs[d].ver>>]
      BY Zenon, <1>2, <1>5, <2>1
    <2>3. \A d \in Dir : /\ dirs[d] # None => HasFile(d, dirs[d])'
                         /\ wdirs[d] # None => HasFile(d, wdirs[d])'
      BY Zenon, <1>1, <2>2 DEF Inv, WriterInv, HasFile
    <2> QED
      BY Zenon, <1>1, <2>3 DEF Inv, WriterInv
  <1>7. EditInv'
    BY Zenon, <1>1, EditFrame DEF Inv
  <1>8. \A d \in Dir : Unobserved(d) => Unobserved(d)'
    BY <1>1 DEF Unobserved
  <1>9. \A t \in Session, d \in Dir : Mint(t, d)' => Mint(t, d) /\ t # s
    BY Zenon, <1>1 DEF Mint, Committing
  <1>10. BirthInv'
    BY Zenon, <1>1, <1>8, <1>9, ConstantsAssumption DEF Inv, BirthInv
  <1>11. ReaderInv'
    <2>1. \A r \in Reader : reading[r] # None =>
            <<reading[r].id, reading[r].ver>> \in Dir \X Ver
      BY Zenon DEF Inv, TypeOK
    <2>2. \A q \in Dir \X Ver : dirFile'[q] # None => dirFile'[q] = dirFile[q]
      BY Zenon, <1>2
    <2> QED
      BY <1>1, <2>1, <2>2 DEF Inv, ReaderInv
  <1>12. PostInv'
    BY Zenon, <1>1 DEF Inv, PostInv
  <1> QED
    BY Zenon, <1>3, <1>4, <1>6, <1>7, <1>10, <1>11, <1>12 DEF Inv


-----------------------------------------------------------------------------
(* getdir. *)

\* A directory somebody starts to read exists, and its file begins with what the
\* reader is to return.
LEMMA GetDirRowInv ==
    ASSUME Inv, NEW r \in Reader, NEW d \in Dir, GetDirRow(r, d)
    PROVE  Inv'
PROOF
  <1> DEFINE rd == [id |-> d, ver |-> dirs[d].ver, len |-> dirs[d].len,
                    want |-> Content(dirFile[<<d, dirs[d].ver>>], dirs[d].len)]
  <1>1. /\ dirs[d] # None /\ reading' = [reading EXCEPT ![r] = rd]
        /\ UNCHANGED <<dirs, wdirs, dirFile, minted, pc, tx>>
    <2>1. dirs[d] # None /\ UNCHANGED <<dirs, wdirs, dirFile, minted, pc, tx>>
      BY Zenon DEF GetDirRow, storeVars, writerVars, files
    <2>2. dirFile[<<d, dirs[d].ver>>] # None
      BY Zenon, <2>1, NoneAssumption DEF Inv, WriterInv, HasFile
    <2> QED
      BY Zenon, <2>1, <2>2 DEF GetDirRow
  <1>2. dirs[d].ver \in Ver /\ dirs[d].len \in 1 .. MaxLen /\ dirs[d].len \in Nat
    BY <1>1, CommittedDir
  <1>3. \A i \in 1 .. dirs[d].len : dirFile[<<d, dirs[d].ver>>][i] \in Entry
    BY Zenon, <1>1 DEF Inv, WriterInv, HasFile
  <1>4. rd.want \in Seq(Entry) /\ DOMAIN rd.want = 1 .. rd.len
    BY <1>2, <1>3 DEF Content
  <1>5. /\ rd.id = d /\ rd.ver = dirs[d].ver /\ rd.len = dirs[d].len
        /\ \A i \in 1 .. rd.len : dirFile[<<rd.id, rd.ver>>][i] = rd.want[i]
    BY Zenon DEF Content
  <1>6. rd \in [id : Dir, ver : Ver, len : 1 .. MaxLen, want : Seq(Entry)]
    BY Zenon, <1>2, <1>4
  <1> HIDE DEF rd
  <1>7. /\ reading' \in [Reader -> [id : Dir, ver : Ver, len : 1 .. MaxLen,
                                    want : Seq(Entry)] \cup {None}]
        /\ reading'[r] = rd /\ \A q \in Reader \ {r} : reading'[q] = reading[q]
    BY Zenon, <1>1, <1>6 DEF Inv, TypeOK
  <1>8. TypeOK'
    BY Zenon, <1>7 DEF GetDirRow, storeVars, writerVars, files, Inv, TypeOK
  <1>9. TxInv' /\ EditInv' /\ PostInv'
    <2>1. TxInv' /\ PostInv'
      BY Zenon, <1>1 DEF Inv, TxInv, PostInv
    <2>2. EditInv'
      BY Zenon, <1>1, EditFrame DEF Inv
    <2> QED
      BY Zenon, <2>1, <2>2
  <1>10. WriterInv'
    BY Zenon, <1>1 DEF Inv, WriterInv, HasFile
  <1>11. \A e \in Dir \ {d} : Unobserved(e) => Unobserved(e)'
    BY <1>1, <1>5, <1>7 DEF Unobserved
  <1>12. \A t \in Session, e \in Dir : Mint(t, e)' <=> Mint(t, e)
    BY Zenon, <1>1 DEF Mint, Committing
  <1>13. BirthInv'
    <2>1. d \in Fixed \cup minted /\ \A t \in Session : ~Mint(t, d)
      BY Zenon, <1>1 DEF Inv, WriterInv, BirthInv
    <2> QED
      BY Zenon, <1>1, <1>11, <1>12, <2>1, ConstantsAssumption DEF Inv, BirthInv
  <1>14. ReaderInv'
    <2>1. ASSUME NEW q \in Reader, reading'[q] # None
          PROVE  LET x == reading'[q]
                     row == dirs'[x.id]
                     file == dirFile'[<<x.id, x.ver>>]
                 IN  /\ row # None =>
                           row.ver > x.ver \/ (row.ver = x.ver /\ row.len >= x.len)
                     /\ DOMAIN x.want = 1 .. x.len
                     /\ file # None => \A i \in 1 .. x.len : file[i] = x.want[i]
      <3>1. CASE q = r
        BY <1>1, <1>2, <1>4, <1>5, <1>7, <3>1
      <3>2. CASE q # r
        BY Zenon, <1>1, <1>7, <2>1, <3>2 DEF Inv, ReaderInv
      <3> QED
        BY Zenon, <3>1, <3>2
    <2> QED
      BY Zenon, <2>1 DEF ReaderInv
  <1> QED
    BY Zenon, <1>8, <1>9, <1>10, <1>13, <1>14 DEF Inv

\* The end of a read, or of an attempt at one.
LEMMA GetDirEndInv ==
    ASSUME Inv, NEW r \in Reader, GetDirReturn(r) \/ GetDirRetry(r)
    PROVE  Inv'
PROOF
  <1>1. /\ reading' = [reading EXCEPT ![r] = None]
        /\ UNCHANGED <<dirs, objs, wdirs, wobjs, lock, dirFile, objFile, pc, tx, drawn, minted>>
    BY Zenon DEF GetDirReturn, GetDirRetry, storeVars, writerVars, files
  <1>2. \A q \in Reader : reading'[q] = None \/ reading'[q] = reading[q]
    BY Zenon, <1>1 DEF Inv, TypeOK
  <1>3. TypeOK'
    BY Zenon, <1>1 DEF Inv, TypeOK
  <1>4. TxInv' /\ EditInv' /\ PostInv'
    <2>1. TxInv' /\ PostInv'
      BY Zenon, <1>1 DEF Inv, TxInv, PostInv
    <2>2. EditInv'
      BY Zenon, <1>1, EditFrame DEF Inv
    <2> QED
      BY Zenon, <2>1, <2>2
  <1>5. WriterInv'
    BY Zenon, <1>1 DEF Inv, WriterInv, HasFile
  <1>6. \A d \in Dir : Unobserved(d) => Unobserved(d)'
    BY Zenon, <1>1, <1>2 DEF Unobserved
  <1>7. \A t \in Session, d \in Dir : Mint(t, d)' <=> Mint(t, d)
    BY Zenon, <1>1 DEF Mint, Committing
  <1>8. BirthInv'
    BY Zenon, <1>1, <1>6, <1>7, ConstantsAssumption DEF Inv, BirthInv
  <1>9. ReaderInv'
    BY <1>1, <1>2 DEF Inv, ReaderInv
  <1> QED
    BY Zenon, <1>3, <1>4, <1>5, <1>8, <1>9 DEF Inv


-----------------------------------------------------------------------------
(* The directory edits of a commit. *)

\* What the three kinds of edits have in common.
LEMMA ApplyFacts ==
    ASSUME Inv, NEW s \in Session, ApplyDirOp(s)
    PROVE  /\ pc[s] = "apply" /\ tx[s].next \in Nat /\ Orderly(tx[s].dirops)
           /\ Len(tx[s].dirops) \in Nat /\ tx[s].next < Len(tx[s].dirops)
           /\ \A j \in 1 .. Len(tx[s].dirops) :
                 tx[s].dirops[j].ver \in Nat /\ tx[s].dirops[j].id \in Dir
           /\ CurrentOp(s) = tx[s].dirops[tx[s].next + 1] /\ CurrentOp(s) \in DirOp
           /\ tx' \in [Session -> Transaction \cup {None}] /\ tx'[s] \in Transaction
           /\ tx'[s].dirops = tx[s].dirops /\ tx'[s].next = tx[s].next + 1
           /\ \A u \in Session \ {s} : tx'[u] = tx[u] /\ pc[u] # "apply"
           /\ UNCHANGED <<dirs, objs, wobjs, lock, objFile, pc, drawn, minted, reading>>
           /\ wdirs'[CurrentOp(s).id] = RowAfter(CurrentOp(s))
           /\ \A d \in Dir \ {CurrentOp(s).id} : wdirs'[d] = wdirs[d]
PROOF
  <1>1. /\ pc[s] = "apply" /\ tx[s] \in Transaction /\ Orderly(tx[s].dirops)
        /\ tx[s].next < Len(tx[s].dirops)
    BY Zenon DEF ApplyDirOp, AtDirOp, Inv, TxInv
  <1>2. tx[s].next \in Nat /\ tx[s].dirops \in Seq(DirOp)
    BY Zenon, <1>1 DEF Transaction
  <1>3. \A j \in 1 .. Len(tx[s].dirops) : tx[s].dirops[j] \in DirOp
    BY <1>2
  <1>4. \A o \in DirOp : o.ver \in Nat /\ o.id \in Dir
    BY ConstantsAssumption DEF DirOp, Ver
  <1>5. CurrentOp(s) = tx[s].dirops[tx[s].next + 1] /\ CurrentOp(s) \in DirOp
    BY <1>1, <1>2, <1>3 DEF CurrentOp
  <1> DEFINE t == [tx[s] EXCEPT !.next = @ + 1]
  <1>6. t \in Transaction /\ t.dirops = tx[s].dirops /\ t.next = tx[s].next + 1
    BY <1>1, <1>2 DEF Transaction
  <1>7. /\ tx' = [tx EXCEPT ![s] = t]
        /\ UNCHANGED <<dirs, objs, wobjs, lock, objFile, pc, drawn, minted, reading>>
        /\ wdirs' = [wdirs EXCEPT ![CurrentOp(s).id] = RowAfter(CurrentOp(s))]
    BY Zenon DEF ApplyDirOp, storeVars
  <1> HIDE DEF t
  <1>8. /\ tx'[s] = t /\ \A u \in Session \ {s} : tx'[u] = tx[u]
        /\ tx' \in [Session -> Transaction \cup {None}]
    BY Zenon, <1>6, <1>7 DEF Inv, TypeOK
  <1>9. /\ wdirs'[CurrentOp(s).id] = RowAfter(CurrentOp(s))
        /\ \A d \in Dir \ {CurrentOp(s).id} : wdirs'[d] = wdirs[d]
    BY Zenon, <1>4, <1>5, <1>7 DEF Inv, TypeOK
  <1>10. \A u \in Session \ {s} : pc[u] # "apply"
    BY Zenon, <1>1, OneWriter
  <1>11. /\ Len(tx[s].dirops) \in Nat
         /\ \A j \in 1 .. Len(tx[s].dirops) :
               tx[s].dirops[j].ver \in Nat /\ tx[s].dirops[j].id \in Dir
    BY <1>2, <1>3, <1>4
  <1>12. UNCHANGED <<dirs, objs, wobjs, lock, objFile, pc, drawn, minted, reading>>
    BY Zenon, <1>7
  <1> QED
    BY Zenon, <1>1, <1>2, <1>5, <1>6, <1>8, <1>9, <1>10, <1>11, <1>12

\* The part of the invariant that is about tables and readers is all there is to
\* show of an edit.
LEMMA ApplyRest ==
    ASSUME Inv, NEW s \in Session, ApplyDirOp(s),
           RowAfter(CurrentOp(s)) \in Row \cup {None},
           dirFile' \in [Dir \X Ver -> File \cup {None}],
           WriterInv', EditInv', ReaderInv',
           \A t \in Session, d \in Dir :
               Mint(t, d) /\ wdirs[d] = None /\ wdirs'[d] # None => t = s
    PROVE  Inv'
PROOF
  <1>1. TypeOK'
    <2>1. wdirs' \in [Dir -> Row \cup {None}]
      BY Zenon DEF ApplyDirOp, Inv, TypeOK
    <2> QED
      BY Zenon, <2>1, ApplyFacts DEF Inv, TypeOK
  <1>2. TxInv'
    BY ApplyFacts DEF Inv, TxInv
  <1>3. \A d \in Dir : Unobserved(d) => Unobserved(d)'
    BY ApplyFacts DEF Unobserved
  <1>4. \A t \in Session, d \in Dir : Mint(t, d)' <=> Mint(t, d)
    BY Zenon, ApplyFacts DEF Mint, Committing
  <1>5. BirthInv'
    <2>1. /\ \A d \in Dir : d \notin Fixed \cup minted' => Unobserved(d)'
          /\ \A d \in Fixed : dirs'[d] = None => Unobserved(d)'
      BY Zenon, <1>3, ApplyFacts, ConstantsAssumption DEF Inv, BirthInv
    <2>2. ASSUME NEW t \in Session, NEW d \in Dir, Mint(t, d)'
          PROVE  /\ d \in minted' /\ dirs'[d] = None /\ Unobserved(d)'
                 /\ wdirs'[d] # None => pc'[t] = "apply"
                 /\ \A u \in Session : Mint(u, d)' => u = t
      <3>1. /\ Mint(t, d) /\ d \in minted /\ dirs[d] = None /\ Unobserved(d)
            /\ wdirs[d] # None => pc[t] = "apply"
            /\ \A u \in Session : Mint(u, d) => u = t
        BY Zenon, <1>4, <2>2 DEF Inv, BirthInv
      <3>2. wdirs'[d] # None => pc[t] = "apply"
        BY Zenon, <3>1, ApplyFacts
      <3> QED
        BY Zenon, <1>3, <1>4, <3>1, <3>2, ApplyFacts
    <2> QED
      BY Zenon, <2>1, <2>2 DEF BirthInv
  <1>6. PostInv'
    BY ApplyFacts DEF Inv, PostInv
  <1> QED
    BY Zenon, <1>1, <1>2, <1>5, <1>6 DEF Inv

\* Rmdir takes the row away and leaves the file.
LEMMA ApplyRmdirInv ==
    ASSUME Inv, NEW s \in Session, ApplyDirOp(s), CurrentOp(s).op = "rmdir"
    PROVE  Inv'
PROOF
  <1> DEFINE op == CurrentOp(s)
             ops == tx[s].dirops
             k == tx[s].next + 1
  <1>1. /\ op.id \in Dir /\ op.ver \in Nat /\ RowAfter(op) = None /\ dirFile' = dirFile
        /\ wdirs[op.id] # None /\ wdirs[op.id].ver = op.ver
    <2>1. op \in DirOp
      BY Zenon, ApplyFacts
    <2>2. op.id \in Dir /\ op.ver \in Nat
      BY <2>1, ConstantsAssumption DEF DirOp, Ver
    <2>3. RowAfter(op) = None /\ dirFile' = dirFile
      BY Zenon DEF ApplyDirOp, RowAfter, DirFileAfter
    <2>4. wdirs[op.id] = [ver |-> op.ver, len |-> op.len] /\ wdirs[op.id] \in Row \cup {None}
      BY Zenon, <2>2 DEF ApplyDirOp, Admits, Inv, TypeOK
    <2>5. [ver |-> op.ver, len |-> op.len] \in [ver : Ver, len : 0 .. MaxLen]
      BY Zenon, <2>1 DEF DirOp
    <2>6. wdirs[op.id] # None
      BY Zenon, <2>4, <2>5, NoneAssumption
    <2> QED
      BY <2>2, <2>3, <2>4, <2>6
  <1>2. /\ pc[s] = "apply" /\ tx[s].next \in Nat /\ Orderly(ops)
        /\ k \in 1 .. Len(ops) /\ op = ops[k] /\ op.op = "rmdir"
        /\ tx'[s].dirops = ops /\ tx'[s].next = k
        /\ \A u \in Session \ {s} : pc[u] # "apply"
        /\ UNCHANGED <<dirs, pc, minted, reading>>
        /\ wdirs'[op.id] = None /\ \A d \in Dir \ {op.id} : wdirs'[d] = wdirs[d]
    BY <1>1, ApplyFacts
  <1> HIDE DEF op, ops, k
  <1>3. WriterInv'
    BY <1>1, <1>2 DEF Inv, WriterInv, HasFile
  <1>4. ReaderInv'
    BY Zenon, <1>1, <1>2 DEF Inv, ReaderInv
  <1>5. EditInv'
    <2>1. \A d \in Dir : dirs[d] = None /\ wdirs'[d] # None =>
            ops[1].op = "mkdir" /\ ops[1].id = d
      BY <1>2, EditCreates DEF ops
    <2>2. ASSUME NEW d \in Fixed, dirs[d] # None, wdirs'[d] = None
          PROVE  k < Len(ops) /\ ops[k + 1].op = "mkdir" /\ ops[k + 1].id = d
      <3>1. d \in Dir
        BY Zenon, ConstantsAssumption
      <3>2. CASE d = op.id
        BY Zenon, <1>2, <3>2 DEF Orderly
      <3>3. CASE d # op.id
        <4>1. wdirs[d] = None
          BY Zenon, <1>2, <2>2, <3>1, <3>3
        <4>2. ops[k].op = "mkdir"
          BY Zenon, <1>2, <2>2, <4>1, EditFixed DEF ops, k
        <4> QED
          BY Zenon, <1>2, <4>2
      <3> QED
        BY Zenon, <3>2, <3>3
    <2>3. dirs[op.id] # None /\ dirs[op.id].ver <= op.ver
      <3>1. dirs[op.id] = None => ops[1].op = "mkdir" /\ ops[1].id = op.id
        BY Zenon, <1>1, <1>2, EditCreates DEF ops
      <3>2. dirs[op.id] # None
        BY Zenon, <1>2, <3>1 DEF Orderly
      <3> QED
        BY Zenon, <1>1, <3>2, RowOrder
    <2>4. ASSUME NEW j \in 1 .. k, ops[j].op = "rmdir"
          PROVE  /\ dirs[ops[j].id] # None /\ dirs[ops[j].id].ver <= ops[j].ver
                 /\ wdirs'[ops[j].id] # None => wdirs'[ops[j].id].ver > ops[j].ver
      <3>1. CASE j = k
        BY Zenon, <1>2, <2>3, <3>1
      <3>2. CASE j # k
        <4>1. j \in 1 .. tx[s].next
          BY <1>2, <3>2 DEF k
        <4>2. /\ dirs[ops[j].id] # None /\ dirs[ops[j].id].ver <= ops[j].ver
              /\ wdirs[ops[j].id] # None => wdirs[ops[j].id].ver > ops[j].ver
          BY Zenon, <1>2, <2>4, <4>1, EditRemoves DEF ops
        <4>3. ops[j].id \in Dir
          BY <1>2, ApplyFacts DEF ops
        <4> QED
          BY Zenon, <1>2, <4>2, <4>3
      <3> QED
        BY Zenon, <3>1, <3>2
    <2>5. k # 0
      BY <1>2
    <2> QED
      BY Zenon, <1>2, <2>1, <2>2, <2>4, <2>5, EditStep
  <1>6. \A d \in Dir : wdirs[d] = None => wdirs'[d] = None
    BY Zenon, <1>2
  <1>7. dirFile' \in [Dir \X Ver -> File \cup {None}] /\ RowAfter(CurrentOp(s)) = None
    BY Zenon, <1>1 DEF Inv, TypeOK, op
  <1> QED
    BY Zenon, <1>3, <1>4, <1>5, <1>6, <1>7, ApplyRest


\* Updir writes behind everything any reader may look at.
LEMMA ApplyUpdirInv ==
    ASSUME Inv, NEW s \in Session, ApplyDirOp(s), CurrentOp(s).op = "updir"
    PROVE  Inv'
PROOF
  <1> DEFINE op == CurrentOp(s)
             ops == tx[s].dirops
             k == tx[s].next + 1
             at == <<op.id, op.ver>>
             new == WriteAt(dirFile[at], op.len, op.ent)
             row == [ver |-> op.ver, len |-> op.len + 1]
  <1>1. /\ op.id \in Dir /\ op.ver \in Ver /\ op.ver \in Nat /\ op.ent \in Entry
        /\ op.len \in Nat /\ op.len + 1 \in 1 .. MaxLen /\ at \in Dir \X Ver
    <2>1. op \in DirOp /\ op.len < MaxLen
      BY Zenon, ApplyFacts DEF ApplyDirOp
    <2> QED
      BY <2>1, ConstantsAssumption DEF DirOp, Ver
  <1>2. /\ wdirs[op.id] # None /\ wdirs[op.id].ver = op.ver /\ wdirs[op.id].len = op.len
        /\ RowAfter(op) = row /\ row \in Row /\ row # None
        /\ dirFile' = [dirFile EXCEPT ![at] = new]
    <2>1. wdirs[op.id] = [ver |-> op.ver, len |-> op.len]
      BY Zenon DEF ApplyDirOp, Admits
    <2>2. [ver |-> op.ver, len |-> op.len] \in [ver : Ver, len : 0 .. MaxLen]
      BY <1>1, ConstantsAssumption
    <2>3. row \in Row /\ row \in [ver : Ver, len : 0 .. MaxLen]
      BY <1>1 DEF Row
    <2>4. RowAfter(op) = row /\ dirFile' = [dirFile EXCEPT ![at] = new]
      BY Zenon DEF ApplyDirOp, RowAfter, DirFileAfter
    <2> QED
      BY <2>1, <2>2, <2>3, <2>4, NoneAssumption
  <1>3. /\ pc[s] = "apply" /\ tx[s].next \in Nat
        /\ k \in 1 .. Len(ops) /\ op = ops[k] /\ op.op = "updir"
        /\ tx'[s].dirops = ops /\ tx'[s].next = k
        /\ \A u \in Session \ {s} : pc[u] # "apply"
        /\ UNCHANGED <<dirs, pc, minted, reading>>
        /\ wdirs'[op.id] = row /\ \A d \in Dir \ {op.id} : wdirs'[d] = wdirs[d]
    BY <1>2, ApplyFacts
  \* The file: there was one, of op.len entries; one follows them.
  <1>4. /\ dirFile[at] \in File /\ new \in File /\ new[op.len + 1] = op.ent
        /\ \A i \in 1 .. op.len : dirFile[at][i] \in Entry
        /\ \A i \in 1 .. MaxLen : i # op.len + 1 => new[i] = dirFile[at][i]
    <2>1. /\ dirFile[at] \in File
          /\ \A i \in 1 .. op.len : dirFile[at][i] \in Entry
      BY Zenon, <1>1, <1>2 DEF Inv, WriterInv, HasFile
    <2> QED
      BY Zenon, <1>1, <2>1 DEF WriteAt, File
  <1>5. /\ dirFile'[at] = new /\ \A q \in Dir \X Ver : q # at => dirFile'[q] = dirFile[q]
        /\ dirFile' \in [Dir \X Ver -> File \cup {None}]
    BY Zenon, <1>1, <1>2, <1>4 DEF Inv, TypeOK
  <1> HIDE DEF op, ops, k, at, new
  <1>6. ASSUME NEW d \in Dir, NEW v \in Ver, NEW n \in 0 .. MaxLen,
               dirFile[<<d, v>>] \in File, \A i \in 1 .. n : dirFile[<<d, v>>][i] \in Entry
        PROVE  /\ dirFile'[<<d, v>>] \in File
               /\ \A i \in 1 .. n : dirFile'[<<d, v>>][i] \in Entry
    BY <1>1, <1>4, <1>5, <1>6, ConstantsAssumption
  <1>7. WriterInv'
    <2>1. \A d \in Dir : dirs[d] # None => HasFile(d, dirs[d])' /\ d \in Fixed \cup minted
      BY Zenon, <1>3, <1>6, CommittedDir DEF Inv, WriterInv, HasFile
    <2>2. ASSUME NEW d \in Dir, d # op.id, wdirs'[d] # None
          PROVE  HasFile(d, wdirs[d])' /\ d \in Fixed \cup minted
      <3>1. wdirs'[d] = wdirs[d] /\ wdirs[d].ver \in Ver /\ wdirs[d].len \in 0 .. MaxLen
        BY <1>3, <2>2, ConstantsAssumption DEF Inv, TypeOK, Row
      <3>2. HasFile(d, wdirs[d]) /\ d \in Fixed \cup minted
        BY Zenon, <2>2, <3>1 DEF Inv, WriterInv
      <3> QED
        BY Zenon, <1>6, <3>1, <3>2 DEF HasFile
    <2>3. ASSUME NEW d \in Dir, d = op.id
          PROVE  HasFile(d, wdirs[d])' /\ d \in Fixed \cup minted
      <3>1. \A i \in 1 .. op.len + 1 : new[i] \in Entry
        BY <1>1, <1>4, ConstantsAssumption
      <3>2. wdirs'[d].ver = op.ver /\ wdirs'[d].len = op.len + 1
        BY <1>3, <2>3
      <3>3. d \in Fixed \cup minted
        BY Zenon, <1>1, <1>2, <2>3 DEF Inv, WriterInv
      <3> QED
        BY Zenon, <1>4, <1>5, <2>3, <3>1, <3>2, <3>3 DEF HasFile, at
    <2>4. ASSUME NEW d \in Dir, dirs[d] # None, wdirs'[d] # None
          PROVE  \/ wdirs'[d].ver > dirs[d].ver
                 \/ wdirs'[d].ver = dirs[d].ver /\ wdirs'[d].len >= dirs[d].len
      <3>1. CASE d = op.id
        <4>1. wdirs'[d].ver = wdirs[d].ver /\ wdirs'[d].len = wdirs[d].len + 1
          BY <1>2, <1>3, <3>1
        <4>2. wdirs[d] # None
          BY Zenon, <1>2, <3>1
        <4> QED
          BY <2>4, <4>1, <4>2, RowOrder
      <3>2. CASE d # op.id
        BY Zenon, <1>3, <2>4, <3>2, RowOrder
      <3> QED
        BY Zenon, <3>1, <3>2
    <2> QED
      BY Zenon, <1>3, <2>1, <2>2, <2>3, <2>4 DEF WriterInv
  <1>8. ReaderInv'
    <2>1. ASSUME NEW r \in Reader, reading[r] # None, <<reading[r].id, reading[r].ver>> = at
          PROVE  reading[r].len <= op.len
      <3>1. reading[r].id = op.id /\ reading[r].ver = op.ver /\ reading[r].len \in Nat
        BY <2>1, ConstantsAssumption DEF at, Inv, TypeOK
      <3>2. dirs[op.id] # None
        BY Zenon, <1>1, <1>2, <1>3, <2>1, <3>1, Born, UnobservedUse
      <3>3. \/ dirs[op.id].ver > op.ver
            \/ dirs[op.id].ver = op.ver /\ dirs[op.id].len >= reading[r].len
        BY Zenon, <2>1, <3>1, <3>2 DEF Inv, ReaderInv
      <3>4. /\ dirs[op.id].ver \in Nat /\ dirs[op.id].len \in Nat
            /\ \/ op.ver > dirs[op.id].ver
               \/ op.ver = dirs[op.id].ver /\ op.len >= dirs[op.id].len
        BY Zenon, <1>1, <1>2, <3>2, RowOrder
      <3> QED
        BY <1>1, <3>1, <3>3, <3>4
    <2>2. ASSUME NEW r \in Reader, reading[r] # None,
                 dirFile'[<<reading[r].id, reading[r].ver>>] # None
          PROVE  \A i \in 1 .. reading[r].len :
                    dirFile'[<<reading[r].id, reading[r].ver>>][i] = reading[r].want[i]
      <3>1. /\ <<reading[r].id, reading[r].ver>> \in Dir \X Ver
            /\ reading[r].len \in 1 .. MaxLen
        BY Zenon, <2>2 DEF Inv, TypeOK
      <3>2. CASE <<reading[r].id, reading[r].ver>> = at
        <4>1. dirFile[at] # None
          BY Zenon, <1>4, NoneAssumption
        <4>2. \A i \in 1 .. reading[r].len : dirFile[at][i] = reading[r].want[i]
          BY Zenon, <2>2, <3>2, <4>1 DEF Inv, ReaderInv
        <4>3. reading[r].len <= op.len
          BY Zenon, <2>1, <2>2, <3>2
        <4>4. \A i \in 1 .. reading[r].len : i \in 1 .. MaxLen /\ i # op.len + 1
          BY <1>1, <3>1, <4>3, ConstantsAssumption
        <4> QED
          BY Zenon, <1>4, <1>5, <3>2, <4>2, <4>4
      <3>3. CASE <<reading[r].id, reading[r].ver>> # at
        BY <1>5, <2>2, <3>1, <3>3 DEF Inv, ReaderInv
      <3> QED
        BY Zenon, <3>2, <3>3
    <2> QED
      BY Zenon, <1>3, <2>2 DEF Inv, ReaderInv
  <1>9. EditInv'
    <2>1. \A d \in Dir : wdirs[d] = None <=> wdirs'[d] = None
      BY <1>2, <1>3
    <2>2. \A d \in Dir : dirs[d] = None /\ wdirs'[d] # None =>
            ops[1].op = "mkdir" /\ ops[1].id = d
      BY Zenon, <1>3, <2>1, EditCreates DEF ops
    <2>3. \A d \in Fixed : dirs[d] # None /\ wdirs'[d] = None => FALSE
      <3>1. \A d \in Fixed : dirs[d] # None /\ wdirs'[d] = None => ops[k].op = "mkdir"
        BY Zenon, <1>3, <2>1, ConstantsAssumption, EditFixed DEF ops, k
      <3> QED
        BY Zenon, <1>3, <3>1
    <2>4. ASSUME NEW j \in 1 .. k, ops[j].op = "rmdir"
          PROVE  /\ dirs[ops[j].id] # None /\ dirs[ops[j].id].ver <= ops[j].ver
                 /\ wdirs'[ops[j].id] # None => wdirs'[ops[j].id].ver > ops[j].ver
      <3>1. j # k
        BY Zenon, <1>3, <2>4
      <3>0. /\ tx[s].next \in Nat /\ Len(ops) \in Nat /\ tx[s].next < Len(ops)
            /\ \A i \in 1 .. Len(ops) : ops[i].id \in Dir
        BY Zenon, ApplyFacts DEF ops
      <3>2. j \in 1 .. tx[s].next /\ ops[j].id \in Dir
        <4>1. j \in 1 .. tx[s].next /\ j \in 1 .. Len(ops)
          BY <3>1, <3>0 DEF k
        <4> QED
          BY Zenon, <3>0, <4>1
      <3>3. /\ dirs[ops[j].id] # None /\ dirs[ops[j].id].ver <= ops[j].ver
            /\ wdirs[ops[j].id] # None => wdirs[ops[j].id].ver > ops[j].ver
        BY Zenon, <1>3, <2>4, <3>2, EditRemoves DEF ops
      <3>4. wdirs'[ops[j].id] # None => wdirs'[ops[j].id].ver = wdirs[ops[j].id].ver
        BY <1>2, <1>3, <3>2
      <3> QED
        BY Zenon, <2>1, <3>2, <3>3, <3>4
    <2>5. k # 0
      BY <1>3
    <2> QED
      BY Zenon, <1>3, <2>2, <2>3, <2>4, <2>5, EditStep
  <1>10. \A d \in Dir : wdirs[d] = None => wdirs'[d] = None
    BY Zenon, <1>2, <1>3
  <1> QED
    BY Zenon, <1>2, <1>5, <1>7, <1>8, <1>9, <1>10, ApplyRest DEF op

-----------------------------------------------------------------------------
\* A directory is created where nobody looks: nobody observes it, or the version
\* is newer than the committed one.
LEMMA FreshVersion ==
    ASSUME Inv, NEW s \in Session, ApplyDirOp(s), CurrentOp(s).op = "mkdir"
    PROVE  LET op == CurrentOp(s)
               ops == tx[s].dirops
           IN  /\ \/ /\ tx[s].next = 0 /\ dirs[op.id] = None /\ Unobserved(op.id)
                     /\ op.id \in Fixed \/ Mint(s, op.id)
                  \/ /\ tx[s].next > 0 /\ ops[tx[s].next].op = "rmdir"
                     /\ ops[tx[s].next].id = op.id /\ op.ver = ops[tx[s].next].ver + 1
                     /\ dirs[op.id] # None /\ dirs[op.id].ver < op.ver
               /\ op.id \in Fixed \cup minted
PROOF
  <1> DEFINE op == CurrentOp(s)
             ops == tx[s].dirops
             k == tx[s].next
  <1>1. /\ pc[s] = "apply" /\ k \in Nat /\ k < Len(ops) /\ Len(ops) \in Nat
        /\ op = ops[k + 1] /\ op.op = "mkdir" /\ Orderly(ops) /\ op.id \in Dir
        /\ \A j \in 1 .. Len(ops) : ops[j].ver \in Nat
    BY Zenon, ApplyFacts DEF DirOp
  <1>2. wdirs[op.id] = None
    BY Zenon DEF ApplyDirOp, Admits
  <1> HIDE DEF op, ops, k
  <1>3. \/ k = 0
        \/ /\ k > 0 /\ ops[k].op = "rmdir" /\ ops[k].id = op.id
           /\ op.ver = ops[k].ver + 1
    <2>1. k + 1 \in 1 .. Len(ops)
      BY <1>1
    <2>2. \/ k + 1 = 1
          \/ /\ k + 1 > 1 /\ ops[k + 1 - 1].op = "rmdir"
             /\ ops[k + 1 - 1].id = ops[k + 1].id
             /\ ops[k + 1].ver = ops[k + 1 - 1].ver + 1
      BY <1>1, <2>1 DEF Orderly
    <2>3. k + 1 - 1 = k
      BY <1>1
    <2> QED
      BY <1>1, <2>2, <2>3
  <1>4. CASE k = 0
    <2>1. dirs[op.id] = None
      BY Zenon, <1>1, <1>2, <1>4 DEF Inv, EditInv, k
    <2>2. op.id \in Fixed \/ Mint(s, op.id)
      BY <1>1, <1>4 DEF Mint, Committing, ops
    <2>3. Unobserved(op.id) /\ op.id \in Fixed \cup minted
      BY Zenon, <1>1, <2>1, <2>2 DEF Inv, BirthInv
    <2> QED
      BY Zenon, <1>4, <2>1, <2>2, <2>3 DEF op, ops, k
  <1>5. CASE k > 0 /\ ops[k].op = "rmdir" /\ ops[k].id = op.id /\ op.ver = ops[k].ver + 1
    <2>1. dirs[op.id] # None /\ dirs[op.id].ver <= ops[k].ver
      <3>1. k \in 1 .. tx[s].next
        BY <1>1, <1>5 DEF k
      <3>2. \A j \in 1 .. tx[s].next : ops[j].op = "rmdir" =>
              dirs[ops[j].id] # None /\ dirs[ops[j].id].ver <= ops[j].ver
        BY Zenon, <1>1, EditRemoves DEF ops
      <3> QED
        BY Zenon, <1>5, <3>1, <3>2
    <2>2. dirs[op.id].ver < op.ver
      <3>1. ops[k].ver \in Nat
        BY <1>1, <1>5
      <3> QED
        BY <1>1, <1>5, <2>1, <3>1, RowOrder
    <2>3. op.id \in Fixed \cup minted
      BY Zenon, <1>1, <2>1 DEF Inv, WriterInv
    <2> QED
      BY Zenon, <1>5, <2>1, <2>2, <2>3 DEF op, ops, k
  <1> QED
    BY Zenon, <1>3, <1>4, <1>5

\* Mkdir writes a file nobody may look at.
LEMMA ApplyMkdirInv ==
    ASSUME Inv, NEW s \in Session, ApplyDirOp(s), CurrentOp(s).op = "mkdir"
    PROVE  Inv'
PROOF
  <1> DEFINE op == CurrentOp(s)
             ops == tx[s].dirops
             k == tx[s].next + 1
             at == <<op.id, op.ver>>
             new == Created(op.ent)
             row == [ver |-> op.ver, len |-> 1]
  <1>1. /\ op.id \in Dir /\ op.ver \in Ver /\ op.ver \in Nat /\ op.ent \in Entry
        /\ at \in Dir \X Ver
    <2>1. op \in DirOp
      BY Zenon, ApplyFacts
    <2> QED
      BY <2>1, ConstantsAssumption DEF DirOp, Ver
  <1>2. /\ wdirs[op.id] = None /\ RowAfter(op) = row /\ row \in Row /\ row # None
        /\ dirFile' = [dirFile EXCEPT ![at] = new]
    <2>1. wdirs[op.id] = None
      BY Zenon DEF ApplyDirOp, Admits
    <2>2. row \in Row /\ row \in [ver : Ver, len : 0 .. MaxLen]
      BY <1>1, ConstantsAssumption DEF Row
    <2>3. RowAfter(op) = row /\ dirFile' = [dirFile EXCEPT ![at] = new]
      BY Zenon DEF ApplyDirOp, RowAfter, DirFileAfter
    <2> QED
      BY Zenon, <2>1, <2>2, <2>3, NoneAssumption
  <1>3. /\ pc[s] = "apply" /\ tx[s].next \in Nat
        /\ k \in 1 .. Len(ops) /\ op = ops[k] /\ op.op = "mkdir" /\ Orderly(ops)
        /\ tx'[s].dirops = ops /\ tx'[s].next = k
        /\ \A u \in Session \ {s} : pc[u] # "apply"
        /\ UNCHANGED <<dirs, pc, minted, reading>>
        /\ wdirs'[op.id] = row /\ \A d \in Dir \ {op.id} : wdirs'[d] = wdirs[d]
    BY <1>2, ApplyFacts
  <1>4. new \in File /\ new[1] = op.ent
    BY <1>1, ConstantsAssumption DEF Created, File
  <1>5. /\ dirFile'[at] = new /\ \A q \in Dir \X Ver : q # at => dirFile'[q] = dirFile[q]
        /\ dirFile' \in [Dir \X Ver -> File \cup {None}]
    BY Zenon, <1>1, <1>2, <1>4 DEF Inv, TypeOK
  <1>6. /\ \/ /\ k = 1 /\ dirs[op.id] = None /\ Unobserved(op.id)
              /\ op.id \in Fixed \/ Mint(s, op.id)
           \/ /\ k > 1 /\ ops[k - 1].op = "rmdir" /\ ops[k - 1].id = op.id
              /\ op.ver = ops[k - 1].ver + 1
              /\ dirs[op.id] # None /\ dirs[op.id].ver < op.ver
        /\ op.id \in Fixed \cup minted
    <2>1. k - 1 = tx[s].next
      BY <1>3
    <2> HIDE DEF k
    <2>2. /\ \/ /\ k - 1 = 0 /\ dirs[op.id] = None /\ Unobserved(op.id)
                /\ op.id \in Fixed \/ Mint(s, op.id)
             \/ /\ k - 1 > 0 /\ ops[k - 1].op = "rmdir" /\ ops[k - 1].id = op.id
                /\ op.ver = ops[k - 1].ver + 1
                /\ dirs[op.id] # None /\ dirs[op.id].ver < op.ver
          /\ op.id \in Fixed \cup minted
      BY Zenon, <2>1, FreshVersion
    <2>3. k \in Nat
      BY <1>3
    <2>4. (k - 1 = 0 => k = 1) /\ (k - 1 > 0 => k > 1)
      BY <2>3
    <2> HIDE DEF op, ops
    <2> QED
      BY Zenon, <2>2, <2>4
  <1> HIDE DEF op, ops, k, at, new
  <1>7. WriterInv'
    <2>1. ASSUME NEW d \in Dir, dirs[d] # None
          PROVE  HasFile(d, dirs[d])' /\ d \in Fixed \cup minted
      <3>1. dirs[d].ver \in Ver /\ dirs[d].ver \in Nat
        BY Zenon, <2>1, CommittedDir, RowOrder
      <3>2. <<d, dirs[d].ver>> # at
        BY <1>1, <1>6, <2>1, <3>1 DEF at
      <3> QED
        BY Zenon, <1>3, <1>5, <2>1, <3>1, <3>2 DEF Inv, WriterInv, HasFile
    <2>2. ASSUME NEW d \in Dir, d # op.id, wdirs'[d] # None
          PROVE  HasFile(d, wdirs[d])' /\ d \in Fixed \cup minted
      <3>1. wdirs'[d] = wdirs[d] /\ wdirs[d].ver \in Ver
        BY <1>3, <2>2 DEF Inv, TypeOK, Row
      <3>2. HasFile(d, wdirs[d]) /\ d \in Fixed \cup minted
        BY Zenon, <2>2, <3>1 DEF Inv, WriterInv
      <3>3. dirFile'[<<d, wdirs[d].ver>>] = dirFile[<<d, wdirs[d].ver>>]
        BY Zenon, <1>5, <2>2, <3>1 DEF at
      <3> QED
        BY Zenon, <3>1, <3>2, <3>3 DEF HasFile
    <2>3. ASSUME NEW d \in Dir, d = op.id
          PROVE  HasFile(d, wdirs[d])' /\ d \in Fixed \cup minted
      <3>1. wdirs'[d].ver = op.ver /\ wdirs'[d].len = 1
        BY <1>3, <2>3
      <3> QED
        BY <1>1, <1>4, <1>5, <1>6, <2>3, <3>1 DEF HasFile, at
    <2>4. ASSUME NEW d \in Dir, dirs[d] # None, wdirs'[d] # None
          PROVE  \/ wdirs'[d].ver > dirs[d].ver
                 \/ wdirs'[d].ver = dirs[d].ver /\ wdirs'[d].len >= dirs[d].len
      <3>1. CASE d = op.id
        BY <1>1, <1>3, <1>6, <2>4, <3>1, RowOrder
      <3>2. CASE d # op.id
        BY Zenon, <1>3, <2>4, <3>2, RowOrder
      <3> QED
        BY Zenon, <3>1, <3>2
    <2> QED
      BY Zenon, <1>3, <2>1, <2>2, <2>3, <2>4 DEF WriterInv
  <1>8. ReaderInv'
    <2>1. ASSUME NEW r \in Reader, reading[r] # None
          PROVE  /\ <<reading[r].id, reading[r].ver>> # at
                 /\ <<reading[r].id, reading[r].ver>> \in Dir \X Ver
      <3>1. reading[r].id \in Dir /\ reading[r].ver \in Ver /\ reading[r].ver \in Nat
        BY <2>1, ConstantsAssumption DEF Inv, TypeOK, Ver
      <3>2. ASSUME reading[r].id = op.id, reading[r].ver = op.ver
            PROVE  FALSE
        <4>1. dirs[op.id] # None /\ dirs[op.id].ver < op.ver
          BY Zenon, <1>1, <1>6, <2>1, <3>2, UnobservedUse
        <4>2. dirs[op.id].ver > op.ver \/ dirs[op.id].ver = op.ver
          BY Zenon, <2>1, <3>2, <4>1 DEF Inv, ReaderInv
        <4>3. dirs[op.id].ver \in Nat
          BY Zenon, <1>1, <4>1, RowOrder
        <4>4. op.ver \in Nat
          BY Zenon, <1>1
        <4> QED
          BY Zenon, <4>1, <4>2, <4>3, <4>4, Later
      <3> QED
        BY Zenon, <3>1, <3>2 DEF at
    <2> QED
      BY <1>3, <1>5, <2>1 DEF Inv, ReaderInv
  <1>9. EditInv'
    <2>1. \A d \in Dir : dirs[d] = None /\ wdirs'[d] # None =>
            ops[1].op = "mkdir" /\ ops[1].id = d
      <3>1. \A d \in Dir \ {op.id} : dirs[d] = None /\ wdirs'[d] # None =>
              ops[1].op = "mkdir" /\ ops[1].id = d
        BY Zenon, <1>3, EditCreates DEF ops
      <3> QED
        BY <1>3, <1>6, <3>1
    <2>2. \A d \in Fixed : dirs[d] # None /\ wdirs'[d] = None => FALSE
      <3>1. \A d \in Fixed : dirs[d] # None /\ wdirs[d] = None => ops[k].id = d
        BY Zenon, <1>3, ConstantsAssumption, EditFixed DEF ops, k
      <3> QED
        BY Zenon, <1>2, <1>3, <3>1, ConstantsAssumption
    <2>3. ASSUME NEW j \in 1 .. k, ops[j].op = "rmdir"
          PROVE  /\ dirs[ops[j].id] # None /\ dirs[ops[j].id].ver <= ops[j].ver
                 /\ wdirs'[ops[j].id] # None => wdirs'[ops[j].id].ver > ops[j].ver
      <3>1. j # k
        BY Zenon, <1>3, <2>3
      <3>0. /\ tx[s].next \in Nat /\ Len(ops) \in Nat /\ tx[s].next < Len(ops)
            /\ \A i \in 1 .. Len(ops) : ops[i].id \in Dir /\ ops[i].ver \in Nat
        BY Zenon, ApplyFacts DEF ops
      <3>2. j \in 1 .. tx[s].next /\ j \in 1 .. Len(ops) /\ ops[j].id \in Dir /\ ops[j].ver \in Nat
        <4>1. j \in 1 .. tx[s].next /\ j \in 1 .. Len(ops)
          BY <3>1, <3>0 DEF k
        <4> QED
          BY Zenon, <3>0, <4>1
      <3>3. /\ dirs[ops[j].id] # None /\ dirs[ops[j].id].ver <= ops[j].ver
            /\ wdirs[ops[j].id] # None => wdirs[ops[j].id].ver > ops[j].ver
        BY Zenon, <1>3, <2>3, <3>2, EditRemoves DEF ops
      <3>4. CASE ops[j].id = op.id
        <4>1. /\ k - 1 \in 1 .. Len(ops) /\ ops[k - 1].op = "rmdir" /\ ops[k - 1].id = op.id
              /\ op.ver = ops[k - 1].ver + 1
          <5>1. /\ k > 1 /\ ops[k - 1].op = "rmdir" /\ ops[k - 1].id = op.id
                /\ op.ver = ops[k - 1].ver + 1
            BY Zenon, <1>6, <3>3, <3>4
          <5>2. k \in 1 .. Len(ops) /\ Len(ops) \in Nat
            BY Zenon, <1>3, <3>0
          <5> QED
            BY <5>1, <5>2
        <4>2. j = k - 1
          <5>1. Orderly(ops)
            BY Zenon, <1>3
          <5> QED
            BY Zenon, <2>3, <3>2, <3>4, <4>1, <5>1 DEF Orderly
        <4>3. wdirs'[ops[j].id].ver = ops[j].ver + 1
          <5>1. wdirs'[op.id] = row
            BY Zenon, <1>3
          <5>2. wdirs'[op.id].ver = op.ver
            BY <5>1
          <5> QED
            BY Zenon, <3>4, <4>1, <4>2, <5>2
        <4> QED
          BY <3>2, <3>3, <4>3
      <3>5. CASE ops[j].id # op.id
        BY Zenon, <1>3, <3>2, <3>3, <3>5
      <3> QED
        BY Zenon, <3>4, <3>5
    <2>4. k # 0
      BY <1>3
    <2> QED
      BY Zenon, <1>3, <2>1, <2>2, <2>3, <2>4, EditStep
  <1>10. \A t \in Session, d \in Dir :
           Mint(t, d) /\ wdirs[d] = None /\ wdirs'[d] # None => t = s
    <2>1. \A d \in Dir : wdirs[d] = None /\ wdirs'[d] # None => d = op.id
      BY Zenon, <1>3
    <2>2. \A t \in Session : Mint(t, op.id) => t = s
      BY Zenon, <1>1, <1>6 DEF Inv, BirthInv, Mint
    <2> QED
      BY Zenon, <2>1, <2>2
  <1> QED
    BY Zenon, <1>2, <1>5, <1>7, <1>8, <1>9, <1>10, ApplyRest DEF op


-----------------------------------------------------------------------------
(* Every step preserves the invariant. *)

\* Building a transaction preserves the invariant.
LEMMA BuildInv ==
    ASSUME Inv, NEW s \in Session, Build(s)
    PROVE  Inv'
PROOF
  <1>1. ASSUME NEW d \in Dir, CreateRoot(s, d) PROVE Inv'
    BY Zenon, <1>1, CreateRootInv
  <1>2. ASSUME NEW d \in Dir, StartEdit(s, d) PROVE Inv'
    BY Zenon, <1>2, StartEditInv
  <1>3. ASSUME NEW d \in Dir, Rename(s, d) PROVE Inv'
    BY Zenon, <1>3, RenameInv
  <1>4. ASSUME NEW c \in Dir, NEW p \in Dir, MakeSubdir(s, c, p) PROVE Inv'
    BY Zenon, <1>4, MakeSubdirInv
  <1>5. ASSUME NEW c \in Dir, NEW p \in Dir, RemoveSubdir(s, c, p) PROVE Inv'
    BY Zenon, <1>5, RemoveSubdirInv
  <1>6. ASSUME NEW o \in Obj, NEW l \in Link, LinkObj(s, o, l) PROVE Inv'
    BY Zenon, <1>6, LinkObjInv
  <1>7. ASSUME NEW o \in Obj, NEW l \in Link, PutObjInsert(s, o, l) PROVE Inv'
    BY Zenon, <1>7, PutObjInsertInv
  <1>8. CASE PutObjPersist(s)
    BY Zenon, <1>8, PutObjPersistInv
  <1>9. CASE FinishEdit(s)
    BY Zenon, <1>9, FinishEditInv
  <1>10. CASE Abort(s)
    BY Zenon, <1>10, ForgetInv DEF Abort, Forget
  <1> QED
    BY Zenon, <1>1, <1>2, <1>3, <1>4, <1>5, <1>6, <1>7, <1>8, <1>9, <1>10 DEF Build

\* So does every step of a commit.
LEMMA CommitInv ==
    ASSUME Inv, NEW s \in Session, Commit(s)
    PROVE  Inv'
PROOF
  <1>1. CASE BeginCommit(s)
    BY Zenon, <1>1, BeginCommitInv
  <1>2. CASE LockTimeout(s)
    BY Zenon, <1>2, ForgetInv DEF LockTimeout
  <1>3. ASSUME NEW b \in Block, ApplyLink(s, b) PROVE Inv'
    BY Zenon, <1>3, ApplyLinkInv
  <1>4. CASE ApplyDirOp(s)
    <2>1. CurrentOp(s).op \in {"mkdir", "updir", "rmdir"}
      BY Zenon, <1>4, ApplyFacts DEF DirOp
    <2> QED
      BY Zenon, <1>4, <2>1, ApplyMkdirInv, ApplyUpdirInv, ApplyRmdirInv
  <1>5. CASE RejectCommit(s) \/ FailCommit(s)
    BY Zenon, <1>5, RollbackInv DEF RejectCommit, FailCommit, AtDirOp
  <1>6. CASE CommitTx(s)
    BY Zenon, <1>6, CommitTxInv
  <1>7. CASE PostCommit(s)
    BY Zenon, <1>7, PostCommitInv
  <1> QED
    BY Zenon, <1>1, <1>2, <1>3, <1>4, <1>5, <1>6, <1>7 DEF Commit

\* So does every step.
LEMMA NextInv == Inv /\ [Next]_vars => Inv'
PROOF
  <1> SUFFICES ASSUME Inv, [Next]_vars PROVE Inv'
    BY Zenon
  <1>1. ASSUME NEW s \in Session, Build(s) PROVE Inv'
    BY Zenon, <1>1, BuildInv
  <1>2. ASSUME NEW s \in Session, Commit(s) PROVE Inv'
    BY Zenon, <1>2, CommitInv
  <1>3. ASSUME NEW s \in Session, Clean(s) PROVE Inv'
    BY Zenon, <1>3, BeginCleanInv, EndCleanInv, CleanObjectInv DEF Clean
  <1>4. ASSUME NEW s \in Session, Crash(s) PROVE Inv'
    BY Zenon, <1>4, CrashInv
  <1>5. ASSUME NEW r \in Reader, GetDir(r) PROVE Inv'
    BY Zenon, <1>5, GetDirRowInv, GetDirEndInv DEF GetDir
  <1>6. CASE UNCHANGED vars
    <2> USE <1>6 DEF vars
    <2>1. TypeOK'
      BY Zenon DEF Inv, TypeOK
    <2>2. TxInv'
      BY Zenon DEF Inv, TxInv
    <2> QED
      BY Zenon, <2>1, <2>2, Frame
  <1> QED
    BY Zenon, <1>1, <1>2, <1>3, <1>4, <1>5, <1>6 DEF Next

\* In every state of every execution the invariant holds.
THEOREM Invariance == Spec => []Inv
PROOF
  BY InitInv, NextInv, PTL DEF Spec

-----------------------------------------------------------------------------
(* What follows. *)

S == INSTANCE SequenceTheorems

\* The tables, files, transactions and reads of the store keep their shapes, and
\* exactly the sessions inside do_commit or do_clean_up hold the write lock.
THEOREM TypeCorrect == Spec => []TypeOK
PROOF
  <1>1. Inv => TypeOK
    BY Zenon DEF Inv
  <1> QED
    BY <1>1, Invariance, PTL

\* getdir returns what was committed when it read its row, or starts over: no
\* append, rewrite, rollback, removal or crash of any number of sessions changes
\* the bytes under a reader.
THEOREM ReadersSafe == Spec => []ReadersSeeCommitted
PROOF
  <1>1. Inv => ReadersSeeCommitted
    <2> SUFFICES ASSUME Inv, NEW r \in Reader, reading[r] # None,
                        dirFile[<<reading[r].id, reading[r].ver>>] # None
                 PROVE  Content(dirFile[<<reading[r].id, reading[r].ver>>], reading[r].len)
                          = reading[r].want
      BY Zenon DEF ReadersSeeCommitted
    <2>1. /\ DOMAIN reading[r].want = 1 .. reading[r].len
          /\ \A i \in 1 .. reading[r].len :
               dirFile[<<reading[r].id, reading[r].ver>>][i] = reading[r].want[i]
      BY Zenon DEF Inv, ReaderInv
    <2>2. reading[r].want \in Seq(Entry)
      BY Zenon DEF Inv, TypeOK
    <2>3. reading[r].len \in Nat /\ Len(reading[r].want) = reading[r].len
      BY <2>1, <2>2, ConstantsAssumption DEF Inv, TypeOK
    <2> DEFINE c == Content(dirFile[<<reading[r].id, reading[r].ver>>], reading[r].len)
    <2>4. c \in Seq(Entry) /\ Len(c) = reading[r].len
      <3>1. \A i \in 1 .. reading[r].len : reading[r].want[i] \in Entry
        BY <2>2, <2>3
      <3>2. \A i \in 1 .. reading[r].len :
              dirFile[<<reading[r].id, reading[r].ver>>][i] \in Entry
        BY Zenon, <2>1, <3>1
      <3> QED
        BY <2>3, <3>2 DEF Content
    <2>5. \A i \in 1 .. Len(c) : c[i] = reading[r].want[i]
      BY Zenon, <2>1, <2>4 DEF Content
    <2> QED
      BY Zenon, <2>2, <2>3, <2>4, <2>5, S!SeqEqual
  <1> QED
    BY <1>1, Invariance, PTL

\* getdir starts over only when there is a newer row to read, so that its retry
\* loop is never spent on a directory that is really there.
THEOREM RetrySafe == Spec => []RetryFindsNewRow
PROOF
  <1>1. Inv => RetryFindsNewRow
    <2> SUFFICES ASSUME Inv, NEW r \in Reader, reading[r] # None,
                        dirs[reading[r].id] # None, dirs[reading[r].id].ver = reading[r].ver
                 PROVE  dirFile[<<reading[r].id, reading[r].ver>>] # None
      BY Zenon DEF RetryFindsNewRow
    <2>1. reading[r].id \in Dir
      BY Zenon DEF Inv, TypeOK
    <2> QED
      BY Zenon, <2>1, NoneAssumption DEF Inv, WriterInv, HasFile
  <1> QED
    BY <1>1, Invariance, PTL

=============================================================================
