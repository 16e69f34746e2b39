-------------------------- MODULE PosixQuietProofs --------------------------
(* What is in the directory while no user interferes, for any names, contents,
   syncs and crashes. *)
EXTENDS PosixReplicaProofs

-----------------------------------------------------------------------------
(* The inductive invariant. *)

\* A name with something the caller does not know of.
Stray(n) == known[n] = None /\ fs[n] # None

\* What the caller believes to be at n is at m.
Keeps(m, n) == Stray(m) /\ (fs[m].c = known[n] \/ fs[m].x # "no")

\* The names whose contents are about to change: the one an update has chosen to
\* move the old file to, and one that is new.
Aside ==
    {m \in Name : /\ op # None /\ op.do = "put"
                  /\ (op.m = m /\ op.n # m) \/ (op.n = m /\ op.at = "stat")}

\* An update of n failed after the new file was in place: the old one is still
\* where it was moved to.
Stuck(n) ==
    /\ known[n] # None /\ fs[n] # None /\ n \notin todo
    /\ \E m \in Name \ Aside : Keeps(m, n)

\* A name on which no operation works: as the caller believes, or left over
\* from an update that failed.
Settled(n) == Agrees(n) \/ (~ok /\ (Stray(n) \/ Stuck(n)))

\* A name the operation under way has not changed yet.
Untouched(n) == n \notin todo /\ (Agrees(n) \/ (~ok /\ Stray(n)))

\* The caller knows of n what it was listed as.
AsListed(n) == known[n] = ContentOf(listed[n])

\* The listing: names listed agree; the others are still to come.
ListQuiet ==
    pc = "list" =>
        /\ op # None => op.do = "hash" /\ op.n \in todo
        /\ \A n \in Name : AsListed(n) /\ (n \in todo => listed[n] = None)
                           /\ (n \notin todo => Agrees(n))

PutQuiet ==
    op.do = "put" =>
        /\ op.at \in {"xfer", "check", "shunt", "move", "do", "stat", "tidy"}
        /\ ~Shunted => op.at = "stat" \/ Untouched(op.n)
        /\ ~Shunted /\ op.at = "do" /\ op.old = None => fs[op.n] = None
        /\ op.at \in {"stat", "tidy"} => ContentOf(fs[op.n]) = op.c
        /\ Shunted => /\ known[op.m] = None
                      /\ op.at = "move" => Untouched(op.n) /\ fs[op.m] = None
                      /\ op.at = "do" => fs[op.n] = None
                      /\ op.at # "move" => Keeps(op.m, op.n)

MoveQuiet ==
    op.do = "rename" =>
        /\ op.at \in {"check", "do"} /\ op.old # None
        /\ known[op.m] = None /\ Untouched(op.n) /\ Untouched(op.m)
        /\ op.at = "do" => fs[op.m] = None

RestQuiet ==
    op.do \in {"remove", "touch", "send", "rmdir"} =>
        /\ ~Shunted /\ op.old # None /\ Untouched(op.n)
        /\ op.do = "touch" => op.c = op.old.c
        /\ op.do = "send" /\ op.at = "finish" => op.got = ContentOf(fs[op.n])

OpQuiet ==
    /\ op.do # "hash" /\ op.n \notin todo /\ known[op.n] = ContentOf(op.old)
    /\ PutQuiet /\ MoveQuiet /\ RestQuiet

\* The operations: every other name is settled.
WorkQuiet ==
    pc = "work" =>
        /\ \A n \in todo : AsListed(n)
        /\ \A n \in Name : (op # None => n \notin {op.n, op.m}) => Settled(n)
        /\ op # None => OpQuiet

Calm ==
    /\ known \in [Name -> Content \cup {Folder, Unknown, None}]
    /\ quiet => pc \in {"list", "work"} /\ ListQuiet /\ WorkQuiet

-----------------------------------------------------------------------------
(* What an operation leaves alone. *)

\* A settled name stays so while it and whatever is left over stay as they are.
LEMMA StaysSettled ==
    ASSUME NEW n \in Name, Settled(n), fs'[n] = fs[n], known'[n] = known[n],
           todo' \subseteq todo, ok' => ok,
           \A q \in Name : Stray(q) /\ q \notin Aside =>
               fs'[q] = fs[q] /\ known'[q] = known[q] /\ q \notin Aside'
    PROVE  Settled(n)'
<1>1. CASE Agrees(n)
  BY Zenon, <1>1 DEF Settled, Agrees, ContentOf
<1>2. CASE Stray(n) /\ ~ok
  BY Zenon, <1>2 DEF Settled, Stray
<1>3. CASE Stuck(n) /\ ~ok
  <2>1. PICK m \in Name \ Aside : Keeps(m, n)
    BY Zenon, <1>3 DEF Stuck
  <2>2. m \in Name \ Aside' /\ Keeps(m, n)'
    BY Zenon, <2>1 DEF Keeps, Stray
  <2>3. known'[n] # None /\ fs'[n] # None /\ n \notin todo'
    BY Zenon, <1>3 DEF Stuck
  <2> QED BY Zenon, <1>3, <2>2, <2>3 DEF Settled, Stuck
<1> QED BY <1>1, <1>2, <1>3 DEF Settled

\* The end of an operation on a (and b).
LEMMA Ends ==
    ASSUME Calm, quiet, pc = "work", op # None, op' = None, NoMark, ok' => ok,
           NEW a \in Name, NEW b \in Name, op.n = a, op.m = b,
           known' \in [Name -> Content \cup {Folder, Unknown, None}],
           \A q \in Name \ {a, b} : fs'[q] = fs[q] /\ known'[q] = known[q],
           \A q \in Name : Stray(q) /\ q \notin Aside =>
               fs'[q] = fs[q] /\ known'[q] = known[q],
           \A q \in todo : known'[q] = known[q],
           Settled(a)', Settled(b)'
    PROVE  Calm'
<1>1. pc' = "work" /\ UNCHANGED <<todo, listed>>
  BY Zenon DEF NoMark
<1>2. Aside' = {}
  BY Zenon DEF Aside
<1>3. \A n \in todo' : AsListed(n)'
  BY Zenon, <1>1 DEF Calm, WorkQuiet, AsListed, ContentOf
<1>4. ASSUME NEW n \in Name PROVE Settled(n)'
  <2>1. CASE n \in {a, b}
    BY Zenon, <2>1
  <2>2. CASE n \notin {a, b}
    <3>1. Settled(n)
      BY Zenon, <2>2 DEF Calm, WorkQuiet
    <3> QED BY ZenonT(60), <1>1, <1>2, <2>2, <3>1, StaysSettled
  <2> QED BY <2>1, <2>2
<1> QED BY <1>1, <1>3, <1>4 DEF Calm, WorkQuiet, ListQuiet

\* An operation on a (and b) goes on.
LEMMA GoesOn ==
    ASSUME Calm, quiet, pc = "work", op # None, op' # None, NoMark, UNCHANGED <<known, ok>>,
           NEW a \in Name, NEW b \in Name, op.n = a, op.m \in {a, b},
           op'.n = a, op'.m = b,
           \A q \in Name \ {a, b} : fs'[q] = fs[q],
           \A q \in Name : Stray(q) /\ q \notin Aside => fs'[q] = fs[q] /\ q \notin Aside',
           OpQuiet'
    PROVE  Calm'
<1>1. pc' = "work" /\ UNCHANGED <<todo, listed>>
  BY Zenon DEF NoMark
<1>2. \A n \in todo' : AsListed(n)'
  BY Zenon, <1>1 DEF Calm, WorkQuiet, AsListed, ContentOf
<1>3. ASSUME NEW n \in Name, n \notin {a, b} PROVE Settled(n)'
  <2>1. Settled(n)
    BY Zenon, <1>3 DEF Calm, WorkQuiet
  <2> QED BY ZenonT(60), <1>1, <1>3, <2>1, StaysSettled
<1> QED BY <1>1, <1>2, <1>3 DEF Calm, WorkQuiet, ListQuiet

-----------------------------------------------------------------------------
(* The initial states, and the listing. *)

\* Without a listing there is nothing to say.
LEMMA NotQuiet ==
    ASSUME Calm, ~quiet', UNCHANGED known \/ known' = Nothing PROVE Calm'
<1>1. Nothing \in [Name -> Content \cup {Folder, Unknown, None}]
  BY Zenon DEF Nothing
<1> QED BY Zenon, <1>1 DEF Calm

\* list reads the directory.
LEMMA ListCalm == ASSUME Inv, Calm, List PROVE Calm'
<1>1. /\ pc' = IF Present = {} THEN "work" ELSE "list"
      /\ todo' = IF Present = {} THEN Name ELSE Present
      /\ known' = Nothing /\ listed' = Nothing /\ UNCHANGED <<fs, op, ok>> /\ op = None
  BY Zenon DEF List, disk, Inv, OpInv
<1>2. \A n \in Name : known'[n] = None /\ listed'[n] = None
  BY Zenon, <1>1 DEF Nothing
<1>3. \A n \in Name : AsListed(n)'
  BY Zenon, <1>2 DEF AsListed, ContentOf
<1>4. \A n \in Name : fs[n] = None => Agrees(n)'
  BY Zenon, <1>1, <1>2 DEF Agrees, ContentOf
<1>5. known' \in [Name -> Content \cup {Folder, Unknown, None}]
  BY Zenon, <1>1 DEF Nothing
<1>6. CASE Present = {}
  <2>1. \A n \in Name : Agrees(n)'
    BY Zenon, <1>4, <1>6 DEF Present
  <2> QED BY Zenon, <1>1, <1>3, <1>5, <1>6, <2>1 DEF Calm, ListQuiet, WorkQuiet, Settled
<1>7. CASE Present # {}
  <2>1. \A n \in Name : n \notin todo' => Agrees(n)'
    BY Zenon, <1>1, <1>4, <1>7 DEF Present
  <2>2. pc' = "list" /\ op' = None
    BY Zenon, <1>1, <1>7
  <2> QED BY Zenon, <1>2, <1>3, <1>5, <2>1, <2>2 DEF Calm, ListQuiet, WorkQuiet
<1> QED BY <1>6, <1>7

\* An entry of the listing whose content is right.
LEMMA ListedCalm ==
    ASSUME Inv, Calm, pc = "list", NEW n \in Name, n \in todo, NEW fd \in Told, Listed(n, fd),
           UNCHANGED <<fs, ok, quiet>>,
           fs[n] # None /\ (fs[n].c = fd.c \/ fs[n].x # "no")
    PROVE  Calm'
<1>1. fd.c \in Content \cup {Folder} /\ fd # None
  BY Zenon, ConstantsAssumption DEF Told
<1>2. known' \in [Name -> Content \cup {Folder, Unknown, None}]
  BY Zenon, <1>1 DEF Calm, Listed
<1> SUFFICES ASSUME quiet PROVE Calm'
  BY Zenon, <1>2 DEF Calm
<1>3. /\ known'[n] = fd.c /\ listed'[n] = fd
      /\ \A q \in Name \ {n} : known'[q] = known[q] /\ listed'[q] = listed[q]
  BY Zenon DEF Calm, Listed, Inv, Shape
<1>4. \A q \in Name : AsListed(q)'
  BY Zenon, <1>1, <1>3 DEF Calm, ListQuiet, AsListed, ContentOf
<1>5. Agrees(n)'
  BY Zenon, <1>3 DEF Agrees, ContentOf
<1>6. \A q \in Name : q \notin todo => Agrees(q)'
  BY Zenon, <1>3 DEF Calm, ListQuiet, Agrees, ContentOf
<1>7. op' = None
  BY Zenon DEF Listed
<1>8. CASE todo = {n}
  <2>1. pc' = "work" /\ \A q \in Name : Agrees(q)'
    BY Zenon, <1>5, <1>6, <1>8 DEF Listed
  <2>2. todo' \subseteq Name
    BY Zenon, <1>8 DEF Listed
  <2> QED BY Zenon, <1>2, <1>4, <1>7, <2>1, <2>2 DEF Calm, ListQuiet, WorkQuiet, Settled
<1>9. CASE todo # {n}
  <2>1. pc' = "list" /\ todo' = todo \ {n}
    BY Zenon, <1>9 DEF Listed
  <2>2. \A q \in Name : q \notin todo' => Agrees(q)'
    BY Zenon, <1>5, <1>6, <2>1
  <2>3. \A q \in Name : q \in todo' => listed'[q] = None
    BY Zenon, <1>3, <2>1 DEF Calm, ListQuiet
  <2> QED BY Zenon, <1>2, <1>4, <1>7, <2>1, <2>2, <2>3 DEF Calm, ListQuiet, WorkQuiet
<1> QED BY <1>8, <1>9

\* list takes the status of an entry: what the cache knows is right.
LEMMA ListStatCalm == ASSUME Inv, Calm, NEW n \in Name, ListStat(n) PROVE Calm'
<1>1. pc = "list" /\ op = None /\ n \in todo /\ UNCHANGED fs /\ n \in Path
  BY Zenon DEF ListStat, Path
<1>2. CASE ListFails
  BY Zenon, <1>2, NotQuiet DEF ListFails
<1>3. CASE fs[n] # None /\ Fd(n).c # Unknown /\ Listed(n, Fd(n)) /\ UNCHANGED <<ok, quiet>>
  <2>1. Fd(n) \in Told
    BY Zenon, <1>1, <1>3, FdShape DEF Inv
  <2>2. fs[n].c = Fd(n).c \/ fs[n].x # "no"
    <3>1. CASE fs[n].c = Folder
      BY <1>3, <3>1 DEF Fd, ContentOf, Data
    <3>2. CASE fs[n].c # Folder
      <4>1. Fd(n) = Data(IF Hit(n) THEN cache[n].c ELSE Unknown, fs[n].t)
        BY Zenon, <1>3, <3>2 DEF Fd, ContentOf
      <4>2. Hit(n) /\ Fd(n).c = cache[n].c
        BY <1>3, <4>1 DEF Data
      <4> QED BY Zenon, <1>1, <4>2 DEF Hit, Inv, DiskInv, CacheInv
    <3> QED BY <3>1, <3>2
  <2> QED BY Zenon, <1>1, <1>3, <2>1, <2>2, ListedCalm
<1>4. CASE /\ fs[n] # None
           /\ op' = [Operation("hash", n, n, None, None, "hash") EXCEPT !.t = fs[n].t]
           /\ UNCHANGED <<cache, pc, listed, sum, todo, ok, known, quiet>>
  <2>1. op'.do = "hash" /\ op'.n = n
    BY Zenon, <1>4 DEF Operation
  <2>2. \A q \in Name : /\ AsListed(q) => AsListed(q)'
                        /\ Agrees(q) => Agrees(q)'
    <3>1. fs' = fs /\ known' = known /\ listed' = listed
      BY Zenon, <1>1, <1>4
    <3> QED BY Zenon, <3>1 DEF AsListed, Agrees, ContentOf
  <2>3. ListQuiet => ListQuiet'
    <3>1. pc' = pc /\ todo' = todo /\ listed' = listed
      BY Zenon, <1>4
    <3> QED BY Zenon, <1>1, <2>1, <2>2, <3>1 DEF ListQuiet
  <2>4. WorkQuiet'
    BY Zenon, <1>1, <1>4 DEF WorkQuiet
  <2> QED BY Zenon, <1>1, <1>4, <2>3, <2>4 DEF Calm
<1> QED BY ZenonT(60), <1>2, <1>3, <1>4 DEF ListStat

\* get_or_compute_hash: the hash is that of the file.
LEMMA ListHashCalm == ASSUME Inv, Calm, ListHash PROVE Calm'
<1>1. op # None /\ op.do = "hash" /\ UNCHANGED fs
  BY Zenon DEF ListHash
<1>2. CASE ListFails
  BY Zenon, <1>2, NotQuiet DEF ListFails
<1>3. CASE IsFile(fs[op.n]) /\ Listed(op.n, Data(fs[op.n].c, op.t)) /\ UNCHANGED <<ok, quiet>>
  <2>1. PICK n \in Name : n = op.n
    BY Zenon, <1>1, OpShape
  <2>2. Data(fs[op.n].c, op.t) \in Told /\ Data(fs[op.n].c, op.t).c = fs[n].c
    BY <1>1, <1>3, <2>1, OpShape DEF Data, Told, Inv, Shape, IsFile, Files, Dir
  <2>3. fs[n] # None
    BY Zenon, <1>3, <2>1 DEF IsFile
  <2>4. CASE quiet
    <3>1. pc = "list" /\ n \in todo
      BY Zenon, <1>1, <2>1, <2>4 DEF Calm, ListQuiet, WorkQuiet, OpQuiet
    <3> QED BY Zenon, <1>1, <1>3, <2>1, <2>2, <2>3, <3>1, ListedCalm
  <2>5. CASE ~quiet
    <3>1. known' \in [Name -> Content \cup {Folder, Unknown, None}]
      BY <1>3, <2>1, <2>2 DEF Listed, Calm, Told
    <3> QED BY Zenon, <1>3, <2>5, <3>1 DEF Calm
  <2> QED BY <2>4, <2>5
<1> QED BY Zenon, <1>2, <1>3 DEF ListHash

-----------------------------------------------------------------------------
(* The operations. *)

\* The reconciler asks for an operation on a name that is as it was listed, or
\* holds something nobody listed.
LEMMA BeginCalm ==
    ASSUME Inv, Calm, NEW n \in Name, NEW o, Begin(n, o), o # None,
           o.n = n, o.m \in Name, o.old = listed[n], o.do # "hash",
           o.do # "rename" => o.m = n,
           o.do = "put" => o.at \in {"xfer", "check"},
           o.do = "rename" => o.at = "check" /\ o.m \in todo /\ listed[o.m] = None,
           o.do # "put" => listed[n] # None,
           o.do = "touch" => o.c = listed[n].c,
           o.do = "send" => o.at = "read"
    PROVE  Calm'
<1>1. pc = "work" /\ op = None /\ n \in todo /\ op' = o /\ todo' = todo \ {n, o.m}
      /\ UNCHANGED <<fs, pc, listed, ok, known, quiet>>
  BY Zenon DEF Begin, disk
<1> SUFFICES ASSUME quiet PROVE Calm'
  BY Zenon, <1>1 DEF Calm
<1>2. \A q \in Name : Settled(q)
  BY Zenon, <1>1 DEF Calm, WorkQuiet
<1>3. Aside = {} /\ Aside' = {}
  BY Zenon, <1>1 DEF Aside
<1>4. \A q \in Name : Settled(q)'
  BY Zenon, <1>1, <1>2, <1>3, StaysSettled
<1>5. \A q \in todo : AsListed(q)
  BY Zenon, <1>1 DEF Calm, WorkQuiet
<1>6. \A q \in todo' : AsListed(q)'
  BY Zenon, <1>1, <1>5 DEF AsListed, ContentOf
<1>7. ASSUME NEW q \in Name, q \in todo, q \in {n, o.m} PROVE Untouched(q)'
  <2>1. q \notin todo'
    BY Zenon, <1>1, <1>7
  <2>2. Agrees(q) \/ (~ok /\ Stray(q))
    BY Zenon, <1>2, <1>7 DEF Settled, Stuck
  <2> QED BY Zenon, <1>1, <2>1, <2>2 DEF Untouched, Agrees, Stray, ContentOf
<1>8. o.n \notin todo' /\ known'[o.n] = ContentOf(o.old)
  BY Zenon, <1>1, <1>5 DEF AsListed
<1>9. o.do = "rename" => known'[o.m] = None
  BY Zenon, <1>1, <1>5 DEF AsListed, ContentOf
<1>10. PutQuiet'
  BY Zenon, <1>1, <1>7 DEF PutQuiet, Shunted
<1>11. MoveQuiet'
  BY Zenon, <1>1, <1>7, <1>9 DEF MoveQuiet
<1>12. RestQuiet'
  BY Zenon, <1>1, <1>7 DEF RestQuiet, Shunted
<1>13. OpQuiet'
  BY Zenon, <1>1, <1>8, <1>10, <1>11, <1>12 DEF OpQuiet
<1> QED BY Zenon, <1>1, <1>4, <1>6, <1>13 DEF Calm, WorkQuiet, ListQuiet

\* The same, by the fields of the operation.
LEMMA BeginOperation ==
    ASSUME Inv, Calm, NEW n \in Name, NEW m \in Name,
           NEW do \in {"put", "remove", "touch", "rename", "send", "rmdir"},
           NEW c \in Content \cup {Folder, None}, NEW at \in {"xfer", "check", "read", "rmdir"},
           Begin(n, Operation(do, n, m, listed[n], c, at)),
           do # "rename" => m = n,
           do = "put" => at \in {"xfer", "check"},
           do = "rename" => at = "check" /\ m \in todo /\ listed[m] = None,
           do # "put" => listed[n] # None,
           do = "touch" => c = listed[n].c,
           do = "send" => at = "read"
    PROVE  Calm'
<1> DEFINE o == Operation(do, n, m, listed[n], c, at)
<1>1. /\ o.do = do /\ o.n = n /\ o.m = m /\ o.old = listed[n] /\ o.c = c /\ o.at = at
      /\ o \in Operations
  <2>1. listed[n] \in Told \cup {None}
    BY Zenon DEF Inv, Shape
  <2> QED BY <2>1 DEF Operation, Operations
<1>2. o # None /\ Begin(n, o)
  BY Zenon, <1>1, ConstantsAssumption
<1> HIDE DEF o
<1> QED BY ZenonT(60), <1>1, <1>2, BeginCalm

\* Whatever the reconciler asks for.
LEMMA AskCalm == ASSUME Inv, Calm, NEW n \in Name, Ask(n) PROVE Calm'
<1> listed[n] \in Told \cup {None}
  BY Zenon DEF Inv, Shape
<1>1. CASE BeginRemove(n)
  BY Zenon, <1>1, BeginOperation DEF BeginRemove
<1>2. CASE BeginTouch(n)
  <2>1. listed[n] # None /\ listed[n].c \in Content
    BY Zenon, <1>2 DEF BeginTouch, IsFile, Told
  <2> QED BY Zenon, <1>2, <2>1, BeginOperation DEF BeginTouch
<1>3. CASE BeginSend(n)
  BY Zenon, <1>3, BeginOperation DEF BeginSend, IsFile
<1>4. CASE BeginRmdir(n)
  <2>1. listed[n] # None
    BY Zenon, <1>4, ConstantsAssumption DEF BeginRmdir, ContentOf
  <2> QED BY Zenon, <1>4, <2>1, BeginOperation DEF BeginRmdir
<1>5. ASSUME NEW c \in Content \cup {Folder}, BeginPut(n, c) PROVE Calm'
  <2>1. CASE c = Folder
    BY Zenon, <1>5, <2>1, BeginOperation DEF BeginPut
  <2>2. CASE c # Folder
    BY Zenon, <1>5, <2>2, BeginOperation DEF BeginPut
  <2> QED BY <2>1, <2>2
<1>6. ASSUME NEW m \in Name, BeginRename(n, m) PROVE Calm'
  BY <1>6, BeginOperation DEF BeginRename
<1> QED BY <1>1, <1>2, <1>3, <1>4, <1>5, <1>6 DEF Ask

\* While an operation of the reconciler is under way, nothing is listed.
LEMMA Working ==
    ASSUME Inv, Calm, quiet, op # None, op.do # "hash"
    PROVE  /\ pc = "work" /\ OpQuiet /\ op.n \in Name /\ op.m \in Name
           /\ \A n \in todo : AsListed(n)
BY Zenon, OpShape DEF Calm, ListQuiet, WorkQuiet

\* An operation that fails before it has changed anything.
LEMMA FailCalm ==
    ASSUME Inv, Calm, op # None, op.do # "hash", Fail, NoMark, UNCHANGED fs,
           op.do = "put" => op.at \in {"xfer", "check", "shunt", "move"}
                            \/ (op.at = "do" /\ ~Shunted)
    PROVE  Calm'
<1> SUFFICES ASSUME quiet PROVE Calm'
  BY Zenon DEF Calm, NoMark, Fail
<1>1. PICK a \in Name, b \in Name : op.n = a /\ op.m = b
  BY Zenon, OpShape
<1>2. pc = "work" /\ OpQuiet
  BY Zenon, Working
<1>3. op' = None /\ ~ok' /\ UNCHANGED <<fs, known, todo>>
  BY Zenon DEF Fail, NoMark
<1>4. op.do \in {"put", "remove", "touch", "rename", "send", "rmdir"}
  BY Zenon, <1>2, OpShape DEF OpQuiet, Operations
<1>5. Untouched(a)
  BY ZenonT(60), <1>1, <1>2, <1>4 DEF OpQuiet, PutQuiet, MoveQuiet, RestQuiet, Inv, OpInv, PutInv
<1>6. b = a \/ Untouched(b) \/ (known[b] = None /\ fs[b] = None)
  BY ZenonT(60), <1>1, <1>2, <1>4
     DEF OpQuiet, PutQuiet, MoveQuiet, RestQuiet, Inv, OpInv, PutInv, Shunted
<1>7. Settled(a)'
  BY Zenon, <1>3, <1>5 DEF Untouched, Settled, Agrees, Stray, ContentOf
<1>8. Settled(b)'
  BY ZenonT(60), <1>3, <1>6, <1>7 DEF Untouched, Settled, Agrees, Stray, ContentOf
<1>9. known' \in [Name -> Content \cup {Folder, Unknown, None}]
  BY Zenon, <1>3 DEF Calm
<1> QED BY Zenon, <1>1, <1>2, <1>3, <1>7, <1>8, <1>9, Ends

\* A step of an operation that only looks.
LEMMA LookCalm ==
    ASSUME Inv, Calm, op # None, op' # None, NoMark, UNCHANGED <<fs, known, ok>>,
           op.do # "hash", op'.n = op.n, op'.m = op.m, op'.do = op.do, op'.old = op.old,
           op'.at # "stat",
           quiet => PutQuiet' /\ MoveQuiet' /\ RestQuiet'
    PROVE  Calm'
<1> SUFFICES ASSUME quiet PROVE Calm'
  BY Zenon DEF Calm, NoMark
<1>1. PICK a \in Name, b \in Name : op.n = a /\ op.m = b
  BY Zenon, OpShape
<1>2. pc = "work" /\ OpQuiet
  BY Zenon, Working
<1>3. Aside' \subseteq Aside
  BY Zenon DEF Aside
<1>4. OpQuiet'
  BY Zenon, <1>2 DEF OpQuiet, NoMark
<1> QED BY ZenonT(60), <1>1, <1>2, <1>3, <1>4, GoesOn

\* A name the step leaves alone.
LEMMA UntouchedStays ==
    ASSUME NEW a, Untouched(a), fs'[a] = fs[a], known'[a] = known[a], UNCHANGED <<todo, ok>>
    PROVE  Untouched(a)'
BY Zenon DEF Untouched, Agrees, Stray, ContentOf

\* An operation on something that was listed: what is there is what was listed,
\* and nothing left over.
LEMMA HasOld ==
    ASSUME Inv, Calm, quiet, op # None, op.do # "hash", op.old # None
    PROVE  /\ known[op.n] # None /\ ~Stray(op.n)
           /\ Untouched(op.n) => Agrees(op.n) /\ fs[op.n] # None
<1>1. known[op.n] = op.old.c
  BY Zenon, Working DEF OpQuiet, ContentOf
<1>2. op.old.c \in Content \cup {Folder}
  BY Zenon, OpShape DEF Told
<1>3. known[op.n] # None
  BY Zenon, <1>1, <1>2, ConstantsAssumption
<1> QED BY Zenon, <1>3 DEF Stray, Untouched, Agrees, ContentOf

\* An operation on one name succeeds.
LEMMA EndsAt ==
    ASSUME Inv, Calm, quiet, op # None, op.do # "hash", ~Shunted, op' = None, NoMark,
           UNCHANGED ok, NEW a \in Name, op.n = a,
           NEW c \in Content \cup {Folder, Unknown, None}, known' = [known EXCEPT ![a] = c],
           \A q \in Name \ {a} : fs'[q] = fs[q],
           Stray(a) => a \in Aside, Agrees(a)'
    PROVE  Calm'
<1>1. pc = "work" /\ OpQuiet /\ op.m = a
  BY Zenon, Working DEF Shunted
<1>2. /\ known' \in [Name -> Content \cup {Folder, Unknown, None}]
      /\ \A q \in Name \ {a} : known'[q] = known[q]
  BY Zenon DEF Calm
<1>3. \A q \in todo : known'[q] = known[q]
  BY Zenon, <1>1, <1>2 DEF OpQuiet, Inv, Shape
<1>4. Settled(a)'
  BY Zenon DEF Settled
<1> QED BY ZenonT(60), <1>1, <1>2, <1>3, <1>4, Ends

\* The fields of an operation that goes on.
LEMMA GoOnStep ==
    ASSUME Inv, op # None, NEW at \in {"do", "stat", "tidy"}, GoOn(at)
    PROVE  /\ op' # None /\ op'.do = op.do /\ op'.n = op.n /\ op'.m = op.m
           /\ op'.old = op.old /\ op'.c = op.c /\ op'.at = at /\ op'.got = op.got
           /\ UNCHANGED <<ok, known>>
<1>1. op' \in Operations
  BY Zenon, OpShape DEF Operations, GoOn
<1> QED BY Zenon, <1>1, OpShape, ConstantsAssumption DEF Operations, GoOn

\* A transfer changes nothing yet.
LEMMA XferCalm == ASSUME Inv, Calm, Xfer PROVE Calm'
<1>1. NoMark /\ UNCHANGED <<fs, known, ok>>
  BY Zenon DEF Xfer
<1>2. ASSUME quiet PROVE PutQuiet' /\ MoveQuiet' /\ RestQuiet'
  <2>1. PICK a \in Name : op.n = a
    BY Zenon, XferStep, OpShape
  <2>2. ~Shunted /\ Untouched(a)
    BY Zenon, <1>2, <2>1, XferStep, Working DEF OpQuiet, PutQuiet, Inv, OpInv, PutInv
  <2>3. Untouched(a)'
    BY Zenon, <1>1, <2>2, UntouchedStays DEF NoMark
  <2> QED BY Zenon, <2>1, <2>2, <2>3, XferStep DEF PutQuiet, MoveQuiet, RestQuiet, Shunted
<1> QED BY Zenon, <1>1, <1>2, XferStep, LookCalm

\* Nor does the check; what goes on with no old file found the name free.
LEMMA CheckCalm == ASSUME Inv, Calm, Check PROVE Calm'
<1>1. op # None /\ op.at = "check" /\ NoMark /\ UNCHANGED fs /\ op.do # "hash"
  BY Zenon DEF Check, Inv, OpInv
<1>2. CASE ~AsExpected
  BY Zenon, <1>1, <1>2, FailCalm DEF Check
<1>3. CASE AsExpected
  <2>1. UNCHANGED <<known, ok>>
    BY Zenon, <1>3 DEF Check
  <2>2. ASSUME quiet PROVE PutQuiet' /\ MoveQuiet' /\ RestQuiet'
    <3>1. PICK a \in Name, b \in Name : op.n = a /\ op.m = b
      BY Zenon, <1>1, OpShape
    <3>2. OpQuiet
      BY Zenon, <1>1, <2>2, Working
    <3>3. /\ Untouched(a) => Untouched(a)' 
          /\ Untouched(b) => Untouched(b)'
      BY Zenon, <1>1, <2>1, UntouchedStays DEF NoMark
    <3>4. PutQuiet'
      <4>1. op.do = "put" => ~Shunted /\ Untouched(a)
        BY Zenon, <1>1, <3>1, <3>2 DEF OpQuiet, PutQuiet, Inv, OpInv, PutInv
      <4>2. op.do = "put" /\ op.old = None => fs'[a] = None
        BY SMT, <1>1, <1>3, <3>1 DEF AsExpected
      <4>3. op'.at \in {"shunt", "do"} /\ op'.n = a /\ op'.m = b /\ op'.do = op.do
            /\ op'.old = op.old
        BY Zenon, <1>3, <3>1, CheckStep
      <4> QED BY ZenonT(30), <3>1, <3>3, <4>1, <4>2, <4>3 DEF PutQuiet, Shunted
    <3>5. MoveQuiet'
      <4>1. op.do = "rename" => fs'[b] = None
        BY SMT, <1>1, <1>3, <3>1 DEF AsExpected
      <4>2. op.do = "rename" => op'.at = "do"
        BY Zenon, <1>3, CheckStep DEF NeedsShunt
      <4> QED BY Zenon, <1>3, <2>1, <3>1, <3>2, <3>3, <4>1, <4>2, CheckStep
              DEF OpQuiet, MoveQuiet
    <3>6. RestQuiet'
      BY Zenon, <1>1, <1>3, <3>1, <3>2, <3>3, CheckStep
         DEF OpQuiet, RestQuiet, Shunted, Inv, OpInv, SendInv
    <3> QED BY <3>4, <3>5, <3>6
  <2> QED BY Zenon, <1>1, <1>3, <2>1, <2>2, CheckStep, LookCalm
<1> QED BY <1>2, <1>3
\* shunt_file looks for a name where nothing is and nothing is believed to be.
LEMMA ShuntLookCalm == ASSUME Inv, Calm, ShuntLook PROVE Calm'
<1>1. /\ op # None /\ op.do = "put" /\ op.at = "shunt" /\ NoMark /\ UNCHANGED fs
  BY ZenonT(60) DEF ShuntLook, At
<1>2. CASE Fail
  BY Zenon, <1>1, <1>2, FailCalm
<1>3. ASSUME NEW m \in Name \ (Present \cup {op.n}),
             op' = [op EXCEPT !.at = "move", !.m = m], UNCHANGED <<ok, known>>
      PROVE  Calm'
  <2> SUFFICES ASSUME quiet PROVE Calm'
    BY Zenon, <1>1, <1>3 DEF Calm, NoMark
  <2>1. op' \in Operations
    BY ZenonT(60), <1>1, <1>3, OpShape DEF Operations
  <2>2. /\ op' # None /\ op'.do = op.do /\ op'.n = op.n /\ op'.m = m /\ op'.old = op.old
        /\ op'.c = op.c /\ op'.at = "move" /\ known' = known
    BY Zenon, <1>1, <1>3, <2>1, OpShape, ConstantsAssumption DEF Operations
  <2>3. PICK a \in Name : op.n = a
    BY Zenon, <1>1, OpShape
  <2>4. m # a /\ fs[m] = None /\ op.m = a
    BY Zenon, <1>1, <1>3, <2>3 DEF Present, Inv, OpInv, PutInv, Shunted
  <2>5. pc = "work" /\ OpQuiet /\ Untouched(a)
    BY Zenon, <1>1, <2>3, <2>4, Working DEF OpQuiet, PutQuiet, Shunted
  <2>6. known[m] = None
    <3>1. Settled(m)
      BY Zenon, <1>1, <1>3, <2>3, <2>4, <2>5 DEF Calm, WorkQuiet
    <3> QED BY Zenon, <2>4, <3>1 DEF Settled, Stuck, Stray, Agrees, ContentOf
  <2>7. Untouched(a)'
    BY Zenon, <1>1, <1>3, <2>5, UntouchedStays DEF NoMark
  <2>8. \A q \in Name : Stray(q) /\ q \notin Aside => q \notin Aside'
    BY Zenon, <2>2, <2>4 DEF Stray, Aside
  <2>9. PutQuiet'
    BY Zenon, <1>1, <1>3, <2>2, <2>3, <2>4, <2>6, <2>7 DEF PutQuiet, Shunted
  <2>10. OpQuiet'
    BY Zenon, <1>1, <2>2, <2>5, <2>9 DEF OpQuiet, MoveQuiet, RestQuiet, NoMark
  <2> QED BY ZenonT(60), <1>1, <1>3, <2>2, <2>3, <2>4, <2>5, <2>8, <2>10, GoesOn
<1> QED BY ZenonT(60), <1>2, <1>3 DEF ShuntLook

\* shunt_file renames: the old file is under the new name.
LEMMA ShuntMoveCalm == ASSUME Inv, Calm, ShuntMove PROVE Calm'
<1>1. op # None /\ op.do = "put" /\ op.at = "move" /\ NoMark
  BY ZenonT(60) DEF ShuntMove, At
<1>2. CASE Fail /\ UNCHANGED fs
  BY Zenon, <1>1, <1>2, FailCalm
<1>3. CASE fs' = Moved(op.n, op.m) /\ GoOn("do")
  <2>1. /\ op' # None /\ op'.do = op.do /\ op'.n = op.n /\ op'.m = op.m
        /\ op'.old = op.old /\ op'.c = op.c /\ op'.at = "do" /\ UNCHANGED <<ok, known>>
    BY Zenon, <1>1, <1>3, GoOnStep
  <2> SUFFICES ASSUME quiet PROVE Calm'
    BY Zenon, <1>1, <2>1 DEF Calm, NoMark
  <2>2. PICK a \in Name, b \in Name : op.n = a /\ op.m = b
    BY Zenon, <1>1, OpShape
  <2>3. a # b /\ op.old # None
    BY Zenon, <1>1, <2>2 DEF Inv, OpInv, PutInv, Shunted
  <2>4. /\ pc = "work" /\ OpQuiet /\ Untouched(a) /\ fs[b] = None /\ known[b] = None
    BY Zenon, <1>1, <2>2, <2>3, Working DEF OpQuiet, PutQuiet, Shunted
  <2>5. known[a] # None /\ ~Stray(a) /\ Agrees(a) /\ fs[a] # None
    BY Zenon, <1>1, <2>2, <2>3, <2>4, HasOld
  <2>6. fs'[a] = None /\ fs'[b] = fs[a] /\ \A q \in Name \ {a, b} : fs'[q] = fs[q]
    BY ZenonT(60), <1>3, <2>2, <2>3 DEF Moved, Inv, Shape, Path
  <2>7. Keeps(b, a)'
    BY Zenon, <2>1, <2>4, <2>5, <2>6 DEF Keeps, Stray, Agrees, ContentOf
  <2>8. Aside' = Aside
    BY Zenon, <1>1, <2>1 DEF Aside
  <2>9. PutQuiet'
    BY Zenon, <2>1, <2>2, <2>3, <2>4, <2>6, <2>7 DEF PutQuiet, Shunted
  <2>10. OpQuiet'
    BY Zenon, <1>1, <2>1, <2>4, <2>9 DEF OpQuiet, MoveQuiet, RestQuiet, NoMark
  <2>11. \A q \in Name : Stray(q) /\ q \notin Aside => fs'[q] = fs[q] /\ q \notin Aside'
    BY Zenon, <2>4, <2>5, <2>6, <2>8 DEF Stray
  <2> QED BY ZenonT(60), <1>1, <2>1, <2>2, <2>4, <2>6, <2>10, <2>11, GoesOn
<1> QED BY ZenonT(60), <1>2, <1>3 DEF ShuntMove

\* put_file, once the name is free or holds the file to be replaced.
LEMMA PutReady ==
    ASSUME Inv, Calm, quiet, op # None, op.do = "put", op.at = "do"
    PROVE  /\ pc = "work" /\ OpQuiet /\ ~Stray(op.n)
           /\ Shunted => fs[op.n] = None /\ known[op.m] = None /\ Keeps(op.m, op.n)
<1>1. pc = "work" /\ OpQuiet
  BY Zenon, Working
<1>2. Shunted => fs[op.n] = None /\ known[op.m] = None /\ Keeps(op.m, op.n)
  BY Zenon, <1>1 DEF OpQuiet, PutQuiet
<1>3. CASE op.old = None
  BY Zenon, <1>1, <1>2, <1>3 DEF OpQuiet, PutQuiet, Stray
<1>4. CASE op.old # None
  BY Zenon, <1>1, <1>2, <1>4, HasOld
<1> QED BY <1>1, <1>2, <1>3, <1>4

\* put_file has put the new file or directory in place, and the operation goes on.
LEMMA PutGoesOn ==
    ASSUME Inv, Calm, op # None, op.do = "put", op.at = "do", NoMark,
           NEW at \in {"stat", "tidy"}, GoOn(at), at = "tidy" => Shunted,
           NEW e, ContentOf(e) = op.c, e # None, fs' = [fs EXCEPT ![op.n] = e]
    PROVE  Calm'
<1>1. /\ op' # None /\ op'.do = op.do /\ op'.n = op.n /\ op'.m = op.m
      /\ op'.old = op.old /\ op'.c = op.c /\ op'.at = at /\ UNCHANGED <<ok, known>>
  BY Zenon, GoOnStep
<1> SUFFICES ASSUME quiet PROVE Calm'
  BY Zenon, <1>1 DEF Calm, NoMark
<1>2. PICK a \in Name, b \in Name : op.n = a /\ op.m = b
  BY Zenon, OpShape
<1>3. /\ pc = "work" /\ OpQuiet /\ ~Stray(a)
      /\ a # b => known[b] = None /\ Keeps(b, a)
  BY Zenon, <1>2, PutReady DEF Shunted
<1>4. fs'[a] = e /\ \A q \in Name \ {a} : fs'[q] = fs[q]
  BY ZenonT(60), <1>2 DEF Inv, Shape, Path
<1>5. a # b => Keeps(b, a)'
  BY Zenon, <1>1, <1>3, <1>4 DEF Keeps, Stray
<1>6. PutQuiet'
  BY Zenon, <1>1, <1>2, <1>3, <1>4, <1>5 DEF PutQuiet, Shunted
<1>7. OpQuiet'
  BY Zenon, <1>1, <1>3, <1>6 DEF OpQuiet, MoveQuiet, RestQuiet, NoMark
<1>8. \A q \in Name : Stray(q) /\ q \notin Aside => fs'[q] = fs[q] /\ q \notin Aside'
  BY Zenon, <1>1, <1>2, <1>3, <1>4 DEF Aside
<1> QED BY ZenonT(60), <1>1, <1>2, <1>3, <1>4, <1>7, <1>8, GoesOn

\* put_file fails only when nothing has been moved.
LEMMA PutFails ==
    ASSUME Inv, Calm, op # None, op.do = "put", op.at = "do", NoMark, Fail, UNCHANGED fs,
           fs[op.n] # None
    PROVE  Calm'
<1>1. CASE quiet
  BY Zenon, <1>1, PutReady, FailCalm
<1>2. CASE ~quiet
  BY Zenon, <1>2 DEF Calm, NoMark, Fail
<1> QED BY <1>1, <1>2

\* put_file of a regular file.
LEMMA PutFileCalm == ASSUME Inv, Calm, PutFile PROVE Calm'
<1>1. op # None /\ op.do = "put" /\ op.at = "do" /\ op.c # Folder /\ NoMark
  BY Zenon DEF PutFile, At
<1>2. CASE ContentOf(fs[op.n]) = Folder
  <2>1. fs[op.n] # None
    BY Zenon, <1>2, ConstantsAssumption DEF ContentOf
  <2> QED BY Zenon, <1>1, <1>2, <2>1, PutFails DEF PutFile
<1>3. CASE ContentOf(fs[op.n]) # Folder
  <2> DEFINE f == File(op.got, NewTime, "no")
  <2>1. fs' = [fs EXCEPT ![op.n] = f] /\ GoOn("stat")
    BY SMTT(60), <1>3 DEF PutFile
  <2>2. op.got = op.c /\ op.c \in Content
    BY Zenon, <1>1 DEF Inv, OpInv, PutInv
  <2>3. f \in Files /\ f.c = op.c
    BY Zenon, <2>2, NewTimeIsNew DEF Inv, Files, File
  <2>4. f # None /\ ContentOf(f) = op.c
    BY Zenon, <2>3, ConstantsAssumption DEF ContentOf
  <2> HIDE DEF f
  <2> QED BY Zenon, <1>1, <2>1, <2>4, PutGoesOn
<1> QED BY <1>2, <1>3

\* put_file of a directory.
LEMMA PutFolderCalm == ASSUME Inv, Calm, PutFolder PROVE Calm'
<1>1. op # None /\ op.do = "put" /\ op.at = "do" /\ op.c = Folder /\ NoMark
  BY SMTT(60) DEF PutFolder, At
<1>2. CASE fs[op.n] # None
  BY Zenon, <1>1, <1>2, PutFails DEF PutFolder
<1>3. CASE fs[op.n] = None
  <2>1. fs' = [fs EXCEPT ![op.n] = Dir]
    BY Zenon, <1>3 DEF PutFolder
  <2>2. Dir # None /\ ContentOf(Dir) = op.c
    BY <1>1, ConstantsAssumption DEF ContentOf, Dir
  <2>3. CASE Shunted
    <3>1. GoOn("tidy")
      BY Zenon, <1>3, <2>3 DEF PutFolder
    <3> QED BY Zenon, <1>1, <2>1, <2>2, <2>3, <3>1, PutGoesOn
  <2>4. CASE ~Shunted
    <3>1. op' = None /\ UNCHANGED ok /\ known' = [known EXCEPT ![op.n] = op.c]
      BY Zenon, <1>3, <2>4 DEF PutFolder, Done
    <3>2. PICK a \in Name : op.n = a
      BY Zenon, <1>1, OpShape
    <3>3. fs'[a] = Dir /\ \A q \in Name \ {a} : fs'[q] = fs[q]
      BY ZenonT(60), <2>1, <3>2 DEF Inv, Shape, Path
    <3>4. CASE quiet
      <4>1. ~Stray(a)
        BY Zenon, <1>3, <3>2 DEF Stray
      <4>2. Agrees(a)'
        BY Zenon, <2>2, <3>1, <3>2, <3>3 DEF Agrees, Calm
      <4> QED BY ZenonT(60), <1>1, <2>4, <3>1, <3>2, <3>3, <3>4, <4>1, <4>2, EndsAt
    <3>5. CASE ~quiet
      BY Zenon, <1>1, <3>1, <3>2, <3>5 DEF Calm, NoMark
    <3> QED BY <3>4, <3>5
  <2> QED BY <2>3, <2>4
<1> QED BY <1>2, <1>3
\* put_file has cached the hash of the new file.
LEMMA PutStatCalm == ASSUME Inv, Calm, PutStat PROVE Calm'
<1>1. op # None /\ op.do = "put" /\ op.at = "stat" /\ NoMark /\ UNCHANGED fs
  BY Zenon DEF PutStat, At
<1>2. PICK a \in Name, b \in Name : op.n = a /\ op.m = b
  BY Zenon, <1>1, OpShape
<1>3. CASE Shunted
  <2>1. GoOn("tidy")
    BY Zenon, <1>3 DEF PutStat
  <2>2. /\ op' # None /\ op'.do = op.do /\ op'.n = op.n /\ op'.m = op.m
        /\ op'.old = op.old /\ op'.c = op.c /\ op'.at = "tidy" /\ UNCHANGED <<ok, known>>
    BY Zenon, <1>1, <2>1, GoOnStep
  <2>3. ASSUME quiet PROVE PutQuiet' /\ MoveQuiet' /\ RestQuiet'
    <3>1. a # b /\ ContentOf(fs[a]) = op.c /\ known[b] = None /\ Keeps(b, a)
      BY Zenon, <1>1, <1>2, <1>3, <2>3, Working DEF OpQuiet, PutQuiet, Shunted
    <3>2. Keeps(b, a)' /\ ContentOf(fs'[a]) = op.c
      BY Zenon, <1>1, <2>2, <3>1 DEF Keeps, Stray
    <3> QED BY Zenon, <1>1, <1>2, <2>2, <3>1, <3>2 DEF PutQuiet, MoveQuiet, RestQuiet, Shunted
  <2> QED BY Zenon, <1>1, <2>2, <2>3, LookCalm
<1>4. CASE ~Shunted
  <2>1. op' = None /\ UNCHANGED ok /\ known' = [known EXCEPT ![a] = op.c]
    BY Zenon, <1>2, <1>4 DEF PutStat, Done
  <2>2. op.c \in Content \cup {Folder, Unknown, None}
    BY Zenon, <1>1, OpShape DEF Operations
  <2>3. CASE quiet
    <3>1. ContentOf(fs[a]) = op.c
      BY Zenon, <1>1, <1>2, <2>3, Working DEF OpQuiet, PutQuiet
    <3>2. Agrees(a)'
      BY Zenon, <1>1, <2>1, <3>1 DEF Agrees, Calm
    <3>3. a \in Aside
      BY Zenon, <1>1, <1>2 DEF Aside
    <3> QED BY ZenonT(60), <1>1, <1>2, <1>4, <2>1, <2>2, <2>3, <3>2, <3>3, EndsAt
  <2>4. CASE ~quiet
    BY Zenon, <1>1, <2>1, <2>2, <2>4 DEF Calm, NoMark
  <2> QED BY <2>3, <2>4
<1> QED BY <1>3, <1>4

\* remove_general takes away one name of the directory and leaves the others.
LEMMA RemovesOne ==
    ASSUME Inv, op # None, NEW p \in Name, NEW r \in RemoveGeneral(p)
    PROVE  r[1][p] = None /\ \A q \in Name \ {p} : r[1][q] = fs[q]
<1>1. p \in Path /\ Hidden(op.n) \in Path /\ Hidden(op.n) \notin Name
  BY Zenon, OpShape, ConstantsAssumption DEF Path, Scratch
<1>2. CASE r = <<fs, DeleteCache(cache, {p})>> /\ fs[p] = None
  BY <1>2
<1>3. CASE r = <<[fs EXCEPT ![p] = None, ![Hidden(op.n)] = fs[p]],
                 RenameCache(cache, p, Hidden(op.n))>>
  <2>1. r[1] = [fs EXCEPT ![p] = None, ![Hidden(op.n)] = fs[p]]
    BY <1>3
  <2> QED BY Zenon, <1>1, <2>1 DEF Inv, Shape, Path
<1>4. CASE r[1] = [fs EXCEPT ![p] = None]
  BY Zenon, <1>1, <1>4 DEF Inv, Shape, Path
<1>5. CASE fs[p] = None /\ op.old.c # Folder
  BY Zenon, <1>2, <1>5 DEF RemoveGeneral, IsFile
<1>6. CASE IsFile(fs[p]) /\ op.old.c # Folder
  <2>1. r \in HideFile(p)
    BY Zenon, <1>6 DEF RemoveGeneral, IsFile
  <2> QED BY <1>3, <1>4, <2>1 DEF HideFile
<1>7. CASE ContentOf(fs[p]) = Folder /\ op.old.c = Folder
  <2>1. r = <<[fs EXCEPT ![p] = None], cache>>
    BY Zenon, <1>7, ConstantsAssumption DEF RemoveGeneral, ContentOf, IsFile
  <2> QED BY <1>4, <2>1
<1> QED BY <1>5, <1>6, <1>7 DEF RemoveGeneral

\* The old file is removed from where it was moved to, or it stays there.
LEMMA PutTidyCalm == ASSUME Inv, Calm, PutTidy PROVE Calm'
<1>1. op # None /\ op.do = "put" /\ op.at = "tidy" /\ NoMark /\ op' = None
  BY Zenon DEF PutTidy, At, Done, Fail
<1>2. PICK a \in Name, b \in Name : op.n = a /\ op.m = b
  BY Zenon, <1>1, OpShape
<1>3. /\ a # b /\ op.old # None /\ op.c \in Content \cup {Folder} /\ op.c # None
  BY Zenon, <1>1, <1>2, ConstantsAssumption DEF Inv, OpInv, PutInv, Shunted
<1>4. quiet => /\ pc = "work" /\ OpQuiet /\ ContentOf(fs[a]) = op.c
               /\ known[b] = None /\ Keeps(b, a)
  BY Zenon, <1>1, <1>2, <1>3, Working DEF OpQuiet, PutQuiet, Shunted
<1>5. quiet => known[a] # None /\ ~Stray(a)
  BY Zenon, <1>1, <1>2, <1>3, HasOld
<1>6. CASE Fail /\ UNCHANGED fs
  <2>1. UNCHANGED <<known, todo>> /\ ~ok'
    BY Zenon, <1>1, <1>6 DEF Fail, NoMark
  <2> SUFFICES ASSUME quiet PROVE Calm'
    BY Zenon, <1>1, <2>1 DEF Calm, NoMark
  <2>2. Settled(b)'
    BY Zenon, <1>4, <1>6, <2>1 DEF Settled, Keeps, Stray
  <2>3. Settled(a)'
    <3>1. fs[a] # None
      BY Zenon, <1>3, <1>4 DEF ContentOf
    <3>2. b \in Name \ Aside'
      BY Zenon, <1>1 DEF Aside
    <3>3. Keeps(b, a)'
      BY Zenon, <1>4, <1>6, <2>1 DEF Keeps, Stray
    <3>4. a \notin todo'
      BY Zenon, <1>2, <1>4, <2>1 DEF OpQuiet
    <3>5. Stuck(a)'
      BY Zenon, <1>5, <1>6, <2>1, <3>1, <3>2, <3>3, <3>4 DEF Stuck
    <3> QED BY Zenon, <2>1, <3>5 DEF Settled
  <2>4. known' \in [Name -> Content \cup {Folder, Unknown, None}]
    BY Zenon, <2>1 DEF Calm
  <2> QED BY ZenonT(60), <1>1, <1>2, <1>4, <1>6, <2>1, <2>2, <2>3, <2>4, Ends
<1>7. ASSUME NEW r \in RemoveGeneral(op.m), fs' = r[1], Done(op.n, op.old.c, op.c)
      PROVE  Calm'
  <2>1. known' = [known EXCEPT ![a] = op.c] /\ UNCHANGED ok
    BY Zenon, <1>2, <1>7 DEF Done
  <2>2. /\ known' \in [Name -> Content \cup {Folder, Unknown, None}] /\ known'[a] = op.c
        /\ \A q \in Name \ {a} : known'[q] = known[q]
    BY Zenon, <1>3, <2>1 DEF Calm
  <2> SUFFICES ASSUME quiet PROVE Calm'
    BY Zenon, <1>1, <2>2 DEF Calm, NoMark
  <2>3. fs'[b] = None /\ \A q \in Name \ {b} : fs'[q] = fs[q]
    BY Zenon, <1>1, <1>2, <1>7, RemovesOne
  <2>4. Settled(a)'
    BY Zenon, <1>3, <1>4, <2>2, <2>3 DEF Settled, Agrees
  <2>5. Settled(b)'
    BY Zenon, <1>3, <1>4, <2>2, <2>3 DEF Settled, Agrees, ContentOf
  <2>6. b \in Aside
    BY Zenon, <1>1, <1>2, <1>3 DEF Aside
  <2>7. \A q \in Name : Stray(q) /\ q \notin Aside => fs'[q] = fs[q] /\ known'[q] = known[q]
    BY Zenon, <1>5, <2>2, <2>3, <2>6
  <2>8. \A q \in todo : known'[q] = known[q]
    BY Zenon, <1>2, <1>4, <2>2 DEF OpQuiet, Inv, Shape
  <2>9. \A q \in Name \ {a, b} : fs'[q] = fs[q] /\ known'[q] = known[q]
    BY Zenon, <2>2, <2>3
  <2> QED BY ZenonT(60), <1>1, <1>2, <1>4, <2>1, <2>2, <2>4, <2>5, <2>7, <2>8, <2>9, Ends
<1> QED BY Zenon, <1>6, <1>7 DEF PutTidy
\* An operation on one listed name succeeds: it becomes what the caller believes.
LEMMA RestEnds ==
    ASSUME Inv, Calm, op # None, op.do \in {"remove", "touch", "send", "rmdir"}, op' = None,
           NoMark, UNCHANGED ok, NEW c \in Content \cup {Folder, Unknown, None},
           known' = [known EXCEPT ![op.n] = c], NEW a \in Name, op.n = a,
           \A q \in Name \ {a} : fs'[q] = fs[q],
           quiet => ContentOf(fs'[a]) = c \/ (fs'[a] # None /\ fs'[a].x # "no")
    PROVE  Calm'
<1>1. CASE quiet
  <2>1. ~Shunted /\ op.old # None
    BY Zenon, <1>1, Working DEF OpQuiet, RestQuiet
  <2>2. ~Stray(a)
    BY Zenon, <1>1, <2>1, HasOld
  <2>3. Agrees(a)'
    BY Zenon, <1>1 DEF Agrees, Calm
  <2> QED BY ZenonT(60), <1>1, <2>1, <2>2, <2>3, EndsAt
<1>2. CASE ~quiet
  BY Zenon, <1>2 DEF Calm, NoMark
<1> QED BY <1>1, <1>2

\* remove.
LEMMA RemoveCalm == ASSUME Inv, Calm, Remove PROVE Calm'
<1>1. op # None /\ op.do = "remove" /\ op.at = "do" /\ NoMark
  BY Zenon DEF Remove, At
<1>2. CASE Fail /\ UNCHANGED fs
  BY Zenon, <1>1, <1>2, FailCalm
<1>3. ASSUME NEW r \in RemoveGeneral(op.n), fs' = r[1], Done(op.n, op.old.c, None)
      PROVE  Calm'
  <2>1. PICK a \in Name : op.n = a
    BY Zenon, <1>1, OpShape
  <2>2. fs'[a] = None /\ \A q \in Name \ {a} : fs'[q] = fs[q]
    BY Zenon, <1>1, <1>3, <2>1, RemovesOne
  <2>3. ContentOf(fs'[a]) = None
    BY Zenon, <2>2 DEF ContentOf
  <2>4. op' = None /\ UNCHANGED ok /\ known' = [known EXCEPT ![op.n] = None]
    BY Zenon, <1>3 DEF Done
  <2> QED BY ZenonT(60), <1>1, <2>1, <2>2, <2>3, <2>4, RestEnds
<1> QED BY Zenon, <1>2, <1>3 DEF Remove

\* set_mtime_path changes no content.
LEMMA TouchCalm == ASSUME Inv, Calm, Touch PROVE Calm'
<1>1. op # None /\ op.do = "touch" /\ op.at = "do" /\ NoMark
  BY Zenon DEF Touch, At
<1>2. PICK a \in Name : op.n = a
  BY Zenon, <1>1, OpShape
<1> a \in Path
  BY Zenon DEF Path
<1>3. CASE fs[a] = None
  BY Zenon, <1>1, <1>2, <1>3, FailCalm DEF Touch
<1>4. CASE fs[a] # None
  <2> DEFINE t == IF IsFile(fs[a]) THEN NewTime ELSE 0
             e == [fs[a] EXCEPT !.t = t]
  <2>1. /\ fs' = [fs EXCEPT ![a].t = t] /\ op' = None /\ UNCHANGED ok
        /\ known' = [known EXCEPT ![op.n] = op.c]
    BY Zenon, <1>2, <1>4 DEF Touch, Done
  <2>2. fs' = [fs EXCEPT ![a] = e]
    BY Zenon, <2>1 DEF Inv, Shape
  <2>3. e # None /\ e.c = fs[a].c /\ e.x = fs[a].x
    <3>1. CASE IsFile(fs[a])
      <4>1. fs[a] \in Files
        BY <3>1 DEF Inv, Shape, Dir, IsFile
      <4>2. t \in Nat \ {0}
        BY Zenon, <3>1, NewTimeIsNew DEF Inv
      <4> HIDE DEF t
      <4>3. e \in Files
        BY Zenon, <4>1, <4>2 DEF Files
      <4> QED BY Zenon, <4>1, <4>3, ConstantsAssumption DEF Files
    <3>2. CASE ~IsFile(fs[a])
      <4>1. fs[a] = Dir
        BY Zenon, <1>4, <3>2, ConstantsAssumption DEF Inv, Shape, IsFile, Files
      <4>2. t = 0
        BY Zenon, <3>2
      <4> HIDE DEF t
      <4>3. e = Dir
        BY <4>1, <4>2 DEF Dir
      <4> QED BY <4>1, <4>3, ConstantsAssumption
    <3> QED BY <3>1, <3>2
  <2> HIDE DEF e
  <2>4. fs'[a] = e /\ \A q \in Name \ {a} : fs'[q] = fs[q]
    BY ZenonT(60), <2>2 DEF Inv, Shape, Path
  <2>5. quiet => e.c = op.c \/ e.x # "no"
    <3>1. quiet => Agrees(a) /\ op.c = op.old.c /\ known[a] = op.old.c
      BY Zenon, <1>1, <1>2, Working, HasOld DEF OpQuiet, RestQuiet, ContentOf
    <3> QED BY Zenon, <1>4, <2>3, <3>1 DEF Agrees, ContentOf
  <2>6. quiet => ContentOf(fs'[a]) = op.c \/ (fs'[a] # None /\ fs'[a].x # "no")
    BY Zenon, <2>3, <2>4, <2>5 DEF ContentOf
  <2>7. op.c \in Content \cup {Folder, Unknown, None}
    BY Zenon, <1>1, OpShape DEF Operations
  <2> QED BY ZenonT(60), <1>1, <1>2, <2>1, <2>4, <2>6, <2>7, RestEnds
<1> QED BY <1>3, <1>4

\* rename: the file and the caller's belief move together.
LEMMA RenameCalm == ASSUME Inv, Calm, Rename PROVE Calm'
<1>1. op # None /\ op.do = "rename" /\ op.at = "do" /\ NoMark
  BY Zenon DEF Rename, At
<1>2. CASE Fail /\ UNCHANGED fs
  BY Zenon, <1>1, <1>2, FailCalm
<1>3. CASE /\ fs' = Moved(op.n, op.m) /\ op' = None /\ UNCHANGED ok
           /\ known' = [known EXCEPT ![op.m] = known[op.n], ![op.n] = None]
  <2>1. PICK a \in Name, b \in Name : op.n = a /\ op.m = b
    BY Zenon, <1>1, OpShape
  <2>2. a # b
    BY Zenon, <1>1, <2>1 DEF Inv, OpInv, RenameInv, Shunted
  <2>3. fs'[a] = None /\ fs'[b] = fs[a] /\ \A q \in Name \ {a, b} : fs'[q] = fs[q]
    BY ZenonT(60), <1>3, <2>1, <2>2 DEF Moved, Inv, Shape, Path
  <2>4. /\ known' \in [Name -> Content \cup {Folder, Unknown, None}]
        /\ known'[a] = None /\ known'[b] = known[a]
        /\ \A q \in Name \ {a, b} : known'[q] = known[q]
    BY ZenonT(60), <1>3, <2>1, <2>2 DEF Calm
  <2> SUFFICES ASSUME quiet PROVE Calm'
    BY Zenon, <1>1, <2>4 DEF Calm, NoMark
  <2>5. /\ pc = "work" /\ op.old # None /\ Untouched(a) /\ Untouched(b) /\ fs[b] = None
    BY Zenon, <1>1, <2>1, Working DEF OpQuiet, MoveQuiet
  <2>6. ~Stray(a) /\ ~Stray(b) /\ Agrees(a)
    BY Zenon, <1>1, <2>1, <2>5, HasOld DEF Stray
  <2>7. Settled(a)'
    BY Zenon, <2>3, <2>4 DEF Settled, Agrees, ContentOf
  <2>8. Settled(b)'
    BY Zenon, <2>3, <2>4, <2>6 DEF Settled, Agrees
  <2>9. \A q \in todo : known'[q] = known[q]
    BY Zenon, <2>4, <2>5 DEF Untouched, Inv, Shape
  <2>10. \A q \in Name : Stray(q) /\ q \notin Aside => fs'[q] = fs[q] /\ known'[q] = known[q]
    BY Zenon, <2>3, <2>4, <2>6
  <2>11. op' = None /\ (ok' => ok)
    BY Zenon, <1>3
  <2> QED BY ZenonT(60), <1>1, <2>1, <2>3, <2>4, <2>5, <2>7, <2>8, <2>9, <2>10, <2>11, Ends
<1> QED BY Zenon, <1>2, <1>3 DEF Rename

\* FileStreamSource changes nothing.
LEMMA SendReadCalm == ASSUME Inv, Calm, SendRead PROVE Calm'
<1>1. op # None /\ op.do = "send" /\ op.at = "read" /\ NoMark /\ UNCHANGED fs
  BY Zenon DEF SendRead, At
<1>2. CASE ~IsFile(fs[op.n])
  BY Zenon, <1>1, <1>2, FailCalm DEF SendRead
<1>3. CASE IsFile(fs[op.n])
  <2>1. op' = [op EXCEPT !.at = "finish", !.got = fs[op.n].c] /\ UNCHANGED <<ok, known>>
    BY Zenon, <1>3 DEF SendRead
  <2>2. fs[op.n].c \in Content
    BY <1>1, <1>3, OpShape DEF Inv, Shape, Files, Dir, IsFile
  <2>3. op' \in Operations
    BY ZenonT(60), <1>1, <2>1, <2>2, OpShape DEF Operations
  <2>4. /\ op' # None /\ op'.do = op.do /\ op'.n = op.n /\ op'.m = op.m /\ op'.old = op.old
        /\ op'.c = op.c /\ op'.at = "finish" /\ op'.got = fs[op.n].c
    BY Zenon, <1>1, <2>1, <2>3, OpShape, ConstantsAssumption DEF Operations
  <2>5. ASSUME quiet PROVE PutQuiet' /\ MoveQuiet' /\ RestQuiet'
    <3>1. PICK a \in Name : op.n = a
      BY Zenon, <1>1, OpShape
    <3>2. ~Shunted /\ op.old # None /\ Untouched(a)
      BY Zenon, <1>1, <2>5, <3>1, Working DEF OpQuiet, RestQuiet
    <3>3. Untouched(a)'
      BY Zenon, <1>1, <2>1, <3>2, UntouchedStays DEF NoMark
    <3>4. op'.got = ContentOf(fs'[a])
      BY Zenon, <1>1, <1>3, <2>4, <3>1 DEF ContentOf, IsFile
    <3> QED BY Zenon, <1>1, <2>4, <3>1, <3>2, <3>3, <3>4
            DEF PutQuiet, MoveQuiet, RestQuiet, Shunted
  <2> QED BY Zenon, <1>1, <2>1, <2>4, <2>5, LookCalm
<1> QED BY <1>2, <1>3

\* finish(): the caller learns the hash of what it was sent.
LEMMA SendFinishCalm == ASSUME Inv, Calm, SendFinish PROVE Calm'
<1>1. op # None /\ op.do = "send" /\ op.at = "finish" /\ NoMark /\ op' = None
      /\ UNCHANGED <<fs, ok>> /\ known' = [known EXCEPT ![op.n] = op.got]
  BY Zenon DEF SendFinish, At, Done
<1>2. PICK a \in Name : op.n = a
  BY Zenon, <1>1, OpShape
<1>3. op.got \in Content \cup {Folder, Unknown, None}
  BY Zenon, <1>1, OpShape DEF Operations
<1>4. quiet => ContentOf(fs'[a]) = op.got
  BY Zenon, <1>1, <1>2, Working DEF OpQuiet, RestQuiet
<1> QED BY ZenonT(60), <1>1, <1>2, <1>3, <1>4, RestEnds

\* rmdir.
LEMMA RmdirCalm == ASSUME Inv, Calm, Rmdir PROVE Calm'
<1>1. op # None /\ op.do = "rmdir" /\ NoMark
  BY Zenon DEF Rmdir, At
<1>2. PICK a \in Name : op.n = a
  BY Zenon, <1>1, OpShape
<1>3. CASE Fail /\ UNCHANGED fs
  BY Zenon, <1>1, <1>3, FailCalm
<1>4. CASE /\ op' = None /\ UNCHANGED ok /\ known' = [known EXCEPT ![op.n] = None]
           /\ (UNCHANGED fs /\ fs[a] = None) \/ fs' = [fs EXCEPT ![a] = None]
  <2>1. fs'[a] = None /\ \A q \in Name \ {a} : fs'[q] = fs[q]
    BY Zenon, <1>4 DEF Inv, Shape, Path
  <2>2. ContentOf(fs'[a]) = None
    BY Zenon, <2>1 DEF ContentOf
  <2> QED BY ZenonT(60), <1>1, <1>2, <1>4, <2>1, <2>2, RestEnds
<1> QED BY Zenon, <1>2, <1>3, <1>4 DEF Rmdir, Done

-----------------------------------------------------------------------------
(* The theorem. *)

\* Every step keeps what is said of a quiet directory.
LEMMA NextCalm == Inv /\ Calm /\ [Next]_vars => Calm'
<1> SUFFICES ASSUME Inv, Calm, [Next]_vars PROVE Calm'
  BY Zenon
<1>1. CASE \E typ \in {"Fast", "Clean", "Scrub"} : Prepare(typ)
  <2>1. pc = "off" /\ UNCHANGED <<quiet, known>>
    BY Zenon, <1>1 DEF Prepare
  <2> QED BY Zenon, <2>1 DEF Calm
<1>2. CASE SetParentDirty \/ Pass \/ MarkParent \/ CleanUp
  <2>1. pc \notin {"list", "work"} /\ UNCHANGED <<quiet, known>>
    BY Zenon, <1>2 DEF SetParentDirty, Pass, MarkParent, CleanUp, mem
  <2> QED BY Zenon, <2>1 DEF Calm
<1>3. CASE Mark \/ Crash
  BY Zenon, <1>3, NotQuiet DEF Mark, Crash, Forget
<1>4. CASE User
  <2>1. ~quiet' /\ UNCHANGED known
    BY Zenon, <1>4 DEF User, Write, Delete, Mkdir, Edit, mem
  <2> QED BY Zenon, <2>1, NotQuiet
<1>5. CASE List \/ ListHash
  BY Zenon, <1>5, ListCalm, ListHashCalm
<1>6. CASE \E n \in Name : ListStat(n) \/ Ask(n)
  BY Zenon, <1>6, ListStatCalm, AskCalm
<1>7. CASE Xfer \/ Check \/ ShuntLook \/ ShuntMove
  BY Zenon, <1>7, XferCalm, CheckCalm, ShuntLookCalm, ShuntMoveCalm
<1>8. CASE XferFails
  BY Zenon, <1>8, FailCalm DEF XferFails, At
<1>9. CASE PutFile \/ PutFolder \/ PutStat \/ PutTidy
  BY Zenon, <1>9, PutFileCalm, PutFolderCalm, PutStatCalm, PutTidyCalm
<1>10. CASE Remove \/ Touch \/ Rename
  BY Zenon, <1>10, RemoveCalm, TouchCalm, RenameCalm
<1>11. CASE SendRead \/ SendFinish \/ Rmdir
  BY Zenon, <1>11, SendReadCalm, SendFinishCalm, RmdirCalm
<1>12. CASE UNCHANGED vars
  <2>1. UNCHANGED <<fs, known, listed, todo, op, ok, pc, quiet>>
    BY Zenon, <1>12 DEF vars, disk, mem
  <2>2. ListQuiet => ListQuiet'
    BY Zenon, <2>1 DEF ListQuiet, AsListed, Agrees, ContentOf
  <2>3. Aside' = Aside
    BY Zenon, <2>1 DEF Aside
  <2>4. \A n \in Name : Settled(n) => Settled(n)'
    BY Zenon, <2>1, <2>3, StaysSettled
  <2>5. OpQuiet => OpQuiet'
    BY Zenon, <2>1
       DEF OpQuiet, PutQuiet, MoveQuiet, RestQuiet, Untouched, Keeps, Stray, Agrees, Shunted,
           ContentOf
  <2>6. WorkQuiet => WorkQuiet'
    BY Zenon, <2>1, <2>4, <2>5 DEF WorkQuiet, AsListed, ContentOf
  <2> QED BY Zenon, <2>1, <2>2, <2>6 DEF Calm
<1> QED BY <1>1, <1>2, <1>3, <1>4, <1>5, <1>6, <1>7, <1>8, <1>9, <1>10, <1>11, <1>12
        DEF Next, Replica

\* A settled name survives.
LEMMA CalmSurvives == Inv /\ Calm => NothingVanishes
<1> SUFFICES ASSUME Inv, Calm, pc = "work", quiet
             PROVE  /\ \A n \in Name : known[n] # None => Survives(n)
                    /\ op = None /\ ok => \A n \in Name : Agrees(n)
  BY Zenon DEF NothingVanishes
<1>1. ASSUME NEW n \in Name, known[n] # None PROVE Survives(n)
  <2>1. CASE Agrees(n)
    BY Zenon, <2>1 DEF Survives
  <2>2. ASSUME NEW m \in Name, Keeps(m, n) PROVE Survives(n)
    BY Zenon, <2>2 DEF Survives, Keeps, Stray
  <2>3. CASE op # None => n \notin {op.n, op.m}
    <3>1. Settled(n)
      BY Zenon, <2>3 DEF Calm, WorkQuiet
    <3> QED BY Zenon, <1>1, <2>1, <2>2, <3>1 DEF Settled, Stray, Stuck
  <2>4. CASE op # None /\ n = op.n
    <3>1. OpQuiet /\ op.do \in {"put", "rename", "remove", "touch", "send", "rmdir"}
          /\ op.m \in Name
      BY Zenon, <2>4, OpShape DEF Calm, WorkQuiet, OpQuiet, Operations
    <3>2. CASE Untouched(n)
      BY Zenon, <1>1, <2>1, <3>2 DEF Untouched, Stray
    <3>3. CASE op.do = "put" /\ Shunted
      BY Zenon, <2>2, <2>4, <3>1, <3>2, <3>3 DEF OpQuiet, PutQuiet
    <3>4. CASE op.do = "put" /\ ~Shunted
      BY Zenon, <2>4, <3>1, <3>2, <3>4 DEF OpQuiet, PutQuiet, Survives
    <3>5. CASE op.do # "put"
      BY Zenon, <2>4, <3>1, <3>2, <3>5 DEF OpQuiet, MoveQuiet, RestQuiet
    <3> QED BY <3>3, <3>4, <3>5
  <2>5. CASE op # None /\ n = op.m /\ n # op.n
    BY Zenon, <1>1, <2>5, OpShape
       DEF Calm, WorkQuiet, OpQuiet, PutQuiet, MoveQuiet, RestQuiet, Shunted, Operations
  <2> QED BY <2>3, <2>4, <2>5
<1>2. ASSUME op = None, ok, NEW n \in Name PROVE Agrees(n)
  BY Zenon, <1>2 DEF Calm, WorkQuiet, Settled
<1> QED BY <1>1, <1>2

\* While no user interferes, whatever operations the reconciler asks for and
\* wherever one of their steps fails or the process stops, nothing the caller
\* believes to be in the directory is gone without being replaced; and when none
\* has failed the directory is what the caller believes.
THEOREM QuietSafe == Spec => []NothingVanishes
<1>1. Init => Calm
  BY Zenon DEF Init, Calm, Nothing
<1>2. Spec => []Calm
  BY <1>1, NextCalm, SpecInv, PTL DEF Spec
<1> QED BY <1>2, SpecInv, CalmSurvives, PTL
=============================================================================
