------------------------- MODULE PosixReplicaProofs -------------------------
(* What a sync may destroy and what it may put in place, for any directory, any
   contents and any number of edits, crashes and syncs. *)
EXTENDS PosixReplica, FiniteSetTheorems, TLAPS

-----------------------------------------------------------------------------
(* The inductive invariant. *)

Shape ==
    /\ fs \in [Path -> Files \cup {Dir, None}]
    /\ cache \in [Path -> Rows \cup {None}]
    /\ listed \in [Name -> Told \cup {None}]
    /\ op \in Operations \cup {None}
    /\ todo \subseteq Name

\* No two files have the same status.
TimesInv ==
    \A p, q \in Path :
        p # q /\ IsFile(fs[p]) /\ IsFile(fs[q]) => fs[p].t # fs[q].t

\* A row with the status of a file, of whatever path, has its hash, unless the
\* file was written in one of the windows.
CacheInv ==
    \A p, q \in Path :
        cache[p] # None /\ IsFile(fs[q]) /\ cache[p].t = fs[q].t =>
            cache[p].c = fs[q].c \/ fs[q].x # "no"

\* A file that is being hashed: no other file has the status that was taken.
HashInv ==
    op # None =>
        IF op.do = "hash"
        THEN \A q \in Path : IsFile(fs[q]) /\ fs[q].t = op.t => q = op.n
        ELSE op.t = 0

\* A file at p is what the operation was told is there, or came too late.
SafeAt(p) ==
    IsFile(fs[p]) => fs[p].c = ContentOf(op.old) \/ fs[p].x # "no"

\* A file at p came too late.
LateAt(p) == IsFile(fs[p]) => fs[p].x # "no"

\* The content c is at p, or what a user wrote there in the window.
Holds(p, c) == IsFile(fs[p]) => fs[p].c = c \/ fs[p].x # "no"

PutInv ==
    op.do = "put" =>
        /\ op.c \in Content \cup {Folder}
        /\ op.c # Folder => op.at = "xfer" \/ op.got = op.c
        /\ op.at = "stat" => op.c # Folder /\ Holds(op.n, op.c)
        /\ op.at \in {"xfer", "check", "shunt"} => ~Shunted
        /\ op.at \in {"shunt", "move"} => NeedsShunt
        /\ op.at \in {"move", "tidy"} => Shunted
        /\ Shunted => op.old # None /\ (op.c # Folder => op.old.c = Folder)
        /\ op.at \in {"shunt", "move", "do"} => SafeAt(op.n)
        /\ op.at = "move" => LateAt(op.m)
        /\ Shunted /\ op.c = Folder /\ op.at \in {"do", "tidy"} => SafeAt(op.m)

RemoveInv ==
    op.do = "remove" => op.old # None /\ (op.at = "do" => SafeAt(op.n))

TouchInv ==
    op.do = "touch" =>
        /\ op.old # None /\ op.old.c \in Content
        /\ op.at = "do" => /\ SafeAt(op.n)
                           /\ cache[op.n] # None => cache[op.n].c = op.old.c

RenameInv ==
    op.do = "rename" =>
        /\ Shunted
        /\ op.at = "do" => LateAt(op.m)

SendInv ==
    op.do = "send" =>
        /\ op.at # "check"
        /\ op.at = "finish" => op.got \in Content /\ Holds(op.n, op.got)

OpInv ==
    op # None =>
        /\ PutInv /\ RemoveInv /\ TouchInv /\ RenameInv /\ SendInv
        /\ op.do \in {"hash", "rmdir"} => op.at = op.do
        /\ pc \in {"list", "work"}

DiskInv == TimesInv /\ CacheInv

Inv == Shape /\ DiskInv /\ HashInv /\ OpInv /\ ~lost

-----------------------------------------------------------------------------
(* Times. *)

\* There are finitely many paths: the names and one scratch file for each.
LEMMA PathFinite == IsFiniteSet(Path)
<1> DEFINE h == [n \in Name |-> Hidden(n)]
<1>1. h \in Surjection(Name, Scratch)
  BY Zenon DEF Surjection, Scratch
<1>2. IsFiniteSet(Scratch)
  BY Zenon, <1>1, ConstantsAssumption, FS_Surjection
<1> QED BY ZenonT(60), <1>2, ConstantsAssumption, FS_Union DEF Path

\* A table over finitely many paths holds finitely many statuses.
LEMMA TimesFinite ==
    ASSUME NEW S, IsFiniteSet(S), NEW T, NEW f \in [S -> T]
    PROVE  IsFiniteSet(TimesIn(f))
<1> DEFINE D == {q \in DOMAIN f : f[q] # None}
           g == [p \in D |-> f[p].t]
<1>1. IsFiniteSet(D)
  <2>1. D \in SUBSET S
    BY Zenon
  <2> QED BY <2>1, FS_Subset
<1>2. g \in Surjection(D, TimesIn(f))
  BY Zenon DEF Surjection, TimesIn
<1> HIDE DEF D, g
<1> QED BY <1>1, <1>2, FS_Surjection

\* The status that a write gives a file is that of no file, no row and no
\* operation.
LEMMA NewTimeIsNew ==
    ASSUME Shape
    PROVE  /\ NewTime \in Nat \ {0}
           /\ \A p \in Path : fs[p] # None => fs[p].t # NewTime
           /\ \A p \in Path : cache[p] # None => cache[p].t # NewTime
           /\ op # None => op.t # NewTime
<1> DEFINE mine == IF op = None THEN {} ELSE {op.t}
           used == TimesIn(fs) \cup TimesIn(cache) \cup TimesIn(listed) \cup mine
           k == Cardinality(used)
<1>1. IsFiniteSet(used)
  <2>1. IsFiniteSet(TimesIn(fs)) /\ IsFiniteSet(TimesIn(cache))
    BY ZenonT(60), PathFinite, TimesFinite DEF Shape
  <2>2. IsFiniteSet(TimesIn(listed))
    BY ZenonT(60), ConstantsAssumption, TimesFinite DEF Shape
  <2>3. IsFiniteSet(mine)
    BY ZenonT(60), FS_EmptySet, FS_Singleton
  <2> HIDE DEF mine
  <2> QED BY ZenonT(60), <2>1, <2>2, <2>3, FS_Union
<1>2. k \in Nat
  BY Zenon, <1>1, FS_CardinalityType
<1>3. NewTime = CHOOSE t \in 1 .. k + 1 : t \notin used
  BY Zenon DEF NewTime
<1>4. \A p \in Path : /\ fs[p] # None => fs[p].t \in used
                      /\ cache[p] # None => cache[p].t \in used
  BY Zenon DEF TimesIn, Shape
<1>5. op # None => op.t \in used
  BY Zenon
<1> HIDE DEF used
<1>6. \E t \in 1 .. k + 1 : t \notin used
  <2> SUFFICES ASSUME 1 .. k + 1 \in SUBSET used PROVE FALSE
    BY Zenon
  <2>1. Cardinality(1 .. k + 1) <= k
    BY ZenonT(60), <1>1, FS_Subset
  <2> HIDE DEF k
  <2>2. Cardinality(1 .. k + 1) = k + 1
    BY <1>2, FS_Interval
  <2> QED BY <2>1, <2>2, <1>2
<1>7. NewTime \in 1 .. k + 1 /\ NewTime \notin used
  BY Zenon, <1>3, <1>6
<1> HIDE DEF k
<1> QED BY <1>2, <1>4, <1>5, <1>7

-----------------------------------------------------------------------------
(* The rows of the cache. *)

CacheRows == [Path -> Rows \cup {None}]

\* Every row of `new` says what some row of `old` says.
Among(new, old) ==
    /\ new \in CacheRows
    /\ \A p \in Path : new[p] # None =>
         \E q \in Path : old[q] # None /\ new[p].c = old[q].c /\ new[p].t = old[q].t

\* A row kept by two changes of the cache is kept by both together.
LEMMA AmongTrans ==
    ASSUME NEW a, NEW b, NEW d, Among(a, b), Among(b, d) PROVE Among(a, d)
BY DEF Among

\* The cache as it is adds no row.
LEMMA AmongRefl == ASSUME NEW rows \in CacheRows PROVE Among(rows, rows)
BY DEF Among, CacheRows

\* What the operations on the cache keep of its rows.
LEMMA UsedAmong ==
    ASSUME NEW rows \in CacheRows, NEW S PROVE Among(Used(rows, S), rows)
BY ZenonT(60), ConstantsAssumption DEF Among, Used, CacheRows, Rows

\* rename_cache moves a row, or does nothing: it adds none.
LEMMA RenameAmong ==
    ASSUME NEW rows \in CacheRows, NEW p \in Path, NEW q \in Path
    PROVE  Among(RenameCache(rows, p, q), rows)
BY DEF Among, RenameCache, CacheRows

\* delete_cache and prune_hash_cache only take rows away.
LEMMA DeleteAmong ==
    ASSUME NEW rows \in CacheRows, NEW S PROVE Among(DeleteCache(rows, S), rows)
BY DEF Among, DeleteCache, CacheRows

\* next_generation keeps the hash and the status of every row.
LEMMA GenerationAmong ==
    ASSUME NEW rows \in CacheRows PROVE Among(NextGeneration(rows), rows)
BY ZenonT(60), ConstantsAssumption DEF Among, NextGeneration, CacheRows, Rows

\* copy_file_local returns the content with the hash it was asked for, or none,
\* whatever the cache claims and the files hold; and it adds no row.
LEMMA CopyAmong ==
    ASSUME NEW rows \in CacheRows, NEW c, NEW r \in CopyFileLocal(rows, c)
    PROVE  r[1] \in {c, None} /\ Among(r[2], rows)
<1> DEFINE rs == WithHash(rows, c)
<1>1. Among(rows, rows)
  BY Zenon, AmongRefl
<1>2. CASE rs = {}
  BY <1>1, <1>2 DEF CopyFileLocal
<1>3. CASE rs # {}
  <2>1. PICK p \in rs : r = IF ContentOf(fs[p]) = c THEN <<c, rows>>
                            ELSE <<None, DeleteCache(rows, {p})>>
    BY ZenonT(60), <1>3 DEF CopyFileLocal
  <2> QED BY <2>1, <1>1, DeleteAmong
<1> QED BY <1>2, <1>3

-----------------------------------------------------------------------------
(* What the steps do to the files and the cache. *)

\* Files go, rows go.
LEMMA DiskShrinks ==
    ASSUME Shape, DiskInv, Among(cache', cache),
           \A q \in Path : fs'[q] \in {fs[q], None}
    PROVE  DiskInv'
<1>1. TimesInv'
  BY Zenon DEF DiskInv, TimesInv, IsFile
<1>2. CacheInv'
  <2> SUFFICES ASSUME NEW p \in Path, NEW q \in Path,
                      cache'[p] # None, IsFile(fs'[q]), cache'[p].t = fs'[q].t
               PROVE  cache'[p].c = fs'[q].c \/ fs'[q].x # "no"
    BY Zenon DEF CacheInv, IsFile
  <2>1. fs'[q] = fs[q]
    BY Zenon DEF IsFile
  <2>2. PICK r \in Path : cache[r] # None /\ cache'[p].c = cache[r].c
                          /\ cache'[p].t = cache[r].t
    BY Zenon DEF Among
  <2> QED BY <2>1, <2>2 DEF DiskInv, CacheInv
<1> QED BY <1>1, <1>2 DEF DiskInv

\* A file moves to another path, over what is there.
LEMMA DiskMoves ==
    ASSUME Shape, DiskInv, Among(cache', cache), NEW a \in Path, NEW b \in Path, a # b,
           fs' = [fs EXCEPT ![b] = fs[a], ![a] = None]
    PROVE  DiskInv' /\ fs' \in [Path -> Files \cup {Dir, None}]
<1>1. fs' \in [Path -> Files \cup {Dir, None}]
  BY Zenon DEF Shape
<1>2. /\ fs'[a] = None /\ fs'[b] = fs[a]
      /\ \A q \in Path \ {a, b} : fs'[q] = fs[q]
  BY Zenon DEF Shape
<1>3. TimesInv'
  <2> SUFFICES ASSUME NEW p \in Path, NEW q \in Path,
                      p # q, IsFile(fs'[p]), IsFile(fs'[q])
               PROVE  fs'[p].t # fs'[q].t
    BY ZenonT(60) DEF TimesInv, IsFile
  <2>1. p # a /\ q # a
    BY ZenonT(60), <1>2 DEF IsFile
  <2> DEFINE was(r) == IF r = b THEN a ELSE r
  <2>2. was(p) \in Path /\ was(q) \in Path /\ was(p) # was(q)
    BY Zenon, <2>1
  <2>3. fs'[p] = fs[was(p)] /\ fs'[q] = fs[was(q)]
    BY ZenonT(60), <1>2, <2>1
  <2> QED BY <2>2, <2>3 DEF DiskInv, TimesInv
<1>4. CacheInv'
  <2> SUFFICES ASSUME NEW p \in Path, NEW q \in Path,
                      cache'[p] # None, IsFile(fs'[q]), cache'[p].t = fs'[q].t
               PROVE  cache'[p].c = fs'[q].c \/ fs'[q].x # "no"
    BY ZenonT(60) DEF CacheInv, IsFile
  <2>1. PICK s \in Path : fs'[q] = fs[s]
    BY ZenonT(60), <1>2 DEF IsFile
  <2>2. PICK r \in Path : cache[r] # None /\ cache'[p].c = cache[r].c
                          /\ cache'[p].t = cache[r].t
    BY Zenon DEF Among
  <2> QED BY <2>1, <2>2 DEF DiskInv, CacheInv
<1> QED BY <1>1, <1>3, <1>4 DEF DiskInv

\* A file gets a new status, and perhaps the row of its path with it.
LEMMA DiskRenews ==
    ASSUME Shape, DiskInv, NEW a \in Path, NEW f \in Files, f.t = NewTime,
           fs' = [fs EXCEPT ![a] = f],
           \A p \in Path : cache'[p] # None =>
               cache'[p] = cache[p] \/ cache'[p].c = f.c \/ f.x # "no",
           \A p \in Path : cache'[p] # None =>
               cache'[p] = cache[p] \/ cache'[p].t = NewTime
    PROVE  DiskInv' /\ fs' \in [Path -> Files \cup {Dir, None}]
<1>1. fs' \in [Path -> Files \cup {Dir, None}]
  BY Zenon DEF Shape
<1>2. fs'[a] = f /\ \A q \in Path \ {a} : fs'[q] = fs[q]
  BY Zenon DEF Shape
<1>3. /\ \A q \in Path : fs[q] # None => fs[q].t # f.t
      /\ \A q \in Path : cache[q] # None => cache[q].t # f.t
  BY Zenon, NewTimeIsNew
<1>4. TimesInv'
  BY <1>2, <1>3 DEF DiskInv, TimesInv, IsFile
<1>5. CacheInv'
  <2> SUFFICES ASSUME NEW p \in Path, NEW q \in Path,
                      cache'[p] # None, IsFile(fs'[q]), cache'[p].t = fs'[q].t
               PROVE  cache'[p].c = fs'[q].c \/ fs'[q].x # "no"
    BY Zenon DEF CacheInv, IsFile
  <2>1. CASE q = a
    BY Zenon, <1>2, <1>3, <2>1
  <2>2. CASE q # a
    BY <1>2, <1>3, <2>2 DEF DiskInv, CacheInv, IsFile
  <2> QED BY <2>1, <2>2
<1> QED BY <1>1, <1>4, <1>5 DEF DiskInv

\* A hash is cached.
LEMMA DiskCached ==
    ASSUME Shape, DiskInv, UNCHANGED fs, NEW a \in Path, NEW c \in Content, NEW t \in Nat,
           cache' = CacheFileHashes(cache, a, c, t),
           \A q \in Path : IsFile(fs[q]) /\ fs[q].t = t => fs[q].c = c \/ fs[q].x # "no"
    PROVE  DiskInv' /\ cache' \in CacheRows
<1>1. cache' \in CacheRows
  BY Zenon DEF Shape, CacheRows, CacheFileHashes, Entry, Rows
<1>2. /\ cache'[a].c = c /\ cache'[a].t = t
      /\ \A p \in Path \ {a} : cache'[p] = cache[p]
  BY Zenon DEF Shape, CacheFileHashes, Entry
<1>3. TimesInv'
  BY Zenon DEF DiskInv, TimesInv, IsFile
<1>4. CacheInv'
  BY <1>2 DEF DiskInv, CacheInv, IsFile
<1> QED BY <1>1, <1>3, <1>4 DEF DiskInv

-----------------------------------------------------------------------------
(* The initial states, and the steps around the operations. *)

\* The first sync finds files of distinct statuses and an empty cache.
LEMMA InitInv == Init => Inv
<1> SUFFICES ASSUME Init PROVE Inv
  BY Zenon
<1>1. PICK c \in Content, S \in SUBSET Name, t \in [Name -> 1 .. Cardinality(Name)] :
         /\ \A n, m \in Name : n # m => t[n] # t[m]
         /\ fs = [p \in Path |-> IF p \in S THEN File(c, t[p], "no") ELSE None]
  BY Zenon DEF Init
<1>2. \A n \in Name : t[n] \in Nat \ {0}
  BY ConstantsAssumption, FS_CardinalityType
<1>3. /\ fs \in [Path -> Files \cup {Dir, None}]
      /\ \A p \in Path : fs[p] # None => p \in Name /\ fs[p].t = t[p]
  BY Zenon, <1>1, <1>2 DEF Files, File, Path
<1>4. TimesInv
  BY <1>1, <1>3 DEF TimesInv, IsFile
<1>5. /\ cache \in [Path -> Rows \cup {None}] /\ \A p \in Path : cache[p] = None
      /\ listed \in [Name -> Told \cup {None}] /\ op = None /\ todo = {} /\ ~lost
  BY Zenon DEF Init, Nothing
<1> QED BY <1>3, <1>4, <1>5 DEF Inv, Shape, DiskInv, CacheInv, HashInv, OpInv

\* Without an operation there is nothing to say about one.
LEMMA NoOp ==
    ASSUME Shape', DiskInv', op' = None, ~lost' PROVE Inv'
BY DEF Inv, HashInv, OpInv

\* Steps that change neither files nor cache nor operation.
LEMMA QuietInv ==
    ASSUME Inv, UNCHANGED <<fs, cache, listed, op, todo, lost>>,
           op = None \/ pc' \in {"list", "work"}
    PROVE  Inv'
<1>1. Shape' /\ DiskInv' /\ HashInv' /\ ~lost'
  BY Zenon DEF Inv, Shape, DiskInv, TimesInv, CacheInv, HashInv, IsFile
<1>2. OpInv'
  BY Zenon DEF Inv, OpInv, PutInv, RemoveInv, TouchInv, RenameInv, SendInv, SafeAt, Holds,
         LateAt, Shunted, NeedsShunt, IsFile, ContentOf
<1> QED BY <1>1, <1>2 DEF Inv

\* clean_scratch removes files and changes none.
LEMMA ScratchGone ==
    ASSUME Shape
    PROVE  /\ CleanScratch(fs) \in [Path -> Files \cup {Dir, None}]
           /\ \A q \in Path : CleanScratch(fs)[q] \in {fs[q], None}
BY DEF Shape, CleanScratch

\* new and prepare: scratch files and rows go, none come.
LEMMA PrepareInv == ASSUME Inv, NEW typ, Prepare(typ) PROVE Inv'
<1>1. op' = None /\ UNCHANGED <<listed, todo, lost>> /\ fs' = CleanScratch(fs)
  BY Zenon DEF Prepare, Inv, OpInv
<1> DEFINE opened == DeleteCache(NextGeneration(cache), Scratch)
<1>2. Among(opened, cache)
  <2>1. Among(NextGeneration(cache), cache)
    BY Zenon, GenerationAmong DEF Inv, Shape, CacheRows
  <2>2. Among(opened, NextGeneration(cache))
    BY <2>1, DeleteAmong DEF Among
  <2> QED BY <2>1, <2>2, AmongTrans
<1>3. \E S : cache' = DeleteCache(opened, S) \/ cache' = Used(opened, S)
  BY Zenon DEF Prepare
<1> HIDE DEF opened
<1>4. Among(cache', cache)
  <2>1. Among(cache', opened)
    BY <1>2, <1>3, DeleteAmong, UsedAmong DEF Among
  <2> QED BY <1>2, <2>1, AmongTrans
<1>5. DiskInv'
  BY Zenon, <1>1, <1>4, ScratchGone, DiskShrinks DEF Inv
<1>6. Shape'
  BY Zenon, <1>1, <1>4, ScratchGone DEF Inv, Shape, Among, CacheRows
<1> QED BY <1>1, <1>5, <1>6, NoOp DEF Inv

\* clean_up: scratch files and rows go, none come.
LEMMA CleanUpInv == ASSUME Inv, CleanUp PROVE Inv'
<1>1. op' = None /\ UNCHANGED <<listed, todo, lost>> /\ fs' = CleanScratch(fs)
  BY Zenon DEF CleanUp, Inv, OpInv
<1> DEFINE swept == DeleteCache(cache, Scratch)
<1>2. Among(swept, cache)
  BY Zenon, DeleteAmong DEF Inv, Shape, CacheRows
<1>3. \E S : cache' = DeleteCache(swept, S)
  BY Zenon DEF CleanUp, PruneHashCache
<1> HIDE DEF swept
<1>4. Among(cache', cache)
  <2>1. Among(cache', swept)
    BY <1>2, <1>3, DeleteAmong DEF Among
  <2> QED BY <1>2, <2>1, AmongTrans
<1>5. DiskInv'
  BY Zenon, <1>1, <1>4, ScratchGone, DiskShrinks DEF Inv
<1>6. Shape'
  BY Zenon, <1>1, <1>4, ScratchGone DEF Inv, Shape, Among, CacheRows
<1> QED BY <1>1, <1>5, <1>6, NoOp DEF Inv

\* The process dies: the files stay, and the cache stays or is emptied.
LEMMA CrashInv == ASSUME Inv, Crash PROVE Inv'
<1>1. op' = None /\ listed' = Nothing /\ todo' = {} /\ UNCHANGED <<fs, lost>>
  BY Zenon DEF Crash, Forget
<1>2. cache' = cache \/ cache' = DeleteCache(cache, Path)
  BY Zenon DEF Crash
<1>3. Among(cache', cache)
  <2>1. cache \in CacheRows
    BY Zenon DEF Inv, Shape, CacheRows
  <2> QED BY <1>2, <2>1, DeleteAmong, AmongRefl
<1>4. DiskInv'
  BY Zenon, <1>1, <1>3, DiskShrinks DEF Inv
<1>5. Shape'
  BY Zenon, <1>1, <1>3 DEF Inv, Shape, Among, CacheRows, Nothing
<1> QED BY <1>1, <1>4, <1>5, NoOp DEF Inv

\* set_dir_clean touches neither files nor hashes.
LEMMA MarkInv == ASSUME Inv, Mark PROVE Inv'
<1>1. op' = None /\ listed' = Nothing /\ todo' = {} /\ UNCHANGED <<fs, cache, lost>>
  BY Zenon DEF Mark, Forget
<1>2. Shape' /\ DiskInv'
  BY Zenon, <1>1 DEF Inv, Shape, DiskInv, TimesInv, CacheInv, Nothing, IsFile
<1> QED BY <1>1, <1>2, NoOp DEF Inv

\* Opening the directory touches neither files nor hashes.
LEMMA ListInv == ASSUME Inv, List PROVE Inv'
<1>1. op' = None /\ listed' = Nothing /\ UNCHANGED <<fs, cache, lost>>
  BY Zenon DEF List, Inv, OpInv, disk
<1>2. todo' \subseteq Name
  BY Zenon DEF List, Present
<1>3. Shape' /\ DiskInv'
  BY Zenon, <1>1, <1>2 DEF Inv, Shape, DiskInv, TimesInv, CacheInv, Nothing, IsFile
<1> QED BY <1>1, <1>3, NoOp DEF Inv

\* A listing that fails leaves files and hashes alone.
LEMMA ListFailsInv ==
    ASSUME Inv, ListFails, UNCHANGED <<fs, cache, lost>> PROVE Inv'
<1>1. op' = None /\ listed' = Nothing /\ todo' = {}
  BY Zenon DEF ListFails
<1>2. Shape' /\ DiskInv'
  BY Zenon, <1>1 DEF Inv, Shape, DiskInv, TimesInv, CacheInv, Nothing, IsFile
<1> QED BY <1>1, <1>2, NoOp DEF Inv

\* An entry is listed, once the cache is known to be in order.
LEMMA ListedInv ==
    ASSUME Inv, NEW n \in Name, NEW fd \in Told, Listed(n, fd),
           DiskInv', cache' \in CacheRows, UNCHANGED <<fs, lost>>
    PROVE  Inv'
<1>1. op' = None /\ listed' = [listed EXCEPT ![n] = fd] /\ todo' \subseteq Name
  BY Zenon DEF Listed, Inv, Shape
<1>2. Shape'
  BY Zenon, <1>1 DEF Inv, Shape, CacheRows
<1> QED BY <1>1, <1>2, NoOp DEF Inv

\* What metadata_to_fd reports: nothing for nothing, else a hash or Unknown.
LEMMA FdShape ==
    ASSUME Shape, NEW n \in Path, fs[n] # None
    PROVE  /\ Fd(n).c # Unknown => Fd(n) \in Told
           /\ Fd(n).c = Unknown => IsFile(fs[n])
           /\ Fd(n).c \in Content \cup {Folder, Unknown}
<1>1. CASE fs[n].c = Folder
  BY Zenon, <1>1, ConstantsAssumption DEF Fd, ContentOf, Data, Told
<1>2. CASE fs[n].c # Folder
  <2>1. fs[n] \in Files
    BY <1>2 DEF Shape, Dir
  <2>2. Fd(n) = Data(IF Hit(n) THEN cache[n].c ELSE Unknown, fs[n].t)
    BY Zenon, <1>2 DEF Fd, ContentOf
  <2>3. Hit(n) => cache[n].c \in Content
    BY Zenon DEF Hit, Shape, Rows
  <2> QED BY <1>2, <2>1, <2>2, <2>3, ConstantsAssumption DEF Data, Told, IsFile, Files
<1> QED BY <1>1, <1>2

\* list, an entry: its cached hash is used, or its status is taken.
LEMMA ListStatInv == ASSUME Inv, NEW n \in Name, ListStat(n) PROVE Inv'
<1> n \in Path
  BY Zenon DEF Path
<1> USE DEF ListStat
<1>1. CASE fs[n] = None /\ ListFails /\ UNCHANGED cache
  BY Zenon, <1>1, ListFailsInv
<1>2. CASE /\ fs[n] # None /\ Fd(n).c # Unknown
           /\ Listed(n, Fd(n)) /\ cache' = Used(cache, {n})
  <2>1. Among(cache', cache)
    BY Zenon, <1>2, UsedAmong DEF Inv, Shape, CacheRows
  <2>2. UNCHANGED <<fs, lost>>
    BY Zenon
  <2>3. DiskInv'
    BY Zenon, <2>1, <2>2, DiskShrinks DEF Inv
  <2>4. Fd(n) \in Told
    BY Zenon, <1>2, FdShape DEF Inv
  <2> QED BY <1>2, <2>1, <2>2, <2>3, <2>4, ListedInv DEF Among
<1>3. CASE /\ fs[n] # None /\ Fd(n).c = Unknown
           /\ op' = [Operation("hash", n, n, None, None, "hash") EXCEPT !.t = fs[n].t]
           /\ UNCHANGED <<cache, pc, listed, sum, todo, ok, known, quiet>>
  <2>1. IsFile(fs[n]) /\ fs[n] \in Files
    BY <1>3, FdShape DEF Inv, Shape, IsFile, Dir
  <2>2. op' = [do |-> "hash", n |-> n, m |-> n, old |-> None, c |-> None, at |-> "hash",
               got |-> None, t |-> fs[n].t]
    BY Zenon, <1>3 DEF Operation
  <2>3. op' \in Operations
    <3>1. fs[n].t \in Nat
      BY Zenon, <2>1 DEF Files
    <3> QED BY <2>2, <3>1 DEF Operations
  <2>4. UNCHANGED <<fs, cache, listed, todo, lost, pc>> /\ pc = "list"
    BY Zenon, <1>3
  <2>5. Shape' /\ DiskInv'
    BY <2>3, <2>4 DEF Inv, Shape, DiskInv, TimesInv, CacheInv, IsFile
  <2>6. HashInv'
    BY <2>1, <2>2, <2>4 DEF HashInv, Inv, DiskInv, TimesInv, IsFile
  <2>7. OpInv'
    BY Zenon, <2>2, <2>4 DEF OpInv, PutInv, RemoveInv, TouchInv, RenameInv, SendInv
  <2> QED BY <2>4, <2>5, <2>6, <2>7 DEF Inv
<1> QED BY <1>1, <1>2, <1>3

\* get_or_compute_hash: the hash is that of the file with the status taken
\* before, or of one whose status no row will ever match.
LEMMA ListHashInv == ASSUME Inv, ListHash PROVE Inv'
<1>1. op # None /\ op.do = "hash" /\ UNCHANGED <<fs, lost>>
  BY Zenon DEF ListHash
<1>2. op \in Operations /\ op.n \in Name /\ op.n \in Path /\ op.t \in Nat
  BY Zenon, <1>1 DEF Inv, Shape, Operations, Path
<1>3. CASE IsFile(fs[op.n])
  <2> DEFINE c == fs[op.n].c
  <2>1. c \in Content
    BY <1>2, <1>3 DEF Inv, Shape, Files, Dir, IsFile
  <2>2. cache' = CacheFileHashes(cache, op.n, c, op.t) /\ Listed(op.n, Data(c, op.t))
    BY Zenon, <1>3 DEF ListHash
  <2>3. \A q \in Path : IsFile(fs[q]) /\ fs[q].t = op.t => fs[q].c = c \/ fs[q].x # "no"
    BY Zenon, <1>1 DEF Inv, HashInv
  <2> HIDE DEF c
  <2>4. DiskInv' /\ cache' \in CacheRows
    BY <1>1, <1>2, <2>1, <2>2, <2>3, DiskCached DEF Inv
  <2>5. Data(c, op.t) \in Told
    BY Zenon, <1>2, <2>1 DEF Data, Told
  <2> QED BY <1>1, <1>2, <2>2, <2>4, <2>5, ListedInv
<1>4. CASE ~IsFile(fs[op.n])
  BY Zenon, <1>1, <1>4, ListFailsInv DEF ListHash
<1> QED BY <1>3, <1>4

-----------------------------------------------------------------------------
(* The operations begin. *)

\* A new operation knows nothing yet of what is on the disk.
LEMMA BeginInv ==
    ASSUME Inv, NEW do \in {"put", "remove", "touch", "rename", "send", "rmdir"},
           NEW n \in Name, NEW m \in Name, NEW c \in Content \cup {Folder, None},
           NEW at \in {"xfer", "check", "read", "rmdir"},
           Begin(n, Operation(do, n, m, listed[n], c, at)),
           do # "put" => listed[n] # None,
           do = "put" => c \in Content \cup {Folder} /\ m = n
                         /\ (c # Folder => at = "xfer"),
           do = "touch" => listed[n].c \in Content,
           do = "rename" => m # n,
           do = "send" => at = "read",
           do = "rmdir" <=> at = "rmdir"
    PROVE  Inv'
<1>1. op' = [do |-> do, n |-> n, m |-> m, old |-> listed[n], c |-> c, at |-> at,
             got |-> None, t |-> 0]
  BY Zenon DEF Begin, Operation
<1>2. listed[n] \in Told \cup {None}
  BY Zenon DEF Inv, Shape
<1>3. op' \in Operations
  BY Zenon, <1>1, <1>2 DEF Operations
<1>4. UNCHANGED <<fs, cache, listed, pc, lost>> /\ todo' \subseteq Name /\ pc = "work"
  BY Zenon DEF Begin, disk, Inv, Shape
<1>5. Shape' /\ DiskInv'
  BY Zenon, <1>3, <1>4 DEF Inv, Shape, DiskInv, TimesInv, CacheInv, IsFile
<1>6. HashInv'
  BY Zenon, <1>1 DEF HashInv
<1>7. OpInv'
  BY Zenon, <1>1, <1>4 DEF OpInv, PutInv, RemoveInv, TouchInv, RenameInv, SendInv, Shunted
<1> QED BY <1>4, <1>5, <1>6, <1>7 DEF Inv

\* Every request of the reconciler is a new operation.
LEMMA AskInv == ASSUME Inv, NEW n \in Name, Ask(n) PROVE Inv'
<1> listed[n] \in Told \cup {None}
  BY Zenon DEF Inv, Shape
<1>1. CASE BeginRemove(n)
  BY Zenon, <1>1, BeginInv DEF BeginRemove
<1>2. CASE BeginTouch(n)
  <2>1. listed[n] # None /\ listed[n].c \in Content
    BY Zenon, <1>2 DEF BeginTouch, IsFile, Told
  <2> QED BY <1>2, <2>1, BeginInv DEF BeginTouch
<1>3. CASE BeginSend(n)
  BY Zenon, <1>3, BeginInv DEF BeginSend, IsFile
<1>4. CASE BeginRmdir(n)
  <2>1. listed[n] # None
    BY Zenon, <1>4, ConstantsAssumption DEF BeginRmdir, ContentOf
  <2> QED BY <1>4, <2>1, BeginInv DEF BeginRmdir
<1>5. ASSUME NEW c \in Content \cup {Folder}, BeginPut(n, c) PROVE Inv'
  <2>1. CASE c = Folder
    BY Zenon, <1>5, <2>1, BeginInv DEF BeginPut
  <2>2. CASE c # Folder
    BY Zenon, <1>5, <2>2, BeginInv DEF BeginPut
  <2> QED BY <2>1, <2>2
<1>6. ASSUME NEW m \in Name, BeginRename(n, m) PROVE Inv'
  BY <1>6, BeginInv DEF BeginRename
<1> QED BY <1>1, <1>2, <1>3, <1>4, <1>5, <1>6 DEF Ask

-----------------------------------------------------------------------------
(* The steps of an operation. *)

\* An operation is about two names of the directory.
LEMMA OpShape ==
    ASSUME Inv, op # None
    PROVE  op \in Operations /\ op.n \in Name /\ op.m \in Name /\ op.n \in Path
           /\ op.m \in Path /\ op.old \in Told \cup {None} /\ op.t \in Nat
BY DEF Inv, Shape, Operations, Path

\* The operation ends, well or not.
LEMMA EndInv ==
    ASSUME Inv, op' = None, NoMark, ~lost', DiskInv', cache' \in CacheRows,
           fs' \in [Path -> Files \cup {Dir, None}]
    PROVE  Inv'
<1>1. Shape'
  BY Zenon DEF Inv, Shape, NoMark, CacheRows
<1> QED BY <1>1, NoOp

\* The same when it leaves the files alone and adds no row.
LEMMA EndQuietInv ==
    ASSUME Inv, op' = None, NoMark, UNCHANGED <<fs, lost>>, Among(cache', cache)
    PROVE  Inv'
<1>1. DiskInv'
  BY Zenon, DiskShrinks DEF Inv
<1> QED BY <1>1, EndInv DEF Inv, Shape, Among

\* An operation that fails leaves files and hashes as they are.
LEMMA FailInv ==
    ASSUME Inv, Fail, NoMark, UNCHANGED <<fs, lost, cache>> PROVE Inv'
<1>1. Among(cache', cache)
  BY Zenon, AmongRefl DEF Inv, Shape, CacheRows
<1> QED BY <1>1, EndQuietInv DEF Fail

\* A transfer ends with the content that was asked for, from whichever source.
LEMMA XferStep ==
    ASSUME Inv, Xfer
    PROVE  /\ op # None /\ op.do = "put" /\ op.at = "xfer" /\ Among(cache', cache)
           /\ op' \in Operations /\ op' # None
           /\ op'.do = op.do /\ op'.n = op.n /\ op'.m = op.m /\ op'.old = op.old
           /\ op'.c = op.c /\ op'.at = "check" /\ op'.got = op.c /\ op'.t = op.t
<1>1. op # None /\ op.do = "put" /\ op.at = "xfer" /\ NoMark /\ UNCHANGED <<fs, lost>>
  BY SMTT(60) DEF Xfer, At
<1>2. PICK whole \in CopyFileLocal(cache, op.c) :
      \E block \in IF whole[1] = None THEN FetchBlockLocal(whole[2], op.c) ELSE {whole} :
         /\ cache' = block[2]
         /\ op' = [op EXCEPT !.at = "check",
                             !.got = IF block[1] = None THEN op.c ELSE block[1]]
  BY ZenonT(60) DEF Xfer
<1>3. PICK block \in IF whole[1] = None THEN FetchBlockLocal(whole[2], op.c) ELSE {whole} :
         /\ cache' = block[2]
         /\ op' = [op EXCEPT !.at = "check",
                             !.got = IF block[1] = None THEN op.c ELSE block[1]]
  BY ZenonT(60), <1>2
<1>4. block[1] \in {op.c, None} /\ Among(cache', cache)
  <2>1. whole[1] \in {op.c, None} /\ Among(whole[2], cache)
    BY Zenon, CopyAmong DEF Inv, Shape, CacheRows
  <2>2. CASE whole[1] = None
    <3>1. block[1] \in {op.c, None} /\ Among(block[2], whole[2])
      BY <1>3, <2>1, <2>2, CopyAmong DEF FetchBlockLocal, Among
    <3> QED BY <1>3, <2>1, <3>1, AmongTrans
  <2>3. CASE whole[1] # None
    BY Zenon, <1>3, <2>1, <2>3
  <2> QED BY <2>2, <2>3
<1> DEFINE got == IF block[1] = None THEN op.c ELSE block[1]
<1>5. got = op.c
  BY Zenon, <1>4
<1>6. op' = [op EXCEPT !.at = "check", !.got = op.c]
  BY ZenonT(60), <1>3, <1>5
<1> HIDE DEF got
<1>7. op' \in Operations /\ op' # None
  BY ZenonT(60), <1>1, <1>6, OpShape, ConstantsAssumption DEF Operations, Inv, OpInv, PutInv
<1>8. /\ op'.do = op.do /\ op'.n = op.n /\ op'.m = op.m /\ op'.old = op.old
      /\ op'.c = op.c /\ op'.at = "check" /\ op'.got = op.c /\ op'.t = op.t
  BY Zenon, <1>1, <1>6, OpShape DEF Operations
<1> QED BY <1>1, <1>4, <1>7, <1>8

\* So it keeps the invariant.
LEMMA XferInv == ASSUME Inv, Xfer PROVE Inv'
<1>1. NoMark /\ UNCHANGED <<fs, lost>>
  BY SMTT(60) DEF Xfer
<1>2. DiskInv'
  BY Zenon, <1>1, XferStep, DiskShrinks DEF Inv
<1>3. Shape'
  BY Zenon, <1>1, XferStep DEF Inv, Shape, NoMark, Among, CacheRows
<1>4. HashInv'
  BY Zenon, <1>1, XferStep DEF Inv, HashInv
<1>5. OpInv'
  BY ZenonT(60), <1>1, XferStep
     DEF Inv, OpInv, PutInv, RemoveInv, TouchInv, RenameInv, SendInv, Shunted, NoMark
<1> QED BY <1>1, <1>2, <1>3, <1>4, <1>5 DEF Inv

\* check_matches: a file that looks as expected is what the operation was told.
LEMMA LookIsRight ==
    ASSUME Inv, op # None, op.do # "rename", AsExpected
    PROVE  /\ SafeAt(op.n)
           /\ op.do = "touch" /\ cache[op.n] # None => cache[op.n].c = op.old.c
<1>1. CASE op.old = None
  BY Zenon, <1>1 DEF AsExpected, SafeAt, IsFile, Inv, OpInv, TouchInv
<1>2. CASE op.old # None
  <2>1. fs[op.n] # None /\ Fd(op.n) = op.old
    BY Zenon, <1>2 DEF AsExpected
  <2>2. op.old \in Told /\ op.old.c # Unknown
    BY Zenon, <1>2, OpShape, ConstantsAssumption DEF Told
  <2>3. CASE fs[op.n].c = Folder
    <3>1. op.old.c = Folder
      BY <2>1, <2>3 DEF Fd, ContentOf, Data
    <3> QED BY <2>3, <3>1, ConstantsAssumption DEF SafeAt, IsFile, Inv, OpInv, TouchInv
  <2>4. CASE fs[op.n].c # Folder
    <3>1. Fd(op.n) = Data(IF Hit(op.n) THEN cache[op.n].c ELSE Unknown, fs[op.n].t)
      BY Zenon, <2>1, <2>4 DEF Fd, ContentOf
    <3>2. Hit(op.n) /\ cache[op.n].c = op.old.c
      BY <2>1, <2>2, <3>1 DEF Data
    <3>3. fs[op.n].c = op.old.c \/ fs[op.n].x # "no"
      BY Zenon, <3>2, OpShape DEF Hit, Inv, DiskInv, CacheInv
    <3> QED BY <1>2, <3>2, <3>3 DEF SafeAt, ContentOf
  <2> QED BY <2>3, <2>4
<1> QED BY <1>1, <1>2

\* The look an operation takes: it goes on only with what it was told.
LEMMA CheckStep ==
    ASSUME Inv, Check, AsExpected
    PROVE  /\ op' \in Operations /\ op' # None
           /\ op'.do = op.do /\ op'.n = op.n /\ op'.m = op.m /\ op'.old = op.old
           /\ op'.c = op.c /\ op'.t = op.t
           /\ op'.at \in {"shunt", "do"} /\ (op'.at = "shunt" => NeedsShunt)
           /\ op.do # "rename" => op'.got = op.got
<1>1. op # None /\ op.at = "check"
  BY Zenon DEF Check
<1> DEFINE at == IF NeedsShunt THEN "shunt" ELSE "do"
           got == IF op.do = "rename" THEN Fd(op.n).c ELSE op.got
<1>2. op' = [op EXCEPT !.at = at, !.got = got]
  BY Zenon, <1>1, OpShape DEF Check, Operations
<1>3. at \in {"shunt", "do"} /\ (at = "shunt" => NeedsShunt)
  BY Zenon
<1>4. got \in Content \cup {Folder, Unknown, None} /\ (op.do # "rename" => got = op.got)
  <2>1. CASE op.do = "rename"
    <3>1. fs[op.n] # None
      BY Zenon, <2>1 DEF AsExpected
    <3> QED BY <1>1, <2>1, <3>1, OpShape, FdShape DEF Inv
  <2>2. CASE op.do # "rename"
    BY Zenon, <1>1, <2>2, OpShape DEF Operations
  <2> QED BY <2>1, <2>2
<1> HIDE DEF at, got
<1>5. op' \in Operations /\ op' # None
  BY ZenonT(60), <1>1, <1>2, <1>3, <1>4, OpShape, ConstantsAssumption DEF Operations
<1>6. /\ op'.do = op.do /\ op'.n = op.n /\ op'.m = op.m /\ op'.old = op.old
      /\ op'.c = op.c /\ op'.at = at /\ op'.got = got /\ op'.t = op.t
  BY Zenon, <1>1, <1>2, OpShape DEF Operations
<1> QED BY Zenon, <1>3, <1>4, <1>5, <1>6

\* So it keeps the invariant.
LEMMA CheckInv == ASSUME Inv, Check PROVE Inv'
<1>1. op # None /\ op.at = "check" /\ NoMark /\ UNCHANGED <<fs, lost>>
      /\ cache' = Used(cache, {op.n})
  BY Zenon DEF Check
<1>2. Among(cache', cache)
  BY Zenon, <1>1, UsedAmong DEF Inv, Shape, CacheRows
<1>3. CASE ~AsExpected
  BY Zenon, <1>1, <1>2, <1>3, EndQuietInv DEF Check, Fail
<1>4. CASE AsExpected
  <2>1. DiskInv'
    BY Zenon, <1>1, <1>2, DiskShrinks DEF Inv
  <2>2. Shape'
    BY ZenonT(60), <1>1, <1>2, <1>4, CheckStep DEF Inv, Shape, NoMark, Among, CacheRows
  <2>3. HashInv'
    BY Zenon, <1>1, <1>4, CheckStep DEF Inv, HashInv, OpInv
  <2>4. op.do # "rename" => SafeAt(op.n)'
    BY Zenon, <1>1, <1>4, CheckStep, LookIsRight DEF SafeAt, IsFile, ContentOf
  <2>5. op.do = "touch" /\ cache'[op.n] # None => cache'[op.n].c = op.old.c
    <3>1. cache'[op.n] # None => cache[op.n] # None /\ cache'[op.n].c = cache[op.n].c
      BY Zenon, <1>1, OpShape DEF Used, Inv, Shape, Rows
    <3> QED BY <1>1, <1>4, <3>1, LookIsRight
  <2>6. op.do = "rename" => fs'[op.m] = None
    BY SMTT(60), <1>1, <1>4 DEF AsExpected
  <2>7. PutInv'
    BY SMTT(60), <1>1, <1>4, <2>4, CheckStep DEF Inv, OpInv, PutInv, Shunted, NeedsShunt
  <2>8. RemoveInv' /\ TouchInv' /\ RenameInv' /\ SendInv'
    BY Zenon, <1>1, <1>4, <2>4, <2>5, <2>6, CheckStep
       DEF Inv, OpInv, RemoveInv, TouchInv, RenameInv, SendInv, Shunted, IsFile, LateAt
  <2>9. OpInv'
    BY Zenon, <1>1, <1>4, <2>7, <2>8, CheckStep DEF Inv, OpInv, NoMark
  <2> QED BY <1>1, <2>1, <2>2, <2>3, <2>9 DEF Inv
<1> QED BY <1>3, <1>4

\* A name comes to hold a directory, or nothing.
LEMMA DiskUnfiles ==
    ASSUME Inv, NEW a \in Path, NEW e \in {Dir, None}, fs' = [fs EXCEPT ![a] = e],
           Among(cache', cache)
    PROVE  /\ DiskInv' /\ cache' \in CacheRows /\ fs' \in [Path -> Files \cup {Dir, None}]
           /\ ~IsFile(fs'[a]) /\ \A q \in Path \ {a} : fs'[q] = fs[q]
<1>1. /\ cache' \in CacheRows /\ fs' \in [Path -> Files \cup {Dir, None}]
      /\ fs'[a] = e /\ \A q \in Path \ {a} : fs'[q] = fs[q]
  BY Zenon DEF Inv, Shape, Among
<1>2. ~IsFile(e)
  BY DEF IsFile, Dir
<1>3. TimesInv'
  BY Zenon, <1>1, <1>2 DEF Inv, DiskInv, TimesInv, IsFile
<1>4. CacheInv'
  <2> SUFFICES ASSUME NEW p \in Path, NEW q \in Path,
                      cache'[p] # None, IsFile(fs'[q]), cache'[p].t = fs'[q].t
               PROVE  cache'[p].c = fs'[q].c \/ fs'[q].x # "no"
    BY Zenon DEF CacheInv, IsFile
  <2>1. fs'[q] = fs[q]
    BY Zenon, <1>1, <1>2
  <2>2. PICK r \in Path : cache[r] # None /\ cache'[p].c = cache[r].c
                          /\ cache'[p].t = cache[r].t
    BY SMTT(60) DEF Among
  <2> QED BY <2>1, <2>2 DEF Inv, DiskInv, CacheInv
<1> QED BY <1>1, <1>2, <1>3, <1>4 DEF DiskInv

\* An operation that destroys nothing but what it may leaves `lost` alone.
LEMMA NothingLost ==
    ASSUME Inv, NEW e, Loses(e),
           IsFile(e) => e.c = ContentOf(op.old) \/ e.x # "no"
    PROVE  ~lost'
BY ZenonT(60) DEF Inv, Loses

\* shunt_file finds a free name: nothing has happened to what was checked.
LEMMA ShuntLookInv == ASSUME Inv, ShuntLook PROVE Inv'
<1>1. /\ op # None /\ op.do = "put" /\ op.at = "shunt" /\ NoMark
      /\ UNCHANGED <<fs, cache, lost>>
  BY ZenonT(60) DEF ShuntLook, At
<1>2. CASE Fail
  BY Zenon, <1>1, <1>2, FailInv
<1>3. ASSUME NEW m \in Name \ (Present \cup {op.n}),
             op' = [op EXCEPT !.at = "move", !.m = m]
      PROVE  Inv'
  <2>1. m # op.n /\ fs[m] = None
    BY Zenon, <1>3 DEF Present
  <2>2. op' \in Operations /\ op' # None
    BY ZenonT(60), <1>1, <1>3, OpShape, ConstantsAssumption DEF Operations
  <2>3. /\ op'.do = op.do /\ op'.n = op.n /\ op'.m = m /\ op'.old = op.old
        /\ op'.c = op.c /\ op'.at = "move" /\ op'.got = op.got /\ op'.t = op.t
    BY Zenon, <1>1, <1>3, OpShape DEF Operations
  <2>4. Shape' /\ DiskInv'
    BY Zenon, <1>1, <2>2 DEF Inv, Shape, NoMark, DiskInv, TimesInv, CacheInv, IsFile
  <2>5. HashInv'
    BY Zenon, <1>1, <2>3 DEF Inv, HashInv
  <2>6. SafeAt(op.n)' /\ LateAt(op.m)'
    BY Zenon, <1>1, <2>1, <2>3 DEF Inv, OpInv, PutInv, SafeAt, LateAt, IsFile, ContentOf
  <2>7. PutInv'
    BY SMTT(60), <1>1, <2>1, <2>3, <2>6 DEF Inv, OpInv, PutInv, Shunted, NeedsShunt
  <2>8. OpInv'
    BY ZenonT(60), <1>1, <2>3, <2>7
       DEF Inv, OpInv, RemoveInv, TouchInv, RenameInv, SendInv, NoMark
  <2> QED BY <1>1, <2>4, <2>5, <2>8 DEF Inv
<1> QED BY ZenonT(60), <1>2, <1>3 DEF ShuntLook

\* shunt_file renames: what was checked is now under the new name.
LEMMA ShuntMoveInv == ASSUME Inv, ShuntMove PROVE Inv'
<1>1. op # None /\ op.do = "put" /\ op.at = "move" /\ NoMark
  BY ZenonT(60) DEF ShuntMove, At
<1>2. CASE Fail /\ UNCHANGED <<fs, cache, lost>>
  BY Zenon, <1>1, <1>2, FailInv
<1>3. CASE /\ fs' = Moved(op.n, op.m) /\ Loses(fs[op.m])
           /\ cache' = RenameCache(cache, op.n, op.m) /\ GoOn("do")
  <2>1. op.m \in Path /\ op.n \in Path /\ op.m # op.n
    BY Zenon, <1>1, OpShape DEF Inv, OpInv, PutInv, Shunted
  <2>2. Among(cache', cache)
    BY Zenon, <1>3, <2>1, RenameAmong DEF Inv, Shape, CacheRows
  <2>3. DiskInv' /\ fs' \in [Path -> Files \cup {Dir, None}]
    BY ZenonT(60), <1>3, <2>1, <2>2, DiskMoves DEF Inv, Moved
  <2>4. fs'[op.n] = None /\ fs'[op.m] = fs[op.n]
    BY Zenon, <1>3, <2>1 DEF Moved, Inv, Shape
  <2>5. op' \in Operations /\ op' # None
    BY ZenonT(60), <1>1, <1>3, OpShape, ConstantsAssumption DEF Operations, GoOn
  <2>6. /\ op'.do = op.do /\ op'.n = op.n /\ op'.m = op.m /\ op'.old = op.old
        /\ op'.c = op.c /\ op'.at = "do" /\ op'.got = op.got /\ op'.t = op.t
    BY Zenon, <1>1, <1>3, OpShape DEF Operations, GoOn
  <2>7. Shape'
    BY Zenon, <1>1, <2>2, <2>3, <2>5 DEF Inv, Shape, NoMark, Among, CacheRows
  <2>8. HashInv'
    BY Zenon, <1>1, <2>6 DEF Inv, HashInv
  <2>9. SafeAt(op.n)' /\ SafeAt(op.m)'
    BY SMTT(60), <1>1, <2>4, <2>6 DEF Inv, OpInv, PutInv, SafeAt, IsFile, ContentOf
  <2>10. PutInv'
    BY SMTT(60), <1>1, <2>1, <2>6, <2>9 DEF Inv, OpInv, PutInv, Shunted, NeedsShunt
  <2>11. OpInv'
    BY ZenonT(60), <1>1, <2>6, <2>10
       DEF Inv, OpInv, RemoveInv, TouchInv, RenameInv, SendInv, NoMark
  <2>12. ~lost'
    BY Zenon, <1>1, <1>3, NothingLost DEF Inv, OpInv, PutInv, LateAt
  <2> QED BY <2>3, <2>7, <2>8, <2>11, <2>12 DEF Inv
<1> QED BY ZenonT(60), <1>2, <1>3 DEF ShuntMove

\* put_file over the old name: only what was checked is replaced, or what came
\* in the window.
LEMMA PutFileInv == ASSUME Inv, PutFile PROVE Inv'
<1>1. op # None /\ op.do = "put" /\ op.at = "do" /\ op.c # Folder /\ NoMark
      /\ UNCHANGED cache
  BY Zenon DEF PutFile, At
<1>2. CASE ContentOf(fs[op.n]) = Folder
  BY Zenon, <1>1, <1>2, FailInv DEF PutFile
<1>3. CASE ContentOf(fs[op.n]) # Folder
  <2> DEFINE f == File(op.got, NewTime, "no")
  <2>1. Loses(fs[op.n]) /\ fs' = [fs EXCEPT ![op.n] = f] /\ GoOn("stat")
    BY SMTT(60), <1>3 DEF PutFile
  <2>2. ~lost'
    BY Zenon, <1>1, <2>1, NothingLost DEF Inv, OpInv, PutInv, SafeAt
  <2>3. op.got = op.c /\ op.c \in Content
    BY Zenon, <1>1 DEF Inv, OpInv, PutInv
  <2>4. f \in Files /\ f.t = NewTime /\ f.c = op.c
    BY Zenon, <2>3, NewTimeIsNew DEF Inv, Files, File
  <2> HIDE DEF f
  <2>5. DiskInv' /\ fs' \in [Path -> Files \cup {Dir, None}]
    BY ZenonT(60), <1>1, <2>1, <2>4, DiskRenews, OpShape DEF Inv
  <2>6. fs'[op.n] = f
    BY Zenon, <1>1, <2>1, OpShape DEF Inv, Shape
  <2>7. op' \in Operations /\ op' # None
    BY Zenon, <1>1, <2>1, OpShape, ConstantsAssumption DEF Operations, GoOn
  <2>8. /\ op'.do = op.do /\ op'.n = op.n /\ op'.m = op.m /\ op'.old = op.old
        /\ op'.c = op.c /\ op'.at = "stat" /\ op'.got = op.got /\ op'.t = op.t
    BY Zenon, <1>1, <2>1, OpShape DEF Operations, GoOn
  <2>9. Shape'
    BY Zenon, <1>1, <2>5, <2>7 DEF Inv, Shape, NoMark
  <2>10. HashInv'
    BY SMTT(60), <1>1, <2>8 DEF Inv, HashInv
  <2>11. PutInv'
    BY SMTT(60), <1>1, <2>3, <2>4, <2>6, <2>8 DEF Inv, OpInv, PutInv, Shunted, Holds
  <2>12. OpInv'
    BY Zenon, <1>1, <2>8, <2>11 DEF Inv, OpInv, RemoveInv, TouchInv, RenameInv, SendInv, NoMark
  <2> QED BY <2>2, <2>5, <2>9, <2>10, <2>12 DEF Inv
<1> QED BY <1>2, <1>3

\* After a directory took the place of the file, or the hash of the new file was
\* cached, what was moved aside is left to be removed.
LEMMA TidyNextInv ==
    ASSUME Inv, op # None, op.do = "put", NoMark, UNCHANGED lost, Shunted, GoOn("tidy"),
           DiskInv', cache' \in CacheRows, fs' \in [Path -> Files \cup {Dir, None}],
           op.at \in {"do", "stat"}, fs'[op.m] = fs[op.m]
    PROVE  Inv'
<1>1. op' \in Operations /\ op' # None
  BY Zenon, OpShape, ConstantsAssumption DEF Operations, GoOn
<1>2. /\ op'.do = op.do /\ op'.n = op.n /\ op'.m = op.m /\ op'.old = op.old
      /\ op'.c = op.c /\ op'.at = "tidy" /\ op'.got = op.got /\ op'.t = op.t
  BY Zenon, OpShape DEF Operations, GoOn
<1>3. Shape'
  BY Zenon, <1>1 DEF Inv, Shape, NoMark, CacheRows
<1>4. HashInv'
  BY SMTT(60), <1>2 DEF Inv, HashInv
<1>5. PutInv'
  BY SMTT(60), <1>2 DEF Inv, OpInv, PutInv, Shunted, SafeAt, IsFile, ContentOf
<1>6. OpInv'
  BY Zenon, <1>2, <1>5 DEF Inv, OpInv, RemoveInv, TouchInv, RenameInv, SendInv, NoMark
<1> QED BY <1>3, <1>4, <1>6 DEF Inv

\* put_file makes a directory only where nothing is.
LEMMA PutFolderInv == ASSUME Inv, PutFolder PROVE Inv'
<1>1. op # None /\ op.do = "put" /\ op.at = "do" /\ NoMark /\ UNCHANGED <<cache, lost>>
  BY SMTT(60) DEF PutFolder, At
<1>2. CASE fs[op.n] # None
  BY Zenon, <1>1, <1>2, FailInv DEF PutFolder
<1>3. CASE fs[op.n] = None
  <2>1. fs' = [fs EXCEPT ![op.n] = Dir]
    BY Zenon, <1>3 DEF PutFolder
  <2>2. Among(cache', cache)
    BY Zenon, <1>1, AmongRefl DEF Inv, Shape, CacheRows
  <2>3. /\ DiskInv' /\ cache' \in CacheRows /\ fs' \in [Path -> Files \cup {Dir, None}]
        /\ \A q \in Path \ {op.n} : fs'[q] = fs[q]
    BY ZenonT(60), <1>1, <2>1, <2>2, OpShape, DiskUnfiles
  <2>4. CASE Shunted
    <3>1. GoOn("tidy") /\ fs'[op.m] = fs[op.m]
      BY Zenon, <1>1, <1>3, <2>3, <2>4, OpShape DEF PutFolder, Shunted
    <3> QED BY <1>1, <2>3, <2>4, <3>1, TidyNextInv
  <2>5. CASE ~Shunted
    <3>1. op' = None
      BY Zenon, <1>3, <2>5 DEF PutFolder, Done
    <3> QED BY <1>1, <2>3, <3>1, EndInv DEF Inv
  <2> QED BY <2>4, <2>5
<1> QED BY <1>2, <1>3

\* update_cache: the file that is there has the content, or was written in the
\* window.
LEMMA UpdateCacheInv ==
    ASSUME Inv, NEW n \in Path, NEW c \in Content, Holds(n, c), UNCHANGED fs,
           cache' = UpdateCache(cache, n, c)
    PROVE  DiskInv' /\ cache' \in CacheRows
<1>1. CASE fs[n] = None
  <2>1. Among(cache', cache)
    BY Zenon, <1>1, AmongRefl DEF UpdateCache, Inv, Shape, CacheRows
  <2> QED BY <2>1, DiskShrinks DEF Inv, Among
<1>2. CASE fs[n] # None
  <2>1. cache' = CacheFileHashes(cache, n, c, fs[n].t)
    BY Zenon, <1>2 DEF UpdateCache
  <2>2. fs[n].t \in Nat
    BY <1>2 DEF Inv, Shape, Files, Dir
  <2>3. ASSUME NEW q \in Path, IsFile(fs[q]), fs[q].t = fs[n].t
        PROVE  fs[q].c = c \/ fs[q].x # "no"
    <3>1. fs[q] \in Files /\ fs[q].t # 0
      BY <2>3 DEF Inv, Shape, Files, Dir, IsFile
    <3>2. IsFile(fs[n])
      BY <1>2, <2>3, <3>1, ConstantsAssumption DEF Inv, Shape, Dir, IsFile, Files
    <3>3. q = n
      BY Zenon, <2>3, <3>2 DEF Inv, DiskInv, TimesInv
    <3> QED BY <3>2, <3>3 DEF Holds
  <2> QED BY <2>1, <2>2, <2>3, DiskCached DEF Inv
<1> QED BY <1>1, <1>2

\* update_cache after the rename: the hash is that of the file, unless a user
\* wrote it in the window.
LEMMA PutStatInv == ASSUME Inv, PutStat PROVE Inv'
<1>1. op # None /\ op.do = "put" /\ op.at = "stat" /\ NoMark /\ UNCHANGED <<fs, lost>>
      /\ cache' = UpdateCache(cache, op.n, op.c)
  BY Zenon DEF PutStat, At
<1>2. op.c \in Content /\ Holds(op.n, op.c)
  BY Zenon, <1>1 DEF Inv, OpInv, PutInv
<1>3. DiskInv' /\ cache' \in CacheRows /\ fs' \in [Path -> Files \cup {Dir, None}]
  BY Zenon, <1>1, <1>2, OpShape, UpdateCacheInv DEF Inv, Shape
<1>4. CASE Shunted
  BY Zenon, <1>1, <1>3, <1>4, TidyNextInv DEF PutStat
<1>5. CASE ~Shunted
  <2>1. op' = None
    BY Zenon, <1>5 DEF PutStat, Done
  <2> QED BY <1>1, <1>3, <2>1, EndInv DEF Inv
<1> QED BY <1>4, <1>5

\* remove_general takes one file away, to the scratch files or altogether.
LEMMA RemoveGeneralInv ==
    ASSUME Inv, op # None, NEW p \in Name, NEW r \in RemoveGeneral(p),
           fs' = r[1], Among(cache', r[2])
    PROVE  /\ DiskInv' /\ cache' \in CacheRows /\ fs' \in [Path -> Files \cup {Dir, None}]
           /\ IsFile(fs[p]) => op.old.c # Folder
<1> p \in Path /\ cache \in CacheRows
  BY Zenon DEF Path, Inv, Shape, CacheRows
<1>1. CASE fs[p] = None /\ op.old.c # Folder
  <2>1. r = <<fs, DeleteCache(cache, {p})>>
    BY Zenon, <1>1 DEF RemoveGeneral, IsFile
  <2>2. Among(cache', cache)
    BY Zenon, <2>1, DeleteAmong, AmongTrans
  <2> QED BY <1>1, <2>1, <2>2, DiskShrinks DEF Inv, Shape, Among
<1>2. CASE IsFile(fs[p]) /\ op.old.c # Folder
  <2>1. r \in HideFile(p)
    BY Zenon, <1>2 DEF RemoveGeneral, IsFile
  <2>2. CASE r = <<[fs EXCEPT ![p] = None, ![Hidden(op.n)] = fs[p]],
                   RenameCache(cache, p, Hidden(op.n))>>
    <3>1. Hidden(op.n) \in Path /\ Hidden(op.n) # p
      BY Zenon, OpShape, ConstantsAssumption DEF Path, Scratch
    <3>2. fs' = [fs EXCEPT ![Hidden(op.n)] = fs[p], ![p] = None]
      BY ZenonT(60), <2>2, <3>1 DEF Inv, Shape
    <3>3. Among(cache', cache)
      BY Zenon, <2>2, <3>1, RenameAmong, AmongTrans
    <3> QED BY ZenonT(60), <1>2, <3>1, <3>2, <3>3, DiskMoves DEF Inv, Among
  <2>3. CASE r = <<[fs EXCEPT ![p] = None], DeleteCache(cache, {p})>>
    <3>1. Among(cache', cache)
      BY Zenon, <2>3, DeleteAmong, AmongTrans
    <3> QED BY ZenonT(60), <1>2, <2>3, <3>1, DiskUnfiles
  <2> QED BY <2>1, <2>2, <2>3 DEF HideFile
<1>3. CASE ContentOf(fs[p]) = Folder /\ op.old.c = Folder
  <2>1. r = <<[fs EXCEPT ![p] = None], cache>> /\ ~IsFile(fs[p])
    BY Zenon, <1>3, ConstantsAssumption DEF RemoveGeneral, ContentOf, IsFile
  <2> QED BY ZenonT(60), <2>1, DiskUnfiles
<1> QED BY <1>1, <1>2, <1>3 DEF RemoveGeneral

\* What was shunted is removed: it is what was checked.
LEMMA PutTidyInv == ASSUME Inv, PutTidy PROVE Inv'
<1>1. op # None /\ op.do = "put" /\ op.at = "tidy" /\ NoMark
  BY Zenon DEF PutTidy, At
<1>2. CASE Fail /\ UNCHANGED <<fs, cache, lost>>
  BY Zenon, <1>1, <1>2, FailInv
<1>3. ASSUME NEW r \in RemoveGeneral(op.m), fs' = r[1], cache' = r[2], Loses(fs[op.m]),
             Done(op.n, op.old.c, op.c)
      PROVE  Inv'
  <2>1. cache' \in CacheRows
    <3>1. \A s \in RemoveGeneral(op.m) : s[2] \in CacheRows
      <4>1. cache \in CacheRows /\ op.m \in Path /\ Hidden(op.n) \in Path
        BY Zenon, <1>1, OpShape DEF Inv, Shape, CacheRows, Path, Scratch
      <4> QED BY <4>1, RenameAmong, DeleteAmong DEF RemoveGeneral, HideFile, Among
    <3> QED BY <1>3, <3>1
  <2>2. /\ DiskInv' /\ fs' \in [Path -> Files \cup {Dir, None}]
        /\ IsFile(fs[op.m]) => op.old.c # Folder
    BY SMTT(60), <1>1, <1>3, <2>1, OpShape, AmongRefl, RemoveGeneralInv
  <2>3. ~lost'
    BY ZenonT(60), <1>1, <1>3, <2>2, NothingLost DEF Inv, OpInv, PutInv, SafeAt
  <2> QED BY <1>1, <1>3, <2>1, <2>2, <2>3, EndInv DEF Done
<1> QED BY <1>2, <1>3 DEF PutTidy

\* remove takes away what was checked.
LEMMA RemoveInvariant == ASSUME Inv, Remove PROVE Inv'
<1>1. op # None /\ op.do = "remove" /\ op.at = "do" /\ NoMark
  BY Zenon DEF Remove, At
<1>2. CASE Fail /\ UNCHANGED <<fs, cache, lost>>
  BY SMTT(60), <1>1, <1>2, FailInv
<1>3. ASSUME NEW r \in RemoveGeneral(op.n), fs' = r[1], cache' = DeleteCache(r[2], {op.n}),
             Loses(fs[op.n]), Done(op.n, op.old.c, None)
      PROVE  Inv'
  <2>1. r[2] \in CacheRows
    <3>1. cache \in CacheRows /\ op.n \in Path /\ Hidden(op.n) \in Path
      BY Zenon, <1>1, OpShape DEF Inv, Shape, CacheRows, Path, Scratch
    <3> QED BY <1>3, <3>1, RenameAmong, DeleteAmong DEF RemoveGeneral, HideFile, Among
  <2>2. Among(cache', r[2])
    BY Zenon, <1>3, <2>1, DeleteAmong
  <2>3. DiskInv' /\ cache' \in CacheRows /\ fs' \in [Path -> Files \cup {Dir, None}]
    BY ZenonT(60), <1>1, <1>3, <2>2, OpShape, RemoveGeneralInv
  <2>4. ~lost'
    BY Zenon, <1>1, <1>3, NothingLost DEF Inv, OpInv, RemoveInv, SafeAt
  <2> QED BY <1>1, <1>3, <2>3, <2>4, EndInv DEF Done
<1> QED BY <1>2, <1>3 DEF Remove

\* set_mtime_path and update_cache_mtime: the new status is the same for the
\* file and its row, which agree on the content.
LEMMA TouchInvariant == ASSUME Inv, Touch PROVE Inv'
<1>1. op # None /\ op.do = "touch" /\ op.at = "do" /\ NoMark /\ UNCHANGED lost
  BY Zenon DEF Touch, At
<1> op.n \in Path
  BY Zenon, <1>1, OpShape
<1>2. CASE fs[op.n] = None
  BY Zenon, <1>1, <1>2, FailInv DEF Touch
<1>3. CASE IsFile(fs[op.n])
  <2> DEFINE f == [fs[op.n] EXCEPT !.t = NewTime]
  <2>1. /\ fs' = [fs EXCEPT ![op.n].t = NewTime]
        /\ cache' = UpdateCacheMtime(cache, op.n, NewTime) /\ op' = None
    BY Zenon, <1>3 DEF Touch, Done, IsFile
  <2>2. fs[op.n] \in Files
    BY <1>3 DEF Inv, Shape, Dir, IsFile
  <2>3. NewTime \in Nat \ {0}
    BY Zenon, NewTimeIsNew DEF Inv
  <2>4. f \in Files /\ f.t = NewTime /\ f.c = fs[op.n].c /\ f.x = fs[op.n].x
    BY Zenon, <2>2, <2>3 DEF Files
  <2>5. fs' = [fs EXCEPT ![op.n] = f]
    BY Zenon, <2>1 DEF Inv, Shape
  <2> HIDE DEF f
  <2>6. cache' \in CacheRows
    BY Zenon, <2>1, <2>3 DEF UpdateCacheMtime, Inv, Shape, CacheRows, Rows
  <2>7. /\ \A p \in Path \ {op.n} : cache'[p] = cache[p]
        /\ cache'[op.n] # None =>
             cache[op.n] # None /\ cache'[op.n].c = cache[op.n].c /\ cache'[op.n].t = NewTime
    BY Zenon, <2>1 DEF UpdateCacheMtime, Inv, Shape, Rows
  <2>8. cache[op.n] # None => cache[op.n].c = f.c \/ f.x # "no"
    BY Zenon, <1>1, <1>3, <2>4 DEF Inv, OpInv, TouchInv, SafeAt, ContentOf
  <2>9. DiskInv' /\ fs' \in [Path -> Files \cup {Dir, None}]
    <3>1. \A p \in Path : cache'[p] # None =>
            cache'[p] = cache[p] \/ cache'[p].c = f.c \/ f.x # "no"
      BY Zenon, <2>7, <2>8
    <3>2. \A p \in Path : cache'[p] # None =>
            cache'[p] = cache[p] \/ cache'[p].t = NewTime
      BY Zenon, <2>7
    <3> QED BY ZenonT(60), <2>4, <2>5, <3>1, <3>2, DiskRenews DEF Inv
  <2> QED BY <1>1, <2>1, <2>6, <2>9, EndInv DEF Inv
<1>4. CASE fs[op.n] # None /\ ~IsFile(fs[op.n])
  <2>1. /\ fs' = [fs EXCEPT ![op.n].t = 0]
        /\ cache' = UpdateCacheMtime(cache, op.n, 0) /\ op' = None
    BY Zenon, <1>4 DEF Touch, Done
  <2>2. fs[op.n] = Dir
    BY Zenon, <1>4, ConstantsAssumption DEF Inv, Shape, IsFile, Files
  <2>3. fs' = fs
    BY <2>1, <2>2 DEF Dir, Inv, Shape
  <2>4. cache' \in CacheRows
    BY Zenon, <2>1 DEF UpdateCacheMtime, Inv, Shape, CacheRows, Rows
  <2>5. /\ \A p \in Path \ {op.n} : cache'[p] = cache[p]
        /\ cache'[op.n] # None => cache'[op.n].t = 0
    BY Zenon, <2>1 DEF UpdateCacheMtime, Inv, Shape, Rows
  <2>6. \A q \in Path : IsFile(fs[q]) => fs[q].t # 0
    BY DEF Inv, Shape, IsFile, Dir, Files
  <2>7. TimesInv'
    BY Zenon, <2>3 DEF Inv, DiskInv, TimesInv, IsFile
  <2>8. CacheInv'
    BY <2>3, <2>5, <2>6 DEF Inv, DiskInv, CacheInv, IsFile
  <2> QED BY <1>1, <2>1, <2>3, <2>4, <2>7, <2>8, EndInv DEF Inv, Shape, DiskInv
<1> QED BY <1>2, <1>3, <1>4

\* rename replaces nothing but what came after the look at the new name.
LEMMA RenameInvariant == ASSUME Inv, Rename PROVE Inv'
<1>1. op # None /\ op.do = "rename" /\ op.at = "do" /\ NoMark /\ UNCHANGED cache
  BY Zenon DEF Rename, At
<1>2. CASE Fail /\ UNCHANGED <<fs, lost>>
  BY SMTT(60), <1>1, <1>2, FailInv
<1>3. CASE fs' = Moved(op.n, op.m) /\ Loses(fs[op.m]) /\ op' = None
  <2>1. op.n # op.m /\ op.n \in Path /\ op.m \in Path
    BY Zenon, <1>1, OpShape DEF Inv, OpInv, RenameInv, Shunted
  <2>2. Among(cache', cache) /\ cache' \in CacheRows
    BY Zenon, <1>1, AmongRefl DEF Inv, Shape, CacheRows
  <2>3. DiskInv' /\ fs' \in [Path -> Files \cup {Dir, None}]
    BY ZenonT(60), <1>3, <2>1, <2>2, DiskMoves DEF Inv, Moved
  <2>4. ~lost'
    BY Zenon, <1>1, <1>3, NothingLost DEF Inv, OpInv, RenameInv, LateAt
  <2> QED BY <1>1, <1>3, <2>2, <2>3, <2>4, EndInv
<1> QED BY <1>2, <1>3 DEF Rename

\* FileStreamSource reads the content it will report.
LEMMA SendReadInv == ASSUME Inv, SendRead PROVE Inv'
<1>1. op # None /\ op.do = "send" /\ op.at = "read" /\ NoMark
      /\ UNCHANGED <<fs, cache, lost>>
  BY Zenon DEF SendRead, At
<1>2. CASE ~IsFile(fs[op.n])
  BY Zenon, <1>1, <1>2, FailInv DEF SendRead
<1>3. CASE IsFile(fs[op.n])
  <2>1. op' = [op EXCEPT !.at = "finish", !.got = fs[op.n].c]
    BY Zenon, <1>3 DEF SendRead
  <2>2. fs[op.n].c \in Content
    BY <1>1, <1>3, OpShape DEF Inv, Shape, Files, Dir, IsFile
  <2>3. op' \in Operations /\ op' # None
    BY ZenonT(60), <1>1, <2>1, <2>2, OpShape, ConstantsAssumption DEF Operations
  <2>4. /\ op'.do = op.do /\ op'.n = op.n /\ op'.at = "finish"
        /\ op'.got = fs[op.n].c /\ op'.t = op.t
    BY Zenon, <1>1, <2>1, OpShape DEF Operations
  <2>5. Shape' /\ DiskInv'
    BY Zenon, <1>1, <2>3 DEF Inv, Shape, NoMark, DiskInv, TimesInv, CacheInv, IsFile
  <2>6. HashInv'
    BY Zenon, <1>1, <2>4 DEF Inv, HashInv
  <2>7. OpInv'
    BY ZenonT(60), <1>1, <2>2, <2>4
       DEF Inv, OpInv, PutInv, RemoveInv, TouchInv, RenameInv, SendInv, Holds, NoMark
  <2> QED BY <1>1, <2>5, <2>6, <2>7 DEF Inv
<1> QED BY <1>2, <1>3

\* finish() caches the hash of what was read, for a file that still holds it
\* or was written in the window.
LEMMA SendFinishInv == ASSUME Inv, SendFinish PROVE Inv'
<1>1. op # None /\ op.do = "send" /\ op.at = "finish" /\ NoMark /\ op' = None
      /\ UNCHANGED <<fs, lost>> /\ cache' = UpdateCache(cache, op.n, op.got)
  BY Zenon DEF SendFinish, At, Done
<1>2. op.got \in Content /\ Holds(op.n, op.got)
  BY Zenon, <1>1 DEF Inv, OpInv, SendInv
<1>3. DiskInv' /\ cache' \in CacheRows
  BY Zenon, <1>1, <1>2, OpShape, UpdateCacheInv
<1> QED BY <1>1, <1>3, EndInv DEF Inv, Shape

\* rmdir removes a directory, never a file.
LEMMA RmdirInv == ASSUME Inv, Rmdir PROVE Inv'
<1>1. op # None /\ NoMark /\ UNCHANGED <<cache, lost>> /\ op' = None
  BY Zenon DEF Rmdir, At, Done, Fail
<1>2. Among(cache', cache) /\ cache' \in CacheRows
  BY Zenon, <1>1, AmongRefl DEF Inv, Shape, CacheRows
<1>3. CASE UNCHANGED fs
  BY Zenon, <1>1, <1>2, <1>3, EndQuietInv
<1>4. CASE fs' = [fs EXCEPT ![op.n] = None]
  <2>1. DiskInv' /\ fs' \in [Path -> Files \cup {Dir, None}]
    BY ZenonT(60), <1>1, <1>2, <1>4, OpShape, DiskUnfiles
  <2> QED BY <1>1, <1>2, <2>1, EndInv DEF Inv
<1> QED BY <1>3, <1>4 DEF Rmdir

-----------------------------------------------------------------------------
(* A user's edit. *)

\* What an operation relies on survives an edit: what is written where it has
\* looked already, is written in its window.
LEMMA EditOpInv ==
    ASSUME Inv, NEW n \in Name, UNCHANGED <<cache, op, pc>>,
           \A q \in Path \ {n} : fs'[q] = fs[q],
           IsFile(fs'[n]) => fs'[n].x = Window(n)
    PROVE  OpInv'
<1> SUFFICES ASSUME op # None PROVE OpInv'
  BY Zenon DEF OpInv
<1> op.n \in Path /\ op.m \in Path
  BY Zenon, OpShape
<1>1. op.do # "rename" /\ op.at \in {"shunt", "move", "do"} /\ SafeAt(op.n) => SafeAt(op.n)'
  BY Zenon DEF SafeAt, Window, IsFile, ContentOf
<1>2. Shunted /\ op.at \in {"do", "tidy"} /\ SafeAt(op.m) => SafeAt(op.m)'
  BY Zenon DEF SafeAt, Window, IsFile, ContentOf, Shunted
<1>3. op.at \in {"stat", "finish"} => \A c : Holds(op.n, c) => Holds(op.n, c)'
  BY Zenon DEF Holds, Window, IsFile
<1>4. Shunted /\ op.at \in {"move", "do"} /\ LateAt(op.m) => LateAt(op.m)'
  BY SMTT(60) DEF LateAt, Window, IsFile, Shunted
<1>5. PutInv'
  BY ZenonT(60), <1>1, <1>2, <1>3, <1>4 DEF Inv, OpInv, PutInv, Shunted, NeedsShunt
<1>6. RemoveInv'
  BY Zenon, <1>1 DEF Inv, OpInv, RemoveInv
<1>7. TouchInv'
  BY Zenon, <1>1 DEF Inv, OpInv, TouchInv
<1>8. RenameInv'
  BY Zenon, <1>4 DEF Inv, OpInv, RenameInv, Shunted
<1>9. SendInv'
  BY Zenon, <1>3 DEF Inv, OpInv, SendInv
<1> QED BY <1>5, <1>6, <1>7, <1>8, <1>9 DEF Inv, OpInv

\* A user may write, delete or make a directory at any moment.
LEMMA UserInv == ASSUME Inv, User PROVE Inv'
<1>1. ASSUME NEW n \in Name, NEW e \in {Dir, None}, Edit(n, e) PROVE Inv'
  <2>1. fs' = [fs EXCEPT ![n] = e] /\ UNCHANGED <<cache, op, pc, listed, todo, lost>>
    BY Zenon, <1>1 DEF Edit, mem
  <2>2. n \in Path /\ Among(cache', cache)
    BY Zenon, <2>1, AmongRefl DEF Inv, Shape, CacheRows, Path
  <2>3. /\ DiskInv' /\ fs' \in [Path -> Files \cup {Dir, None}]
        /\ ~IsFile(fs'[n]) /\ \A q \in Path \ {n} : fs'[q] = fs[q]
    BY ZenonT(60), <2>1, <2>2, DiskUnfiles
  <2>4. OpInv'
    BY Zenon, <2>1, <2>3, EditOpInv
  <2>5. HashInv'
    BY Zenon, <2>1, <2>3 DEF Inv, HashInv, IsFile
  <2> QED BY <2>1, <2>3, <2>4, <2>5 DEF Inv, Shape
<1>2. ASSUME NEW n \in Name, NEW c \in Content, Write(n, c) PROVE Inv'
  <2> DEFINE f == File(c, NewTime, Window(n))
  <2>1. fs' = [fs EXCEPT ![n] = f] /\ UNCHANGED <<cache, op, pc, listed, todo, lost>>
    BY Zenon, <1>2 DEF Write, Edit, mem
  <2>2. Window(n) \in {"no", "check", "stat", "read"}
    BY Zenon DEF Window
  <2>3. f \in Files /\ f.t = NewTime /\ f.x = Window(n)
    BY Zenon, <2>2, NewTimeIsNew DEF File, Files, Inv
  <2> HIDE DEF f
  <2>4. n \in Path
    BY Zenon DEF Path
  <2>5. DiskInv' /\ fs' \in [Path -> Files \cup {Dir, None}]
    BY ZenonT(60), <2>1, <2>3, <2>4, DiskRenews DEF Inv
  <2>6. fs'[n] = f /\ \A q \in Path \ {n} : fs'[q] = fs[q]
    BY Zenon, <2>1, <2>4 DEF Inv, Shape
  <2>7. OpInv'
    BY Zenon, <2>1, <2>3, <2>6, EditOpInv
  <2>8. op # None => op.t # f.t
    BY Zenon, <2>3, NewTimeIsNew DEF Inv
  <2>9. HashInv'
    BY Zenon, <2>1, <2>6, <2>8 DEF Inv, HashInv, IsFile
  <2> QED BY <2>1, <2>5, <2>7, <2>9 DEF Inv, Shape
<1> QED BY <1>1, <1>2 DEF User, Delete, Mkdir

-----------------------------------------------------------------------------
(* The theorems. *)

\* Every step of the replica keeps the invariant.
LEMMA ReplicaInv == ASSUME Inv, Replica PROVE Inv'
<1>1. CASE \E typ \in {"Fast", "Clean", "Scrub"} : Prepare(typ)
  BY Zenon, <1>1, PrepareInv
<1>2. CASE SetParentDirty \/ Pass \/ MarkParent
  <2>1. UNCHANGED <<fs, cache, listed, op, todo, lost>> /\ pc \notin {"list", "work"}
    BY Zenon, <1>2 DEF SetParentDirty, Pass, MarkParent, disk, mem
  <2>2. op = None
    BY Zenon, <2>1 DEF Inv, OpInv
  <2> QED BY <2>1, <2>2, QuietInv
<1>3. CASE List
  BY Zenon, <1>3, ListInv
<1>4. CASE ListHash
  BY Zenon, <1>4, ListHashInv
<1>5. CASE \E n \in Name : ListStat(n) \/ Ask(n)
  BY Zenon, <1>5, ListStatInv, AskInv
<1>6. CASE Xfer
  BY Zenon, <1>6, XferInv
<1>7. CASE XferFails
  BY Zenon, <1>7, FailInv DEF XferFails
<1>8. CASE Check \/ ShuntLook \/ ShuntMove
  BY Zenon, <1>8, CheckInv, ShuntLookInv, ShuntMoveInv
<1>9. CASE PutFile \/ PutFolder \/ PutStat \/ PutTidy
  BY Zenon, <1>9, PutFileInv, PutFolderInv, PutStatInv, PutTidyInv
<1>10. CASE Remove \/ Touch \/ Rename
  BY Zenon, <1>10, RemoveInvariant, TouchInvariant, RenameInvariant
<1>11. CASE SendRead \/ SendFinish \/ Rmdir
  BY Zenon, <1>11, SendReadInv, SendFinishInv, RmdirInv
<1>12. CASE Mark \/ CleanUp
  BY Zenon, <1>12, MarkInv, CleanUpInv
<1> QED BY <1>1, <1>2, <1>3, <1>4, <1>5, <1>6, <1>7, <1>8, <1>9, <1>10, <1>11, <1>12
        DEF Replica

\* So does every step.
LEMMA NextInv == Inv /\ [Next]_vars => Inv'
<1> SUFFICES ASSUME Inv, [Next]_vars PROVE Inv'
  BY Zenon
<1>1. CASE Replica
  BY Zenon, <1>1, ReplicaInv
<1>2. CASE Crash
  BY Zenon, <1>2, CrashInv
<1>3. CASE User
  BY Zenon, <1>3, UserInv
<1>4. CASE UNCHANGED vars
  <2>1. UNCHANGED <<fs, cache, listed, op, todo, lost, pc>>
    BY Zenon, <1>4 DEF vars, disk, mem
  <2> QED BY <2>1, QuietInv DEF Inv, OpInv
<1> QED BY <1>1, <1>2, <1>3, <1>4 DEF Next

\* The invariant holds in every reachable state.
LEMMA SpecInv == Spec => []Inv
BY InitInv, NextInv, PTL DEF Spec

\* Whatever users do while it runs, however often it crashes and whatever the
\* cache has come to hold, a sync destroys no file it was not told about, save
\* one written after the last look at its name.
THEOREM FilesSafe == Spec => []LostOnlyInWindow
<1>1. Inv => LostOnlyInWindow
  BY Zenon DEF Inv, LostOnlyInWindow
<1> QED BY <1>1, SpecInv, PTL

\* What put_file renames into place has the hash the reconciler asked for.
THEOREM PutSafe == Spec => []PutAsAsked
<1>1. Inv => PutAsAsked
  BY Zenon DEF Inv, OpInv, PutInv, PutAsAsked
<1> QED BY <1>1, SpecInv, PTL
=============================================================================
