------------------------------ MODULE DirSync ------------------------------
(***************************************************************************)
(* One directory going through reconciliation (reconcile/mutate.rs and     *)
(* process_dir_impl and process_file of reconcile/tree_walk.rs) while      *)
(* users and other clients keep editing the two end replicas, operations   *)
(* fail, and the process may be killed between any two of its writes.      *)
(*                                                                         *)
(* Names are the family one file name gives rise to: 0 is `foo.txt` and k  *)
(* is `foo~k.txt`.  Subdirectories are empty.                              *)
(***************************************************************************)
EXTENDS Reconcile

CONSTANTS
    MaxAlt,     \* bound on alternate names
    MaxEditAlt, \* bound on the alternate names users edit
    MaxEdits,   \* bound on edits by users
    MaxCrashes  \* bound on crashes

ASSUME BoundsAssumption ==
    /\ MaxAlt \in Nat /\ MaxEdits \in Nat /\ MaxCrashes \in Nat
    /\ MaxEditAlt \in 0 .. MaxAlt

VARIABLES
    end,        \* the end replicas: side -> name -> file
    anc,        \* the ancestor replica: name -> file
    condemned,  \* names condemned in the ancestor
    seen,       \* the directory as listed (`DirContext.*.files`)
    todo,       \* names to process
    job,        \* the name being processed, what was chosen, what comes next
    removing,   \* recursive deletes under way: name -> next replica, or None
    pc,         \* where the sync is
    ok,         \* `success` of the directory
    mode,       \* the sync mode, and whether client modes are trusted
    trust,
    edits,      \* edits so far
    crashes,    \* crashes so far
    precious,   \* contents users wrote and no user replaced or deleted
    quiet       \* no edit since the last listing began

vars == <<end, anc, condemned, seen, todo, job, removing, pc, ok, mode, trust,
          edits, crashes, precious, quiet>>

Side == {"client", "server"}
Name == 0 .. MaxAlt
File == FileData \cup {None}
NoFiles == [n \in Name |-> None]
Unseen == [s \in Side \cup {"anc"} |-> NoFiles]

config == <<mode, trust>>
history == <<edits, crashes, precious, quiet>>

-----------------------------------------------------------------------------
(* The world outside. *)

ContentOf(f) == IF f # None /\ f.type = "reg" THEN {f.hash} ELSE {}

\* A user, or another client through the server, changes one file.
Edit(side, n, new) ==
    /\ edits < MaxEdits
    /\ new # end[side][n]
    /\ end' = [end EXCEPT ![side][n] = new]
    /\ precious' = (precious \ ContentOf(end[side][n])) \cup ContentOf(new)
    /\ edits' = edits + 1
    /\ quiet' = FALSE
    /\ UNCHANGED <<anc, condemned, seen, todo, job, removing, pc, ok, config, crashes>>

\* What an edit may leave: nothing, a directory, a file with content nobody has
\* written before, or the old content with another mode.
NewFile(side, n) ==
    {None} \cup {Directory(m) : m \in Mode}
    \cup {Regular(m, t, edits + 1) : m \in Mode, t \in Time}
    \cup (IF end[side][n] # None /\ end[side][n].type = "reg"
          THEN {[end[side][n] EXCEPT !.mode = m] : m \in Mode} ELSE {})

\* The process is killed, or a replica cannot be listed.  The ancestor database
\* is as it was; one left corrupt by the death of the machine is started anew.
Crash ==
    /\ pc # "idle" /\ crashes < MaxCrashes
    /\ pc' = "idle" /\ todo' = {} /\ job' = None /\ removing' = NoFiles
    /\ seen' = Unseen /\ ok' = FALSE
    /\ crashes' = crashes + 1
    /\ \/ UNCHANGED <<anc, condemned>>
       \/ anc' = NoFiles /\ condemned' = {}
    /\ UNCHANGED <<end, config, edits, precious, quiet>>

-----------------------------------------------------------------------------
(* process_dir_impl: list the three replicas, then take one name at a time. *)

ListClient ==
    /\ pc = "idle"
    /\ seen' = [Unseen EXCEPT !["client"] = end["client"]]
    /\ pc' = "listAncestor" /\ quiet' = TRUE /\ ok' = TRUE
    /\ UNCHANGED <<end, anc, condemned, todo, job, removing, config, edits,
                   crashes, precious>>

\* AncestorReplica::list deletes the condemned names first.
ListAncestor ==
    /\ pc = "listAncestor"
    /\ anc' = [n \in Name |-> IF n \in condemned THEN None ELSE anc[n]]
    /\ condemned' = {}
    /\ seen' = [seen EXCEPT !["anc"] = anc']
    /\ pc' = "listServer"
    /\ UNCHANGED <<end, todo, job, removing, ok, config, history>>

ListServer ==
    /\ pc = "listServer"
    /\ seen' = [seen EXCEPT !["server"] = end["server"]]
    /\ todo' = {n \in Name : \E s \in DOMAIN seen : seen'[s][n] # None}
    /\ pc' = "pick"
    /\ UNCHANGED <<end, anc, condemned, job, removing, ok, config, history>>

\* The client file as reconciliation sees it.
ClientFile(n) ==
    LET c == seen["client"][n]
        s == seen["server"][n]
        a == seen["anc"][n]
    IN  IF trust \/ c = None \/ (s = None /\ a = None) THEN c
        ELSE WithModeOf(c, IF s # None THEN s ELSE a)

\* gen_alternate_name: the first alternate not in use as far as we have seen.
AlternateName ==
    {k \in Name \ {0} : /\ \A s \in DOMAIN seen : seen[s][k] = None
                        /\ \A j \in 1 .. k - 1 : \E s \in DOMAIN seen : seen[s][j] # None}

Job(n, recon) ==
    [name |-> n, recon |-> recon, new |-> None, alt |-> n,
     old |-> [client |-> ClientFile(n), server |-> seen["server"][n]]]

\* apply_reconciliation up to the first write of what was chosen.
Apply(n, recon) ==
    LET j == Job(n, recon) IN
    \/ /\ recon \in {Unsync, Irreconcilable}
       /\ pc' = "pick" /\ job' = None
    \/ /\ recon = InSync
       /\ pc' = "setAncestor" /\ job' = [j EXCEPT !.new = j.old.client]
    \/ /\ recon.r = "Use"
       /\ job' = j
       /\ pc' = IF IsDir(j.old[Rev(recon.side)]) /\ j.old[recon.side] = None
                THEN "recursiveDelete" ELSE "use"
    \/ /\ recon.r = "Split"
       /\ \E k \in AlternateName : job' = [j EXCEPT !.alt = k]
       /\ pc' = IF recon.anc = "Delete" THEN "dropAncestor" ELSE "condemn"

ProcessFile(n) ==
    /\ pc = "pick" /\ n \in todo
    /\ todo' = todo \ {n}
    /\ Apply(n, ChooseReconciliation(ClientFile(n), seen["anc"][n], seen["server"][n], mode))
    /\ UNCHANGED <<end, anc, condemned, seen, removing, ok, config, history>>

\* ApplyResult::Fail, from an error at any step, or because it is time to stop.
Fail ==
    /\ pc' = "pick" /\ job' = None /\ ok' = FALSE
    /\ UNCHANGED <<anc, condemned, seen, todo, removing, config, history>>

FailStep ==
    /\ pc \notin {"idle", "listAncestor", "listServer", "pick"}
    /\ Fail
    /\ UNCHANGED end

-----------------------------------------------------------------------------
(* Use(side): apply_use and replace_replica, then the ancestor. *)

Src == job.recon.side
Dst == Rev(Src)

\* Faulty variant: the modification time is not carried over.
TransferredNow ==
    LET new == job.old[Src]
    IN  IF new = None \/ new.type # "reg" THEN {new}
        ELSE {[new EXCEPT !.time = t] : t \in Time}

\* What the destination gets: content is read, or fetched, when it is copied,
\* and everything else is as it was listed.  The server hands out only the
\* content that was asked for.
Transferred ==
    LET new == job.old[Src]
        now == end[Src][job.name]
    IN  IF new = None \/ new.type # "reg" THEN {new}
        ELSE IF now = None \/ now.type # "reg" \/ (Src = "server" /\ now.hash # new.hash)
        THEN {}
        ELSE {[new EXCEPT !.hash = now.hash]}

\* Faulty variant: the replica replaces whatever is there.
UnchangedUnchecked == TRUE

\* remove, update and create refuse a file that is not what was listed.
Unchanged == end[Dst][job.name] = job.old[Dst]

ReplaceReplica ==
    /\ pc = "use" /\ Unchanged
    /\ \E r \in Transferred :
         /\ end' = [end EXCEPT ![Dst][job.name] = r]
         /\ seen' = [seen EXCEPT ![Dst][job.name] = r]
         /\ job' = [job EXCEPT !.new = r]
    /\ pc' = "setAncestor"
    /\ UNCHANGED <<anc, condemned, todo, removing, ok, config, history>>

\* replace_ancestor.
WriteAncestor(n, new) ==
    /\ anc' = [anc EXCEPT ![n] = new]
    /\ seen' = [seen EXCEPT !["anc"][n] = new]

SetAncestor ==
    /\ pc = "setAncestor"
    /\ WriteAncestor(job.name, job.new)
    /\ pc' = "pick" /\ job' = None
    /\ UNCHANGED <<end, condemned, todo, removing, ok, config, history>>

\* A directory is to be deleted: make the ancestor match it and queue the
\* recursion that empties and removes it.
RecursiveDelete ==
    /\ pc = "recursiveDelete"
    /\ WriteAncestor(job.name, job.old[Dst])
    /\ removing' = [removing EXCEPT ![job.name] = [dst |-> Dst, at |-> "anc"]]
    /\ pc' = "pick" /\ job' = None
    /\ UNCHANGED <<end, condemned, todo, ok, config, history>>

\* delete_or_mark_clean on the empty directory: ancestor, client, server.  The
\* side that does not have the directory has nothing to do.
RemoveDirectory(n) ==
    /\ removing[n] # None
    /\ LET at == removing[n].at
           next == CASE at = "anc" -> [removing[n] EXCEPT !.at = "client"]
                     [] at = "client" -> [removing[n] EXCEPT !.at = "server"]
                     [] at = "server" -> None
       IN  \/ /\ at = "anc"
              /\ anc' = [anc EXCEPT ![n] = None]
              /\ removing' = [removing EXCEPT ![n] = next]
              /\ UNCHANGED end
           \/ /\ at # "anc" /\ at # removing[n].dst
              /\ removing' = [removing EXCEPT ![n] = next]
              /\ UNCHANGED <<end, anc>>
           \/ /\ at = removing[n].dst /\ IsDir(end[at][n])
              /\ end' = [end EXCEPT ![at][n] = None]
              /\ removing' = [removing EXCEPT ![n] = next]
              /\ UNCHANGED anc
    /\ UNCHANGED <<condemned, seen, todo, job, pc, ok, config, history>>

\* Any of the three may fail, and ends the attempt.
FailRemove(n) ==
    /\ removing[n] # None
    /\ removing' = [removing EXCEPT ![n] = None] /\ ok' = FALSE
    /\ UNCHANGED <<end, anc, condemned, seen, todo, job, pc, config, history>>

-----------------------------------------------------------------------------
(* Split(side, ancestor): the ancestor is dropped or condemned, the replica  *)
(* renamed, the ancestor renamed after it, the condemnation lifted.          *)

DropAncestor ==
    /\ pc = "dropAncestor"
    /\ WriteAncestor(job.name, None)
    /\ pc' = "rename"
    /\ UNCHANGED <<end, condemned, todo, job, removing, ok, config, history>>

Condemn ==
    /\ pc = "condemn" /\ job.name \notin condemned
    /\ condemned' = condemned \cup {job.name}
    /\ pc' = "rename"
    /\ UNCHANGED <<end, anc, seen, todo, job, removing, ok, config, history>>

\* Faulty variant: the new name is left for the next sync.
RequeueOriginal ==
    /\ todo' = todo \cup {job.name}
    /\ pc' = "pick" /\ job' = None

\* Both names are processed again.
Requeue ==
    /\ todo' = todo \cup {job.name, job.alt}
    /\ pc' = "pick" /\ job' = None

\* Replica::rename does not replace what has the new name.
Renamed ==
    /\ end[Src][job.name] # None /\ end[Src][job.alt] = None
    /\ end' = [end EXCEPT ![Src][job.alt] = end[Src][job.name], ![Src][job.name] = None]

RenameReplica ==
    /\ pc = "rename" /\ Renamed
    /\ seen' = [seen EXCEPT ![Src][job.alt] = seen[Src][job.name], ![Src][job.name] = None]
    /\ IF job.recon.anc = "Delete" THEN Requeue
       ELSE pc' = "moveAncestor" /\ UNCHANGED <<todo, job>>
    /\ UNCHANGED <<anc, condemned, removing, ok, config, history>>

MoveAncestor ==
    /\ pc = "moveAncestor"
    /\ IF seen["anc"][job.name] = None THEN UNCHANGED <<anc, seen>>
       ELSE /\ anc' = [anc EXCEPT ![job.alt] = anc[job.name], ![job.name] = None]
            /\ seen' = [seen EXCEPT !["anc"][job.alt] = anc[job.name],
                                    !["anc"][job.name] = None]
    /\ pc' = "uncondemn"
    /\ UNCHANGED <<end, condemned, todo, job, removing, ok, config, history>>

Uncondemn ==
    /\ pc = "uncondemn"
    /\ condemned' = condemned \ {job.name}
    /\ Requeue
    /\ UNCHANGED <<end, anc, seen, removing, ok, config, history>>

\* An end replica was changed, but the answer was an error.
Unheard ==
    /\ \/ /\ pc = "use" /\ Unchanged
          /\ \E f \in Transferred : end' = [end EXCEPT ![Dst][job.name] = f]
       \/ pc = "rename" /\ Renamed
    /\ Fail

\* The directory is finished: nothing left to process, no recursion under way.
Finish ==
    /\ pc = "pick" /\ todo = {} /\ removing = NoFiles
    /\ pc' = "idle"
    /\ UNCHANGED <<end, anc, condemned, seen, todo, job, removing, ok, config, history>>

-----------------------------------------------------------------------------
Sync ==
    \/ ListClient \/ ListAncestor \/ ListServer \/ Finish
    \/ ReplaceReplica \/ SetAncestor \/ RecursiveDelete
    \/ DropAncestor \/ Condemn \/ RenameReplica \/ MoveAncestor \/ Uncondemn
    \/ \E n \in Name : ProcessFile(n) \/ RemoveDirectory(n)

Environment ==
    \/ Crash \/ FailStep \/ Unheard
    \/ \E n \in Name : FailRemove(n)
    \/ \E side \in Side, n \in 0 .. MaxEditAlt : \E new \in NewFile(side, n) : Edit(side, n, new)

Next == Sync \/ Environment

\* A fresh directory; every state of the replicas comes from edits and syncs.
Init ==
    /\ end = [s \in Side |-> NoFiles] /\ anc = NoFiles /\ condemned = {}
    /\ seen = Unseen /\ todo = {} /\ job = None /\ removing = NoFiles
    /\ pc = "idle" /\ ok = FALSE
    /\ mode = ConservativeSync /\ trust = TRUE
    /\ edits = 0 /\ crashes = 0 /\ precious = {} /\ quiet = FALSE

Spec == Init /\ [][Next]_vars

-----------------------------------------------------------------------------
(* Properties. *)

\* Contents present on an end replica.
Present == UNION {ContentOf(end[s][n]) : s \in Side, n \in Name}

Forceful(half) == Force \in {half.create, half.update, half.delete}

\* Without a "force" setting no content is lost: what a user wrote and no user
\* replaced or deleted is on the client or on the server, whatever failed, was
\* edited meanwhile, or died half-way (apply_reconciliation's order of writes).
NoEditLost ==
    ~Forceful(mode.inbound) /\ ~Forceful(mode.outbound) => precious \subseteq Present

\* A conservative sync that reports success, and that nobody interfered with,
\* leaves the three replicas equal.
Converged ==
    pc = "idle" /\ ok /\ quiet /\ mode = ConservativeSync /\ trust
        => end["client"] = end["server"] /\ end["client"] = anc

\* What a step of the sync may do to a file of an end replica: create, update
\* or delete it if the mode says so for that direction, or rename it.
Permitted ==
    Sync /\ pc # "rename" =>
        \A s \in Side, n \in Name :
            LET half == IF s = "client" THEN mode.inbound ELSE mode.outbound
                old == end[s][n]
                new == end'[s][n]
            IN  \/ new = old
                \/ half[CASE old = None -> "create" [] new = None -> "delete"
                            [] OTHER -> "update"] >= On
PermissionsRespected == [][Permitted]_vars

\* An end replica whose direction is all off is never touched by the sync, not
\* even by a rename.
OneWay ==
    [][Sync => /\ mode.inbound = AllOff => end'["client"] = end["client"]
               /\ mode.outbound = AllOff => end'["server"] = end["server"]]_vars

=============================================================================
