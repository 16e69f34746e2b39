----------------------------- MODULE Reconcile -----------------------------
(***************************************************************************)
(* defs.rs, rules/defs.rs and reconcile/compute.rs: what a file is, when   *)
(* two files agree, and what to do with one name given its state on the    *)
(* client, in the ancestor and on the server.  Pure definitions.           *)
(***************************************************************************)
EXTENDS Integers, Sequences, FiniteSets

CONSTANTS
    Mode,       \* UNIX modes
    Time,       \* modification times
    Hash,       \* contents of regular files and symbolic links
    None        \* no such file

ASSUME DataAssumption ==
    /\ 0 \in Mode /\ 0 \in Time /\ 0 \in Hash
    /\ Time \subseteq Int

\* FileData.  A field that a type of file does not have is 0.
Directory(m) == [type |-> "dir", mode |-> m, time |-> 0, hash |-> 0]
Regular(m, t, h) == [type |-> "reg", mode |-> m, time |-> t, hash |-> h]
Symlink(h) == [type |-> "sym", mode |-> 0, time |-> 0, hash |-> h]
Special == [type |-> "special", mode |-> 0, time |-> 0, hash |-> 0]

FileData ==
    {Directory(m) : m \in Mode} \cup
    {Regular(m, t, h) : m \in Mode, t \in Time, h \in Hash} \cup
    {Symlink(h) : h \in Hash} \cup {Special}

IsDir(f) == f # None /\ f.type = "dir"

NewerThan(f, g) == f.type = "reg" /\ g.type = "reg" /\ f.time > g.time

\* Mode, time and content agree.
Matches(f, g) == f = g

\* Mode and content agree.
MatchesData(f, g) == f.type = g.type /\ f.mode = g.mode /\ f.hash = g.hash

\* Content agrees.
MatchesContent(f, g) == f.type = g.type /\ f.hash = g.hash

\* transrich_unix_mode: f with the mode of g, if both have one.
WithModeOf(f, g) ==
    IF {f.type, g.type} \subseteq {"dir", "reg"} THEN [f EXCEPT !.mode = g.mode] ELSE f

-----------------------------------------------------------------------------
\* SyncModeSetting, HalfSyncMode, SyncMode.
Off == 0
On == 1
Force == 2
HalfSyncMode == [create : Off .. Force, update : Off .. Force, delete : Off .. Force]
SyncMode == [inbound : HalfSyncMode, outbound : HalfSyncMode]

Half(c, u, d) == [create |-> c, update |-> u, delete |-> d]
AllOff == Half(Off, Off, Off)
ConservativeSync ==
    [inbound |-> Half(On, On, On), outbound |-> Half(On, On, On)]

-----------------------------------------------------------------------------
\* Reconciliation.
InSync == [r |-> "InSync"]
Unsync == [r |-> "Unsync"]
Irreconcilable == [r |-> "Irreconcilable"]
Use(side) == [r |-> "Use", side |-> side]
Split(side, anc) == [r |-> "Split", side |-> side, anc |-> anc]

Rev(side) == IF side = "client" THEN "server" ELSE "client"

\* Faulty variant: the side that has the file is renamed.
ReplaceWrongSide(dst, src, side) ==
    IF IsDir(dst) /\ src # None /\ ~IsDir(src)
    THEN Split(side, "Move")
    ELSE Use(side)

\* A directory is not replaced by something else; it is moved away first.
Replace(dst, src, side) ==
    IF IsDir(dst) /\ src # None /\ ~IsDir(src)
    THEN Split(Rev(side), "Move")
    ELSE Use(side)

\* Faulty variant: a forced delete does not revert a creation.
CreateNoRevert(away, toward, propagate, revert) ==
    IF away.create >= On THEN propagate ELSE Unsync

\* Propagate the creation, or revert it by force.
Create(away, toward, propagate, revert) ==
    CASE away.create >= On -> propagate
      [] away.create = Off /\ toward.delete = Force -> revert
      [] OTHER -> Unsync

\* Faulty variant: a file edited since the last sync is deleted like any other.
DeleteEdited(anc, file, away, toward, propagate, revert) ==
    IF away.delete >= On THEN propagate
    ELSE IF toward.create = Force THEN revert
    ELSE Unsync

\* Propagate the deletion, or revert it by force; an edited file comes back.
Delete(anc, file, away, toward, propagate, revert) ==
    IF MatchesContent(anc, file)
    THEN IF away.delete >= On THEN propagate
         ELSE IF toward.create = Force THEN revert
         ELSE Unsync
    ELSE IF toward.create >= On THEN revert
         ELSE IF away.delete = Force THEN propagate
         ELSE IF away.delete >= On \/ toward.update >= On THEN Irreconcilable
         ELSE Unsync

\* What to do about an edit/edit conflict that has no automatic resolution.
NeedSplit(mode) ==
    IF mode.inbound.update = Off /\ mode.outbound.update = Off THEN Unsync
    ELSE IF mode.inbound.create >= On /\ mode.outbound.create >= On
         THEN Split("server", "Delete")
         ELSE Irreconcilable

\* Faulty variant: an update goes against a direction that is off.
PreferAnyway(on, other, propagate, revert, otherwise) ==
    IF other = Force /\ on = Off THEN revert ELSE propagate

\* One side is to win: its update is propagated, or reverted by force.
Prefer(on, other, propagate, revert, otherwise) ==
    IF on >= On THEN propagate ELSE IF other = Force THEN revert ELSE otherwise

Update(c, a, s, mode, useClient, useServer) ==
    LET in == mode.inbound.update
        out == mode.outbound.update
        ancIs(f) == a # None /\ Matches(a, f)
        ancHas(f) == a # None /\ MatchesContent(a, f)
        metadataOnly == ~Matches(c, s) /\ MatchesData(c, s)
        serverWins == ancIs(c) \/ (~ancIs(s) /\ NewerThan(s, c))
    IN  IF metadataOnly
        THEN IF serverWins THEN Prefer(in, out, useServer, useClient, InSync)
                           ELSE Prefer(out, in, useClient, useServer, InSync)
        ELSE IF ancIs(c) THEN Prefer(in, out, useServer, useClient, Unsync)
        ELSE IF ancIs(s) THEN Prefer(out, in, useClient, useServer, Unsync)
        ELSE IF ancHas(c) /\ ancHas(s)
        THEN IF out = in /\ in = Off THEN Unsync
             ELSE IF out >= in THEN useClient ELSE useServer
        ELSE IF ancHas(c) THEN Prefer(in, out, useServer, useClient, NeedSplit(mode))
        ELSE IF ancHas(s) THEN Prefer(out, in, useClient, useServer, NeedSplit(mode))
        ELSE IF Force \notin {in, out} THEN NeedSplit(mode)
        ELSE IF in = out THEN IF NewerThan(s, c) THEN useServer ELSE useClient
        ELSE IF in = Force THEN useServer ELSE useClient

ChooseReconciliation(cli, anc, srv, mode) ==
    LET useServer == Replace(cli, srv, "server")
        useClient == Replace(srv, cli, "client")
    IN  CASE cli = None /\ srv = None -> InSync
          [] cli # None /\ srv # None /\ Matches(cli, srv) -> InSync
          [] cli # srv /\ Special \in {cli, srv} -> Unsync
          [] cli \notin {None, Special} /\ srv = None /\ anc = None ->
                Create(mode.outbound, mode.inbound, useClient, useServer)
          [] cli = None /\ srv \notin {None, Special} /\ anc = None ->
                Create(mode.inbound, mode.outbound, useServer, useClient)
          [] cli \notin {None, Special} /\ srv = None /\ anc # None ->
                Delete(anc, cli, mode.inbound, mode.outbound, useServer, useClient)
          [] cli = None /\ srv \notin {None, Special} /\ anc # None ->
                Delete(anc, srv, mode.outbound, mode.inbound, useClient, useServer)
          [] OTHER -> Update(cli, anc, srv, mode, useClient, useServer)
=============================================================================
