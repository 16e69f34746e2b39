----------------------------- MODULE MCDirSync -----------------------------
(* DirSync for TLC. *)
EXTENDS DirSync, TLC

CONSTANT Trusted    \* the values of trust_client_unix_mode a run covers

\* Files that differ in kind, mode, time or content.
SomeFile ==
    {None, Directory(0), Regular(0, 0, 1), Regular(1, 0, 1), Regular(0, 1, 1),
     Regular(0, 1, 2)}

\* What the ancestor may know: each kind and content once, since the end replicas
\* differ from it in every other way.
SomeAncestor == {None, Directory(0), Regular(0, 0, 1), Regular(0, 1, 2)}

\* Any state of one name in the three replicas: what users leave, and what an
\* earlier sync in another mode left in the ancestor.  Contents that the
\* ancestor does not know are precious.  The second content is there only beside
\* the first: alone, either stands for the other.
InitAny ==
    \E c, s \in SomeFile, a \in SomeAncestor, m \in SyncMode :
        /\ LET known == UNION {ContentOf(c), ContentOf(a), ContentOf(s)} IN 2 \in known => 1 \in known
        /\ end = [client |-> [NoFiles EXCEPT ![0] = c],
                  server |-> [NoFiles EXCEPT ![0] = s]]
        /\ anc = [NoFiles EXCEPT ![0] = a]
        /\ mode = m /\ trust \in Trusted
        /\ precious = (ContentOf(c) \cup ContentOf(s)) \ ContentOf(a)
        /\ condemned = {} /\ seen = Unseen /\ todo = {} /\ job = None
        /\ removing = NoFiles /\ pc = "idle" /\ ok = FALSE
        /\ edits = 0 /\ crashes = 0 /\ quiet = FALSE

SpecAny == InitAny /\ [][Sync]_vars /\ WF_vars(Sync)

-----------------------------------------------------------------------------
(* Properties. *)

AllForce == Half(Force, Force, Force)

\* mirror, reset-client, conservative-sync and aggressive-sync.
Bidirectional ==
    {ConservativeSync, [inbound |-> AllForce, outbound |-> AllForce],
     [inbound |-> AllOff, outbound |-> AllForce],
     [inbound |-> AllForce, outbound |-> AllOff]}

\* Whatever the mode and the files, repeated syncs come to rest: there is no
\* state from which they rename, revert or copy for ever.
Settles == <>[][UNCHANGED end]_vars

\* In the modes that have a name, they come to rest with both sides equal.
NamedModesConverge ==
    mode \in Bidirectional => <>[](end["client"] = end["server"])
=============================================================================
