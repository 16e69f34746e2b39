----------------------------- MODULE ServerDir -----------------------------
(***************************************************************************)
(* server/dir.rs: directories as the clients of a server keep them.  A     *)
(* client caches the parsed content of a directory behind a handle, edits  *)
(* the cache, and sends the same edit to the store in a transaction that   *)
(* is conditional on the version and length it knows.  What Storage        *)
(* promises is all that is assumed of the store; the callers are the       *)
(* operations of server/replica.rs, each client doing one at a time.       *)
(*                                                                         *)
(* The root is any directory that exists from the start, the others are    *)
(* its subdirectories.  Blocks of files are LocalStorage's subject.        *)
(***************************************************************************)
EXTENDS Integers, SequencesExt, FiniteSets

CONSTANTS
    Client,
    Root,       \* the well-known id
    Id,         \* random directory ids
    Name,
    Value,      \* what distinguishes one file from another
    None,       \* nothing there
    Gone,       \* Entry::Deleted
    Blank,      \* DirContent::default(), or a version without content
    Redundant,  \* physical entries above which a directory may be rewritten (16)
    Tries,      \* attempts of do_tx (16)
    Scope,      \* bounds on names, subdirectories and operations, taken together
    MaxErrors   \* bound on commits that fail with an error

VARIABLES
    data,       \* Storage: the directories
    txns,       \* Storage: the open transaction of each client
    cache,      \* per client and directory: None (no handle) or its DirContent
    synth,      \* handles of directories yet to be created: None or their name
    latest,     \* table latest_dir_ver: None or (version, length)
    clean,      \* table clean_dir, with what the caller had seen by then
    seen,       \* what the caller knows to be in each directory it has listed
    failed,     \* directories in which something failed: not to be marked clean
    op,         \* the operation under way
    pc,
    names,      \* the names in use, which never change
    room,       \* operations left to begin
    minted,     \* random ids drawn so far, or out of bounds
    errors,     \* commits failed so far
    astray      \* clients that went on with content the server refused

vars == <<data, txns, cache, synth, latest, clean, seen, failed, op, pc, names,
          room, minted, errors, astray>>

Dir == {Root} \cup Id

Server == INSTANCE Storage WITH
    Session <- Client, Obj <- {}, links <- <<>>, avail <- {}

File(v) == [type |-> "file", value |-> v]
Subdirectory(id) == [type |-> "dir", id |-> id]

IsDir(e) == e # None /\ e.type = "dir"

\* v0_entry_to_filedata: the caller sees no ids.
FileData(e) == IF e = None \/ e.type = "file" THEN e ELSE [type |-> "dir"]

-----------------------------------------------------------------------------
(* Directory content: a sequence of chunks, the first one with the header.   *)
(* An HMAC stands for all that is hashed into it, and a session key for the  *)
(* client that drew it.                                                      *)

\* Faulty variant: the first entry for a name counts.
FilesFirst(log) ==
    [n \in Name |->
        LET about == {i \in DOMAIN log : n \in DOMAIN log[i].pairs}
            first == CHOOSE i \in about : \A j \in about : i <= j
        IN  IF about = {} THEN None
            ELSE IF log[first].pairs[n] = Gone THEN None ELSE log[first].pairs[n]]

\* apply_entry, for every pair of every chunk: the last one for a name counts.
Files(log) ==
    [n \in Name |->
        LET about == {i \in DOMAIN log : n \in DOMAIN log[i].pairs}
            last == CHOOSE i \in about : \A j \in about : j <= i
        IN  IF about = {} THEN None
            ELSE IF log[last].pairs[n] = Gone THEN None ELSE log[last].pairs[n]]

Live(log) == {n \in Name : Files(log)[n] # None}
Physical(log) == FoldSeq(LAMBDA c, sum : Cardinality(DOMAIN c.pairs) + sum, 0, log)

\* encode_chunk and encrypt_append_dir: the next chunk after those of `log`.
Chunk(log, pairs) ==
    [pairs |-> pairs, hmac |-> Append(Last(log).hmac, pairs), key |-> Last(log).key]

\* The first chunk of a rewritten directory.
FirstChunk(c, pairs) == [pairs |-> pairs, hmac |-> <<pairs>>, key |-> c]

\* read_v0_chunk accepts every chunk.
Readable(log) ==
    \A i \in DOMAIN log : /\ log[i].key = log[1].key
                          /\ log[i].hmac = [j \in 1 .. i |-> log[j].pairs]

Content(ver, log, listed) == [ver |-> ver, log |-> log, listed |-> listed]
BlankContent == Content(0, <<>>, FALSE)

\* is_valid
IsValid(content) == content.log # <<>>

VerLen(content) == <<content.ver, Len(content.log)>>
Before(p, q) == p[1] < q[1] \/ (p[1] = q[1] /\ p[2] < q[2])

\* Faulty variant: what was listed before counts as listed after a refresh.
FetchedListed(c, d) ==
    IF data[d] # None /\ Readable(data[d].content)
    THEN {Content(data[d].ver, data[d].content, TRUE)}
    ELSE {}

\* refresh: what the server has, unless it is missing, older than what was seen
\* before, or unreadable.
Fetched(c, d) ==
    IF /\ data[d] # None
       /\ latest[c][d] # None =>
            ~Before(<<data[d].ver, Len(data[d].content)>>, latest[c][d])
       /\ Readable(data[d].content)
    THEN {Content(data[d].ver, data[d].content, FALSE)}
    ELSE {}

\* refresh_if_needed: the content to work with (none when it cannot be had), and
\* the latest_dir_ver it leaves.
Current(c, d) ==
    IF IsValid(cache[c][d]) \/ synth[c][d] # None THEN {cache[c][d]} ELSE Fetched(c, d)
LatestAfter(c, d, content) ==
    IF content = cache[c][d] THEN latest ELSE [latest EXCEPT ![c][d] = VerLen(content)]

-----------------------------------------------------------------------------
(* add_entry, on content and the transaction that will make it true.        *)

Edit(kind, d, ver, len, chunk) ==
    [op |-> kind, id |-> d, ver |-> ver, len |-> len, ent |-> chunk]

\* rewrite_instead_of_append
RewriteInstead(log) ==
    Physical(log) > Redundant /\ Physical(log) > 2 * Cardinality(Live(log))

\* Faulty variant: the version stays.
RewrittenInPlace(c, content, files) ==
    LET live == {n \in Name : files[n] # None}
    IN  [content EXCEPT !.ver = IF @ = 0 THEN 1 ELSE @,
                        !.log = <<FirstChunk(c, [n \in live |-> files[n]])>>]

\* rewrite: all live entries under the next version.
Rewritten(c, content, files) ==
    LET live == {n \in Name : files[n] # None}
    IN  [content EXCEPT !.ver = @ + 1,
                        !.log = <<FirstChunk(c, [n \in live |-> files[n]])>>]

Mkdir(d, content) == Edit("mkdir", d, content.ver, 0, content.log[1])
Rmdir(d, content) == Edit("rmdir", d, content.ver, Len(content.log), Blank)

\* create_directory
CreateDirectory(c, id) == Mkdir(id, Rewritten(c, BlankContent, Files(<<>>)))

NewContent(c, content, n, e) ==
    LET pairs == [x \in {n} |-> e]
        files == [Files(content.log) EXCEPT ![n] = IF e = Gone THEN None ELSE e]
    IN  IF RewriteInstead(content.log) THEN Rewritten(c, content, files)
        ELSE IF IsValid(content)
        THEN [content EXCEPT !.log = Append(@, Chunk(@, pairs))]
        ELSE [content EXCEPT !.log = <<FirstChunk(Blank, pairs)>>]

AddEntry(c, d, content, n, e) ==
    LET new == NewContent(c, content, n, e)
    IN  IF RewriteInstead(content.log)
        THEN <<Rmdir(d, content), Mkdir(d, new)>>
        ELSE <<Edit("updir", d, content.ver, Len(content.log), Last(new.log))>>

-----------------------------------------------------------------------------
(* Opening, listing, entering directories.                                   *)

Init ==
    /\ data = [d \in Dir |-> None]
    /\ txns = [c \in Client |-> None]
    /\ cache = [c \in Client |-> [d \in Dir |-> None]]
    /\ synth = [c \in Client |-> [d \in Dir |-> None]]
    /\ latest = [c \in Client |-> [d \in Dir |-> None]]
    /\ clean = [c \in Client |-> [d \in Dir |-> None]]
    /\ seen = [c \in Client |-> [d \in Dir |-> None]]
    /\ failed = [c \in Client |-> {}]
    /\ op = [c \in Client |-> None]
    /\ pc = [c \in Client |-> "closed"]
    /\ \E s \in Scope : names = s.names /\ room = s.ops /\ minted = Id \ s.ids
    /\ errors = 0 /\ astray = {}

\* What list shows of a content.
Shown(content) == [n \in Name |-> FileData(Files(content.log)[n])]

\* prepare of server/replica.rs: the marks of directories that have changed since
\* go, and with them those of their parents.
Stale(c) ==
    {d \in Dir : /\ clean[c][d] # None
                 /\ data[d] # None => clean[c][d].at # <<data[d].ver, Len(data[d].content)>>}
Prepared(c) ==
    LET dirty == IF Stale(c) = {} THEN {} ELSE Stale(c) \cup {Root}
    IN  [d \in Dir |-> IF d \in dirty THEN None ELSE clean[c][d]]

\* Dir::root, which asks for the root until it is there; then prepare and list.
OpenRoot(c) ==
    /\ pc[c] = "closed"
    /\ data[Root] # None
    /\ \E content \in IF cache[c][Root] = None THEN Fetched(c, Root)
                      ELSE {cache[c][Root]} :
        /\ cache' = [cache EXCEPT ![c][Root] = [content EXCEPT !.listed = TRUE]]
        /\ latest' = LatestAfter(c, Root, content)
        /\ seen' = [seen EXCEPT ![c][Root] = Shown(content)]
    /\ clean' = [clean EXCEPT ![c] = Prepared(c)]
    /\ pc' = [pc EXCEPT ![c] = "idle"]
    /\ UNCHANGED <<data, txns, synth, failed, op, room, minted, errors, astray, names>>

RootMissing(c) ==
    /\ pc[c] = "closed"
    /\ data[Root] = None
    /\ LET old == IF cache[c][Root] = None THEN BlankContent ELSE cache[c][Root]
           new == Rewritten(c, old, Files(<<>>))
       IN  /\ cache' = [cache EXCEPT ![c][Root] = new]
           /\ txns' = [txns EXCEPT ![c] =
                         [dirops |-> <<Mkdir(Root, new)>>, link |-> {}, unlink |-> {}]]
    /\ pc' = [pc EXCEPT ![c] = "root"]
    /\ UNCHANGED <<data, synth, latest, clean, seen, failed, op, room, minted, errors,
                   astray, names>>

Rejected(c) ==
    /\ txns[c] # None
    /\ Server!Outcome(txns[c].dirops) = None
    /\ Server!Drop(c)

\* The answer to this commit is not looked at.
CommitRoot(c) ==
    /\ pc[c] = "root"
    /\ \/ Server!Commit(c) /\ UNCHANGED astray
       \/ Rejected(c) /\ astray' = astray \cup {c}
    /\ pc' = [pc EXCEPT ![c] = "closed"]
    /\ UNCHANGED <<cache, synth, latest, clean, seen, failed, op, room, minted, errors,
                   names>>

HasHandle(c, d) == pc[c] = "idle" /\ cache[c][d] # None

\* Dir::subdir, or else Dir::synthdir, for a name of the root, and then list.
Enter(c, n) ==
    /\ HasHandle(c, Root)
    /\ \A d \in Id : cache[c][d] = None         \* bound: one subdirectory at a time
    /\ \E parent \in Current(c, Root) :
        LET e == Files(parent.log)[n]
            found == IsDir(e)
        IN  \E d \in IF found THEN {e.id} ELSE Id \ minted :
                /\ \E content \in IF found THEN Fetched(c, d) ELSE {BlankContent} :
                    /\ cache' = [cache EXCEPT ![c][Root] = parent,
                                    ![c][d] = [content EXCEPT !.listed = TRUE]]
                    /\ latest' = IF found
                                 THEN [LatestAfter(c, Root, parent) EXCEPT
                                            ![c][d] = VerLen(content)]
                                 ELSE LatestAfter(c, Root, parent)
                    /\ seen' = [seen EXCEPT ![c][d] = Shown(content)]
                /\ synth' = [synth EXCEPT ![c][d] = IF found THEN None ELSE n]
                /\ minted' = minted \cup {d}
    /\ UNCHANGED <<data, txns, clean, failed, op, pc, room, errors, astray, names>>

\* The last thing the tree walk does in a directory, after its subdirectories:
\* set_dir_clean of server/replica.rs if nothing there has failed.  Then the handle
\* goes; the tables stay.
Leave(c, d) ==
    /\ HasHandle(c, d)
    /\ d = Root => \A x \in Id : cache[c][x] = None
    /\ \/ /\ d \notin failed[c]
          /\ \E content \in Current(c, d) :
            /\ latest' = LatestAfter(c, d, content)
            /\ clean' = IF content.listed
                        THEN [clean EXCEPT ![c][d] =
                                [at |-> VerLen(content), seen |-> seen[c][d]]]
                        ELSE clean
       \/ /\ d \in failed[c] \/ Current(c, d) = {}
          /\ UNCHANGED <<latest, clean>>
    /\ cache' = [cache EXCEPT ![c][d] = None]
    /\ synth' = [synth EXCEPT ![c][d] = None]
    /\ seen' = [seen EXCEPT ![c][d] = None]
    /\ failed' = [failed EXCEPT ![c] = @ \ {d}]
    /\ pc' = [pc EXCEPT ![c] = IF d = Root THEN "closed" ELSE @]
    /\ UNCHANGED <<data, txns, op, room, minted, errors, astray, names>>

-----------------------------------------------------------------------------
(* Operations: begun, then tried until the commit is accepted (do_tx).      *)

Operation(kind, d, n, arg) ==
    [kind |-> kind, dir |-> d, name |-> n, arg |-> arg, tries |-> Tries, base |-> None,
     found |-> None]

\* create, update and remove of server/replica.rs: a file, a directory or nothing in
\* place of what the caller has seen.  Bound: no directories below the second level.
Edits(c, d) ==
    {Operation("edit", d, n, [old |-> seen[c][d][n], new |-> new]) :
        n \in names,
        new \in {None} \cup {File(v) : v \in Value}
                \cup (IF d = Root THEN {[type |-> "dir"]} ELSE {})}

Sensible(o) ==
    /\ IsDir(o.arg.old) => IsDir(o.arg.new)
    /\ o.arg.old # None \/ o.arg.new # None

Renames(c, d) ==
    {Operation("rename", d, n, m) : n \in {x \in Name : seen[c][d][x] # None}, m \in names}

\* remove for a directory, and rmdir with the handle of the directory itself.
Removals(c) ==
    {Operation("remove", Root, n, None) : n \in {x \in Name : IsDir(seen[c][Root][x])}}
    \cup {Operation("rmdir", Root, None, d) : d \in {x \in Id : cache[c][x] # None}}

Requests(c) ==
    Removals(c) \cup UNION {{o \in Edits(c, d) : Sensible(o)} \cup Renames(c, d) :
                            d \in {x \in Dir : seen[c][x] # None}}

\* What a client may attempt now: something new, or the same again.
Pending(c) ==
    IF pc[c] = "idle" THEN Requests(c)
    ELSE IF pc[c] \in {"try", "materialise"} THEN {op[c]}
    ELSE {}

\* The first attempt at an operation, or a later one.
Attempt(c, o) ==
    \/ /\ pc[c] = "idle" /\ room > 0
       /\ o.kind = "edit" => synth[c][o.dir] = None
       /\ room' = room - 1
    \/ pc[c] = "try" /\ UNCHANGED room

\* The operation is over, without success.
GiveUp(c, o) ==
    /\ pc' = [pc EXCEPT ![c] = "idle"]
    /\ op' = [op EXCEPT ![c] = None]
    /\ failed' = [failed EXCEPT ![c] = @ \cup {o.dir}]

\* The closure returned an error, before anything was sent: the content is restored.
Refuse(c, o) ==
    /\ GiveUp(c, o)
    /\ UNCHANGED <<data, txns, cache, synth, clean, seen, minted, errors, astray, names>>

\* What is sent, the content it will have made, and what it was based on.
Propose(c, o, content, dirops, base) ==
    /\ txns' = [txns EXCEPT ![c] = [dirops |-> dirops, link |-> {}, unlink |-> {}]]
    /\ cache' = [cache EXCEPT ![c][o.dir] = content]
    /\ op' = [op EXCEPT ![c] = [o EXCEPT !.base = base]]
    /\ pc' = [pc EXCEPT ![c] = "commit"]
    /\ UNCHANGED <<data, clean, seen, failed, errors, astray, names>>

\* refresh fails: the directory is missing, has gone back or cannot be read.
NoContent(c, o) ==
    /\ Attempt(c, o)
    /\ Current(c, o.dir) = {}
    /\ Refuse(c, o)
    /\ UNCHANGED latest

\* edit
TryEdit(c, o) ==
    /\ o.kind = "edit" /\ Attempt(c, o)
    /\ \E content \in Current(c, o.dir) :
        LET d == o.dir
            n == o.name
            new == o.arg.new
            files == Files(content.log)
            Entered(e, first) ==
                Propose(c, o, NewContent(c, content, n, e),
                        first \o AddEntry(c, d, content, n, e), files)
        IN  /\ latest' = LatestAfter(c, d, content)
            /\ \/ FileData(files[n]) # o.arg.old /\ Refuse(c, o)
               \/ /\ minted = Id /\ IsDir(new) /\ ~IsDir(files[n])   \* bound: no id is left
                  /\ Refuse(c, o)
               \/ /\ FileData(files[n]) = o.arg.old
                  /\ UNCHANGED synth
                  /\ \/ new = None /\ Entered(Gone, <<>>) /\ UNCHANGED minted
                     \/ new # None /\ ~IsDir(new) /\ Entered(new, <<>>) /\ UNCHANGED minted
                     \/ /\ IsDir(new) /\ IsDir(files[n])
                        /\ Entered(files[n], <<>>) /\ UNCHANGED minted
                     \/ /\ IsDir(new) /\ ~IsDir(files[n])
                        /\ \E id \in Id \ minted :
                            /\ Entered(Subdirectory(id), <<CreateDirectory(c, id)>>)
                            /\ minted' = minted \cup {id}

\* rename
TryRename(c, o) ==
    /\ o.kind = "rename" /\ Attempt(c, o)
    /\ \E content \in Current(c, o.dir) :
        LET files == Files(content.log)
            removed == NewContent(c, content, o.name, Gone)
            e == files[o.name]
        IN  /\ latest' = LatestAfter(c, o.dir, content)
            /\ \/ (files[o.arg] # None \/ e = None) /\ Refuse(c, o)
               \/ /\ files[o.arg] = None /\ e # None
                  /\ Propose(c, o, NewContent(c, removed, o.arg, e),
                             AddEntry(c, o.dir, content, o.name, Gone)
                                \o AddEntry(c, o.dir, removed, o.arg, e),
                             files)
                  /\ UNCHANGED <<synth, minted>>

\* remove_subdir, up to the entry it looks for.
Doomed(o, files) ==
    {n \in Name : /\ IsDir(files[n])
                  /\ o.kind = "remove" => n = o.name
                  /\ o.kind = "rmdir" => files[n].id = o.arg}

TryRemove(c, o) ==
    /\ o.kind \in {"remove", "rmdir"} /\ Attempt(c, o)
    /\ \E content \in Current(c, Root) :
        \E n \in Doomed(o, Files(content.log)) :
            /\ latest' = LatestAfter(c, Root, content)
            /\ op' = [op EXCEPT ![c] = [o EXCEPT !.found = [name |-> n, content |-> content]]]
            /\ pc' = [pc EXCEPT ![c] = "child"]
    /\ UNCHANGED <<data, txns, cache, synth, clean, seen, failed, minted, errors, astray,
                   names>>

\* Nothing to remove: the content is restored, and its version saved as the latest.
\* For rmdir that is a success.
NothingToRemove(c, o) ==
    /\ o.kind \in {"remove", "rmdir"} /\ Attempt(c, o)
    /\ \E content \in Current(c, Root) : Doomed(o, Files(content.log)) = {}
    /\ latest' = [latest EXCEPT ![c][Root] = VerLen(cache[c][Root])]
    /\ pc' = [pc EXCEPT ![c] = "idle"]
    /\ op' = [op EXCEPT ![c] = None]
    /\ failed' = [failed EXCEPT ![c] = @ \cup (IF o.kind = "rmdir" THEN {} ELSE {Root})]
    /\ UNCHANGED <<data, txns, cache, synth, clean, seen, minted, errors, astray, names>>

\* The subdirectory is read in its turn; it must be there and empty.
RemoveChild(c) ==
    /\ pc[c] = "child"
    /\ LET n == op[c].found.name
           content == op[c].found.content
           files == Files(content.log)
           id == files[n].id
       IN  \/ Fetched(c, id) = {} /\ Refuse(c, op[c]) /\ UNCHANGED latest
           \/ \E child \in Fetched(c, id) :
                /\ latest' = [latest EXCEPT ![c][id] = VerLen(child)]
                /\ \/ Live(child.log) # {} /\ Refuse(c, op[c])
                   \/ /\ Live(child.log) = {}
                      /\ Propose(c, op[c], NewContent(c, content, n, Gone),
                                 <<Rmdir(id, child)>> \o AddEntry(c, Root, content, n, Gone),
                                 files)
                      /\ UNCHANGED <<synth, minted>>
    /\ UNCHANGED room

\* materialise, before an edit in a synthetic directory: on the parent's content as
\* it is.
Materialise(c, o) ==
    /\ \/ /\ pc[c] = "idle" /\ room > 0
          /\ o.kind = "edit" /\ synth[c][o.dir] # None
          /\ room' = room - 1
       \/ pc[c] = "materialise" /\ UNCHANGED room
    /\ LET n == synth[c][o.dir]
           parent == cache[c][Root]
           files == Files(parent.log)
           child == Rewritten(c, cache[c][o.dir], Files(<<>>))
           e == Subdirectory(o.dir)
       IN  \/ files[n] # None /\ Refuse(c, o)
           \/ /\ files[n] = None
              /\ txns' = [txns EXCEPT ![c] =
                    [dirops |-> <<Mkdir(o.dir, child)>> \o AddEntry(c, Root, parent, n, e),
                     link |-> {}, unlink |-> {}]]
              /\ cache' = [cache EXCEPT ![c][o.dir] = child,
                                        ![c][Root] = NewContent(c, parent, n, e)]
              /\ op' = [op EXCEPT ![c] = [o EXCEPT !.base = files]]
              /\ pc' = [pc EXCEPT ![c] = "create"]
              /\ UNCHANGED <<data, synth, clean, seen, failed, minted, errors, astray,
                             names>>
    /\ UNCHANGED latest

-----------------------------------------------------------------------------
(* The end of an attempt.                                                   *)

\* The directory whose cached content the attempt has changed.
Edited(c) == IF pc[c] = "create" THEN Root ELSE op[c].dir

\* The caller knows of its own changes.
SeenAfter(c) ==
    LET d == Edited(c)
        files == Files(cache[c][d].log)
    IN  IF seen[c][d] = None THEN seen
        ELSE [seen EXCEPT ![c][d] = [n \in Name |->
                IF files[n] # op[c].base[n] THEN FileData(files[n]) ELSE @[n]]]

MaterialiseAccepted(c) ==
    /\ pc[c] = "create"
    /\ Server!Commit(c)
    /\ latest' = [latest EXCEPT ![c][op[c].dir] = VerLen(cache[c][op[c].dir])]
    /\ synth' = [synth EXCEPT ![c][op[c].dir] = None]
    /\ op' = [op EXCEPT ![c].tries = Tries]
    /\ pc' = [pc EXCEPT ![c] = "try"]
    /\ seen' = SeenAfter(c)
    /\ UNCHANGED <<cache, clean, failed, room, minted, errors, astray, names>>

\* save_latest_dir_ver, and for a removed subdirectory its row goes.
Accepted(c) ==
    /\ pc[c] = "commit"
    /\ Server!Commit(c)
    /\ LET d == op[c].dir
           gone == {r.id : r \in {x \in ToSet(txns[c].dirops) : x.op = "rmdir"}} \ {d}
       IN  /\ latest' = [latest EXCEPT ![c] =
                [x \in Dir |-> IF x \in gone THEN None
                               ELSE IF x = d THEN VerLen(cache[c][d]) ELSE @[x]]]
           /\ seen' = SeenAfter(c)
    /\ pc' = [pc EXCEPT ![c] = "idle"]
    /\ op' = [op EXCEPT ![c] = None]
    /\ UNCHANGED <<cache, synth, clean, failed, room, minted, errors, astray, names>>

\* Faulty variant: the content is kept.
RetryKeeping(c) ==
    /\ pc[c] \in {"create", "commit"}
    /\ Rejected(c)
    /\ IF op[c].tries = 1 THEN GiveUp(c, op[c])
       ELSE /\ op' = [op EXCEPT ![c].tries = @ - 1]
            /\ pc' = [pc EXCEPT ![c] = IF @ = "create" THEN "materialise" ELSE "try"]
            /\ UNCHANGED failed
    /\ UNCHANGED <<cache, synth, latest, clean, seen, room, minted, errors, astray, names>>

\* Faulty variant: its version is saved all the same.
RetrySaving(c) ==
    /\ pc[c] \in {"create", "commit"}
    /\ Rejected(c)
    /\ cache' = [cache EXCEPT ![c][Edited(c)] = BlankContent]
    /\ latest' = [latest EXCEPT ![c][Edited(c)] = VerLen(cache[c][Edited(c)])]
    /\ IF op[c].tries = 1 THEN GiveUp(c, op[c])
       ELSE /\ op' = [op EXCEPT ![c].tries = @ - 1]
            /\ pc' = [pc EXCEPT ![c] = IF @ = "create" THEN "materialise" ELSE "try"]
            /\ UNCHANGED failed
    /\ UNCHANGED <<synth, clean, seen, room, minted, errors, astray, names>>

\* The content is forgotten and the operation tried again, but not for ever.
Retry(c) ==
    /\ pc[c] \in {"create", "commit"}
    /\ Rejected(c)
    /\ cache' = [cache EXCEPT ![c][Edited(c)] = BlankContent]
    /\ IF op[c].tries = 1 THEN GiveUp(c, op[c])
       ELSE /\ op' = [op EXCEPT ![c].tries = @ - 1]
            /\ pc' = [pc EXCEPT ![c] = IF @ = "create" THEN "materialise" ELSE "try"]
            /\ UNCHANGED failed
    /\ UNCHANGED <<synth, latest, clean, seen, room, minted, errors, astray, names>>

\* commit returns an error, for instance because the database is busy.
CommitFails(c) ==
    /\ pc[c] \in {"create", "commit"}
    /\ errors < MaxErrors
    /\ Server!Drop(c)
    /\ GiveUp(c, op[c])
    /\ errors' = errors + 1
    /\ astray' = astray \cup {c}
    /\ UNCHANGED <<cache, synth, latest, clean, seen, room, minted, names>>

Next ==
    \E c \in Client :
        \/ OpenRoot(c) \/ RootMissing(c) \/ CommitRoot(c)
        \/ \E n \in names : Enter(c, n)
        \/ \E d \in Dir : Leave(c, d)
        \/ \E o \in Pending(c) :
            \/ NoContent(c, o) \/ TryEdit(c, o) \/ TryRename(c, o)
            \/ TryRemove(c, o) \/ NothingToRemove(c, o) \/ Materialise(c, o)
        \/ RemoveChild(c)
        \/ MaterialiseAccepted(c) \/ Accepted(c) \/ Retry(c) \/ CommitFails(c)

Spec == Init /\ [][Next]_vars

-----------------------------------------------------------------------------
(* Properties.                                                              *)

\* Nobody works with content that the server has refused.  (Dir::root ignores a
\* rejected commit, and do_tx leaves its content as it is when a commit fails with an
\* error: from there on nothing below is certain.)
Sane == astray = {}

\* Every directory can be read with what is stored of it: chains of HMACs are never
\* broken, by whatever races of appends and rewrites.
AlwaysReadable ==
    Sane => \A d \in Dir : data[d] # None => Readable(data[d].content)

\* A transaction that the server would accept was tested against what the
\* server has: nobody else's edit is overwritten, and no directory goes that has
\* been given files.
TestedIsCurrent ==
    Sane => \A c \in Client :
        /\ pc[c] \in {"create", "commit"}
        /\ Server!Outcome(txns[c].dirops) # None
        => LET d == Edited(c)
           IN  /\ Files(data[d].content) = op[c].base
               /\ \A i \in DOMAIN txns[c].dirops :
                    LET x == txns[c].dirops[i]
                    IN  x.op = "rmdir" /\ x.id # d => Live(data[x.id].content) = {}

\* Directories and entries belong together: every directory but the root has
\* exactly one entry, and every entry a directory.
TreeIntact ==
    Sane => LET listed == {n \in Name : /\ data[Root] # None
                                        /\ IsDir(Files(data[Root].content)[n])}
                id(n) == Files(data[Root].content)[n].id
            IN  /\ \A n, m \in listed : id(n) = id(m) => n = m
                /\ {id(n) : n \in listed} = {d \in Id : data[d] # None}

\* latest_dir_ver is never ahead of the server, which would make the directory
\* unusable for this client.
NeverAhead ==
    Sane => \A c \in Client, d \in Dir :
        data[d] # None /\ latest[c][d] # None =>
            ~Before(<<data[d].ver, Len(data[d].content)>>, latest[c][d])

\* A directory that still has the version and length it was marked clean with
\* holds what the caller had seen or written by then: nothing escapes the sync.
CleanMeansSeen ==
    Sane => \A c \in Client, d \in Dir :
        /\ clean[c][d] # None /\ data[d] # None
        /\ clean[c][d].at = <<data[d].ver, Len(data[d].content)>>
        => \A n \in Name : clean[c][d].seen[n] = FileData(Files(data[d].content)[n])
=============================================================================
