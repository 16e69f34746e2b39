------------------------------ MODULE KeyMgmt ------------------------------
(***************************************************************************)
(* The key store (server/keymgmt.rs, the key chain part of                 *)
(* server/crypt.rs).                                                       *)
(*                                                                         *)
(* The KDF list is one directory of the server, replaced as a whole by a   *)
(* transaction that removes the version that was read and makes a new one. *)
(* Each entry lets one passphrase recover the internal keys of its groups. *)
(* Several administrators edit the list at the same time, each from a      *)
(* process of its own; a transaction that lost a race is run again.        *)
(*                                                                         *)
(* Derivation and masking are symbolic: passphrases derive distinct keys   *)
(* (the salt of an entry is left out), and a masked key opens under the    *)
(* derived key it was masked with and under no other.                      *)
(***************************************************************************)
EXTENDS Naturals, FiniteSets, Functions

CONSTANTS
    Admin,       \* concurrent key management commands
    Pass,        \* passphrases
    Name,        \* key names
    Root,        \* GROUP_ROOT
    Everyone,    \* GROUP_EVERYONE
    Group,       \* all group names
    GroupLists,  \* the lists of groups a command is given, as sets
    None,
    Tries        \* do_tx: 16 in the code

ASSUME GroupsAssumption ==
    {Root, Everyone} \subseteq Group /\ GroupLists \subseteq SUBSET Group

VARIABLES
    list,      \* DIRID_KEYS: None, or its keys, version and the key guarding it
    pending,   \* per administrator: the command, and the transaction under way
    secret     \* history: the internal key each group was created with

vars == <<list, pending, secret>>

Garbage == <<0>>
-----------------------------------------------------------------------------
(***************************************************************************)
(* crypt.rs: entries and key chains.                                       *)
(***************************************************************************)
Derived(pass) == <<pass>>
Masked(derived, key) == [mask |-> derived, key |-> key]
Unmasked(derived, v) == IF v.mask = derived THEN v.key ELSE Garbage

\* reassoc_keys: the groups of an entry hold the keys of the chain.
ReassocKeys(entry, chain) ==
    [hash |-> entry.hash,
     groups |-> [g \in DOMAIN chain.keys |-> Masked(chain.derived, chain.keys[g])]]

\* create_key: the chain's derived key becomes that of the new passphrase.
CreateKey(pass, keys) ==
    ReassocKeys([hash |-> Derived(pass), groups |-> <<>>],
                [keys |-> keys, derived |-> Derived(pass)])

\* A chain with other keys for the groups of `keys`, and with those groups.
WithKeys(chain, keys) ==
    [derived |-> chain.derived,
     keys |-> [g \in DOMAIN keys \cup DOMAIN chain.keys |->
                  IF g \in DOMAIN keys THEN keys[g] ELSE chain.keys[g]]]

Opens(pass, entry) == Derived(pass) = entry.hash

TryDeriveKeySingle(pass, entry) ==
    IF ~Opens(pass, entry) THEN None
    ELSE [derived |-> Derived(pass),
          keys |-> [g \in DOMAIN entry.groups |-> Unmasked(Derived(pass), entry.groups[g])]]

Opened(pass, keys) == {n \in DOMAIN keys : Opens(pass, keys[n])}
OpenedFirst(pass, keys) == CHOOSE n \in Opened(pass, keys) : TRUE

TryDeriveKey(pass, keys) ==
    IF Opened(pass, keys) = {} THEN None
    ELSE TryDeriveKeySingle(pass, keys[OpenedFirst(pass, keys)])

Holders(keys, g) == {n \in DOMAIN keys : g \in DOMAIN keys[n].groups}
Held(keys) == {g \in Group : Holders(keys, g) # {}}

\* InternalKey::generate_new, once per group: keys that occur nowhere.
KeysOf(keys) == UNION {{e.groups[g].key : g \in DOMAIN e.groups} : e \in Range(keys)}
InUse ==
    Range(secret) \cup UNION {KeysOf(pending[a].tx.keys) : a \in {a \in Admin : pending[a] # None}}
Fresh(gs) ==
    [g \in gs |-> CHOOSE k \in {<<n, g>> : n \in 1..(Cardinality(InUse) + 1)} : k \notin InUse]
-----------------------------------------------------------------------------
(***************************************************************************)
(* The edits.  Each yields the new keys and the key chains it came across  *)
(* (from which RootKey::chain takes the root key), or None for an error.   *)
(***************************************************************************)
Edit(keys, chains) == [keys |-> keys, chains |-> chains]
Put(keys, n, entry) == [m \in DOMAIN keys \cup {n} |-> IF m = n THEN entry ELSE keys[m]]

InitKeys(c) ==
    LET keys == Fresh({Root, Everyone})
    IN Edit(Put(<<>>, c.name, CreateKey(c.new, keys)),
            {[keys |-> keys, derived |-> Derived(c.new)]})

\* Faulty variant: a passphrase already in use is accepted.
AddKeyUnchecked(keys, c) ==
    LET chain == TryDeriveKey(c.old, keys) IN
    IF chain = None \/ c.name \in DOMAIN keys THEN None
    ELSE Edit(Put(keys, c.name, CreateKey(c.new, chain.keys)), {chain})

\* The new key inherits the groups of the old passphrase's key.
AddKey(keys, c) ==
    LET chain == TryDeriveKey(c.old, keys) IN
    IF chain = None \/ Opened(c.new, keys) # {} \/ c.name \in DOMAIN keys
    THEN None
    ELSE Edit(Put(keys, c.name, CreateKey(c.new, chain.keys)), {chain})

\* Neither the last key nor the last one of any group can be deleted.
DelKey(keys, c) ==
    LET left == Restrict(keys, DOMAIN keys \ {c.name})
    IN IF c.name \notin DOMAIN keys \/ DOMAIN left = {} \/ Held(left) # Held(keys)
       THEN None
       ELSE Edit(left, {})

\* The entry is replaced under its name, which may be left out when there is
\* only one; the chain that opens its groups is that of the old passphrase,
\* which belongs to another entry only if the caller allows it.
ChangeKey(keys, c) ==
    LET name == IF c.name = None /\ Cardinality(DOMAIN keys) = 1
                THEN CHOOSE n \in DOMAIN keys : TRUE ELSE c.name
        rest == Restrict(keys, DOMAIN keys \ {name})
        own == TryDeriveKeySingle(c.old, keys[name])
        chain == IF own # None THEN own
                 ELSE IF c.anyPass THEN TryDeriveKey(c.old, rest) ELSE None
    IN IF name \notin DOMAIN keys THEN None
       ELSE IF Opened(c.new, rest) # {} \/ chain = None THEN None
       ELSE IF ~(DOMAIN keys[name].groups \subseteq DOMAIN chain.keys) THEN None
       ELSE Edit(Put(rest, name, CreateKey(c.new, Restrict(chain.keys, DOMAIN keys[name].groups))),
                 {chain})

\* Every group of the list gets a new key, on the entry the passphrase opens.
CreateGroup(keys, c) ==
    LET chain == TryDeriveKey(c.old, keys)
        n == OpenedFirst(c.old, keys)
    IN IF c.groups \cap Held(keys) # {} \/ chain = None THEN None
       ELSE Edit(Put(keys, n, ReassocKeys(keys[n], WithKeys(chain, Fresh(c.groups)))), {chain})

\* Faulty variant: the receiving entry gets a key of its own for the group.
AssocGroupAnew(keys, c) ==
    LET src == TryDeriveKey(c.old, keys)
        dst == TryDeriveKey(c.new, keys)
        n == OpenedFirst(c.new, keys)
    IN IF src = None \/ dst = None THEN None
       ELSE IF c.groups \cap DOMAIN dst.keys # {} \/ ~(c.groups \subseteq DOMAIN src.keys)
       THEN None
       ELSE Edit(Put(keys, n, ReassocKeys(keys[n], WithKeys(dst, Fresh(c.groups)))), {src, dst})

\* The keys of the groups are copied from the source passphrase's chain.
AssocGroup(keys, c) ==
    LET src == TryDeriveKey(c.old, keys)
        dst == TryDeriveKey(c.new, keys)
        n == OpenedFirst(c.new, keys)
    IN IF src = None \/ dst = None THEN None
       ELSE IF c.groups \cap DOMAIN dst.keys # {} \/ ~(c.groups \subseteq DOMAIN src.keys)
       THEN None
       ELSE Edit(Put(keys, n, ReassocKeys(keys[n],
                     WithKeys(dst, Restrict(src.keys, c.groups)))), {src, dst})

Without(entry, gs) ==
    [hash |-> entry.hash, groups |-> Restrict(entry.groups, DOMAIN entry.groups \ gs)]

DisassocGroup(keys, c) ==
    IF Everyone \in c.groups \/ c.name \notin DOMAIN keys THEN None
    ELSE IF ~(c.groups \subseteq DOMAIN keys[c.name].groups) THEN None
    ELSE LET left == Put(keys, c.name, Without(keys[c.name], c.groups))
         IN IF c.groups \subseteq Held(left) THEN Edit(left, {}) ELSE None

DestroyGroup(keys, c) ==
    IF c.groups \cap {Everyone, Root} # {} \/ ~(c.groups \subseteq Held(keys)) THEN None
    ELSE Edit([n \in DOMAIN keys |-> Without(keys[n], c.groups)], {})

-----------------------------------------------------------------------------
(***************************************************************************)
(* Commands: the operation and the arguments it looks at.                  *)
(***************************************************************************)
Command(op, old, new, name, groups, anyPass, root) ==
    [op |-> op, old |-> old, new |-> new, name |-> name, groups |-> groups,
     anyPass |-> anyPass, root |-> root]

InitCommands == {Command("init", None, p, n, {}, FALSE, None) : p \in Pass, n \in Name}
EditCommands ==
    {Command("add", o, p, n, {}, FALSE, r) : o, p, r \in Pass, n \in Name}
    \cup {Command("del", None, None, n, {}, FALSE, r) : n \in Name, r \in Pass}
    \cup {Command("change", o, p, n, {}, a, r) :
             o, p, r \in Pass, n \in Name \cup {None}, a \in BOOLEAN}
    \cup {Command("create", o, None, None, gs, FALSE, r) : o, r \in Pass, gs \in GroupLists}
    \cup {Command("assoc", o, p, None, gs, FALSE, r) : o, p, r \in Pass, gs \in GroupLists}
    \cup {Command("disassoc", None, None, n, gs, FALSE, r) :
             n \in Name, gs \in GroupLists, r \in Pass}
    \cup {Command("destroy", None, None, None, gs, FALSE, r) : gs \in GroupLists, r \in Pass}

Effect(c, keys) ==
    CASE c.op = "add" -> AddKey(keys, c)
      [] c.op = "del" -> DelKey(keys, c)
      [] c.op = "change" -> ChangeKey(keys, c)
      [] c.op = "create" -> CreateGroup(keys, c)
      [] c.op = "assoc" -> AssocGroup(keys, c)
      [] c.op = "disassoc" -> DisassocGroup(keys, c)
      [] c.op = "destroy" -> DestroyGroup(keys, c)

\* The root key met on the way or, failing that, the one of the passphrase
\* the user is asked for, looked up in the edited list.
RootOf(chains) == {ch.keys[Root] : ch \in {ch \in chains : Root \in DOMAIN ch.keys}}
RootKey(edit, c) ==
    LET asked == TryDeriveKey(c.root, edit.keys)
    IN IF RootOf(edit.chains) # {} THEN CHOOSE k \in RootOf(edit.chains) : TRUE
       ELSE IF asked = None THEN None
       ELSE IF Root \in DOMAIN asked.keys THEN asked.keys[Root] ELSE None

\* One run of do_tx's closure on the list as it is now: None for an error,
\* or the keys to install and the root key, which an edit looks for only once;
\* `current` says that the version read is still the one there.
Attempt(c, cached) ==
    IF (c.op = "init") # (list = None) THEN None
    ELSE LET edit == IF c.op = "init" THEN InitKeys(c)
                     ELSE Effect(c, list.keys)
         IN IF edit = None THEN None
            ELSE LET key == IF c.op = "init" \/ cached = None THEN RootKey(edit, c) ELSE cached
                 IN IF key = None THEN None
                    ELSE [keys |-> edit.keys, root |-> key, current |-> TRUE]

Init ==
    /\ list = None
    /\ pending = [a \in Admin |-> None]
    /\ secret = [g \in Group |-> None]

\* From its second attempt on a command has a root key and asks for none.
Unprompted(c) == Command(c.op, c.old, c.new, c.name, c.groups, c.anyPass, None)

Proposal(a, c, tx, tries) ==
    pending' = [pending EXCEPT ![a] = [c |-> Unprompted(c), tx |-> tx, tries |-> tries]]

\* A command reads the list and buffers its transaction.  A command whose
\* first attempt fails changes nothing.
Begin(a, c) ==
    /\ pending[a] = None
    /\ Attempt(c, None) # None
    /\ Proposal(a, c, Attempt(c, None), 1)
    /\ UNCHANGED <<list, secret>>

\* commit(): the version that was read, guarded by the root key, is still
\* there (or, for a new list, there is none).
Admits(tx) ==
    tx.current /\ (list # None => list.guard = tx.root)

KeyOf(keys, g) ==
    LET entry == keys[CHOOSE n \in Holders(keys, g) : TRUE]
    IN Unmasked(entry.hash, entry.groups[g])

Outdated(tx) == [keys |-> tx.keys, root |-> tx.root, current |-> FALSE]

Commit(a) ==
    /\ pending[a] # None /\ Admits(pending[a].tx)
    /\ LET tx == pending[a].tx
           before == IF list = None THEN {} ELSE Held(list.keys)
       IN /\ list' = [keys |-> tx.keys, guard |-> tx.root]
          /\ secret' = [g \in Group |-> IF g \notin Held(tx.keys) THEN None
                                        ELSE IF g \in before THEN secret[g]
                                        ELSE KeyOf(tx.keys, g)]
    /\ pending' = [b \in Admin |-> IF b = a \/ pending[b] = None THEN None
                                   ELSE [c |-> pending[b].c, tx |-> Outdated(pending[b].tx),
                                         tries |-> pending[b].tries]]

\* Faulty variant: the retry edits the keys it read the first time.
AgainStale(a) ==
    Proposal(a, pending[a].c, [pending[a].tx EXCEPT !.current = TRUE], pending[a].tries + 1)

\* The closure runs again from the start, with a fresh copy of the list.
Again(a) ==
    LET tx == Attempt(pending[a].c, pending[a].tx.root)
    IN IF tx = None THEN pending' = [pending EXCEPT ![a] = None]
       ELSE Proposal(a, pending[a].c, tx, pending[a].tries + 1)

\* A rejected commit: try again, or give up with TooManyTxRetries.
Reject(a) ==
    /\ pending[a] # None /\ ~Admits(pending[a].tx)
    /\ IF pending[a].tries < Tries
       THEN Again(a)
       ELSE pending' = [pending EXCEPT ![a] = None]
    /\ UNCHANGED <<list, secret>>

Next ==
    \E a \in Admin :
        \/ \E c \in InitCommands \cup EditCommands : Begin(a, c)
        \/ Commit(a)
        \/ Reject(a)

Spec == Init /\ [][Next]_vars
-----------------------------------------------------------------------------
(***************************************************************************)
(* Properties.                                                             *)
(***************************************************************************)

\* Nobody is ever locked out of data: every passphrase in the store opens,
\* for each group of its entry, the very key the group was created with, and
\* the root key so opened is the one that guards the list against edits.
KeysRecoverable ==
    list # None =>
        \A n \in DOMAIN list.keys : \A g \in DOMAIN list.keys[n].groups :
            LET key == Unmasked(list.keys[n].hash, list.keys[n].groups[g])
            IN key = secret[g] /\ (g = Root => key = list.guard)

\* A passphrase names at most one entry, as add_key and change_key promise
\* ("since the passphrase is used to identify the key implicitly"), also
\* when two commands install the same passphrase at the same time.
PassphraseIdentifies ==
    list # None => \A p \in Pass : \A m, n \in Opened(p, list.keys) : m = n

\* No edit loses a group: a group that somebody could open stays open to
\* somebody unless the command is to destroy it, and `root` and `everyone`
\* stay for ever.
NoGroupLost ==
    [][list # None =>
          \A g \in Held(list.keys) \ Held(list'.keys) :
              /\ g \notin {Root, Everyone}
              /\ \E a \in Admin : pending[a] # None /\ pending[a].c.op = "destroy"
                                  /\ g \in pending[a].c.groups /\ pending'[a] = None]_list
=============================================================================
