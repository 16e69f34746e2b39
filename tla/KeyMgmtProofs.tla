--------------------------- MODULE KeyMgmtProofs ----------------------------
(***************************************************************************)
(* What holds of KeyMgmt for any number of commands at the same time, any  *)
(* passphrases, names and groups: nobody is locked out of the data,        *)
(* passphrases identify entries, and no group is lost by accident.         *)
(***************************************************************************)
EXTENDS KeyMgmt, TLAPS

-----------------------------------------------------------------------------
(* The inductive invariant. *)

\* Who holds group `g` in the list holds key `k` for it.
Agrees(keys, g, k) ==
    \A m \in DOMAIN keys : g \in DOMAIN keys[m].groups => keys[m].groups[g].key = k

\* A KDF list as the edits make it: the keys of an entry are masked with its own
\* derived key, which no other entry has, and the entries of a group agree.
Sound(keys) ==
    /\ \A n \in DOMAIN keys : \A g \in DOMAIN keys[n].groups :
          /\ g \in Group
          /\ keys[n].groups[g].mask = keys[n].hash
          /\ Agrees(keys, g, keys[n].groups[g].key)
    /\ \A m, n \in DOMAIN keys : keys[m].hash = keys[n].hash => m = n

\* Groups that are in both lists have the same key in both.
Keeps(keys, new) ==
    \A n \in DOMAIN new : \A g \in DOMAIN new[n].groups :
        Agrees(keys, g, new[n].groups[g].key)

\* What command `c` may do to a list.
EditOK(keys, new, c) ==
    /\ Sound(new) /\ Keeps(keys, new)
    /\ \A g \in Held(keys) \ Held(new) :
          c.op = "destroy" /\ g \in c.groups /\ g \notin {Root, Everyone}

StoreInv ==
    list # None =>
        /\ Sound(list.keys)
        /\ {Root, Everyone} \subseteq Held(list.keys)
        /\ \A n \in DOMAIN list.keys : \A g \in DOMAIN list.keys[n].groups :
              list.keys[n].groups[g].key = secret[g]
        /\ secret[Root] = list.guard

Operation == {"init", "add", "del", "change", "create", "assoc", "disassoc", "destroy"}

\* A first list: its root key guards it.
FirstOK(tx) ==
    /\ Sound(tx.keys)
    /\ {Root, Everyone} \subseteq Held(tx.keys)
    /\ \A n \in DOMAIN tx.keys :
          Root \in DOMAIN tx.keys[n].groups => tx.keys[n].groups[Root].key = tx.root

\* A transaction made from the list that is there now.
TxOK(c, tx) ==
    tx.current => IF list = None THEN FirstOK(tx) ELSE EditOK(list.keys, tx.keys, c)

PendingInv ==
    \A a \in Admin : pending[a] # None =>
        /\ pending[a].c.op \in Operation
        /\ pending[a].c.groups \subseteq Group
        /\ TxOK(pending[a].c, pending[a].tx)

TypeInv ==
    DOMAIN pending = Admin /\ DOMAIN secret = Group

Inv == TypeInv /\ StoreInv /\ PendingInv
-----------------------------------------------------------------------------
(* Key chains and entries. *)

\* The chain a passphrase opens holds the groups of the entry and their keys:
\* try_derive_key_single undoes reassoc_keys.
LEMMA SingleChain ==
    ASSUME NEW keys, Sound(keys), NEW n \in DOMAIN keys, NEW p, Opens(p, keys[n])
    PROVE  LET ch == TryDeriveKeySingle(p, keys[n])
           IN /\ ch.derived = keys[n].hash
              /\ DOMAIN ch.keys = DOMAIN keys[n].groups
              /\ \A g \in DOMAIN ch.keys : g \in Group /\ Agrees(keys, g, ch.keys[g])
PROOF
  <1> DEFINE ch == TryDeriveKeySingle(p, keys[n])
  <1>1. /\ ch.derived = Derived(p)
        /\ ch.keys = [g \in DOMAIN keys[n].groups |-> Unmasked(Derived(p), keys[n].groups[g])]
    BY DEF TryDeriveKeySingle
  <1>2. Derived(p) = keys[n].hash
    BY DEF Opens
  <1>3. \A g \in DOMAIN keys[n].groups : ch.keys[g] = keys[n].groups[g].key
    BY <1>1, <1>2 DEF Unmasked, Sound
  <1> QED
    BY <1>1, <1>2, <1>3 DEF Sound

\* The first entry that a passphrase opens.
LEMMA FirstOpened ==
    ASSUME NEW keys, NEW p, Opened(p, keys) # {}
    PROVE  /\ OpenedFirst(p, keys) \in DOMAIN keys
           /\ Opens(p, keys[OpenedFirst(p, keys)])
           /\ TryDeriveKey(p, keys) = TryDeriveKeySingle(p, keys[OpenedFirst(p, keys)])
PROOF
  <1>1. OpenedFirst(p, keys) \in Opened(p, keys)
    BY Zenon DEF OpenedFirst
  <1> QED
    BY Zenon, <1>1 DEF Opened, TryDeriveKey

\* try_derive_key yields the chain of some entry, or nothing.
LEMMA SomeChain ==
    ASSUME NEW keys, Sound(keys), NEW p, TryDeriveKey(p, keys) # None
    PROVE  LET ch == TryDeriveKey(p, keys)
               n == OpenedFirst(p, keys)
           IN /\ n \in DOMAIN keys /\ ch.derived = keys[n].hash
              /\ DOMAIN ch.keys = DOMAIN keys[n].groups
              /\ \A g \in DOMAIN ch.keys : g \in Group /\ Agrees(keys, g, ch.keys[g])
PROOF
  <1>1. Opened(p, keys) # {}
    BY Zenon DEF TryDeriveKey
  <1>2. /\ OpenedFirst(p, keys) \in DOMAIN keys
        /\ Opens(p, keys[OpenedFirst(p, keys)])
        /\ TryDeriveKey(p, keys) = TryDeriveKeySingle(p, keys[OpenedFirst(p, keys)])
    BY Zenon, <1>1, FirstOpened
  <1> QED
    BY <1>2, SingleChain

\* What reassoc_keys writes into an entry.
LEMMA Reassociated ==
    ASSUME NEW entry, NEW chain
    PROVE  LET e == ReassocKeys(entry, chain)
           IN /\ e.hash = entry.hash
              /\ DOMAIN e.groups = DOMAIN chain.keys
              /\ \A g \in DOMAIN chain.keys :
                    e.groups[g].mask = chain.derived /\ e.groups[g].key = chain.keys[g]
PROOF
  BY DEF ReassocKeys, Masked

\* What create_key makes.
LEMMA Created ==
    ASSUME NEW p, NEW ks
    PROVE  LET e == CreateKey(p, ks)
           IN /\ e.hash = Derived(p)
              /\ DOMAIN e.groups = DOMAIN ks
              /\ \A g \in DOMAIN ks : e.groups[g].mask = Derived(p) /\ e.groups[g].key = ks[g]
PROOF
  BY DEF CreateKey, ReassocKeys, Masked

LEMMA Merged ==
    ASSUME NEW chain, NEW ks
    PROVE  LET ch == WithKeys(chain, ks)
           IN /\ ch.derived = chain.derived
              /\ DOMAIN ch.keys = DOMAIN ks \cup DOMAIN chain.keys
              /\ \A g \in DOMAIN ks : ch.keys[g] = ks[g]
              /\ \A g \in DOMAIN chain.keys \ DOMAIN ks : ch.keys[g] = chain.keys[g]
PROOF
  BY DEF WithKeys

\* An entry that is written into a list leaves it sound if its derived key is
\* its own and its groups agree with the list.
LEMMA PutSound ==
    ASSUME NEW keys, Sound(keys), NEW rest, NEW n, NEW e,
           \A m \in DOMAIN rest : m \in DOMAIN keys /\ rest[m] = keys[m],
           \A m \in DOMAIN rest \ {n} : keys[m].hash # e.hash,
           \A g \in DOMAIN e.groups :
              g \in Group /\ e.groups[g].mask = e.hash /\ Agrees(keys, g, e.groups[g].key)
    PROVE  Sound(Put(rest, n, e)) /\ Keeps(keys, Put(rest, n, e))
PROOF
  <1> DEFINE new == Put(rest, n, e)
  <1>1. DOMAIN new = DOMAIN rest \cup {n} /\ new[n] = e
        /\ \A m \in DOMAIN rest \ {n} : new[m] = rest[m]
    BY DEF Put
  <1> HIDE DEF new
  <1>2. \A m \in DOMAIN new :
           \/ m = n /\ new[m] = e
           \/ m \in DOMAIN rest \ {n} /\ m \in DOMAIN keys /\ new[m] = keys[m]
    BY Zenon, <1>1
  <1>3. Keeps(keys, new)
    BY Zenon, <1>2 DEF Keeps, Sound
  <1>4. \A m, k \in DOMAIN new : new[m].hash = new[k].hash => m = k
    BY Zenon, <1>2 DEF Sound
  <1>5. ASSUME NEW m \in DOMAIN new, NEW g \in DOMAIN new[m].groups
        PROVE  /\ g \in Group
               /\ new[m].groups[g].mask = new[m].hash
               /\ Agrees(new, g, new[m].groups[g].key)
    <2>1. g \in Group /\ new[m].groups[g].mask = new[m].hash
      BY <1>2 DEF Sound
    <2>2. ASSUME NEW k \in DOMAIN new, g \in DOMAIN new[k].groups
          PROVE  new[k].groups[g].key = new[m].groups[g].key
      BY <1>2, <1>3, <2>2 DEF Keeps, Agrees
    <2> QED
      BY Zenon, <2>1, <2>2 DEF Agrees
  <1> QED
    BY Zenon, <1>3, <1>4, <1>5 DEF Sound, new

\* A group stays open to somebody when its holders stay, with their groups.
LEMMA StillHeld ==
    ASSUME NEW keys, NEW new, NEW g \in Held(keys),
           \A m \in DOMAIN keys : g \in DOMAIN keys[m].groups =>
              \E n \in DOMAIN new : g \in DOMAIN new[n].groups
    PROVE  g \in Held(new)
PROOF
  BY Zenon DEF Held, Holders

\* A list from which entries and groups are taken away stays sound.
LEMMA LessSound ==
    ASSUME NEW keys, Sound(keys), NEW new,
           \A n \in DOMAIN new :
              /\ n \in DOMAIN keys /\ new[n].hash = keys[n].hash
              /\ \A g \in DOMAIN new[n].groups :
                    g \in DOMAIN keys[n].groups /\ new[n].groups[g] = keys[n].groups[g]
    PROVE  Sound(new) /\ Keeps(keys, new)
PROOF
  <1>1. Keeps(keys, new)
    BY Zenon DEF Keeps, Sound
  <1>2. \A m, n \in DOMAIN new : new[m].hash = new[n].hash => m = n
    BY Zenon DEF Sound
  <1>3. ASSUME NEW n \in DOMAIN new, NEW g \in DOMAIN new[n].groups
        PROVE  /\ g \in Group
               /\ new[n].groups[g].mask = new[n].hash
               /\ Agrees(new, g, new[n].groups[g].key)
    <2>1. g \in Group /\ new[n].groups[g].mask = new[n].hash
      BY DEF Sound
    <2>2. ASSUME NEW k \in DOMAIN new, g \in DOMAIN new[k].groups
          PROVE  new[k].groups[g].key = new[n].groups[g].key
      BY <1>1, <2>2 DEF Keeps, Agrees
    <2> QED
      BY Zenon, <2>1, <2>2 DEF Agrees
  <1> QED
    BY Zenon, <1>1, <1>2, <1>3 DEF Sound
-----------------------------------------------------------------------------
(* The edits. *)

\* A command that is not rejected yields a list.
LEMMA EditFields ==
    ASSUME NEW keys, NEW chains
    PROVE  Edit(keys, chains).keys = keys /\ Edit(keys, chains).chains = chains
PROOF
  BY DEF Edit

\* add_key: the new entry inherits the keys of the old passphrase's entry.
LEMMA AddKeyOK ==
    ASSUME NEW keys, Sound(keys), NEW c, AddKey(keys, c) # None
    PROVE  EditOK(keys, AddKey(keys, c).keys, c)
PROOF
  <1> DEFINE chain == TryDeriveKey(c.old, keys)
             e == CreateKey(c.new, chain.keys)
             new == Put(keys, c.name, e)
  <1>1. /\ chain # None /\ Opened(c.new, keys) = {} /\ c.name \notin DOMAIN keys
        /\ AddKey(keys, c).keys = new
    BY EditFields DEF AddKey
  <1>2. \A g \in DOMAIN chain.keys : g \in Group /\ Agrees(keys, g, chain.keys[g])
    BY Zenon, <1>1, SomeChain
  <1> HIDE DEF chain
  <1>3. /\ e.hash = Derived(c.new) /\ DOMAIN e.groups = DOMAIN chain.keys
        /\ \A g \in DOMAIN chain.keys : e.groups[g].mask = Derived(c.new) /\ e.groups[g].key = chain.keys[g]
    BY Created
  <1>4. /\ DOMAIN new = DOMAIN keys \cup {c.name} /\ \A m \in DOMAIN keys : new[m] = keys[m]
    BY <1>1 DEF Put
  <1> HIDE DEF e
  <1>5. \A m \in DOMAIN keys : keys[m].hash # e.hash
    BY Zenon, <1>1, <1>3 DEF Opened, Opens
  <1>6. Sound(new) /\ Keeps(keys, new)
    BY Zenon, <1>2, <1>3, <1>5, PutSound
  <1>7. Held(keys) \ Held(new) = {}
    BY Zenon, <1>4, StillHeld
  <1> QED
    BY Zenon, <1>1, <1>6, <1>7 DEF EditOK

\* del_key: what is left holds every group that was held.
LEMMA DelKeyOK ==
    ASSUME NEW keys, Sound(keys), NEW c, DelKey(keys, c) # None
    PROVE  EditOK(keys, DelKey(keys, c).keys, c)
PROOF
  <1> DEFINE left == Restrict(keys, DOMAIN keys \ {c.name})
  <1>1. DelKey(keys, c).keys = left /\ Held(left) = Held(keys)
    BY EditFields DEF DelKey
  <1>2. DOMAIN left = DOMAIN keys \ {c.name} /\ \A n \in DOMAIN left : left[n] = keys[n]
    BY DEF Restrict
  <1> HIDE DEF left
  <1>3. Sound(left) /\ Keeps(keys, left)
    BY Zenon, <1>2, LessSound
  <1> QED
    BY Zenon, <1>1, <1>3 DEF EditOK

\* change_key: the entry keeps its groups, with the keys of the chain that
\* opened it.
LEMMA ChangeKeyOK ==
    ASSUME NEW keys, Sound(keys), NEW c, ChangeKey(keys, c) # None
    PROVE  EditOK(keys, ChangeKey(keys, c).keys, c)
PROOF
  <1> DEFINE name == IF c.name = None /\ Cardinality(DOMAIN keys) = 1
                     THEN CHOOSE n \in DOMAIN keys : TRUE ELSE c.name
             rest == Restrict(keys, DOMAIN keys \ {name})
             own == TryDeriveKeySingle(c.old, keys[name])
             chain == IF own # None THEN own
                      ELSE IF c.anyPass THEN TryDeriveKey(c.old, rest) ELSE None
             groups == DOMAIN keys[name].groups
             e == CreateKey(c.new, Restrict(chain.keys, groups))
             new == Put(rest, name, e)
  <1>1. /\ name \in DOMAIN keys /\ Opened(c.new, rest) = {} /\ chain # None
        /\ groups \subseteq DOMAIN chain.keys
        /\ ChangeKey(keys, c) = Edit(new, {chain})
    BY Zenon DEF ChangeKey
  <1> HIDE DEF name
  <1>2. DOMAIN rest = DOMAIN keys \ {name} /\ \A n \in DOMAIN rest : rest[n] = keys[n]
    BY DEF Restrict
  <1> HIDE DEF rest
  <1>3. \A g \in groups : g \in Group /\ Agrees(keys, g, chain.keys[g])
    <2>1. CASE own # None
      <3>1. Opens(c.old, keys[name])
        BY Zenon, <2>1 DEF TryDeriveKeySingle
      <3> QED
        BY Zenon, <1>1, <2>1, <3>1, SingleChain
    <2>2. CASE own = None
      <3>1. chain = TryDeriveKey(c.old, rest) /\ TryDeriveKey(c.old, rest) # None
        BY Zenon, <1>1, <2>2
      <3>2. Sound(rest)
        BY Zenon, <1>2, LessSound
      <3>3. \A g \in DOMAIN chain.keys : Agrees(rest, g, chain.keys[g])
        BY Zenon, <3>1, <3>2, SomeChain
      <3>4. \E n \in DOMAIN rest : DOMAIN chain.keys = DOMAIN rest[n].groups
        BY <3>1, <3>2, SomeChain
      <3>5. ASSUME NEW g \in groups
            PROVE  g \in Group /\ Agrees(keys, g, chain.keys[g])
        <4> HIDE DEF chain
        <4>1. PICK n \in DOMAIN rest : g \in DOMAIN rest[n].groups
          BY Zenon, <1>1, <3>4
        <4>2. rest[n].groups[g].key = chain.keys[g]
          BY Zenon, <1>1, <3>3, <4>1 DEF Agrees
        <4>3. n \in DOMAIN keys /\ g \in DOMAIN keys[n].groups /\ keys[n].groups[g].key = chain.keys[g]
          BY Zenon, <1>2, <4>1, <4>2
        <4> QED
          BY Zenon, <4>3 DEF Sound
      <3> QED
        BY Zenon, <3>5
    <2> QED
      BY Zenon, <2>1, <2>2
  <1> HIDE DEF chain
  <1>4. /\ DOMAIN Restrict(chain.keys, groups) = groups
        /\ \A g \in groups : Restrict(chain.keys, groups)[g] = chain.keys[g]
    BY DEF Restrict
  <1>5. /\ e.hash = Derived(c.new) /\ DOMAIN e.groups = groups
        /\ \A g \in groups : e.groups[g].mask = Derived(c.new) /\ e.groups[g].key = chain.keys[g]
    BY <1>4, Created
  <1>6. DOMAIN new = DOMAIN keys /\ new[name] = e /\ \A m \in DOMAIN keys \ {name} : new[m] = keys[m]
    BY <1>1, <1>2 DEF Put
  <1> HIDE DEF e
  <1>7. \A m \in DOMAIN rest \ {name} : keys[m].hash # e.hash
    BY Zenon, <1>1, <1>2, <1>5 DEF Opened, Opens
  <1>8. Sound(new) /\ Keeps(keys, new)
    BY Zenon, <1>2, <1>3, <1>5, <1>7, PutSound
  <1>9. \A m \in DOMAIN keys : \A g \in DOMAIN keys[m].groups : g \in DOMAIN new[m].groups
    BY Zenon, <1>5, <1>6
  <1>10. Held(keys) \ Held(new) = {}
    BY Zenon, <1>6, <1>9, StillHeld
  <1>11. ChangeKey(keys, c).keys = new
    BY <1>1, EditFields
  <1> QED
    BY Zenon, <1>8, <1>10, <1>11 DEF EditOK

\* An entry that its own chain, with some more groups, is written to.
LEMMA RewriteOK ==
    ASSUME NEW keys, Sound(keys), NEW c, NEW p, NEW ks,
           TryDeriveKey(p, keys) # None,
           \A g \in DOMAIN ks : g \in Group /\ Agrees(keys, g, ks[g])
    PROVE  LET n == OpenedFirst(p, keys)
               chain == TryDeriveKey(p, keys)
           IN EditOK(keys, Put(keys, n, ReassocKeys(keys[n], WithKeys(chain, ks))), c)
PROOF
  <1> DEFINE n == OpenedFirst(p, keys)
             chain == TryDeriveKey(p, keys)
             both == WithKeys(chain, ks)
             e == ReassocKeys(keys[n], both)
             new == Put(keys, n, e)
  <1>1. /\ n \in DOMAIN keys /\ chain.derived = keys[n].hash
        /\ DOMAIN chain.keys = DOMAIN keys[n].groups
        /\ \A g \in DOMAIN chain.keys : g \in Group /\ Agrees(keys, g, chain.keys[g])
    BY Zenon, SomeChain
  <1> HIDE DEF n, chain
  <1>2. /\ both.derived = chain.derived
        /\ DOMAIN both.keys = DOMAIN ks \cup DOMAIN chain.keys
        /\ \A g \in DOMAIN ks : both.keys[g] = ks[g]
        /\ \A g \in DOMAIN chain.keys \ DOMAIN ks : both.keys[g] = chain.keys[g]
    BY Zenon, Merged
  <1> HIDE DEF both
  <1>3. /\ e.hash = keys[n].hash /\ DOMAIN e.groups = DOMAIN both.keys
        /\ \A g \in DOMAIN both.keys :
              e.groups[g].mask = both.derived /\ e.groups[g].key = both.keys[g]
    BY Reassociated
  <1>4. /\ DOMAIN new = DOMAIN keys /\ new[n] = e
        /\ \A m \in DOMAIN keys \ {n} : new[m] = keys[m]
    BY <1>1 DEF Put
  <1> HIDE DEF e
  <1>5. \A g \in DOMAIN both.keys : g \in Group /\ Agrees(keys, g, both.keys[g])
    BY Zenon, <1>1, <1>2
  <1>6. \A m \in DOMAIN keys \ {n} : keys[m].hash # e.hash
    BY Zenon, <1>1, <1>3 DEF Sound
  <1>7. \A g \in DOMAIN e.groups :
           g \in Group /\ e.groups[g].mask = e.hash /\ Agrees(keys, g, e.groups[g].key)
    BY Zenon, <1>1, <1>2, <1>3, <1>5
  <1>8. Sound(new) /\ Keeps(keys, new)
    BY Zenon, <1>6, <1>7, PutSound
  <1>9. \A m \in DOMAIN keys : \A g \in DOMAIN keys[m].groups : g \in DOMAIN new[m].groups
    BY Zenon, <1>1, <1>2, <1>3, <1>4
  <1>10. Held(keys) \ Held(new) = {}
    BY Zenon, <1>4, <1>9, StillHeld
  <1> QED
    BY Zenon, <1>8, <1>10 DEF EditOK, n, chain, both, e

\* create_group: nobody holds the new groups yet.
LEMMA CreateGroupOK ==
    ASSUME NEW keys, Sound(keys), NEW c, c.groups \subseteq Group, CreateGroup(keys, c) # None
    PROVE  EditOK(keys, CreateGroup(keys, c).keys, c)
PROOF
  <1> DEFINE chain == TryDeriveKey(c.old, keys)
             n == OpenedFirst(c.old, keys)
             new == Put(keys, n, ReassocKeys(keys[n], WithKeys(chain, Fresh(c.groups))))
  <1>1. c.groups \cap Held(keys) = {} /\ chain # None /\ CreateGroup(keys, c) = Edit(new, {chain})
    BY Zenon DEF CreateGroup
  <1>2. CreateGroup(keys, c).keys = new
    BY <1>1, EditFields
  <1>3. DOMAIN Fresh(c.groups) = c.groups
    BY DEF Fresh
  <1>4. \A g \in c.groups : Agrees(keys, g, Fresh(c.groups)[g])
    BY Zenon, <1>1 DEF Held, Holders, Agrees
  <1> QED
    BY Zenon, <1>1, <1>2, <1>3, <1>4, RewriteOK

\* assoc_group: the keys are those the source passphrase opens.
LEMMA AssocGroupOK ==
    ASSUME NEW keys, Sound(keys), NEW c, AssocGroup(keys, c) # None
    PROVE  EditOK(keys, AssocGroup(keys, c).keys, c)
PROOF
  <1> DEFINE src == TryDeriveKey(c.old, keys)
             dst == TryDeriveKey(c.new, keys)
             n == OpenedFirst(c.new, keys)
             ks == Restrict(src.keys, c.groups)
             new == Put(keys, n, ReassocKeys(keys[n], WithKeys(dst, ks)))
  <1>1. /\ src # None /\ dst # None /\ c.groups \subseteq DOMAIN src.keys
        /\ AssocGroup(keys, c) = Edit(new, {src, dst})
    BY Zenon DEF AssocGroup
  <1>2. AssocGroup(keys, c).keys = new
    BY <1>1, EditFields
  <1>3. \A g \in DOMAIN src.keys : g \in Group /\ Agrees(keys, g, src.keys[g])
    BY Zenon, <1>1, SomeChain
  <1>4. DOMAIN ks = c.groups /\ \A g \in c.groups : ks[g] = src.keys[g]
    BY DEF Restrict
  <1> HIDE DEF ks
  <1>5. \A g \in DOMAIN ks : g \in Group /\ Agrees(keys, g, ks[g])
    BY Zenon, <1>1, <1>3, <1>4
  <1>6. EditOK(keys, new, c)
    BY Zenon, <1>1, <1>5, RewriteOK
  <1> QED
    BY Zenon, <1>2, <1>6

LEMMA WithoutFacts ==
    ASSUME NEW e, NEW gs
    PROVE  /\ Without(e, gs).hash = e.hash
           /\ DOMAIN Without(e, gs).groups = DOMAIN e.groups \ gs
           /\ \A g \in DOMAIN e.groups \ gs : Without(e, gs).groups[g] = e.groups[g]
PROOF
  BY DEF Without, Restrict

\* disassoc_group: somebody else holds the groups.
LEMMA DisassocGroupOK ==
    ASSUME NEW keys, Sound(keys), NEW c, DisassocGroup(keys, c) # None
    PROVE  EditOK(keys, DisassocGroup(keys, c).keys, c)
PROOF
  <1> DEFINE e == Without(keys[c.name], c.groups)
             left == Put(keys, c.name, e)
  <1>1. /\ c.name \in DOMAIN keys /\ c.groups \subseteq Held(left)
        /\ DisassocGroup(keys, c) = Edit(left, {})
    BY Zenon DEF DisassocGroup
  <1>2. DisassocGroup(keys, c).keys = left
    BY <1>1, EditFields
  <1>3. /\ e.hash = keys[c.name].hash /\ DOMAIN e.groups = DOMAIN keys[c.name].groups \ c.groups
        /\ \A g \in DOMAIN e.groups : e.groups[g] = keys[c.name].groups[g]
    BY DEF Without, Restrict
  <1> HIDE DEF e
  <1>4. /\ DOMAIN left = DOMAIN keys /\ left[c.name] = e
        /\ \A m \in DOMAIN keys \ {c.name} : left[m] = keys[m]
    BY <1>1 DEF Put
  <1> HIDE DEF left
  <1>5. \A n \in DOMAIN left :
           /\ n \in DOMAIN keys /\ left[n].hash = keys[n].hash
           /\ \A g \in DOMAIN left[n].groups :
                 g \in DOMAIN keys[n].groups /\ left[n].groups[g] = keys[n].groups[g]
    BY Zenon, <1>3, <1>4
  <1>6. Sound(left) /\ Keeps(keys, left)
    BY Zenon, <1>5, LessSound
  <1>7. ASSUME NEW g \in Held(keys) PROVE g \in Held(left)
    <2>1. CASE g \in c.groups
      BY Zenon, <1>1, <2>1
    <2>2. CASE g \notin c.groups
      <3>1. \A m \in DOMAIN keys : g \in DOMAIN keys[m].groups => g \in DOMAIN left[m].groups
        BY Zenon, <1>3, <1>4, <2>2
      <3> QED
        BY Zenon, <1>4, <3>1, StillHeld
    <2> QED
      BY Zenon, <2>1, <2>2
  <1> QED
    BY Zenon, <1>2, <1>6, <1>7 DEF EditOK

\* destroy_group: only the groups it names go, and neither `root` nor `everyone`.
LEMMA DestroyGroupOK ==
    ASSUME NEW keys, Sound(keys), NEW c, c.op = "destroy", DestroyGroup(keys, c) # None
    PROVE  EditOK(keys, DestroyGroup(keys, c).keys, c)
PROOF
  <1> DEFINE left == [n \in DOMAIN keys |-> Without(keys[n], c.groups)]
  <1>1. c.groups \cap {Everyone, Root} = {} /\ DestroyGroup(keys, c) = Edit(left, {})
    BY Zenon DEF DestroyGroup
  <1>2. DestroyGroup(keys, c).keys = left
    BY <1>1, EditFields
  <1>3. DOMAIN left = DOMAIN keys /\ \A n \in DOMAIN keys : left[n] = Without(keys[n], c.groups)
    OBVIOUS
  <1> HIDE DEF left
  <1>4. \A n \in DOMAIN left :
           /\ n \in DOMAIN keys /\ left[n].hash = keys[n].hash
           /\ DOMAIN left[n].groups = DOMAIN keys[n].groups \ c.groups
           /\ \A g \in DOMAIN left[n].groups :
                 g \in DOMAIN keys[n].groups /\ left[n].groups[g] = keys[n].groups[g]
    BY <1>3, WithoutFacts
  <1>5. Sound(left) /\ Keeps(keys, left)
    BY Zenon, <1>4, LessSound
  <1>6. ASSUME NEW g \in Held(keys), g \notin c.groups PROVE g \in Held(left)
    <2>1. \A m \in DOMAIN keys : g \in DOMAIN keys[m].groups => g \in DOMAIN left[m].groups
      BY Zenon, <1>3, <1>4, <1>6
    <2> QED
      BY Zenon, <1>3, <2>1, StillHeld
  <1>7. \A g \in Held(keys) \ Held(left) : g \in c.groups /\ g \notin {Root, Everyone}
    BY Zenon, <1>1, <1>6
  <1> QED
    BY Zenon, <1>2, <1>5, <1>7 DEF EditOK

\* init_keys: one entry, with `root` and `everyone`, whose root key is the one
\* that is to guard the list.
LEMMA InitKeysOK ==
    ASSUME NEW c
    PROVE  LET edit == InitKeys(c)
           IN FirstOK([keys |-> edit.keys, root |-> RootKey(edit, c), current |-> TRUE])
PROOF
  <1> DEFINE ks == Fresh({Root, Everyone})
             e == CreateKey(c.new, ks)
             new == Put(<<>>, c.name, e)
             chain == [keys |-> ks, derived |-> Derived(c.new)]
             edit == InitKeys(c)
             root == RootKey(edit, c)
             tx == [keys |-> edit.keys, root |-> root, current |-> TRUE]
  <1>1. edit.keys = new /\ edit.chains = {chain}
    BY EditFields DEF InitKeys
  <1>2. DOMAIN ks = {Root, Everyone}
    BY DEF Fresh
  <1> HIDE DEF ks
  <1>3. /\ e.hash = Derived(c.new) /\ DOMAIN e.groups = DOMAIN ks
        /\ \A g \in DOMAIN ks : e.groups[g].mask = Derived(c.new) /\ e.groups[g].key = ks[g]
    BY Created
  <1> HIDE DEF e
  <1>4. DOMAIN new = {c.name} /\ new[c.name] = e
    BY DEF Put
  <1> HIDE DEF new
  <1>5. root = ks[Root]
    <2>1. RootOf(edit.chains) = {ks[Root]}
      <3>1. chain.keys = ks
        OBVIOUS
      <3> HIDE DEF chain, edit
      <3>2. {ch \in edit.chains : Root \in DOMAIN ch.keys} = {chain}
        BY Zenon, <1>1, <1>2, <3>1
      <3> QED
        BY Zenon, <3>1, <3>2 DEF RootOf
    <2> HIDE DEF edit
    <2>2. RootOf(edit.chains) # {}
      BY Zenon, <2>1
    <2>3. root = CHOOSE k \in RootOf(edit.chains) : TRUE
      BY <2>2 DEF RootKey
    <2>4. root \in RootOf(edit.chains)
      BY Zenon, <2>2, <2>3
    <2> QED
      BY Zenon, <2>1, <2>4
  <1> HIDE DEF edit, root
  <1>6. tx.keys = new /\ tx.root = ks[Root]
    BY <1>1, <1>5
  <1> HIDE DEF tx
  <1>7. \A m \in DOMAIN new : m = c.name /\ new[m] = e
    BY Zenon, <1>4
  <1>8. \A g \in DOMAIN e.groups :
           g \in Group /\ e.groups[g].mask = e.hash /\ Agrees(new, g, e.groups[g].key)
    BY Zenon, <1>2, <1>3, <1>7, GroupsAssumption DEF Agrees
  <1>9. Sound(new)
    BY Zenon, <1>7, <1>8 DEF Sound
  <1>10. {Root, Everyone} \subseteq Held(new)
    BY Zenon, <1>2, <1>3, <1>4, GroupsAssumption DEF Held, Holders
  <1>11. FirstOK(tx)
    BY Zenon, <1>2, <1>3, <1>6, <1>7, <1>9, <1>10 DEF FirstOK
  <1> QED
    BY Zenon, <1>11 DEF tx, edit, root

\* One attempt of a command, in do_tx, on a list that is as it should be.
LEMMA AttemptOK ==
    ASSUME StoreInv, NEW c, c.op \in Operation, c.groups \subseteq Group, NEW cached,
           Attempt(c, cached) # None
    PROVE  TxOK(c, Attempt(c, cached))
PROOF
  <1> DEFINE tx == Attempt(c, cached)
  <1>1. CASE list = None
    <2> DEFINE edit == InitKeys(c)
    <2>1. c.op = "init"
      BY Zenon, <1>1 DEF Attempt
    <2>2. tx = [keys |-> edit.keys, root |-> RootKey(edit, c), current |-> TRUE]
      BY Zenon, <1>1, <2>1 DEF Attempt
    <2>3. FirstOK(tx)
      BY Zenon, <2>2, InitKeysOK
    <2> QED
      BY Zenon, <1>1, <2>3 DEF TxOK
  <1>2. CASE list # None
    <2> DEFINE edit == Effect(c, list.keys)
    <2>1. c.op # "init"
      BY Zenon, <1>2 DEF Attempt
    <2>2. edit # None
      BY Zenon, <1>2, <2>1 DEF Attempt
    <2>3. tx.keys = edit.keys
      <3>1. PICK key : tx = [keys |-> edit.keys, root |-> key, current |-> TRUE]
        BY Zenon, <1>2, <2>1, <2>2 DEF Attempt
      <3> QED
        BY <3>1
    <2>4. Sound(list.keys)
      BY Zenon, <1>2 DEF StoreInv
    <2>5. EditOK(list.keys, edit.keys, c)
      <3>1. CASE c.op = "add"
        <4>1. edit = AddKey(list.keys, c)
          BY <3>1 DEF Effect
        <4> QED
          BY Zenon, <2>2, <2>4, <4>1, AddKeyOK
      <3>2. CASE c.op = "del"
        <4>1. edit = DelKey(list.keys, c)
          BY <3>2 DEF Effect
        <4> QED
          BY Zenon, <2>2, <2>4, <4>1, DelKeyOK
      <3>3. CASE c.op = "change"
        <4>1. edit = ChangeKey(list.keys, c)
          BY <3>3 DEF Effect
        <4> QED
          BY Zenon, <2>2, <2>4, <4>1, ChangeKeyOK
      <3>4. CASE c.op = "create"
        <4>1. edit = CreateGroup(list.keys, c)
          BY <3>4 DEF Effect
        <4> QED
          BY Zenon, <2>2, <2>4, <4>1, CreateGroupOK
      <3>5. CASE c.op = "assoc"
        <4>1. edit = AssocGroup(list.keys, c)
          BY <3>5 DEF Effect
        <4> QED
          BY Zenon, <2>2, <2>4, <4>1, AssocGroupOK
      <3>6. CASE c.op = "disassoc"
        <4>1. edit = DisassocGroup(list.keys, c)
          BY <3>6 DEF Effect
        <4> QED
          BY Zenon, <2>2, <2>4, <4>1, DisassocGroupOK
      <3>7. CASE c.op = "destroy"
        <4>1. edit = DestroyGroup(list.keys, c)
          BY <3>7 DEF Effect
        <4> QED
          BY Zenon, <2>2, <2>4, <3>7, <4>1, DestroyGroupOK
      <3> QED
        BY Zenon, <2>1, <3>1, <3>2, <3>3, <3>4, <3>5, <3>6, <3>7 DEF Operation
    <2> QED
      BY Zenon, <1>2, <2>3, <2>5 DEF TxOK
  <1> QED
    BY Zenon, <1>1, <1>2
-----------------------------------------------------------------------------
(* The steps. *)

\* A transaction is buffered: nothing changes for anybody else.
LEMMA ProposalInv ==
    ASSUME Inv, UNCHANGED <<list, secret>>, NEW a \in Admin, NEW c, NEW tx, NEW tries,
           c.op \in Operation, c.groups \subseteq Group, TxOK(c, tx), Proposal(a, c, tx, tries)
    PROVE  Inv'
PROOF
  <1> DEFINE p == [c |-> Unprompted(c), tx |-> tx, tries |-> tries]
  <1>1. DOMAIN pending' = Admin /\ pending'[a] = p /\ \A b \in Admin \ {a} : pending'[b] = pending[b]
    BY DEF Proposal, Inv, TypeInv
  <1>2. p.c.op = c.op /\ p.c.groups = c.groups /\ p.tx = tx
    BY DEF Unprompted, Command
  <1> HIDE DEF p
  <1>3. TxOK(p.c, p.tx)
    BY Zenon, <1>2 DEF TxOK, EditOK
  <1>4. \A d, t : TxOK(d, t)' <=> TxOK(d, t)
    BY Zenon DEF TxOK
  <1>5. PendingInv'
    BY Zenon, <1>1, <1>2, <1>3, <1>4 DEF PendingInv, Inv
  <1>6. TypeInv' /\ StoreInv'
    BY Zenon, <1>1 DEF Inv, TypeInv, StoreInv
  <1> QED
    BY Zenon, <1>5, <1>6 DEF Inv

\* A command that has an error leaves nothing behind.
LEMMA GiveUpInv ==
    ASSUME Inv, UNCHANGED <<list, secret>>, NEW a \in Admin,
           pending' = [pending EXCEPT ![a] = None]
    PROVE  Inv'
PROOF
  <1>1. DOMAIN pending' = Admin /\ pending'[a] = None /\ \A b \in Admin \ {a} : pending'[b] = pending[b]
    BY Zenon DEF Inv, TypeInv
  <1>2. \A d, t : TxOK(d, t)' <=> TxOK(d, t)
    BY Zenon DEF TxOK
  <1>3. PendingInv'
    BY Zenon, <1>1, <1>2 DEF PendingInv, Inv
  <1>4. TypeInv' /\ StoreInv'
    BY Zenon, <1>1 DEF Inv, TypeInv, StoreInv
  <1> QED
    BY Zenon, <1>3, <1>4 DEF Inv

\* The commands name operations of the program, and groups.
LEMMA CommandFacts ==
    ASSUME NEW c \in InitCommands \cup EditCommands
    PROVE  c.op \in Operation /\ c.groups \subseteq Group
PROOF
  <1>1. CASE c.op = "init" /\ c.groups = {}
    BY <1>1 DEF Operation
  <1>2. CASE c.op \in {"add", "del", "change"} /\ c.groups = {}
    BY <1>2 DEF Operation
  <1>3. CASE c.op \in {"create", "assoc", "disassoc", "destroy"} /\ c.groups \in GroupLists
    BY <1>3, GroupsAssumption DEF Operation
  <1>4. c \in InitCommands => c.op = "init" /\ c.groups = {}
    BY DEF InitCommands, Command
  <1>5. c \in EditCommands =>
           \/ c.op \in {"add", "del", "change"} /\ c.groups = {}
           \/ c.op \in {"create", "assoc", "disassoc", "destroy"} /\ c.groups \in GroupLists
    BY DEF EditCommands, Command
  <1> QED
    BY Zenon, <1>1, <1>2, <1>3, <1>4, <1>5

\* begin of do_tx.
LEMMA BeginInv ==
    ASSUME Inv, NEW a \in Admin, NEW c \in InitCommands \cup EditCommands, Begin(a, c)
    PROVE  Inv'
PROOF
  BY Zenon, CommandFacts, AttemptOK, ProposalInv DEF Begin, Inv

\* A commit that was refused: the closure runs again on the list as it is now.
LEMMA RejectInv ==
    ASSUME Inv, NEW a \in Admin, Reject(a)
    PROVE  Inv'
PROOF
  <1>1. CASE pending' = [pending EXCEPT ![a] = None]
    BY Zenon, <1>1, GiveUpInv DEF Reject
  <1>2. CASE pending' # [pending EXCEPT ![a] = None]
    <2> DEFINE c == pending[a].c
               tx == Attempt(c, pending[a].tx.root)
    <2>1. pending[a] # None /\ tx # None /\ Proposal(a, c, tx, pending[a].tries + 1)
          /\ UNCHANGED <<list, secret>>
      BY Zenon, <1>2 DEF Reject, Again
    <2>2. c.op \in Operation /\ c.groups \subseteq Group
      BY Zenon, <2>1 DEF Inv, PendingInv
    <2> HIDE DEF c
    <2>3. TxOK(c, tx)
      BY Zenon, <2>1, <2>2, AttemptOK DEF Inv
    <2> HIDE DEF tx
    <2> QED
      BY Zenon, <2>1, <2>2, <2>3, ProposalInv
  <1> QED
    BY Zenon, <1>1, <1>2

\* A commit that is admitted: a first list with its own root key, or a list that
\* descends from the one that is there.
LEMMA CommitInv ==
    ASSUME Inv, NEW a \in Admin, Commit(a)
    PROVE  Inv'
PROOF
  <1> DEFINE tx == pending[a].tx
             before == IF list = None THEN {} ELSE Held(list.keys)
  <1>1. /\ pending[a] # None /\ tx.current /\ (list # None => list.guard = tx.root)
        /\ list' = [keys |-> tx.keys, guard |-> tx.root]
        /\ secret' = [g \in Group |-> IF g \notin Held(tx.keys) THEN None
                                      ELSE IF g \in before THEN secret[g]
                                      ELSE KeyOf(tx.keys, g)]
        /\ pending' = [b \in Admin |-> IF b = a \/ pending[b] = None THEN None
                           ELSE [c |-> pending[b].c, tx |-> Outdated(pending[b].tx),
                                 tries |-> pending[b].tries]]
    BY Zenon DEF Commit, Admits
  <1>2. TypeInv'
    BY <1>1 DEF TypeInv
  <1>3. PendingInv'
    <2>1. ASSUME NEW b \in Admin, pending'[b] # None
          PROVE  /\ pending[b] # None /\ pending'[b].c = pending[b].c
                 /\ pending'[b].tx.current = FALSE
      BY <1>1, <2>1 DEF Outdated
    <2> QED
      BY Zenon, <2>1 DEF PendingInv, Inv, TxOK
  <1>4. list'.keys = tx.keys /\ list'.guard = tx.root
    BY <1>1
  <1>5. \A g \in Group : /\ g \in Held(tx.keys) /\ g \in before => secret'[g] = secret[g]
                         /\ g \in Held(tx.keys) /\ g \notin before => secret'[g] = KeyOf(tx.keys, g)
    BY <1>1
  <1>6. TxOK(pending[a].c, tx)
    BY Zenon, <1>1 DEF Inv, PendingInv
  <1>7. Sound(tx.keys)
    BY Zenon, <1>1, <1>6 DEF TxOK, FirstOK, EditOK
  <1>8. {Root, Everyone} \subseteq Held(tx.keys)
    BY Zenon, <1>1, <1>6 DEF TxOK, FirstOK, EditOK, Inv, StoreInv
  <1> HIDE DEF tx
  <1>9. ASSUME NEW n \in DOMAIN tx.keys, NEW g \in DOMAIN tx.keys[n].groups
        PROVE  g \in Group /\ g \in Held(tx.keys) /\ tx.keys[n].groups[g].key = secret'[g]
    <2>1. g \in Group /\ g \in Held(tx.keys)
      BY Zenon, <1>7 DEF Sound, Held, Holders
    <2>2. CASE g \in before
      <3>1. list # None /\ g \in Held(list.keys)
        BY Zenon, <2>2
      <3>2. PICK m \in DOMAIN list.keys : g \in DOMAIN list.keys[m].groups
        BY Zenon, <3>1 DEF Held, Holders
      <3>3. list.keys[m].groups[g].key = secret[g]
        BY Zenon, <3>1, <3>2 DEF Inv, StoreInv
      <3>4. Agrees(list.keys, g, tx.keys[n].groups[g].key)
        BY Zenon, <1>1, <1>6, <3>1 DEF TxOK, EditOK, Keeps
      <3> QED
        BY Zenon, <1>5, <2>1, <2>2, <3>2, <3>3, <3>4 DEF Agrees
    <2>3. CASE g \notin before
      <3> DEFINE m == CHOOSE m \in Holders(tx.keys, g) : TRUE
      <3>1. m \in Holders(tx.keys, g)
        BY Zenon, <2>1 DEF Held
      <3>2. m \in DOMAIN tx.keys /\ g \in DOMAIN tx.keys[m].groups
        BY Zenon, <3>1 DEF Holders
      <3>3. KeyOf(tx.keys, g) = Unmasked(tx.keys[m].hash, tx.keys[m].groups[g])
        BY Zenon DEF KeyOf
      <3> HIDE DEF m
      <3>4. tx.keys[m].groups[g].mask = tx.keys[m].hash
        BY Zenon, <1>7, <3>2 DEF Sound
      <3>5. KeyOf(tx.keys, g) = tx.keys[m].groups[g].key
        BY Zenon, <3>3, <3>4 DEF Unmasked
      <3>6. tx.keys[m].groups[g].key = tx.keys[n].groups[g].key
        BY Zenon, <1>7, <3>2 DEF Sound, Agrees
      <3> QED
        BY Zenon, <1>5, <2>1, <2>3, <3>5, <3>6
    <2> QED
      BY Zenon, <2>1, <2>2, <2>3
  <1>10. secret'[Root] = tx.root
    <2>1. CASE list = None
      <3>1. PICK n \in DOMAIN tx.keys : Root \in DOMAIN tx.keys[n].groups
        BY Zenon, <1>8 DEF Held, Holders
      <3> QED
        BY Zenon, <1>1, <1>6, <1>9, <2>1, <3>1 DEF TxOK, FirstOK
    <2>2. CASE list # None
      <3>1. Root \in before /\ Root \in Held(tx.keys) /\ secret[Root] = list.guard
        BY Zenon, <1>8, <2>2 DEF Inv, StoreInv
      <3> QED
        BY Zenon, <1>1, <1>5, <2>2, <3>1, GroupsAssumption
    <2> QED
      BY Zenon, <2>1, <2>2
  <1>11. StoreInv'
    BY Zenon, <1>4, <1>7, <1>8, <1>9, <1>10 DEF StoreInv
  <1> QED
    BY Zenon, <1>2, <1>3, <1>11 DEF Inv
-----------------------------------------------------------------------------
(* What the key store promises. *)

\* The inductive invariant of the key store.
THEOREM KeyInvariant == Spec => []Inv
PROOF
  <1>1. Init => Inv
    BY Zenon DEF Init, Inv, TypeInv, StoreInv, PendingInv
  <1>2. Inv /\ [Next]_vars => Inv'
    <2> SUFFICES ASSUME Inv, [Next]_vars PROVE Inv'
      OBVIOUS
    <2>1. CASE UNCHANGED vars
      BY Zenon, <2>1 DEF vars, Inv, TypeInv, StoreInv, PendingInv, TxOK
    <2>2. ASSUME NEW a \in Admin, NEW c \in InitCommands \cup EditCommands, Begin(a, c)
          PROVE  Inv'
      BY Zenon, <2>2, BeginInv
    <2>3. ASSUME NEW a \in Admin, Commit(a) PROVE Inv'
      BY Zenon, <2>3, CommitInv
    <2>4. ASSUME NEW a \in Admin, Reject(a) PROVE Inv'
      BY Zenon, <2>4, RejectInv
    <2> QED
      BY Zenon, <2>1, <2>2, <2>3, <2>4 DEF Next
  <1> QED
    BY <1>1, <1>2, PTL DEF Spec

\* Nobody is locked out: every passphrase of the store opens the keys its groups
\* were created with, and the root key that guards the list, whatever commands
\* raced with each other.
THEOREM KeysSafe == Spec => []KeysRecoverable
PROOF
  <1>1. Inv => KeysRecoverable
    <2> SUFFICES ASSUME Inv, list # None, NEW n \in DOMAIN list.keys,
                        NEW g \in DOMAIN list.keys[n].groups
                 PROVE  LET key == Unmasked(list.keys[n].hash, list.keys[n].groups[g])
                        IN key = secret[g] /\ (g = Root => key = list.guard)
      BY Zenon DEF KeysRecoverable
    <2>1. list.keys[n].groups[g].mask = list.keys[n].hash
      BY Zenon DEF Inv, StoreInv, Sound
    <2>2. list.keys[n].groups[g].key = secret[g] /\ secret[Root] = list.guard
      BY Zenon DEF Inv, StoreInv
    <2> QED
      BY Zenon, <2>1, <2>2 DEF Unmasked
  <1> QED
    BY <1>1, KeyInvariant, PTL

\* A passphrase identifies its entry, as add_key and change_key intend when they
\* refuse one that is in use.
THEOREM PassphrasesSafe == Spec => []PassphraseIdentifies
PROOF
  <1>1. Inv => PassphraseIdentifies
    BY Zenon DEF Inv, StoreInv, PassphraseIdentifies, Sound, Opened, Opens
  <1> QED
    BY <1>1, KeyInvariant, PTL

\* A group goes only by destroy_group, and `root` and `everyone` never do.
THEOREM GroupsSafe == Spec => NoGroupLost
PROOF
  <1> DEFINE Kept ==
        list # None =>
          \A g \in Held(list.keys) \ Held(list'.keys) :
              /\ g \notin {Root, Everyone}
              /\ \E a \in Admin : pending[a] # None /\ pending[a].c.op = "destroy"
                                  /\ g \in pending[a].c.groups /\ pending'[a] = None
  <1>1. Inv /\ [Next]_vars => [Kept]_list
    <2> SUFFICES ASSUME Inv, [Next]_vars, list' # list, list # None PROVE Kept
      BY Zenon
    <2>1. PICK a \in Admin : Commit(a)
      BY Zenon DEF Next, vars, Begin, Reject
    <2> DEFINE tx == pending[a].tx
    <2>2. /\ pending[a] # None /\ tx.current /\ list' = [keys |-> tx.keys, guard |-> tx.root]
          /\ pending'[a] = None
      BY Zenon, <2>1 DEF Commit, Admits
    <2>3. list'.keys = tx.keys
      BY <2>2
    <2>4. EditOK(list.keys, tx.keys, pending[a].c)
      BY Zenon, <2>2 DEF Inv, PendingInv, TxOK
    <2> QED
      BY Zenon, <2>2, <2>3, <2>4 DEF EditOK
  <1> QED
    BY <1>1, KeyInvariant, PTL DEF Spec, NoGroupLost
=============================================================================
