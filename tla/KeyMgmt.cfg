SPECIFICATION Spec
CONSTANTS
    Admin = {a1, a2}
    Pass = {p1, p2}
    Name = {k1, k2}
    root = root
    everyone = everyone
    g = g
    Root = root
    Everyone = everyone
    Group = {root, everyone, g}
    GroupLists <- MCGroupLists
    None = None
    Tries = 2
SYMMETRY Symmetry
INVARIANTS
    KeysRecoverable
    PassphraseIdentifies
PROPERTIES
    NoGroupLost
