SPECIFICATION Spec
CONSTANTS
    Session = {s1, s2}
    Reader = {}
    Dir = {root}
    Fixed = {root}
    Obj = {o1}
    Link = {l1, l2, l3}
    None = None
    MaxVer = 2
    MaxLen = 2
    MaxLinks = 1
CONSTRAINT SmallTx
SYMMETRY Symmetry
INVARIANTS
    TypeOK
    LinkedObjectsHaveData
    RefsMatchDirectories
PROPERTY ImplementsStorage
