SPECIFICATION Spec
CONSTANTS
    Session = {s1, s2}
    Reader = {r1}
    Dir = {root, sub}
    Fixed = {root}
    Obj = {}
    Link = {}
    None = None
    MaxVer = 1
    MaxLen = 3
    MaxLinks = 0
CONSTRAINT SmallTx
SYMMETRY Symmetry
INVARIANTS
    ReadersSeeCommitted
    RetryFindsNewRow
