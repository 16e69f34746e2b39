SPECIFICATION Spec
CONSTANTS
    Client = {c1, c2}
    Root = Root
    Id = {i1, i2}
    Name = {a, b}
    Value = {v}
    None = None
    Gone = Gone
    Blank = Blank
    Redundant = 1
    Tries = 2
    Scope <- MCScope
    MaxErrors = 1
SYMMETRY Symmetry
INVARIANTS
    AlwaysReadable
    TestedIsCurrent
    TreeIntact
    NeverAhead
    CleanMeansSeen
CONSTRAINT Sane
