CONSTANTS
    Name = {f, g}
    Content = {c1, c2}
    Folder = Folder
    Unknown = Unknown
    None = None
    Scope <- Small
SPECIFICATION Spec
INVARIANTS LostOnlyInWindow PutAsAsked NothingVanishes
PROPERTIES CleanMeansSame
SYMMETRY Symmetry
CHECK_DEADLOCK FALSE
