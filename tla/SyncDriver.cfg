SPECIFICATION Spec
CONSTANTS
    mid = mid
    leaf = leaf
    c1 = c1
    c2 = c2
    Dir = {mid, leaf}
    Changing = {leaf}
    Parent <- Chain
    Scope <- Instances
    None = None
    Queue = 2
INVARIANTS
    ConfigHonoured
PROPERTIES
    WatchedChangeIsSeen
    InterruptStops
