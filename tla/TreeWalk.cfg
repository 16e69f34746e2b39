SPECIFICATION Spec
CONSTANTS
    a = a
    b = b
    Worker = {w1, w2}
    Dir = {root, a, b}
    Root = root
    Tree <- ForkOrChain
    Top = Top
    None = None
SYMMETRY Symmetry
INVARIANTS
    CleanMarksTrue
    RemovedWasEmpty
    SuccessIsHonest
    PendingBalanced
    SleepersAreWoken
