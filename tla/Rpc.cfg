SPECIFICATION Spec
CONSTANTS
    t1 = t1
    t2 = t2
    t3 = t3
    Thread = {t1, t2, t3}
    Plans <- MCPlans
    None = None
    Pipe = 1
    MaxDirty = 1
    MaxFaults = 1
    MaxNotices = 1
CHECK_DEADLOCK FALSE
INVARIANTS
    OwnAnswer
    CommitHonest
    NoticeHeard
PROPERTIES
    EveryCallReturns
