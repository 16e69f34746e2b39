CONSTANTS
    Mode = {0}
    Time = {0}
    Hash = {0, 1, 2, 3}
    None = None
    Trusted = {TRUE}
    MaxAlt = 3
    MaxEditAlt = 1
    MaxEdits = 3
    MaxCrashes = 1
SPECIFICATION Spec
INVARIANTS NoEditLost Converged
