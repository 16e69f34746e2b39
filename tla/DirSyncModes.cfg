CONSTANTS
    Mode = {0, 1}
    Time = {0, 1, 2}
    Hash = {0, 1, 2}
    None = None
    Trusted = {TRUE}
    MaxAlt = 2
    MaxEditAlt = 0
    MaxEdits = 0
    MaxCrashes = 0
SPECIFICATION SpecAny
INVARIANTS NoEditLost
PROPERTIES PermissionsRespected OneWay Settles NamedModesConverge
