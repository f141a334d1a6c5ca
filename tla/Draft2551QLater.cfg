SPECIFICATION Spec
CONSTANTS
    Quarters = {1, 2}
    UnknownQuarter = 0
    InitialQuarters = {0, 1}
    Versions = {v1, v2}
    FirstVersion = v1
    Unconfirmed = Unconfirmed
    Unresolved = Unresolved
    MaxTries = 2
    MaxEdits = 3
    MaxPresses = 2
    MaxTroubles = 0
    MaxChanges = 0
PROPERTIES
    LaterQuarterFilesQ1Answer
CHECK_DEADLOCK FALSE
