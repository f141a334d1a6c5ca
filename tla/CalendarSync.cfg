SPECIFICATION FairSpec
CONSTANTS
    p1 = p1
    p2 = p2
    Profiles = {p1, p2}
    Keys = {1, 2}
    KeysOf <- MCKeysOf
    Contents = {a, b}
    NoContent = NoContent
    MaxDisturbances = 3
    MaxEvents = 6
INVARIANTS
    TypeOK
    EveryEventIsKnown
    SettledAgrees
PROPERTIES
    CalendarCatchesUp
