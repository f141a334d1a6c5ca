SPECIFICATION Spec
CONSTANTS
    Adapters = {a1}
    Worlds <- MCWorlds
    MaxSignIns = 2
    MaxIssued = 4
    MaxQuits = 1
INVARIANTS
    TypeOK
    SessionSurvives
    GateReturnsForCause
CHECK_DEADLOCK FALSE
