SPECIFICATION FairSpec
CONSTANTS
    Refreshers = {1}
    MaxGates = 4
    MaxQueued = 3
INVARIANTS
    TypeOK
    PausedIsLocked
PROPERTIES
    QueuedIsRead
    ShutdownEndsLoop
CHECK_DEADLOCK FALSE
