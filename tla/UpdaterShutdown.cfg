SPECIFICATION Spec
CONSTANTS
    MaxVersion = 2
    MaxTroubles = 0
    MaxMoves = 0
    MaxAsked = 0
PROPERTIES
    ShutdownCloses
CHECK_DEADLOCK FALSE
