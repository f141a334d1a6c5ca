SPECIFICATION FairSpec
CONSTANTS
    MaxVersion = 3
    MaxTroubles = 2
    MaxMoves = 1
    MaxAsked = 1
INVARIANTS
    TypeOK
    AppSurvives
    ClosedBeforeReplaced
    OfferIsInstallable
PROPERTIES
    NewerIsOffered
CHECK_DEADLOCK FALSE
