SPECIFICATION FairSpec
CONSTANTS
    Returns = {r1}
    Guarded = {r1}
    Edits = {"a"}
    Sources = {"live", "dry-run"}
    MaxAttempts = 3
    ReceiptSkew = 1
    MaxGrants = 2
    MaxCrashes = 2
    MaxDays = 1
    NoContent = NoContent
INVARIANTS
    TypeOK
    FilingInv
    AtMostOnePut
    PutAsGranted
    WithdrawnNeverPut
    FiledMeansReceived
    NoSecondOriginal
    OldReceiptIsWithinSkew
PROPERTIES
    QueuedMovesOn
    FailClosed
    KeepsPromise
CHECK_DEADLOCK FALSE
