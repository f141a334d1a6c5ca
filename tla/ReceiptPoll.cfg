SPECIFICATION FairSpec
CONSTANTS
    r1 = r1
    r2 = r2
    Returns = {r1, r2}
    Lagging = {}
    Users <- MCUsers
INVARIANTS
    TypeOK
    ConfirmedWasAcknowledged
    PendingIsPolled
PROPERTIES
    ReceiptConfirms
CHECK_DEADLOCK FALSE
