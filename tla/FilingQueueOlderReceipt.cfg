SPECIFICATION Spec
CONSTANTS
    Returns = {r1}
    Guarded = {}
    Edits = {"a"}
    Sources = {"live"}
    MaxAttempts = 2
    ReceiptSkew = 1
    MaxGrants = 2
    MaxCrashes = 0
    MaxDays = 0
    NoContent = NoContent
INVARIANTS
    OlderReceiptIgnored
CHECK_DEADLOCK FALSE
