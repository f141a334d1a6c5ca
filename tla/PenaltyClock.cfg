SPECIFICATION Spec
CONSTANTS
    Forms <- MCForms
    Returns <- MCReturns
    Due <- MCDue
    Tax <- MCTax
    Gross <- MCGross
    Weekend <- MCWeekend
    TrainStart = 9
    EoptStart = 8
    Releases <- MCReleases
    Saved <- MCSaved
    Profiles <- MCProfiles
    FirstDay = 4
    LastDay = 10
    MaxEdits = 2
    MaxQueues = 2
INVARIANTS
    DeadlineIsAWorkingDay
    FiledPenaltyIsOfItsDay
PROPERTIES
    RemovedStaysRemoved
CHECK_DEADLOCK FALSE
