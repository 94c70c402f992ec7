SPECIFICATION Spec
CONSTANTS
    Blank = Blank
    Torn = Torn
    MaxPage = 1
    CatalogCapacity = 2
    MaxTx = 2
    MaxSessions = 2
    MaxCrashes = 1
    MaxFaults = 0
    UseAfterError = FALSE
    RecoverFirst = TRUE
    RecoverCachedLog = FALSE
INVARIANT
    CommitsSurviveRefusal
