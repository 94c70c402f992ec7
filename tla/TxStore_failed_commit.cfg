SPECIFICATION Spec
CONSTANTS
    Blank = Blank
    Torn = Torn
    MaxPage = 1
    CatalogCapacity = 2
    MaxTx = 2
    MaxSessions = 1
    MaxCrashes = 0
    MaxFaults = 1
    UseAfterError = FALSE
    RecoverFirst = FALSE
    RecoverCachedLog = FALSE
INVARIANT
    FailedCommitNotVisible
