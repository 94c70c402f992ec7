SPECIFICATION Spec
CONSTANTS
    Blank = Blank
    Torn = Torn
    MaxPage = 1
    CatalogCapacity = 1
    MaxTx = 1
    MaxSessions = 1
    MaxCrashes = 0
    MaxFaults = 0
    UseAfterError = TRUE
    RecoverFirst = FALSE
    RecoverCachedLog = FALSE
INVARIANT
    InstalledCatalogIsDurable
