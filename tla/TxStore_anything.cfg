SPECIFICATION FairSpec
CONSTANTS
    Blank = Blank
    Torn = Torn
    MaxPage = 1
    CatalogCapacity = 1
    MaxTx = 2
    MaxSessions = 2
    MaxCrashes = 0
    MaxFaults = 1
    UseAfterError = TRUE
    RecoverFirst = FALSE
    RecoverCachedLog = TRUE
INVARIANTS
    WalBeforeData
    RecoveryIsComplete
    WriterFlagMatches
PROPERTIES
    AckIsSynced
    CallsReturn
