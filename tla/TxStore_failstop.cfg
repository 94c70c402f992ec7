SPECIFICATION Spec
CONSTANTS
    Blank = Blank
    Torn = Torn
    MaxPage = 2
    CatalogCapacity = 3
    MaxTx = 2
    MaxSessions = 1
    MaxCrashes = 2
    MaxFaults = 1
    UseAfterError = FALSE
    RecoverFirst = FALSE
    RecoverCachedLog = FALSE
INVARIANTS
    TypeOK
    Durability
    Atomicity
    NoUncommittedVisible
    CommitsSurviveRefusal
    LiveReadsMatchRecovery
    CatalogInstalled
PROPERTIES
    ImplementsAtomicStore
