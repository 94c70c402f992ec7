SPECIFICATION FairSpec
CONSTANTS
    Keys = {1, 2, 3}
    Rows = {1, 2, 3, 4, 5, 6}
    MaxKeys = 2
    KeySize <- SomeLong
    NodeCapacity = 4
    FirstRoots = {1, 2}
    MaxPage = 7
    MaxFaults = 1
    CommitAfterError = FALSE
INVARIANTS
    TypeOK
    TreeShape
    ChainHoldsEntries
    LookupExact
PROPERTIES
    CallsReturn
