SPECIFICATION Spec
CONSTANTS
    Keys = {1, 2, 3, 4}
    Rows = {1, 2, 3, 4}
    MaxKeys = 2
    KeySize <- SomeLong
    NodeCapacity = 4
    FirstRoots = {1}
    MaxPage = 9
    MaxFaults = 0
    CommitAfterError = TRUE
INVARIANTS
    LookupExact
