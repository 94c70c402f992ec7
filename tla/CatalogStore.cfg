SPECIFICATION Spec
CONSTANTS
    BlocksPerPage = 2
    MaxFaults = 1
    Names = {"t", "u"}
    PageCapacity = 2
    CatalogCapacity = 5
    MaxPage = 4
    MaxRows = 4
    MaxSessions = 2
CHECK_DEADLOCK FALSE
INVARIANTS
    TypeOK
    AckedRowsFound
    ListedPagesWritten
    PagesTakenOnce
    OpensUnlessCut
PROPERTIES
    StoreCallsReturn
