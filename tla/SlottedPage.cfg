SPECIFICATION Spec
CONSTANTS
    PageSize = 20
    HeaderSize = 1
    ByteBase = 5
    Bytes = {0, 3}
    MaxLen = 2
    Dir = Dir
    None = None
INVARIANTS
    TypeOK
    WellFormed
    ReadsBack
PROPERTIES
    SlotIdsStable
    CompactReclaims
    TornInsertsDetected
