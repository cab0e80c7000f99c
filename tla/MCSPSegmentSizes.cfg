CONSTANTS
    PageSize = 52
    HeaderSize = 12
    SlotSize = 8
    TidSize = 8
    MaxPages = 3
    MaxRecords = 3
    AllocSizes <- MCAllocSizes
    Sizes <- MCSizes
SPECIFICATION Spec
CHECK_DEADLOCK FALSE
INVARIANT
    StoredAsCalled
