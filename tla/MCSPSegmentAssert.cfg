CONSTANTS
    PageSize = 60
    HeaderSize = 12
    SlotSize = 8
    TidSize = 8
    MaxPages = 1
    MaxRecords = 4
    AllocSizes <- MCSmallSizes
    Sizes <- MCSmallSizes
SPECIFICATION Spec
CHECK_DEADLOCK FALSE
INVARIANT
    NoFailedAssert
