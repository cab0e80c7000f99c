CONSTANTS
    PageSize = 52
    HeaderSize = 12
    SlotSize = 8
    TidSize = 8
    MaxPages = 3
    MaxRecords = 3
    AllocSizes <- MCAllocSizes
    Sizes <- MCSizes
SPECIFICATION Spec
VIEW MCView
CHECK_DEADLOCK FALSE
INVARIANTS
    TypeOK
    PageLayout
    HeaderSum
    FsiConservative
    RedirectLinks
