\* Two client threads: no page is written while the other has it fixed.
CONSTANTS
    t1 = t1  t2 = t2  v1 = v1  v2 = v2
    NoPage = NoPage  NoThread = NoThread  NoValue = NoValue
    Threads <- MCThreads2
    Vals <- MCVals1
    Keys = {1, 2, 3, 4}
    LeafCap = 3
    InnerCap = 5
    MaxPages = 8
SPECIFICATION Spec
PROPERTY NoWriteUnderOthersFix
