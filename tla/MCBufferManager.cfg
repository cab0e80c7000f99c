\* Three threads on two pages with a single frame: every fix of the other
\* page evicts, and dirty evictions race with re-fixes of the victim.
CONSTANTS
    t1 = t1
    t2 = t2
    t3 = t3
    Threads <- MCThreads
    Pages <- MCPages
    PageCount = 1
    MaxVersion = 2
    NoThread = NoThread
    NoPage = NoPage
SYMMETRY MCSymmetry
SPECIFICATION Spec
INVARIANTS
    TypeOK
    UsersMatchFixes
    ListsPartitionFrames
    SlotsDistinct
    FrameCurrent
    NoLostWrite
