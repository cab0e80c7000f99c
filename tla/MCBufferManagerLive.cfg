\* Three threads, two pages, one frame: fix_page must return even when the
\* creator of a NEW frame fails with buffer_full while others wait on it.
CONSTANTS
    t1 = t1
    t2 = t2
    t3 = t3
    Threads <- MCThreads
    Pages <- MCPages
    PageCount = 1
    MaxVersion = 1
    NoThread = NoThread
    NoPage = NoPage
SPECIFICATION Spec
PROPERTY
    OrphanResolved
