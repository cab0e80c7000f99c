CONSTANTS
    t1 = t1
    t2 = t2
    t3 = t3
    i1 = i1
    i2 = i2
    Txns <- MCTxns
    Items <- MCItems
    MaxLocks = 2
    NoTxn = NoTxn
    Reuse = FALSE
SPECIFICATION Spec
CHECK_DEADLOCK FALSE
INVARIANT
    NoLeakedLock
