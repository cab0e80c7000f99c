\* One client thread, five keys: inserts and erases reach a three-level
\* tree through leaf splits, new roots and a root split. The pages from
\* root stay a well-formed B+-tree, every assertion of the code holds, and
\* every step implements the key -> value map of KVMap.
CONSTANTS
    t1 = t1  t2 = t2  v1 = v1  v2 = v2
    NoPage = NoPage  NoThread = NoThread  NoValue = NoValue
    Threads <- MCThreads1
    Vals <- MCVals1
    Keys = {1, 2, 3, 4, 5}
    LeafCap = 3
    InnerCap = 5
    MaxPages = 10
SPECIFICATION Spec
INVARIANT TypeOK
INVARIANT NoFailedAssert
INVARIANT WellFormedTree
PROPERTY KVSpec
