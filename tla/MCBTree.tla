------------------------------ MODULE MCBTree -------------------------------
(* BTree with model values for threads and values, and small capacities:  *)
(* leaves of 3 entries and inner nodes of 5 children, an odd kCapacity    *)
(* like the real 63, so an inner split leaves two children on each side.  *)
EXTENDS BTree

CONSTANTS t1, t2, v1, v2

MCThreads1 == {t1}
MCThreads2 == {t1, t2}
MCVals1 == {v1}
MCVals2 == {v1, v2}
=============================================================================
