-------------------------- MODULE MCLockManager ---------------------------
(* Instantiation of LockManager for TLC.                                   *)
EXTENDS LockManager, TLC

CONSTANTS t1, t2, t3, i1, i2

MCTxns == {t1, t2, t3}
MCItems == {i1, i2}
MCSymmetry == Permutations(MCTxns) \cup Permutations(MCItems)
=============================================================================
