-------------------------- MODULE MCBufferManager --------------------------
(* Instantiation of BufferManager for TLC.                                 *)
EXTENDS BufferManager, TLC

CONSTANTS t1, t2, t3

MCThreads == {t1, t2, t3}
MCPages == 0..1
MCSymmetry == Permutations(MCThreads)
=============================================================================
