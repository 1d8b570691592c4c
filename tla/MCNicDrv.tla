------------------------------ MODULE MCNicDrv ------------------------------
(* NicDrv with two threads, model values, that are interchangeable.        *)
EXTENDS NicDrv, TLC

CONSTANTS t1, t2

MCThreads == {t1, t2}
MCSymmetry == Permutations(MCThreads)
=============================================================================
