----------------------------- MODULE MCSpinLock -----------------------------
EXTENDS SpinLock, TLC
CONSTANTS c1, c2, t1, t2, l1, l2, l3
MCCpu == {c1, c2}
TwoThreads == {t1, t2}
MCLock == {l1, l2, l3}
Symmetry == Permutations(MCCpu) \cup Permutations(TwoThreads)
=============================================================================
