------------------------------- MODULE MCProc -------------------------------
EXTENDS Proc, TLC
CONSTANTS c1, c2
MCCpu == {c1, c2}
MCOneCpu == {c1}
Symmetry == Permutations(MCCpu)
=============================================================================
