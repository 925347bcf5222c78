------------------------------ MODULE MCInode ------------------------------
EXTENDS Inode, TLC
CONSTANTS p1, p2, a, b
TwoProcs == {p1, p2}
TwoNames == {a, b}
Symmetry == Permutations(TwoProcs) \cup Permutations(TwoNames)
=============================================================================
