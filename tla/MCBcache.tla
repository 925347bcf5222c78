------------------------------ MODULE MCBcache ------------------------------
EXTENDS Bcache
CONSTANTS p1, p2, b1, b2, b3, k1, k2, k3, k4, v0, v1
TwoProcs == {p1, p2}
TwoBufs == {b1, b2}
ThreeBufs == {b1, b2, b3}
TwoBlocks == {k1, k2}
FourBlocks == {k1, k2, k3, k4}
OneValue == {v0}
TwoValues == {v0, v1}
NoNesting == {}
Nesting == {<<k1, k2>>}
Symmetry == Permutations(TwoProcs) \cup Permutations(ThreeBufs) \cup Permutations(FourBlocks)
=============================================================================
