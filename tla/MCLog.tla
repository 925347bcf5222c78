-------------------------------- MODULE MCLog --------------------------------
EXTENDS Log, TLC
CONSTANTS p1, p2, b1, b2, d0, d1
TwoProcesses == {p1, p2}
TwoBlocks == {b1, b2}
TwoData == {d0, d1}
==============================================================================
