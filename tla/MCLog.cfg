CONSTANTS
  p1 = p1
  p2 = p2
  b1 = b1
  b2 = b2
  d0 = d0
  d1 = d1
  Initial = d0
  Absent = Absent
  MAXOPBLOCKS = 2
  OPS = 2
CONSTANT Process <- TwoProcesses
CONSTANT Block <- TwoBlocks
CONSTANT Data <- TwoData
SPECIFICATION FairSpec
INVARIANT SpaceReserved
PROPERTIES   LogDrains
