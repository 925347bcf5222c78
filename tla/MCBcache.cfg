CONSTANTS
  p1 = p1
  p2 = p2
  b1 = b1
  b2 = b2
  b3 = b3
  k1 = k1
  k2 = k2
  k3 = k3
  k4 = k4
  v0 = v0
  v1 = v1
  Zero = v0
  None = None
  MaxHold = 1
  MaxPinned = 1
  DiskFails = FALSE
CONSTANT Block <- FourBlocks
CONSTANT Value <- TwoValues
CONSTANT Proc <- TwoProcs
CONSTANT Buf <- ThreeBufs
CONSTANT Before <- NoNesting
SYMMETRY Symmetry
SPECIFICATION Spec
PROPERTY IsStore
