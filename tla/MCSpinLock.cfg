CONSTANTS
  c1 = c1
  c2 = c2
  t1 = t1
  t2 = t2
  l1 = l1
  l2 = l2
  l3 = l3
  ptlock = l1
  kmlock = l3
  None = None
CONSTANT CPU <- MCCpu
CONSTANT Thread <- TwoThreads
CONSTANT Lock <- MCLock
SYMMETRY Symmetry
SPECIFICATION Spec
INVARIANTS MutualExclusion InterruptsRestored SpinOnRunner
