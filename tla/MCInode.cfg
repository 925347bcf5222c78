CONSTANTS
  p1 = p1
  p2 = p2
  a = a
  b = b
  Slash = Slash
  None = None
  NInode = 3
CONSTANT Proc <- TwoProcs
CONSTANT Name <- TwoNames
SYMMETRY Symmetry
SPECIFICATION Spec
CHECK_DEADLOCK FALSE
INVARIANTS RefsCounted LinksCounted CacheCoherent
PROPERTY FreedUnused
