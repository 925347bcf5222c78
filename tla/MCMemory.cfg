CONSTANTS
  p0 = p0
  p1 = p1
  initproc = p0
  CPU = {c1, c2}
  None = None
  kpgdir = kpgdir
  PGSIZE = 2
  NPTENTRIES = 2
  KERNBASE = 10
  Segment = {0, 1, 3, 12}
  ArgLen = {1, 3}
  Preempt = {"user", "freeold"}
  HeapEnd = 14
  HeaderSize = 2
  Core = 4
  NBytes = {1, 3, 7}
  Top = 6
  Word = 2
CONSTANT Proc <- TwoProcs
CONSTANT Page <- Pages
CONSTANT Delta <- Deltas
CONSTANT Pick <- LowOrHigh
SYMMETRY Symmetry
SPECIFICATION MCSpec
CHECK_DEADLOCK FALSE
INVARIANTS  MappedBelowSize LoadedTableLive HeapTiled ArgsInside
