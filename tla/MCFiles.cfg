CONSTANTS
  p1 = p1
  p2 = p2
  g1 = g1
  Process = {p1, p2}
  init = p1
  NFILE = 3
  NOFILE = 2
  Page = {g1}
  Inode = {1}
  Size = 1
  None = None
  Ino = {1, 2}
  NBLOCK = 6
  BSIZE = 2
  NDIRECT = 3
  BPB = 1
  MAXOPBLOCKS = 10
  Wrap = 32
CONSTANT WriteLen <- Lengths
SPECIFICATION Spec
CHECK_DEADLOCK FALSE
INVARIANTS FileRefs ObjectsOwned ReadOnce ReadBack  TransactionFits
