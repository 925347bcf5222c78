CONSTANTS
  w1 = w1
  w2 = w2
  r1 = r1
  Nobody = Nobody
  Byte = {0, 1}
  PIPESIZE = 2
  Wrap = 4
  MaxLen = 3
CONSTANT Writer <- TwoWriters
CONSTANT Reader <- OneReader
CONSTANT Killable <- WriterAndReader
SPECIFICATION FairSpec
PROPERTIES IsFifo 
CHECK_DEADLOCK FALSE
