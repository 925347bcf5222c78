CONSTANTS
  q1 = q1
  q2 = q2
  Nobody = Nobody
  Unlocked = Unlocked
  Killable = {q1}
  Mortal = {q1}
  INPUT_BUF = 3
  Wrap = 6
  MaxRead = 2
  Cpu = {0, 1}
  TickWrap = 4
  MaxLine = 5
  MAXARGS = 3
CONSTANT Reader <- TwoProcs
CONSTANT Sleeper <- TwoProcs
CONSTANT Duration <- Durations
SPECIFICATION Spec
CHECK_DEADLOCK FALSE
INVARIANTS InputWakes KeysFollowed 
PROPERTIES IsLineBuffer SleptLongEnough 
