CONSTANTS
  c1 = c1
  c2 = c2
  NoCpu = NoCpu
  NPROC = 3
  MaxPid = 4
  KillPids = {0, 1, 2, 3}
  InitCalls = {"fork", "wait", "kill", "exit"}
CONSTANT CPU <- MCCpu
SYMMETRY Symmetry
SPECIFICATION Spec
INVARIANTS StackSafety LockHandoff OrphansAdopted NoLostWakeup NoSlotLeak
