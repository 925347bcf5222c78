CONSTANTS
  c1 = c1
  c2 = c2
  NoCpu = NoCpu
  NPROC = 3
  MaxPid = 3
  KillPids = {2, 3}
  InitCalls = {"fork", "wait"}
CONSTANT CPU <- MCOneCpu
SPECIFICATION FairSpec
PROPERTIES RunnableRuns KilledExits OrphanReaped
