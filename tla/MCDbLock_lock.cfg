SPECIFICATION FairSpec
CONSTANTS
  web = web  ckpt = ckpt  w1 = w1  sup = sup  p1 = p1
  None = None
  Thread <- MCThread
  Process <- MCProcess
  ProcOf <- MCProcOf
  Parent = sup
  StartAlive <- OnlySup
  MaxDepth = 2
  MaxFaults <- SomeFaults
INVARIANT MutualExclusion
PROPERTIES ImplementsMutex ServedUnlessOrphaned
CHECK_DEADLOCK FALSE
