CONSTANTS
  a1 = a1  radarr = radarr  qb = qb  m1 = m1  None = None
  t1 = t1  t2 = t2
  Arr <- OneArr
  CatOf <- CatOfOne
  RolesOf <- TorrentRole
  Qbit <- OneQbit
  Proc <- Procs
  JobOf <- JobOfProc
  AutoRestart = TRUE
  MaxRestarts = 1
  MaxEvents <- Events
SPECIFICATION FairSpec
INVARIANTS OneWorkerPerJob QuietCheckpoint NoOrphans
PROPERTIES CrashedReturns PendingRuns RespawnReaches
CHECK_DEADLOCK FALSE
