CONSTANTS
  a1 = a1  radarr = radarr  qb = qb  None = None
  t1 = t1  t2 = t2  t3 = t3   m1 = m1  m2 = m2
  Arr <- OneArr
  CatOf <- CatOfOne
  RolesOf <- TorrentRole
  Qbit <- OneQbit
  Proc <- MixedProcs
  JobOf <- JobOfMixed
  AutoRestart = TRUE
  MaxRestarts = 1
  MaxEvents <- StartAndSignal
  Thread = {h1}
  MaxRequests = 1
SPECIFICATION WebSpec
SYMMETRY Interchangeable
INVARIANTS OneWorkerUnlessClash TrackedUnlessClash
CHECK_DEADLOCK FALSE
