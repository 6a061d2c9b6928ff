CONSTANTS
  a1 = a1  a2 = a2  a3 = a3  a4 = a4  a5 = a5  a6 = a6  a7 = a7  a8 = a8  a9 = a9
  c1 = c1  c2 = c2  u1 = u1  u2 = u2  qb = qb  None = None
  p1 = p1  p2 = p2  p3 = p3  q1 = q1  q2 = q2  s1 = s1  s2 = s2  m1 = m1  m2 = m2
  h1 = h1  h2 = h2
  Arr <- Objects
  NameOf <- NameOfObject
  CatOf <- CatOfObject
  UriOf <- UriOfObject
  RolesOf <- RolesOfObject
  Qbit <- OneQbit
  Proc <- Procs
  JobOf <- JobOfProc
  AutoRestart = TRUE
  MaxRestarts = 1
  MaxEvents <- No
  Thread = {h1}
  Name <- TwoNames
  Starts <- FromOne
  Rebuilds <- FromRenamed
  Updates <- Changes
  MaxTurns = 2
  MaxFaults = 1
SPECIFICATION LifeSpec
SYMMETRY Interchangeable
INVARIANTS NoStrayWorker FollowsConfig EveryLoopStarted
CHECK_DEADLOCK FALSE
