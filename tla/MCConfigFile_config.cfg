SPECIFICATION Fair
CONSTANTS
  r1 = r1  r2 = r2  w1 = w1
  Request = {r1, r2}
  Worker = {w1}
  Found <- Releases
  Host = {"h"}
  MaxEdits = 2
  MaxFaults = 1
  MaxCrashes = 1
INVARIANTS ChoicesKept UpgradeBackedUp
PROPERTIES ComesUp WorkersFollow
CHECK_DEADLOCK FALSE
