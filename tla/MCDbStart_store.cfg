SPECIFICATION Fair
CONSTANTS
  w1 = w1  w2 = w2  ckpt = ckpt  r1 = r1  r2 = r2
  None = None
  Worker = {w1, w2}
  Maintainer = {ckpt}
  Recovering = {w1}
  Row = {r1, r2}
  Length <- Lengths
  OldRow = {r1}
  OldVersions = {0, 2}
  MaxFiles = 8
  MaxDamage = 1
  MaxFaults = 1
  MaxRepairs = 1
INVARIANTS RowsKept SchemaAsVersioned DurationsRight
PROPERTIES AllRun
CHECK_DEADLOCK FALSE
