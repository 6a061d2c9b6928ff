SPECIFICATION PolicyFair
CONSTANTS
 main = main
 seedbox = seedbox
 t1 = t1
 t2 = t2
 t3 = t3
 Clients <- Two
 Torrents <- Three
 On <- OnOf
 Size <- SizeOf
 Wanted <- ByTracker
 Starts <- Several
 MaxChanges = 1
 MaxFaults = 1
INVARIANTS BudgetKept
PROPERTIES SpaceSettles QueueSettles
CHECK_DEADLOCK FALSE
