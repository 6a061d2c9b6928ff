SPECIFICATION LoopFair
CONSTANTS
 main = main
 seedbox = seedbox
 h1 = h1
 h2 = h2
 Instances <- Two
 Primary = main
 Hashes <- Both
 Contents <- Some
 Start <- Several
 Setting <- Sets
 Tracker <- Tracks
 FilesOf <- SomeFiles
 ClientOf <- OwnClient
 MaxChanges = 1
 MaxFaults = 1
 MaxCrashes = 1
INVARIANTS OnlyCondemnedBlocked
CHECK_DEADLOCK FALSE
PROPERTIES DoomedLeave CondemnedIsBlocked
