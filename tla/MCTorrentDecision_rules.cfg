SPECIFICATION DecisionSpec
CONSTANTS
 Settings <- SomeSettings
 Trackers <- SomeTrackers
 Figures <- SomeFigures
 Looks <- SomeLooks
 FileLists <- SomeFiles
INVARIANTS OwedKept SpaceHeld MissingNotBlocklisted NoPingPong
CHECK_DEADLOCK FALSE
