SPECIFICATION FairSpec
CONSTANTS
    a = a
    b = b
    s = s
    Items = {a, b, s}
    Id <- Numbers
    GroupOf <- Of
    Requested = {a}
    Starts <- Several
    MaxCommands = 2
    MaxFaults = 2
    MaxChanges = 1
    MaxCrashes = 1
INVARIANT HonestlySearched
PROPERTIES NothingForgotten RequestsServed TimeoutRestores
CHECK_DEADLOCK FALSE
