SPECIFICATION EntrySpec
CONSTANTS
    Entries <- All
    Files = {1, 2}
    Scores = {0, 1}
INVARIANTS ReasonTold HomeAgain
CHECK_DEADLOCK FALSE
