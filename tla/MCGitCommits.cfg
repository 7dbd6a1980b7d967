CONSTANTS
    Entries <- Five
    PageLimit = 2
    Groupings <- Prefixes
    MaxWrites = 2
SPECIFICATION LSpec
CHECK_DEADLOCK FALSE
INVARIANTS CommitWalkComplete
