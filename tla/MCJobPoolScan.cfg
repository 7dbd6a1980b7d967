SPECIFICATION LiveSpec
CONSTANTS
    j1 = j1 j2 = j2 j3 = j3
    w1 = w1 w2 = w2
    Jobs = {j1, j2}
    Workers = {w1}
    NoJob = NoJob
    Kind <- ScanKind
    Repo <- ScanRepo
    MaxAttempts = 2
    MaxBoots = 2
    MaxDbErrors = 0
    SlowRestart = TRUE

    
    
PROPERTIES
    EventuallyTerminal
