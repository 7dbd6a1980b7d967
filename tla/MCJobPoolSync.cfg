SPECIFICATION Spec
CONSTANTS
    j1 = j1 j2 = j2 j3 = j3
    w1 = w1 w2 = w2
    Jobs = {j1, j2, j3}
    Workers = {w1, w2}
    NoJob = NoJob
    Kind <- SyncKind
    Repo <- SyncRepo
    MaxAttempts = 2
    MaxBoots = 2
    MaxDbErrors = 1
    SlowRestart = FALSE
INVARIANTS
    LeaseExclusive
    HelmRunsOncePerAttempt
    OneInflightSyncPerRepo
PROPERTIES
    ImplementsQueue
