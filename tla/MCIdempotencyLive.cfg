CONSTANTS
    Requests = {r1, r2}
    Fingerprints = {f1, f2}
    TTL = 2
    ProcessingTimeout = 1
    FailedRetryBackoff = 1
    RequireKey = TRUE
    ObserveOnly = FALSE
    MaxTime = 4
    MaxStall = 5
SPECIFICATION FairSpec
CHECK_DEADLOCK FALSE
PROPERTY OrphanFreed
