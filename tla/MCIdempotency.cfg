CONSTANTS
    Requests = {r1, r2, r3}
    Fingerprints = {f1, f2}
    TTL = 2
    ProcessingTimeout = 1
    FailedRetryBackoff = 1
    RequireKey = TRUE
    ObserveOnly = TRUE
    MaxTime = 4
    MaxStall = 2
SPECIFICATION Spec
SYMMETRY RequestSymmetry
CHECK_DEADLOCK FALSE
INVARIANTS TypeOK ReplaySound ExclusiveExecution
