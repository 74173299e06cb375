SPECIFICATION FairSpec
CONSTANTS
    Workers = {w1, w2}
    NoWorker = NoWorker
    Kinds = {"balance", "subscription"}
    MaxFaults = 1
    ReadErrors = FALSE
    StallAtReload = TRUE
PROPERTY PaidCompletes
CHECK_DEADLOCK FALSE
