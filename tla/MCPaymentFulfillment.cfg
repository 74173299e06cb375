SPECIFICATION Spec
CONSTANTS
    Workers = {w1, w2}
    NoWorker = NoWorker
    Kinds = {"balance", "subscription"}
    MaxFaults = 2
    ReadErrors = TRUE
    StallAtReload = FALSE
SYMMETRY Symmetric
INVARIANTS TypeOK CreditedOnce CompletedIsGranted NoCreditWithoutPayment PaidNotDropped LeaseFenced
PROPERTIES CompletedStable FulfilsOrder
CHECK_DEADLOCK FALSE
