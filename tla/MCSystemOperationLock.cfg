CONSTANTS
    Operations = {o1, o2, o3}
    OperationIds = {i1, i2}
    Lease = 2
    RenewInterval = 1
    TTL = 3
    MaxTime = 4
SPECIFICATION Spec
SYMMETRY Symmetric
CHECK_DEADLOCK FALSE
INVARIANT TypeOK
PROPERTY CreatorKeepsLock
