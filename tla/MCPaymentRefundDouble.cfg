SPECIFICATION Spec
CONSTANTS
    Workers = {w1}
    Takes = {1}
    FaultAt = {"rollback"}
    CrashAt = {}
    MaxFaults = 1
    MaxDeducted = 2
INVARIANT DeductedOnce
CHECK_DEADLOCK FALSE
