SPECIFICATION Spec
CONSTANTS
    Workers = {w1}
    NoLock = NoLock
    Dead = Dead
    Others = 0
    MaxRetries = 1
    FaultAt = {}
    CrashAt = {}
    Races = {"staleCancel"}
    MaxFaults = 0
INVARIANT RefundStopsUpstream
CHECK_DEADLOCK FALSE
