SPECIFICATION FairSpec
CONSTANTS
    Workers = {w1, w2}
    NoLock = NoLock
    Dead = Dead
    Others = 1
    MaxRetries = 4
    FaultAt = {"fail", "items", "upload", "save", "undo", "cancel", "cancelRelease", "cancelEnqueue", "recRelease", "read", "load", "get", "toRunning", "toIndexing", "toFailed", "toCancelled", "toSettling", "exFail", "index", "release", "settle", "capture", "captureLost", "record", "mark", "exRelease", "reread", "lock", "ack", "requeue", "unlock"}
    CrashAt = {"reserve", "items", "upload", "submit", "undo", "undoFail", "undoQuiet", "fail", "cancelUpstream", "cancelEnqueue", "cancel", "read", "load", "get", "toRunning", "toIndexing", "toFailed", "toCancelled", "index", "toSettling", "release", "settle", "capture", "record", "mark", "exRelease", "exRecord", "exFail", "reread", "ack", "requeue", "unlock", "lock"}
    Races = {}
    MaxFaults = 3
INVARIANTS Tracked RefundStopsUpstream
PROPERTIES HoldSafely HoldSettled JobEnds
CHECK_DEADLOCK FALSE
