SPECIFICATION Spec
CONSTANTS
    Workers = {w1, w2}
    NoLock = NoLock
    Dead = Dead
    Others = 1
    MaxRetries = 2
    FaultAt = {"reserveLost", "items", "upload", "submitLost", "save", "abort", "enqueue", "undo", "fail", "undoRetry", "cancel", "cancelRelease", "cancelEnqueue", "cancelRetry", "recRelease", "recRetry", "read", "load", "get", "toRunning", "toIndexing", "toFailed", "toCancelled", "toSettling", "exFail", "index", "release", "settle", "capture", "captureLost", "record", "mark", "exRelease", "reread", "lock", "ack", "requeue", "unlock"}
    CrashAt = {"reserve", "items", "upload", "submit", "save", "enqueue", "undo", "undoQuiet", "undoFail", "undoRetry", "fail", "abort", "cancelUpstream", "cancelEnqueue", "cancel", "cancelRelease", "cancelRetry", "recRelease", "recRetry", "read", "load", "get", "toRunning", "toIndexing", "toFailed", "toCancelled", "index", "toSettling", "release", "settle", "capture", "record", "mark", "exRelease", "exRecord", "exFail", "reread", "ack", "requeue", "unlock", "lock"}
    Races = {"earlyCancel", "staleCancel", "stall"}
    MaxFaults = 3
SYMMETRY Symmetric
INVARIANTS TypeOK CompletedIsCaptured ReleasedIsOver
PROPERTY EndedIsFinal
CHECK_DEADLOCK FALSE
