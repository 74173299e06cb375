SPECIFICATION Spec
CONSTANTS
    Workers = {w1, w2}
    Takes = {0, 1}
    FaultAt = {"lock", "check", "deduct", "gateway", "rollback", "auditRollback", "restore", "gwFailed", "markOk", "markPending", "auditOk", "auditPending", "detail", "query", "finCheck", "finDeduct", "finFail"}
    CrashAt = {"lock", "check", "deduct", "gateway", "rollback", "auditRollback", "restore", "gwFailed", "markOk", "markPending", "auditOk", "auditPending", "detail", "query", "finCheck", "finDeduct", "finFail"}
    MaxFaults = 2
    MaxDeducted = 2
SYMMETRY Symmetric
INVARIANTS TypeOK RefundBacked RefundExclusive NeverOvercredited
PROPERTY RetryDeductsOnce
CHECK_DEADLOCK FALSE
