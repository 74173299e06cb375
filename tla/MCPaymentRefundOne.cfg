SPECIFICATION FairSpec
CONSTANTS
    Workers = {w1}
    Takes = {1}
    FaultAt = {"lock", "check", "deduct", "gateway", "auditOk", "auditPending", "detail", "query", "finCheck", "finDeduct", "finFail"}
    CrashAt = {"lock", "auditOk", "auditPending", "detail", "query", "finCheck", "finDeduct", "finFail"}
    MaxFaults = 3
    MaxDeducted = 2
INVARIANT RefundedIsDeducted
PROPERTY RefundingEnds
CHECK_DEADLOCK FALSE
