CONSTANTS
    Requests = {r1, r2, c1}
    Calls = {c1}
    Processes = {p1, p2}
    Max = 1
    QueueLimit = 1
    SlotTTL = 1
    LiveTTL = 2
    WaitTTL = 1
    MaxFaults = 1
SPECIFICATION FairSpec
INVARIANTS TypeOK LimitKept QueueBounded
PROPERTIES WaiterServed QueueReopens
