CONSTANTS
    r1 = r1
    r2 = r2
    r3 = r3
    r4 = r4
    Request = {r1, r2, r3, r4}
    Timed = {r1, r2, r4}
    MaxSizes = {1, 3}
    Concurrencies = {0, 1, 2}
    Priority <- MCPriority
    Timestamp <- MCTimestamp
    Tiebreaker <- MCTiebreaker

SPECIFICATION QueueSpec

INVARIANT QueueTypeOK
INVARIANT SlotAccounting
INVARIANT IdleQueueWakesFront
PROPERTY ImplementsScheduler
