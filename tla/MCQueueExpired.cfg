CONSTANTS
    r1 = r1
    r2 = r2
    r3 = r3
    r4 = r4
    Request = {r1, r2, r3}
    Timed = {r1}
    MaxSizes = {3}
    Concurrencies = {1}
    Priority <- MCPriority
    Timestamp <- MCTimestamp
    Tiebreaker <- MCTiebreaker

SPECIFICATION FairQueueSpec

PROPERTY EveryWaiterServed
