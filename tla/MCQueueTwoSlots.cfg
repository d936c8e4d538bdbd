CONSTANTS
    r1 = r1
    r2 = r2
    r3 = r3
    r4 = r4
    Request = {r1, r2, r3, r4}
    Timed = {}
    MaxSizes = {3}
    Concurrencies = {2}
    Priority <- MCPriority
    Timestamp <- MCTimestamp
    Tiebreaker <- MCTiebreaker

SPECIFICATION PromptQueueSpec

PROPERTY FrontTakesFreeSlot
