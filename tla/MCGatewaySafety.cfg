CONSTANTS
    r1 = r1
    r2 = r2
    r3 = r3
    a = a
    b = b
    gpt4 = gpt4
    NoUrl = NoUrl
    NoModel = NoModel
    AnyModel = AnyModel
    Request = {r1, r2}
    Timed = {r2}
    Streamed = {r1}
    MaxSizes = {1, 2}
    Concurrencies = {0, 1}
    Priority <- MCPriority
    Timestamp <- MCTimestamp
    Tiebreaker <- MCTiebreaker
    Url = {a, b}
    Protocol = {"openai"}
    Configurations <- BothLists
    Replacements <- BothLists
    ProbeOutcomes = {TRUE, FALSE}
    FailThreshold = 1
    ProtocolOf <- MCProtocolOf
    ModelOf <- MCModelOf
    Refusals = {401}
    Outcomes = {200, 502}
    Faults = {"raise", "disconnect"}

SPECIFICATION GatewaySpec
INVARIANT GatewayTypeOK
INVARIANT LoadBounded
INVARIANT CompletionRecorded
INVARIANT AttemptsDistinct
PROPERTY AnsweredOnce
