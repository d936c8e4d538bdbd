CONSTANTS
    r1 = r1
    r2 = r2
    r3 = r3
    a = a
    b = b
    gpt4 = gpt4
    NoUrl = NoUrl
    NoModel = NoModel
    AnyModel = AnyModel
    Request = {r1, r2}
    Timed = {}
    Streamed = {}
    MaxSizes = {2}
    Concurrencies = {1}
    Priority <- MCPriority
    Timestamp <- MCTimestamp
    Tiebreaker <- MCTiebreaker
    Url = {a, b}
    Protocol = {"openai"}
    Configurations <- EqualList
    Replacements <- NoLists
    ProbeOutcomes = {TRUE}
    FailThreshold = 3
    ProtocolOf <- MCProtocolOf
    ModelOf <- MCModelOf
    Refusals = {401}
    Outcomes = {200}
    Faults = {}

SPECIFICATION GatewaySpec
INVARIANT CallsBalanced
