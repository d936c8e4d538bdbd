CONSTANTS
    r1 = r1
    r2 = r2
    r3 = r3
    a = a
    b = b
    gpt4 = gpt4
    NoUrl = NoUrl
    NoModel = NoModel
    AnyModel = AnyModel
    Request = {r1, r2, r3}
    Timed = {}
    Streamed = {r1}
    MaxSizes = {2}
    Concurrencies = {1, 2}
    Priority <- MCPriority
    Timestamp <- MCTimestamp
    Tiebreaker <- MCTiebreaker
    Url = {a, b}
    Protocol = {"openai"}
    Configurations <- OneList
    Replacements <- NoLists
    ProbeOutcomes = {TRUE, FALSE}
    FailThreshold = 1
    ProtocolOf <- MCProtocolOf
    ModelOf <- MCModelOf
    Refusals = {401}
    Outcomes = {200, 502}
    Faults = {}

SPECIFICATION FairGatewaySpec
PROPERTY AdmittedAnswered
PROPERTY SlotsReleased
PROPERTY EveryWaiterServed
