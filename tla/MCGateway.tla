----------------------------- MODULE MCGateway -----------------------------
(***************************************************************************)
(* Instances of Gateway for TLC: a stream and two plain requests, backends *)
(* of which one is listed twice (as the routing example of DOCS.md does),  *)
(* one serves a single model and one speaks only the other protocol.       *)
(***************************************************************************)
EXTENDS Gateway, TLC

CONSTANTS r1, r2, r3, a, b, gpt4

MCPriority   == [r \in Request |-> IF r = r3 THEN 0 ELSE 100]
MCTimestamp  == [r \in Request |-> IF r = r1 THEN 1 ELSE 2]
MCTiebreaker == [r \in Request |-> IF r = r1 THEN 1 ELSE IF r = r2 THEN 2 ELSE 3]

MCProtocolOf == [r \in Request |-> "openai"]
MCModelOf    == [r \in Request |-> IF r = r2 THEN gpt4 ELSE NoModel]

Openai(u, m, on) ==
    [url |-> u, protocols |-> {"openai"}, models |-> m, enabled |-> on]

TwoEqual  == <<Openai(a, {}, TRUE), Openai(b, {}, TRUE)>>
Routed    == <<Openai(a, {gpt4}, TRUE), Openai(a, {AnyModel}, TRUE),
               Openai(b, {}, FALSE)>>

OneBackend == <<Openai(a, {}, TRUE)>>

BothLists    == {TwoEqual, Routed}
EqualList    == {TwoEqual}
OneList      == {OneBackend}
NoLists      == {}

=============================================================================
