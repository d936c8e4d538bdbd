---------------------------- MODULE BackendPool ----------------------------
(***************************************************************************)
(* The configured backends, the round-robin index per protocol and the     *)
(* health checker: _select_backend and reset_backend_indices of            *)
(* app/api/proxy.py, app/core/health_checker.py, and the "full             *)
(* replacement" of the list by PUT /admin/api/config.                      *)
(*                                                                         *)
(* The health checker keeps the list it was started with: replacing the    *)
(* configured list does not change what is probed, and a backend that has  *)
(* never been probed counts as healthy.                                    *)
(***************************************************************************)
EXTENDS Integers, Sequences

CONSTANTS Url,              \* base_url of every backend that may be configured
          Protocol,         \* "openai", "anthropic"
          NoModel,          \* the request named no model
          AnyModel,         \* "*" in a backend's models list
          Configurations,   \* backend lists the gateway may start with
          Replacements,     \* lists an operator may put in their place
          ProbeOutcomes,    \* BOOLEAN, or {TRUE} where no backend ever fails
          FailThreshold     \* fail_threshold of the HealthChecker

ASSUME PoolAssumption ==
    /\ FailThreshold \in Nat \ {0}
    /\ ProbeOutcomes \subseteq BOOLEAN
    /\ \A list \in Configurations \cup Replacements :
          /\ list \in Seq({list[i] : i \in DOMAIN list})
          /\ \A i \in DOMAIN list : /\ list[i].url \in Url
                                    /\ list[i].protocols \subseteq Protocol

VARIABLES backends,     \* config.backends: sequence of backend records
          indices,      \* _backend_indices, 0 where absent
          probed,       \* the list captured by HealthChecker._loop
          cursor,       \* position of the next backend of that list to probe
          failCount     \* url -> consecutive failures, capped at FailThreshold

poolVars == <<backends, indices, probed, cursor, failCount>>

IsHealthy(url) == failCount[url] < FailThreshold

\* models is a set; an empty one, or one with "*", serves every model.
Serves(b, model) ==
    \/ model = NoModel
    \/ b.models = {}
    \/ AnyModel \in b.models
    \/ model \in b.models

\* The loop over config.backends in _select_backend: the list after i of them.
Eligible(protocol, model, exclude) ==
    LET Fits(b) == /\ b.url \notin exclude
                   /\ b.enabled
                   /\ protocol \in b.protocols
                   /\ IsHealthy(b.url)
                   /\ Serves(b, model)
        eligible[i \in 0..Len(backends)] ==
            IF i = 0 THEN <<>>
            ELSE IF Fits(backends[i]) THEN Append(eligible[i - 1], backends[i])
            ELSE eligible[i - 1]
    IN  eligible[Len(backends)]

\* The element of a non-empty eligible list that the index designates, and the
\* index left behind: idx + 1, not reduced until the next selection.
Position(protocol, list) == indices[protocol] % Len(list)
Pick(protocol, list)     == list[Position(protocol, list) + 1].url
Advance(protocol, list)  ==
    indices' = [indices EXCEPT ![protocol] = Position(protocol, list) + 1]

PoolInit ==
    /\ backends \in Configurations
    /\ indices = [p \in Protocol |-> 0]
    /\ probed = backends
    /\ cursor = 1
    /\ failCount = [u \in Url |-> 0]

-----------------------------------------------------------------------------

\* _mark(): one success forgives everything, failures accumulate.
Mark(url, success) ==
    failCount' = [failCount EXCEPT ![url] =
        IF success THEN 0
        ELSE IF @ < FailThreshold THEN @ + 1 ELSE FailThreshold]

\* One backend of _check_all(): a disabled one is passed over, an enabled one
\* is marked by the outcome of GET {base_url}/health.  The cursor wraps where
\* _loop() sleeps for the interval.
Probe ==
    /\ probed # <<>>
    /\ \/ /\ probed[cursor].enabled
          /\ \E success \in ProbeOutcomes : Mark(probed[cursor].url, success)
       \/ ~probed[cursor].enabled /\ UNCHANGED failCount
    /\ cursor' = (cursor % Len(probed)) + 1
    /\ UNCHANGED <<backends, indices, probed>>

\* The backends part of update_config_admin(): the list is replaced and the
\* round-robin indices are cleared.
ReplaceBackends(list) ==
    /\ backends' = list
    /\ indices' = [p \in Protocol |-> 0]
    /\ UNCHANGED <<probed, cursor, failCount>>

PoolNext == Probe \/ \E list \in Replacements : ReplaceBackends(list)

PoolTypeOK ==
    /\ backends \in Configurations \cup Replacements
    /\ indices \in [Protocol -> Nat]
    /\ probed \in Configurations
    /\ cursor \in 1..(Len(probed) + 1)
    /\ failCount \in [Url -> 0..FailThreshold]

=============================================================================
