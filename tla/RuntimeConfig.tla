--------------------------- MODULE RuntimeConfig ---------------------------
(***************************************************************************)
(* PUT /admin/api/config of app/api/admin_api.py: a partial update is      *)
(* applied setting by setting to the configuration in memory and to the    *)
(* components that run on it.  The handler does not await, so a call is    *)
(* one action; but the queue's concurrency is left to a task that is       *)
(* scheduled and not awaited, and a setting that is refused ends the call  *)
(* with those before it already applied.                                   *)
(***************************************************************************)
EXTENDS Integers, Sequences

CONSTANTS Bodies,         \* what callers send: some settings -> values
          InitialConfig,  \* the settings the process started with
          KnownStrategies, KnownProtocols,
          NoStrategy,     \* the strategy object does not exist yet
          MaxPending      \* bound of the exploration

\* The settings, in the order in which the handler takes them.
Order == <<"max_length", "concurrency", "strategy", "backends",
           "proxy_enabled", "proxy_protocol", "proxy_host">>
Setting == {Order[i] : i \in DOMAIN Order}

ASSUME ConfigAssumption ==
    /\ DOMAIN InitialConfig = Setting
    /\ InitialConfig["strategy"] \in KnownStrategies
    /\ InitialConfig["proxy_protocol"] \in KnownProtocols
    /\ InitialConfig["max_length"] \in Int
    /\ InitialConfig["concurrency"] \in Int
    /\ \A body \in Bodies :
          /\ DOMAIN body \subseteq Setting
          /\ \A s \in {"max_length", "concurrency"} \cap DOMAIN body :
                body[s] \in Int
    /\ MaxPending \in Nat \ {0}

VARIABLES cfg,            \* get_config(): setting -> value
          queueLimits,    \* max_size and max_concurrency of the queue
          pending,        \* update_concurrency() tasks, in the order scheduled
          strategy        \* name of the strategy object, or NoStrategy

configVars == <<cfg, queueLimits, pending, strategy>>

ConfigInit ==
    /\ cfg = InitialConfig
    /\ queueLimits = [max |-> cfg["max_length"],
                      concurrency |-> cfg["concurrency"]]
    /\ pending = <<>>
    /\ strategy = NoStrategy

\* An unknown strategy raises ValueError (500) once it is in cfg; an unknown
\* protocol is answered 422 before it is.
Refused(body, s) ==
    /\ s \in DOMAIN body
    /\ \/ s = "strategy" /\ body[s] \notin KnownStrategies
       \/ s = "proxy_protocol" /\ body[s] \notin KnownProtocols

Written(body) ==
    {Order[i] : i \in {j \in DOMAIN Order :
        /\ Order[j] \in DOMAIN body
        /\ \A before \in 1..(j - 1) : ~Refused(body, Order[before])
        /\ ~(Order[j] = "proxy_protocol" /\ Refused(body, Order[j]))}}

PutConfig(body) ==
    LET written == Written(body)
    IN  /\ Len(pending) < MaxPending
        /\ cfg' = [s \in Setting |-> IF s \in written THEN body[s] ELSE cfg[s]]
        /\ queueLimits' =
              IF "max_length" \in written
              THEN [queueLimits EXCEPT !.max = body["max_length"]]
              ELSE queueLimits
        /\ pending' = IF "concurrency" \in written
                      THEN Append(pending, body["concurrency"]) ELSE pending
        /\ strategy' = IF "strategy" \in written /\ ~Refused(body, "strategy")
                       THEN body["strategy"] ELSE strategy

\* (Mutation) the tasks overtake each other.
ApplyLastConcurrency ==
    /\ pending # <<>>
    /\ queueLimits' = [queueLimits EXCEPT
                          !.concurrency = pending[Len(pending)]]
    /\ pending' = SubSeq(pending, 1, Len(pending) - 1)
    /\ UNCHANGED <<cfg, strategy>>

\* Tasks start in the order in which they were scheduled, and get the queue's
\* lock in the order in which they ask for it.
ApplyConcurrency ==
    /\ pending # <<>>
    /\ queueLimits' = [queueLimits EXCEPT !.concurrency = Head(pending)]
    /\ pending' = Tail(pending)
    /\ UNCHANGED <<cfg, strategy>>

\* _ensure_strategy, the first step of every proxied request.  With an unknown
\* name in cfg and no object yet it raises, without effect: the request is
\* answered 500.
EnsureStrategy ==
    /\ strategy = NoStrategy
    /\ cfg["strategy"] \in KnownStrategies
    /\ strategy' = cfg["strategy"]
    /\ UNCHANGED <<cfg, queueLimits, pending>>

ConfigNext ==
    \/ \E body \in Bodies : PutConfig(body)
    \/ ApplyConcurrency
    \/ EnsureStrategy

ConfigSpec == ConfigInit /\ [][ConfigNext]_configVars

----------------------------------------------------------------------------
ConfigTypeOK ==
    /\ DOMAIN cfg = Setting
    /\ queueLimits \in [max : Int, concurrency : Int]
    /\ pending \in Seq(Int)
    /\ Len(pending) <= MaxPending
    /\ strategy \in KnownStrategies \cup {NoStrategy}

\* Once the scheduled tasks have run, the queue works under the limits that the
\* configuration shows, whatever calls came in between and however they ended
\* (DOCS.md: "Queue max_length and concurrency are applied to the running queue
\* instance").
QueueFollowsConfig ==
    /\ queueLimits.max = cfg["max_length"]
    /\ pending = <<>> => queueLimits.concurrency = cfg["concurrency"]

=============================================================================
