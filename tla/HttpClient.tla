----------------------------- MODULE HttpClient -----------------------------
(***************************************************************************)
(* app/core/http_client.py: the client that GET /v1/models shares, rebuilt *)
(* when a call asks for another proxy.  Closing the old client awaits, and *)
(* meanwhile other calls find it closed.  The proxy is read from the       *)
(* configuration when the call starts.                                     *)
(***************************************************************************)
EXTENDS RuntimeConfig

CONSTANTS Lister          \* calls of GET /v1/models

NoProxy == <<>>           \* the empty URL

\* ProxyConfig.to_url of app/config.py
ProxyUrl(c) ==
    IF c["proxy_enabled"] /\ c["proxy_host"] # ""
    THEN <<c["proxy_protocol"], c["proxy_host"]>>
    ELSE NoProxy

VARIABLES clients,        \* all clients made so far: their proxy, and if open
          current,        \* _client, an index of clients
          currentProxy,   \* _current_proxy_url
          lister,         \* call -> "idle", "closing" or "handed"
          asked,          \* call -> the proxy it asked for
          handed          \* call -> the client it was given, 0 before

clientVars == <<clients, current, currentProxy, lister, asked, handed>>

\* init_client at startup
ClientInit ==
    /\ clients = <<[proxy |-> ProxyUrl(cfg), open |-> TRUE]>>
    /\ current = 1
    /\ currentProxy = ProxyUrl(cfg)
    /\ lister = [h \in Lister |-> "idle"]
    /\ asked = [h \in Lister |-> NoProxy]
    /\ handed = [h \in Lister |-> 0]

HandOver(h, c) ==
    /\ lister' = [lister EXCEPT ![h] = "handed"]
    /\ handed' = [handed EXCEPT ![h] = c]

\* The rest of init_client once the old client is closed: whatever client is
\* current by now is replaced, and not closed.
MakeClient(h, url) ==
    /\ clients' = Append(clients, [proxy |-> url, open |-> TRUE])
    /\ current' = Len(clients) + 1
    /\ currentProxy' = url
    /\ HandOver(h, Len(clients) + 1)

WantsOther(url) == url # NoProxy /\ url # currentProxy

ReuseClient(h) ==
    /\ lister[h] = "idle"
    /\ clients[current].open
    /\ ~WantsOther(ProxyUrl(cfg))
    /\ asked' = [asked EXCEPT ![h] = ProxyUrl(cfg)]
    /\ HandOver(h, current)
    /\ UNCHANGED <<clients, current, currentProxy, configVars>>

\* Closing a closed client does nothing, and does not wait.
ReplaceClosed(h) ==
    /\ lister[h] = "idle"
    /\ ~clients[current].open
    /\ asked' = [asked EXCEPT ![h] = ProxyUrl(cfg)]
    /\ MakeClient(h, ProxyUrl(cfg))
    /\ UNCHANGED configVars

\* (Mutation) the new proxy is recorded before the old client is closed.
StartRebuildRecorded(h) ==
    /\ lister[h] = "idle"
    /\ clients[current].open
    /\ WantsOther(ProxyUrl(cfg))
    /\ asked' = [asked EXCEPT ![h] = ProxyUrl(cfg)]
    /\ currentProxy' = ProxyUrl(cfg)
    /\ lister' = [lister EXCEPT ![h] = "closing"]
    /\ UNCHANGED <<clients, current, handed, configVars>>

\* aclose() marks the client closed, then waits for its connections.
StartRebuild(h) ==
    /\ lister[h] = "idle"
    /\ clients[current].open
    /\ WantsOther(ProxyUrl(cfg))
    /\ asked' = [asked EXCEPT ![h] = ProxyUrl(cfg)]
    /\ clients' = [clients EXCEPT ![current].open = FALSE]
    /\ lister' = [lister EXCEPT ![h] = "closing"]
    /\ UNCHANGED <<current, currentProxy, handed, configVars>>

FinishRebuild(h) ==
    /\ lister[h] = "closing"
    /\ MakeClient(h, asked[h])
    /\ UNCHANGED <<asked, configVars>>

ClientNext ==
    \/ \E h \in Lister : \/ ReuseClient(h) \/ ReplaceClosed(h)
                         \/ StartRebuild(h) \/ FinishRebuild(h)
    \/ ConfigNext /\ UNCHANGED clientVars

ClientSpec ==
    ConfigInit /\ ClientInit /\ [][ClientNext]_<<configVars, clientVars>>

----------------------------------------------------------------------------
ClientTypeOK ==
    /\ \A i \in DOMAIN clients : clients[i].open \in BOOLEAN
    /\ current \in DOMAIN clients
    /\ lister \in [Lister -> {"idle", "closing", "handed"}]
    /\ handed \in [Lister -> DOMAIN clients \cup {0}]

\* A call is given a client that is open, and that goes through the proxy which
\* the configuration named when the call started, if it named one - also while
\* other calls are rebuilding the client for other proxies (DOCS.md: "Proxy
\* changes take effect immediately for all subsequent requests").
HandedClientFits ==
    [][\A h \in Lister : handed'[h] # handed[h] =>
          /\ clients'[handed'[h]].open
          /\ asked'[h] # NoProxy => clients'[handed'[h]].proxy = asked'[h]
      ]_<<configVars, clientVars>>

=============================================================================
