----------------------------- MODULE ConfigProofs -----------------------------
(***************************************************************************)
(* Proofs about RuntimeConfig, for any update bodies, whatever settings    *)
(* they send and wherever they are refused, and about HttpClient, for any  *)
(* number of calls and of updates between them.                            *)
(***************************************************************************)
EXTENDS HttpClient, SequenceTheorems, TLAPS

-----------------------------------------------------------------------------
(* The configuration *)

\* The limit that the queue will have once the scheduled tasks have run.
LastScheduled ==
    IF pending = <<>> THEN queueLimits.concurrency ELSE pending[Len(pending)]

\* The inductive invariant: QueueFollowsConfig says nothing of a queue with
\* tasks on their way, so the last of them has to be known.
ConfigInv ==
    /\ ConfigTypeOK
    /\ cfg["concurrency"] \in Int
    /\ cfg["max_length"] \in Int
    /\ queueLimits.max = cfg["max_length"]
    /\ LastScheduled = cfg["concurrency"]

\* The settings that the queue and the strategy depend on are settings.
LEMMA SomeSettings ==
    {"max_length", "concurrency", "strategy"} \subseteq Setting
<1>1. Order[1] = "max_length" /\ Order[2] = "concurrency"
      /\ Order[3] = "strategy" /\ {1, 2, 3} \subseteq DOMAIN Order
    BY DEF Order
<1> QED BY <1>1 DEF Setting

\* What is written is what was sent.
LEMMA WrittenWasSent ==
    ASSUME NEW body \in Bodies
    PROVE  Written(body) \subseteq DOMAIN body \cap Setting
BY DEF Written, Setting

\* The process starts with the invariant.
LEMMA ConfigInvInit == ConfigInit => ConfigInv
BY SomeSettings, ConfigAssumption
   DEF ConfigInit, ConfigInv, ConfigTypeOK, LastScheduled

\* Every step preserves it.
LEMMA ConfigInvStep == ConfigInv /\ [ConfigNext]_configVars => ConfigInv'
<1> SUFFICES ASSUME ConfigInv, [ConfigNext]_configVars PROVE ConfigInv'
    OBVIOUS
<1> USE DEF ConfigInv, ConfigTypeOK, LastScheduled
<1>1. ASSUME NEW body \in Bodies, PutConfig(body) PROVE ConfigInv'
    <2>1. Written(body) \subseteq DOMAIN body \cap Setting
        BY WrittenWasSent
    <2>2. cfg' = [s \in Setting |->
                    IF s \in Written(body) THEN body[s] ELSE cfg[s]]
        BY <1>1 DEF PutConfig
    <2>3. cfg'["concurrency"] \in Int /\ cfg'["max_length"] \in Int
        BY <2>1, <2>2, SomeSettings, ConfigAssumption
    <2>4. /\ queueLimits' \in [max : Int, concurrency : Int]
          /\ queueLimits'.max = cfg'["max_length"]
          /\ queueLimits'.concurrency = queueLimits.concurrency
        <3>1. CASE "max_length" \in Written(body)
            <4>1. /\ queueLimits' = [queueLimits EXCEPT
                                        !.max = body["max_length"]]
                  /\ cfg'["max_length"] = body["max_length"]
                BY <1>1, <2>2, <3>1, SomeSettings DEF PutConfig
            <4> QED BY <2>3, <4>1
        <3>2. CASE "max_length" \notin Written(body)
            <4>1. queueLimits' = queueLimits
                  /\ cfg'["max_length"] = cfg["max_length"]
                BY <1>1, <2>2, <3>2, SomeSettings DEF PutConfig
            <4> QED BY <4>1
        <3> QED BY <3>1, <3>2
    <2>5. strategy' \in KnownStrategies \cup {NoStrategy}
        <3>1. CASE "strategy" \in Written(body) /\ ~Refused(body, "strategy")
            BY <1>1, <2>1, <3>1 DEF PutConfig, Refused
        <3>2. CASE ~("strategy" \in Written(body)
                     /\ ~Refused(body, "strategy"))
            BY <1>1, <3>2 DEF PutConfig
        <3> QED BY <3>1, <3>2
    <2>6. /\ pending' \in Seq(Int)
          /\ Len(pending') <= MaxPending
          /\ LastScheduled' = cfg'["concurrency"]
        <3>1. CASE "concurrency" \in Written(body)
            <4>1. body["concurrency"] = cfg'["concurrency"]
                BY <2>2, <3>1, SomeSettings
            <4>2. pending' = Append(pending, cfg'["concurrency"])
                BY <1>1, <3>1, <4>1 DEF PutConfig
            <4>3. Len(pending) < MaxPending
                BY <1>1 DEF PutConfig
            <4> QED BY <2>3, <4>2, <4>3, ConfigAssumption
        <3>2. CASE "concurrency" \notin Written(body)
            <4>1. pending' = pending
                BY <1>1, <3>2 DEF PutConfig
            <4>2. cfg'["concurrency"] = cfg["concurrency"]
                BY <2>2, <3>2, SomeSettings
            <4> QED BY <4>1, <4>2, <2>4
        <3> QED BY <3>1, <3>2
    <2>7. DOMAIN cfg' = Setting
        BY <2>2
    <2> QED BY <2>3, <2>4, <2>5, <2>6, <2>7
<1>2. CASE ApplyConcurrency
    <2>1. pending # <<>> /\ pending' = Tail(pending)
          /\ cfg' = cfg /\ strategy' = strategy
        BY <1>2 DEF ApplyConcurrency
    <2>2. /\ queueLimits' \in [max : Int, concurrency : Int]
          /\ queueLimits'.max = queueLimits.max
          /\ queueLimits'.concurrency = Head(pending)
        BY <1>2, <2>1 DEF ApplyConcurrency
    <2>3. pending \in Seq(Int) /\ Len(pending) \in Nat \ {0}
        BY <2>1
    <2>4. pending' \in Seq(Int) /\ Len(pending') = Len(pending) - 1
        BY <2>1, <2>3
    <2>5. CASE Len(pending) = 1
        <3>1. pending' = <<>> /\ Head(pending) = pending[Len(pending)]
            BY <2>3, <2>4, <2>5
        <3> QED BY <2>1, <2>2, <2>3, <2>4, <3>1, ConfigAssumption
    <2>6. CASE Len(pending) > 1
        <3>1. pending' # <<>>
            BY <2>4, <2>6
        <3>2. pending'[Len(pending')] = pending[Len(pending)]
            BY <2>1, <2>3, <2>4, <2>6
        <3>3. LastScheduled' = LastScheduled
            BY <2>1, <3>1, <3>2
        <3>4. Len(pending') <= MaxPending
            BY <2>3, <2>4, ConfigAssumption
        <3>5. cfg' = cfg /\ strategy' = strategy
            BY <2>1
        <3> HIDE DEF LastScheduled
        <3> QED BY <2>2, <2>4, <3>3, <3>4, <3>5
    <2>7. \A n \in Nat \ {0} : n = 1 \/ n > 1
        OBVIOUS
    <2> QED BY <2>3, <2>5, <2>6, <2>7
<1>3. CASE EnsureStrategy
    BY <1>3 DEF EnsureStrategy
<1>4. CASE UNCHANGED configVars
    BY <1>4 DEF configVars
<1> QED BY <1>1, <1>2, <1>3, <1>4 DEF ConfigNext

\* The settings, the limits and the strategy have their types, and no more tasks
\* are scheduled than the bound allows.
THEOREM ConfigTypeCorrect == ConfigSpec => []ConfigTypeOK
<1>1. ConfigInv => ConfigTypeOK
    BY DEF ConfigInv
<1> QED BY <1>1, ConfigInvInit, ConfigInvStep, PTL DEF ConfigSpec

\* The queue works under the configured limits once the tasks have run.
THEOREM QueueLimitsFollow == ConfigSpec => []QueueFollowsConfig
<1>1. ConfigInv => QueueFollowsConfig
    BY DEF ConfigInv, LastScheduled, QueueFollowsConfig
<1> QED BY <1>1, ConfigInvInit, ConfigInvStep, PTL DEF ConfigSpec

-----------------------------------------------------------------------------
(* The shared client *)

sharedVars == <<configVars, clientVars>>

\* The inductive invariant: what is recorded of the current client's proxy is
\* true, also while it is closed and others wait to replace it.
ClientInv ==
    /\ \E P : clients \in Seq([proxy : P, open : BOOLEAN])
    /\ current \in DOMAIN clients
    /\ clients[current].proxy = currentProxy
    /\ lister \in [Lister -> {"idle", "closing", "handed"}]
    /\ DOMAIN asked = Lister
    /\ DOMAIN handed = Lister

\* The process starts with one client, for the configured proxy.
LEMMA ClientInvInit == ClientInit => ClientInv
<1> SUFFICES ASSUME ClientInit PROVE ClientInv
    OBVIOUS
<1>1. clients \in Seq([proxy : {ProxyUrl(cfg)}, open : BOOLEAN])
    BY DEF ClientInit
<1>2. /\ current \in DOMAIN clients
      /\ clients[current].proxy = currentProxy
    BY DEF ClientInit
<1>3. /\ lister \in [Lister -> {"idle", "closing", "handed"}]
      /\ DOMAIN asked = Lister /\ DOMAIN handed = Lister
    BY DEF ClientInit
<1> QED BY <1>1, <1>2, <1>3 DEF ClientInv

\* A client that is made becomes the current one, and is handed over.
LEMMA MadeClient ==
    ASSUME ClientInv, NEW h \in Lister, NEW url, MakeClient(h, url)
    PROVE  /\ \E P : clients' \in Seq([proxy : P, open : BOOLEAN])
           /\ current' \in DOMAIN clients'
           /\ clients'[current'] = [proxy |-> url, open |-> TRUE]
           /\ currentProxy' = url
           /\ handed' = [handed EXCEPT ![h] = current']
           /\ lister' = [lister EXCEPT ![h] = "handed"]
<1> DEFINE new == [proxy |-> url, open |-> TRUE]
<1>1. PICK P : clients \in Seq([proxy : P, open : BOOLEAN])
    BY DEF ClientInv
<1> DEFINE C == [proxy : P \cup {url}, open : BOOLEAN]
<1>2. new \in C /\ [proxy : P, open : BOOLEAN] \subseteq C
    OBVIOUS
<1>3. clients \in Seq(C)
    BY <1>1, <1>2, SeqMonotonic
<1>4. clients' = Append(clients, new) /\ current' = Len(clients) + 1
    BY DEF MakeClient
<1> HIDE DEF C, new
<1>5. clients' \in Seq(C) /\ Len(clients') = Len(clients) + 1
      /\ clients'[Len(clients) + 1] = new /\ Len(clients) \in Nat
    BY <1>2, <1>3, <1>4
<1>6. current' \in DOMAIN clients'
    BY <1>4, <1>5
<1> QED BY <1>4, <1>5, <1>6 DEF MakeClient, HandOver, C, new

\* What a step hands to a call h is open and fits what h asked for.
FitsNow(h) ==
    /\ clients'[handed'[h]].open
    /\ asked'[h] # NoProxy => clients'[handed'[h]].proxy = asked'[h]

\* It fits whoever made it.
LEMMA MadeAndFits ==
    ASSUME ClientInv, NEW h \in Lister, NEW url, MakeClient(h, url),
           DOMAIN asked' = Lister, asked'[h] = url
    PROVE  /\ ClientInv'
           /\ \A k \in Lister : handed'[k] # handed[k] => FitsNow(k)
<1>1. /\ \E P : clients' \in Seq([proxy : P, open : BOOLEAN])
      /\ current' \in DOMAIN clients'
      /\ clients'[current'] = [proxy |-> url, open |-> TRUE]
      /\ currentProxy' = url
      /\ handed' = [handed EXCEPT ![h] = current']
      /\ lister' = [lister EXCEPT ![h] = "handed"]
    BY MadeClient
<1>2. /\ lister \in [Lister -> {"idle", "closing", "handed"}]
      /\ DOMAIN handed = Lister
    BY DEF ClientInv
<1>3. /\ lister' \in [Lister -> {"idle", "closing", "handed"}]
      /\ DOMAIN handed' = Lister /\ handed'[h] = current'
      /\ \A k \in Lister \ {h} : handed'[k] = handed[k]
    BY <1>1, <1>2
<1>4. clients'[current'].proxy = url /\ clients'[current'].open
    BY <1>1
<1>5. ClientInv'
    BY <1>1, <1>3, <1>4 DEF ClientInv
<1>6. FitsNow(h)
    BY <1>3, <1>4 DEF FitsNow
<1> QED BY <1>3, <1>5, <1>6

\* Every step preserves the invariant and hands over what fits.
LEMMA ClientStep ==
    ClientInv /\ [ClientNext]_sharedVars =>
        /\ ClientInv'
        /\ \A h \in Lister : handed'[h] # handed[h] => FitsNow(h)
<1> SUFFICES ASSUME ClientInv, [ClientNext]_sharedVars
             PROVE  /\ ClientInv'
                    /\ \A h \in Lister : handed'[h] # handed[h] => FitsNow(h)
    OBVIOUS
<1>1. ASSUME NEW h \in Lister, ReuseClient(h)
      PROVE  /\ ClientInv'
             /\ \A k \in Lister : handed'[k] # handed[k] => FitsNow(k)
    <2>1. /\ clients' = clients /\ current' = current
          /\ currentProxy' = currentProxy
          /\ handed' = [handed EXCEPT ![h] = current]
          /\ asked' = [asked EXCEPT ![h] = ProxyUrl(cfg)]
          /\ lister' = [lister EXCEPT ![h] = "handed"]
          /\ clients[current].open
          /\ ~WantsOther(ProxyUrl(cfg))
        BY <1>1 DEF ReuseClient, HandOver
    <2>2. /\ current \in DOMAIN clients
          /\ clients[current].proxy = currentProxy
          /\ lister \in [Lister -> {"idle", "closing", "handed"}]
          /\ DOMAIN asked = Lister /\ DOMAIN handed = Lister
        BY DEF ClientInv
    <2>3. /\ \E P : clients' \in Seq([proxy : P, open : BOOLEAN])
          /\ current' \in DOMAIN clients'
          /\ clients'[current'].proxy = currentProxy'
        BY <2>1 DEF ClientInv
    <2>4. /\ lister' \in [Lister -> {"idle", "closing", "handed"}]
          /\ DOMAIN asked' = Lister /\ DOMAIN handed' = Lister
          /\ asked'[h] = ProxyUrl(cfg) /\ handed'[h] = current
          /\ \A k \in Lister \ {h} : handed'[k] = handed[k]
        BY <2>1, <2>2
    <2>5. FitsNow(h)
        BY <2>1, <2>2, <2>4 DEF FitsNow, WantsOther
    <2>6. ClientInv'
        BY <2>3, <2>4 DEF ClientInv
    <2> QED BY <2>4, <2>5, <2>6
<1>2. ASSUME NEW h \in Lister, ReplaceClosed(h)
      PROVE  /\ ClientInv'
             /\ \A k \in Lister : handed'[k] # handed[k] => FitsNow(k)
    <2>1. /\ MakeClient(h, ProxyUrl(cfg))
          /\ asked' = [asked EXCEPT ![h] = ProxyUrl(cfg)]
        BY <1>2 DEF ReplaceClosed
    <2>2. DOMAIN asked' = Lister /\ asked'[h] = ProxyUrl(cfg)
        BY <2>1 DEF ClientInv
    <2> QED BY <2>1, <2>2, MadeAndFits
<1>3. ASSUME NEW h \in Lister, StartRebuild(h)
      PROVE  /\ ClientInv'
             /\ \A k \in Lister : handed'[k] # handed[k] => FitsNow(k)
    <2>0. current \in DOMAIN clients
        BY DEF ClientInv
    <2>1. PICK P : clients \in Seq([proxy : P, open : BOOLEAN])
        BY DEF ClientInv
    <2> DEFINE closed == [clients[current] EXCEPT !.open = FALSE]
    <2>2. /\ clients' = [clients EXCEPT ![current] = closed]
          /\ current' = current /\ currentProxy' = currentProxy
          /\ handed' = handed
          /\ asked' = [asked EXCEPT ![h] = ProxyUrl(cfg)]
          /\ lister' = [lister EXCEPT ![h] = "closing"]
        BY <1>3 DEF StartRebuild
    <2>3. /\ clients[current] \in [proxy : P, open : BOOLEAN]
          /\ current \in DOMAIN clients
        BY <2>0, <2>1, ElementOfSeq, LenProperties
    <2>4. /\ closed \in [proxy : P, open : BOOLEAN]
          /\ closed.proxy = clients[current].proxy
        BY <2>3
    <2> HIDE DEF closed
    <2>5. /\ clients' \in Seq([proxy : P, open : BOOLEAN])
          /\ DOMAIN clients' = DOMAIN clients
          /\ clients'[current] = closed
        BY <2>1, <2>2, <2>3, <2>4
    <2> QED BY <2>2, <2>4, <2>5 DEF ClientInv
<1>4. ASSUME NEW h \in Lister, FinishRebuild(h)
      PROVE  /\ ClientInv'
             /\ \A k \in Lister : handed'[k] # handed[k] => FitsNow(k)
    <2>1. MakeClient(h, asked[h]) /\ asked' = asked
        BY <1>4 DEF FinishRebuild
    <2>2. DOMAIN asked' = Lister
        BY <2>1 DEF ClientInv
    <2> QED BY <2>1, <2>2, MadeAndFits
<1>5. CASE UNCHANGED clientVars
    BY <1>5 DEF clientVars, ClientInv
<1> QED BY <1>1, <1>2, <1>3, <1>4, <1>5 DEF ClientNext, sharedVars

\* Every client that is handed over is open and goes where it was asked to.
THEOREM HandedClientsFit == ClientSpec => HandedClientFits
<1>1. ClientInv /\ [ClientNext]_sharedVars =>
        [\A h \in Lister : handed'[h] # handed[h] =>
          /\ clients'[handed'[h]].open
          /\ asked'[h] # NoProxy => clients'[handed'[h]].proxy = asked'[h]
        ]_<<configVars, clientVars>>
    BY ClientStep DEF FitsNow
<1>2. ClientSpec => []ClientInv
    BY ClientInvInit, ClientStep, PTL DEF ClientSpec, sharedVars
<1> QED BY <1>1, <1>2, PTL DEF ClientSpec, HandedClientFits, sharedVars

\* Calls have been handed clients that were made.
HandedOK == handed \in [Lister -> DOMAIN clients \cup {0}]

\* Every step leaves them so.
LEMMA HandedStep ==
    ClientInv /\ HandedOK /\ [ClientNext]_sharedVars => HandedOK'
<1> SUFFICES ASSUME ClientInv, HandedOK, [ClientNext]_sharedVars PROVE HandedOK'
    OBVIOUS
<1>0. /\ current \in DOMAIN clients /\ DOMAIN clients = 1..Len(clients)
      /\ Len(clients) \in Nat
    <2>1. PICK P : clients \in Seq([proxy : P, open : BOOLEAN])
        BY DEF ClientInv
    <2> QED BY <2>1 DEF ClientInv
<1>1. ASSUME NEW h \in Lister, NEW url, MakeClient(h, url) PROVE HandedOK'
    <2>1. /\ DOMAIN clients' = 1..(Len(clients) + 1)
          /\ handed' = [handed EXCEPT ![h] = Len(clients) + 1]
        BY <1>0, <1>1 DEF MakeClient, HandOver
    <2>2. /\ DOMAIN clients \subseteq DOMAIN clients'
          /\ Len(clients) + 1 \in DOMAIN clients'
        BY <1>0, <2>1
    <2> QED BY <2>1, <2>2 DEF HandedOK
<1>2. ASSUME NEW h \in Lister, ReuseClient(h) PROVE HandedOK'
    BY <1>0, <1>2 DEF ReuseClient, HandOver, HandedOK
<1>3. ASSUME NEW h \in Lister, StartRebuild(h) PROVE HandedOK'
    <2>1. DOMAIN clients' = DOMAIN clients /\ handed' = handed
        BY <1>3 DEF StartRebuild
    <2> QED BY <2>1 DEF HandedOK
<1>4. CASE UNCHANGED <<clients, handed>>
    BY <1>4 DEF HandedOK
<1> QED BY <1>1, <1>2, <1>3, <1>4
        DEF ClientNext, sharedVars, clientVars, ReplaceClosed, FinishRebuild

\* The clients, and what the calls were handed, have their types.
THEOREM ClientTypeCorrect == ClientSpec => []ClientTypeOK
<1>1. ClientInit => HandedOK
    BY DEF ClientInit, HandedOK
<1>2. ClientInv /\ HandedOK => ClientTypeOK
    <2> SUFFICES ASSUME ClientInv, HandedOK PROVE ClientTypeOK
        OBVIOUS
    <2>1. PICK P : clients \in Seq([proxy : P, open : BOOLEAN])
        BY DEF ClientInv
    <2>2. \A i \in DOMAIN clients : clients[i] \in [proxy : P, open : BOOLEAN]
        BY <2>1, ElementOfSeq, LenProperties
    <2> QED BY <2>2 DEF ClientInv, HandedOK, ClientTypeOK
<1>3. ClientInv /\ [ClientNext]_sharedVars => ClientInv'
    BY ClientStep
<1> QED BY <1>1, <1>2, <1>3, ClientInvInit, HandedStep, PTL
        DEF ClientSpec, sharedVars

=============================================================================
