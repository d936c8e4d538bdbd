--------------------------- MODULE GatewayProofs ---------------------------
(***************************************************************************)
(* Proofs about Gateway: its handlers follow the queue's protocol, so what *)
(* is proved of the queue holds in the gateway; calls in flight are        *)
(* bounded, completions recorded once and requests answered once, for      *)
(* every set of requests, every list of backends and every fault.          *)
(***************************************************************************)
EXTENDS Gateway, PriorityQueueProofs, DataTheorems

\* Every gateway step is a queue step or leaves the queue alone.
LEMMA GatewayStepIsQueueStep == [GatewayNext]_vars => [QueueNext]_queueVars
<1> SUFFICES ASSUME [GatewayNext]_vars PROVE [QueueNext]_queueVars
    OBVIOUS
<1>1. ASSUME NEW r \in Request, HandlerStep(r) PROVE [QueueNext]_queueVars
    <2>1. CASE \/ Refuse(r) \/ NoBackend(r) \/ Admit(r) \/ Retry(r)
               \/ CallReturns(r) \/ CallRaises(r) \/ StreamEnds(r)
               \/ Disconnect(r)
        BY <2>1 DEF Refuse, NoBackend, Admit, Retry, CallReturns, CallRaises,
                    StreamEnds, Disconnect
    <2>2. CASE \/ EnterQueue(r) \/ QueueFull(r) \/ WaitOn(r) \/ QueueTimeout(r)
               \/ StartCall(r) \/ StartWithoutBackend(r) \/ StartStream(r)
               \/ Release(r)
        BY <2>2 DEF EnterQueue, QueueFull, WaitOn, QueueTimeout, StartCall,
                    StartWithoutBackend, StartStream, Release, QueueNext
    <2> QED BY <1>1, <2>1, <2>2 DEF HandlerStep
<1>2. ASSUME NEW r \in Request, CancelRequest(r) PROVE [QueueNext]_queueVars
    BY <1>2 DEF CancelRequest, QueueNext
<1>3. ASSUME UpdateQueueConfig PROVE [QueueNext]_queueVars
    BY <1>3 DEF UpdateQueueConfig, QueueNext
<1>4. ASSUME PoolStep PROVE [QueueNext]_queueVars
    BY <1>4 DEF PoolStep
<1>5. ASSUME UNCHANGED vars PROVE [QueueNext]_queueVars
    BY <1>5 DEF vars
<1> QED BY <1>1, <1>2, <1>3, <1>4, <1>5 DEF GatewayNext

\* Hence a behaviour of the gateway is one of the queue.
LEMMA GatewayUsesQueue == GatewaySpec => QueueSpec
<1>1. GatewayInit => QueueInit
    BY DEF GatewayInit
<1> QED
    BY <1>1, GatewayStepIsQueueStep, PTL
    DEF GatewaySpec, QueueSpec

\* The gateway schedules as the abstract scheduler does: whatever the
\* handlers, probes and faults do, only a best ranked waiting request starts,
\* under the limit and once.
COROLLARY GatewayImplementsScheduler == GatewaySpec => ImplementsScheduler
BY GatewayUsesQueue, QueueImplementsScheduler, PTL

\* What is proved of the queue holds of the gateway's queue: slots and heap
\* entries are accounted for and the front of an idle queue is awake.
COROLLARY GatewayQueueInvariants ==
    GatewaySpec => [](QueueTypeOK /\ SlotAccounting /\ IdleQueueWakesFront)
<1> QED
    BY GatewayUsesQueue, QueueTypeCorrect, SlotsAccountedFor,
       FrontAwakeWhenIdle, PTL

-----------------------------------------------------------------------------
(* What the queue's operations do to the stages *)

\* A waiter may be woken by an operation on another request, nothing else.
Woken(s) == stage'[s] = stage[s] \/ (stage[s] = "asleep" /\ stage'[s] = "woken")

OthersWoken(r) == \A s \in Request \ {r} : Woken(s)

\* Each operation moves its own request and at most wakes the others.
LEMMA StageMoves ==
    ASSUME QueueTypeOK, NEW r \in Request
    PROVE  /\ Enqueue(r) => stage'[r] = "queued" /\ OthersWoken(r)
           /\ RefuseFull(r) => stage'[r] = "refused" /\ OthersWoken(r)
           /\ TakeTurn(r) => stage'[r] = "running" /\ OthersWoken(r)
           /\ Sleep(r) => stage'[r] = "asleep" /\ OthersWoken(r)
           /\ Timeout(r) => stage'[r] = "expired" /\ OthersWoken(r)
           /\ SignalDone(r) => stage'[r] = "done" /\ OthersWoken(r)
<1> USE DEF QueueTypeOK, OthersWoken, Woken
<1>1. ASSUME Enqueue(r) PROVE stage'[r] = "queued" /\ OthersWoken(r)
    <2> DEFINE st == [stage EXCEPT ![r] = "queued"]
    <2>1. st \in [Request -> Stage] /\ stage' = NotifyAll(st)
        BY <1>1 DEF Enqueue, Stage
    <2>2. st[r] = "queued" /\ \A s \in Request \ {r} : st[s] = stage[s]
        OBVIOUS
    <2>3. /\ \A s \in Request : st[s] # "asleep" => stage'[s] = st[s]
          /\ \A s \in Request : st[s] = "asleep" => stage'[s] = "woken"
        BY <2>1, NotifyAllWakes
    <2> HIDE DEF st
    <2> QED BY <2>2, <2>3
<1>2. ASSUME SignalDone(r) PROVE stage'[r] = "done" /\ OthersWoken(r)
    <2> DEFINE st == [stage EXCEPT ![r] = "done"]
    <2>1. st \in [Request -> Stage] /\ stage' = NotifyAll(st)
        BY <1>2 DEF SignalDone, Stage
    <2>2. st[r] = "done" /\ \A s \in Request \ {r} : st[s] = stage[s]
        OBVIOUS
    <2>3. /\ \A s \in Request : st[s] # "asleep" => stage'[s] = st[s]
          /\ \A s \in Request : st[s] = "asleep" => stage'[s] = "woken"
        BY <2>1, NotifyAllWakes
    <2> HIDE DEF st
    <2> QED BY <2>2, <2>3
<1>3. /\ RefuseFull(r) => stage'[r] = "refused" /\ OthersWoken(r)
      /\ TakeTurn(r) => stage'[r] = "running" /\ OthersWoken(r)
      /\ Sleep(r) => stage'[r] = "asleep" /\ OthersWoken(r)
      /\ Timeout(r) => stage'[r] = "expired" /\ OthersWoken(r)
    BY DEF RefuseFull, TakeTurn, Sleep, Timeout
<1> QED BY <1>1, <1>2, <1>3

\* cancel() and the limit updates move nobody.
LEMMA StageWakesOnly ==
    ASSUME QueueTypeOK,
           \/ \E r \in Request : Cancel(r)
           \/ \E n \in MaxSizes : UpdateMaxSize(n)
           \/ \E n \in Concurrencies : UpdateConcurrency(n)
    PROVE  \A s \in Request : Woken(s)
<1>1. stage' = NotifyAll(stage) \/ stage' = stage
    BY DEF Cancel, UpdateMaxSize, UpdateConcurrency
<1> QED BY <1>1, NotifyAllWakes DEF Woken, QueueTypeOK

-----------------------------------------------------------------------------
(* Where a handler stands, its stage, its answer and its record agree *)

HandlerTypeOK ==
    /\ handler \in [Request -> Handler]
    /\ answer \in [Request -> Int]
    /\ recorded \in [Request -> Nat]

StageAgrees(r) ==
    /\ handler[r] \in {"arrived", "admitted"} => stage[r] = "new"
    /\ handler[r] = "waiting" => stage[r] \in {"queued", "asleep", "woken"}
    /\ handler[r] \in {"calling", "streaming", "releasing"} =>
          stage[r] = "running"

AnswerAgrees(r) ==
    /\ handler[r] \in {"arrived", "admitted", "waiting", "calling"} =>
          answer[r] = 0
    /\ handler[r] = "calling" => r \notin Streamed
    /\ handler[r] = "streaming" => r \in Streamed
    /\ handler[r] = "releasing" /\ r \notin Streamed => answer[r] = 0
    /\ handler[r] \in {"streaming", "releasing"} /\ r \in Streamed =>
          answer[r] # 0
    /\ stage[r] \in {"refused", "expired", "done"} => answer[r] # 0

RecordAgrees(r) == recorded[r] = IF stage[r] = "done" THEN 1 ELSE 0

Agrees(r) == StageAgrees(r) /\ AnswerAgrees(r) /\ RecordAgrees(r)

HandlerInv == HandlerTypeOK /\ \A r \in Request : Agrees(r)

\* A handler that does not move keeps agreeing when it is woken.
LEMMA AgreesUnmoved ==
    ASSUME NEW s \in Request, Agrees(s), Woken(s), handler'[s] = handler[s],
           answer'[s] = answer[s], recorded'[s] = recorded[s]
    PROVE  Agrees(s)'
BY DEF Agrees, StageAgrees, AnswerAgrees, RecordAgrees, Woken

\* A step of one handler leaves the bookkeeping of the others alone.
LEMMA OthersUnmoved ==
    ASSUME QueueTypeOK, HandlerInv, NEW r \in Request, HandlerStep(r)
    PROVE  /\ HandlerTypeOK'
           /\ \A s \in Request \ {r} :
                 /\ handler'[s] = handler[s]
                 /\ answer'[s] = answer[s]
                 /\ recorded'[s] = recorded[s]
                 /\ Woken(s)
<1> USE DEF HandlerInv, HandlerTypeOK, Handler, GoTo, AnswerWith, handlerVars
<1> DEFINE Kept == \A s \in Request \ {r} : /\ handler'[s] = handler[s]
                                            /\ answer'[s] = answer[s]
                                            /\ recorded'[s] = recorded[s]
<1>1. ASSUME Refuse(r) PROVE HandlerTypeOK' /\ Kept
    <2>1. PICK code \in Refusals : AnswerWith(r, code)
        BY <1>1 DEF Refuse
    <2>2. code \in Int
        BY GatewayAssumption
    <2> QED BY <1>1, <2>1, <2>2 DEF Refuse
<1>2. ASSUME EnterQueue(r) \/ QueueFull(r) \/ QueueTimeout(r)
      PROVE  HandlerTypeOK' /\ Kept
    BY <1>2 DEF EnterQueue, QueueFull, QueueTimeout
<1>3. ASSUME Admit(r) \/ WaitOn(r) \/ Disconnect(r)
      PROVE  HandlerTypeOK' /\ Kept
    BY <1>3 DEF Admit, WaitOn, Disconnect
<1>4. ASSUME StartCall(r) \/ StartWithoutBackend(r)
      PROVE  HandlerTypeOK' /\ Kept
    BY <1>4 DEF StartCall, StartWithoutBackend
<1>5. ASSUME NoBackend(r) \/ StartStream(r) \/ CallRaises(r)
      PROVE  HandlerTypeOK' /\ Kept
    <2>1. handler' = [handler EXCEPT ![r] = handler'[r]]
          /\ handler'[r] \in Handler /\ recorded' = recorded
        BY <1>5 DEF NoBackend, StartStream, CallRaises
    <2>2. \E code \in Int : AnswerWith(r, code)
        BY <1>5 DEF NoBackend, StartStream, CallRaises
    <2> QED BY <2>1, <2>2
<1>6. ASSUME Retry(r) PROVE HandlerTypeOK' /\ Kept
    BY <1>6 DEF Retry
<1>7. ASSUME CallReturns(r) \/ StreamEnds(r) PROVE HandlerTypeOK' /\ Kept
    BY <1>7 DEF CallReturns, StreamEnds
<1>8. ASSUME Release(r) PROVE HandlerTypeOK' /\ Kept
    BY <1>8 DEF Release
<1>9. HandlerTypeOK' /\ Kept
    BY <1>1, <1>2, <1>3, <1>4, <1>5, <1>6, <1>7, <1>8 DEF HandlerStep
<1>10. \A s \in Request \ {r} : Woken(s)
    <2>1. CASE \/ Refuse(r) \/ NoBackend(r) \/ Admit(r) \/ Retry(r)
               \/ CallReturns(r) \/ CallRaises(r) \/ StreamEnds(r)
               \/ Disconnect(r)
        BY <2>1 DEF Refuse, NoBackend, Admit, Retry, CallReturns, CallRaises,
                    StreamEnds, Disconnect, queueVars, Woken
    <2>2. CASE \/ EnterQueue(r) \/ QueueFull(r) \/ WaitOn(r) \/ QueueTimeout(r)
               \/ StartCall(r) \/ StartWithoutBackend(r) \/ StartStream(r)
               \/ Release(r)
        BY <2>2, StageMoves
        DEF EnterQueue, QueueFull, WaitOn, QueueTimeout, StartCall,
            StartWithoutBackend, StartStream, Release, OthersWoken
    <2> QED BY <2>1, <2>2 DEF HandlerStep
<1> QED BY <1>9, <1>10

\* The handler that takes the step keeps agreeing with its own bookkeeping.
LEMMA MoverAgrees ==
    ASSUME QueueTypeOK, HandlerInv, NEW r \in Request, HandlerStep(r)
    PROVE  Agrees(r)'
<1> USE DEF Agrees, StageAgrees, AnswerAgrees, RecordAgrees, HandlerInv,
            HandlerTypeOK, GoTo, AnswerWith, handlerVars
<1>1. ASSUME Refuse(r) PROVE Agrees(r)'
    BY <1>1 DEF Refuse, queueVars
<1>2. ASSUME NoBackend(r) PROVE Agrees(r)'
    BY <1>2 DEF NoBackend, queueVars
<1>3. ASSUME Admit(r) PROVE Agrees(r)'
    BY <1>3 DEF Admit, queueVars
<1>4. ASSUME EnterQueue(r) PROVE Agrees(r)'
    BY <1>4, StageMoves DEF EnterQueue
<1>5. ASSUME QueueFull(r) PROVE Agrees(r)'
    BY <1>5, StageMoves DEF QueueFull
<1>6. ASSUME WaitOn(r) PROVE Agrees(r)'
    BY <1>6, StageMoves DEF WaitOn
<1>7. ASSUME QueueTimeout(r) PROVE Agrees(r)'
    BY <1>7, StageMoves DEF QueueTimeout
<1>8. ASSUME StartCall(r) PROVE Agrees(r)'
    BY <1>8, StageMoves DEF StartCall
<1>9. ASSUME StartWithoutBackend(r) PROVE Agrees(r)'
    BY <1>9, StageMoves DEF StartWithoutBackend
<1>10. ASSUME StartStream(r) PROVE Agrees(r)'
    BY <1>10, StageMoves DEF StartStream
<1>11. ASSUME Retry(r) PROVE Agrees(r)'
    BY <1>11 DEF Retry, queueVars
<1>12. ASSUME CallReturns(r) PROVE Agrees(r)'
    BY <1>12 DEF CallReturns, queueVars
<1>13. ASSUME CallRaises(r) PROVE Agrees(r)'
    BY <1>13 DEF CallRaises, queueVars
<1>14. ASSUME StreamEnds(r) PROVE Agrees(r)'
    BY <1>14 DEF StreamEnds, queueVars
<1>15. ASSUME Disconnect(r) PROVE Agrees(r)'
    BY <1>15 DEF Disconnect, queueVars
<1>16. ASSUME Release(r) PROVE Agrees(r)'
    BY <1>16, StageMoves DEF Release
<1> QED
    BY <1>1, <1>2, <1>3, <1>4, <1>5, <1>6, <1>7, <1>8, <1>9, <1>10, <1>11,
       <1>12, <1>13, <1>14, <1>15, <1>16 DEF HandlerStep

\* Every step of the gateway preserves the agreement of all handlers.
LEMMA HandlerInvStep ==
    QueueTypeOK /\ HandlerInv /\ [GatewayNext]_vars => HandlerInv'
<1> SUFFICES ASSUME QueueTypeOK, HandlerInv, [GatewayNext]_vars
             PROVE  HandlerInv'
    OBVIOUS
<1>1. ASSUME NEW r \in Request, HandlerStep(r) PROVE HandlerInv'
    <2>1. ASSUME NEW s \in Request PROVE Agrees(s)'
        <3>1. CASE s = r
            BY <1>1, <3>1, MoverAgrees
        <3>2. CASE s # r
            BY <1>1, <3>2, OthersUnmoved, AgreesUnmoved DEF HandlerInv
        <3> QED BY <3>1, <3>2
    <2> QED BY <1>1, <2>1, OthersUnmoved DEF HandlerInv
<1>2. ASSUME \A s \in Request : Woken(s), UNCHANGED handlerVars
      PROVE  HandlerInv'
    BY <1>2, AgreesUnmoved DEF HandlerInv, HandlerTypeOK, handlerVars
<1>3. ASSUME NEW r \in Request, CancelRequest(r) PROVE HandlerInv'
    BY <1>2, <1>3, StageWakesOnly DEF CancelRequest
<1>4. ASSUME UpdateQueueConfig PROVE HandlerInv'
    BY <1>2, <1>4, StageWakesOnly DEF UpdateQueueConfig
<1>5. ASSUME PoolStep \/ UNCHANGED vars PROVE HandlerInv'
    BY <1>2, <1>5 DEF PoolStep, vars, queueVars, Woken
<1> QED BY <1>1, <1>3, <1>4, <1>5 DEF GatewayNext

\* Where the handlers stand, their stages in the queue, their answers and their
\* records agree in every reachable state.
THEOREM HandlersAgree == GatewaySpec => []HandlerInv
<1>1. GatewayInit => HandlerInv
    BY DEF GatewayInit, QueueInit, HandlerInv, HandlerTypeOK, Handler, Agrees,
           StageAgrees, AnswerAgrees, RecordAgrees
<1> QED
    BY <1>1, GatewayQueueInvariants, HandlerInvStep, PTL DEF GatewaySpec

-----------------------------------------------------------------------------

\* _record_completion() runs exactly once for the requests that gave their
\* slot back and for no other, and whoever left the queue was answered.
THEOREM CompletionsRecorded == GatewaySpec => []CompletionRecorded
<1>1. HandlerInv => CompletionRecorded
    BY DEF HandlerInv, Agrees, AnswerAgrees, RecordAgrees, CompletionRecorded
<1> QED BY <1>1, HandlersAgree, PTL

\* No answer is followed by another one.
THEOREM AnswersStand == GatewaySpec => AnsweredOnce
<1> DEFINE Stands == \A r \in Request : answer[r] # 0 => answer'[r] = answer[r]
<1>1. QueueTypeOK /\ HandlerInv /\ [GatewayNext]_vars => [Stands]_vars
    <2> SUFFICES ASSUME QueueTypeOK, HandlerInv, GatewayNext,
                        NEW s \in Request, answer[s] # 0
                 PROVE  answer'[s] = answer[s]
        OBVIOUS
    <2>1. ASSUME NEW r \in Request, HandlerStep(r) PROVE answer'[s] = answer[s]
        <3>1. CASE s # r
            BY <2>1, <3>1, OthersUnmoved
        <3>2. CASE s = r
            <4>1. /\ handler[r] \notin {"arrived", "admitted", "waiting", "calling"}
                  /\ handler[r] = "releasing" => r \in Streamed
                BY <3>2 DEF HandlerInv, Agrees, AnswerAgrees
            <4>2. StreamEnds(r) \/ Disconnect(r) \/ Release(r)
                BY <2>1, <4>1
                DEF HandlerStep, Refuse, NoBackend, Admit, EnterQueue,
                    QueueFull, WaitOn, QueueTimeout, StartCall,
                    StartWithoutBackend, StartStream, Retry, CallReturns,
                    CallRaises, GoTo
            <4> QED BY <3>2, <4>1, <4>2 DEF StreamEnds, Disconnect, Release, GoTo
        <3> QED BY <3>1, <3>2
    <2>2. ASSUME NEW r \in Request, CancelRequest(r) PROVE answer'[s] = answer[s]
        BY <2>2 DEF CancelRequest, handlerVars
    <2>3. ASSUME UpdateQueueConfig \/ PoolStep PROVE answer'[s] = answer[s]
        BY <2>3 DEF UpdateQueueConfig, PoolStep, handlerVars
    <2> QED BY <2>1, <2>2, <2>3 DEF GatewayNext
<1> QED
    BY <1>1, GatewayQueueInvariants, HandlersAgree, PTL
    DEF GatewaySpec, AnsweredOnce

-----------------------------------------------------------------------------
(* The load on the backends *)

\* The slots in use never exceed the largest limit ever configured.
SlotsBounded ==
    processing # {} => \E n \in Concurrencies : Cardinality(processing) <= n

\* A slot is only taken below the current limit; other steps free slots or
\* leave them.
LEMMA SlotsBoundedStep ==
    QueueTypeOK /\ SlotsBounded /\ [QueueNext]_queueVars => SlotsBounded'
<1> SUFFICES ASSUME QueueTypeOK, SlotsBounded, [QueueNext]_queueVars
             PROVE  SlotsBounded'
    OBVIOUS
<1> USE DEF SlotsBounded
<1>1. IsFiniteSet(processing)
    BY FS_Subset, QueueAssumption DEF QueueTypeOK
<1>2. Cardinality(processing) \in Nat
    BY <1>1, FS_CardinalityType
<1>3. ASSUME NEW r \in Request, TakeTurn(r) PROVE SlotsBounded'
    <2>1. maxConcurrency \in Int /\ maxConcurrency \in Concurrencies
        BY QueueAssumption DEF QueueTypeOK
    <2>2. Cardinality(processing) < maxConcurrency
        BY <1>3 DEF TakeTurn, HasTurn
    <2>3. Cardinality(processing \cup {r}) <= Cardinality(processing) + 1
        BY <1>1, <1>2, FS_AddElement
    <2>4. Cardinality(processing \cup {r}) \in Nat
        BY <1>1, FS_AddElement, FS_CardinalityType
    <2>5. Cardinality(processing \cup {r}) <= maxConcurrency
        BY <1>2, <2>1, <2>2, <2>3, <2>4
    <2> QED BY <1>3, <2>1, <2>5 DEF TakeTurn
<1>4. ASSUME NEW r \in Request, SignalDone(r) PROVE SlotsBounded'
    <2>1. Cardinality(processing \ {r}) <= Cardinality(processing)
          /\ Cardinality(processing \ {r}) \in Nat
        BY <1>1, FS_Subset, FS_CardinalityType
    <2>2. SUFFICES ASSUME processing \ {r} # {}
                   PROVE  \E n \in Concurrencies :
                              Cardinality(processing \ {r}) <= n
        BY <1>4 DEF SignalDone
    <2>3. PICK n \in Concurrencies : Cardinality(processing) <= n
        BY <2>2
    <2> QED BY <1>2, <2>1, <2>3, QueueAssumption
<1>5. ASSUME NEW r \in Request,
             \/ Enqueue(r) \/ RefuseFull(r) \/ Sleep(r) \/ Timeout(r)
             \/ Cancel(r)
      PROVE  SlotsBounded'
    BY <1>5 DEF Enqueue, RefuseFull, Sleep, Timeout, Cancel
<1>6. ASSUME \/ \E n \in MaxSizes : UpdateMaxSize(n)
             \/ \E n \in Concurrencies : UpdateConcurrency(n)
      PROVE  SlotsBounded'
    BY <1>6 DEF UpdateMaxSize, UpdateConcurrency
<1>7. ASSUME UNCHANGED queueVars PROVE SlotsBounded'
    BY <1>7 DEF queueVars
<1> QED BY <1>3, <1>4, <1>5, <1>6, <1>7 DEF QueueNext

\* A call or a stream is only in flight while its request holds a slot, so the
\* backends never see more of them than the largest limit allows, whatever
\* retries, raised calls and abandoned streams there are.
THEOREM LoadStaysBounded == GatewaySpec => []LoadBounded
<1>1. GatewaySpec => []SlotsBounded
    <2>1. GatewayInit => SlotsBounded
        BY DEF GatewayInit, QueueInit, SlotsBounded
    <2> QED
        BY <2>1, GatewayQueueInvariants, GatewayStepIsQueueStep,
           SlotsBoundedStep, PTL DEF GatewaySpec
<1>2. QueueTypeOK /\ SlotAccounting /\ HandlerInv /\ SlotsBounded => LoadBounded
    <2> SUFFICES ASSUME QueueTypeOK, SlotAccounting, HandlerInv, SlotsBounded,
                        InCall # {}
                 PROVE  \E n \in Concurrencies : Cardinality(InCall) <= n
        BY DEF LoadBounded
    <2>1. InCall \subseteq processing
        BY DEF InCall, HandlerInv, Agrees, StageAgrees, SlotAccounting
    <2>2. IsFiniteSet(processing)
        BY FS_Subset, QueueAssumption DEF QueueTypeOK
    <2>3. Cardinality(InCall) <= Cardinality(processing)
          /\ Cardinality(InCall) \in Nat /\ Cardinality(processing) \in Nat
        BY <2>1, <2>2, FS_Subset, FS_CardinalityType
    <2>4. PICK n \in Concurrencies : Cardinality(processing) <= n
        BY <2>1 DEF SlotsBounded
    <2> QED BY <2>3, <2>4, QueueAssumption
<1> QED BY <1>1, <1>2, GatewayQueueInvariants, HandlersAgree, PTL

-----------------------------------------------------------------------------
(* The backends *)

\* The lists of backends are lists, of known urls.
LEMMA BackendLists ==
    ASSUME PoolTypeOK
    PROVE  /\ Len(backends) \in Nat /\ Len(probed) \in Nat
           /\ \A i \in 1..Len(backends) : backends[i].url \in Url
<1>1. backends \in Configurations \cup Replacements
      /\ probed \in Configurations \cup Replacements
    BY DEF PoolTypeOK
<1>2. \A list \in Configurations \cup Replacements :
          /\ list \in Seq({list[i] : i \in DOMAIN list})
          /\ \A i \in DOMAIN list : list[i].url \in Url
    BY PoolAssumption
<1>3. ASSUME NEW list \in Configurations \cup Replacements
      PROVE  Len(list) \in Nat /\ \A i \in 1..Len(list) : list[i].url \in Url
    <2> DEFINE T == {list[i] : i \in DOMAIN list}
    <2>1. list \in Seq(T)
        BY <1>2
    <2> HIDE DEF T
    <2>2. Len(list) \in Nat /\ DOMAIN list = 1..Len(list)
        BY <2>1
    <2> QED BY <1>2, <2>2
<1> QED BY <1>1, <1>3

\* The loop of _select_backend collects backends outside of exclude only.
LEMMA EligibleElements ==
    ASSUME PoolTypeOK, NEW protocol, NEW model, NEW exclude
    PROVE  \E B : /\ Eligible(protocol, model, exclude) \in Seq(B)
                  /\ \A b \in B : b.url \in Url \ exclude
<1> DEFINE fits(b) == /\ b.url \notin exclude
                      /\ b.enabled
                      /\ protocol \in b.protocols
                      /\ IsHealthy(b.url)
                      /\ Serves(b, model)
           n    == Len(backends)
           keep == {i \in 1..n : fits(backends[i])}
           B    == {backends[i] : i \in keep}
           Loops(f) == f = [i \in 0..n |->
                              IF i = 0 THEN <<>>
                              ELSE IF fits(backends[i])
                                   THEN Append(f[i - 1], backends[i])
                              ELSE f[i - 1]]
           f == CHOOSE g : Loops(g)
<1>1. n \in Nat /\ \A i \in 1..n : backends[i].url \in Url
    BY BackendLists
<1>2. Eligible(protocol, model, exclude) = f[n]
    BY DEF Eligible
<1>3. \A g : Loops(g) <=> Collects(g, backends, keep, n)
    <2> SUFFICES ASSUME NEW g
                 PROVE  Loops(g) <=> Collects(g, backends, keep, n)
        OBVIOUS
    <2>1. \A i \in 0..n : i # 0 => (fits(backends[i]) <=> i \in keep)
        BY <1>1
    <2> HIDE DEF fits, keep
    <2> QED BY <2>1 DEF Collects
<1>4. \E g : Loops(g)
    <2>1. \E g : Collects(g, backends, keep, n)
        <3> HIDE DEF keep, n
        <3> QED BY <1>1, CollectExists
    <2> HIDE DEF Loops, keep, n
    <2> QED BY <1>3, <2>1
<1>5. Collects(f, backends, keep, n)
    <2>1. Loops(f)
        <3> HIDE DEF Loops
        <3> QED BY <1>4
    <2> HIDE DEF Loops, f, keep, n
    <2> QED BY <1>3, <2>1
<1>6. f[n] \in Seq(B)
    <2>1. \A i \in 1..n : i \in keep => backends[i] \in B
        OBVIOUS
    <2> HIDE DEF f, keep, n, B
    <2> QED BY <1>1, <1>5, <2>1, CollectedElements
<1>7. \A b \in B : b.url \in Url \ exclude
    BY <1>1
<1> QED BY <1>2, <1>6, <1>7

\* Whatever the index, the selection designates an element of the list, and
\* leaves an index behind.
LEMMA PickedIsEligible ==
    ASSUME PoolTypeOK, NEW protocol \in Protocol, NEW model, NEW exclude,
           Eligible(protocol, model, exclude) # <<>>
    PROVE  LET list == Eligible(protocol, model, exclude)
           IN  /\ Pick(protocol, list) \in Url \ exclude
               /\ Advance(protocol, list) => indices' \in [Protocol -> Nat]
<1> DEFINE list == Eligible(protocol, model, exclude)
           k == indices[protocol]
<1>1. PICK B : list \in Seq(B) /\ \A b \in B : b.url \in Url \ exclude
    BY EligibleElements
<1>2. k \in Nat /\ indices \in [Protocol -> Nat]
    BY DEF PoolTypeOK
<1> HIDE DEF list
<1>3. Len(list) \in Nat \ {0}
    BY <1>1, EmptySeq DEF list
<1>4. k % Len(list) \in 0..(Len(list) - 1)
    BY <1>2, <1>3
<1>5. (k % Len(list)) + 1 \in 1..Len(list)
    BY <1>3, <1>4
<1>6. list[(k % Len(list)) + 1] \in B
    BY <1>1, <1>5, ElementOfSeq
<1>7. Pick(protocol, list) \in Url \ exclude
    BY <1>1, <1>6 DEF Pick, Position
<1>8. Advance(protocol, list) => indices' \in [Protocol -> Nat]
    BY <1>2, <1>4 DEF Advance, Position
<1> QED BY <1>7, <1>8 DEF list

\* Probes and replacements of the list keep the types of the pool.
LEMMA PoolTypeStep == PoolTypeOK /\ [PoolNext]_poolVars => PoolTypeOK'
<1> SUFFICES ASSUME PoolTypeOK, [PoolNext]_poolVars PROVE PoolTypeOK'
    OBVIOUS
<1> USE DEF PoolTypeOK
<1>1. CASE Probe
    <2>1. probed # <<>> /\ Len(probed) \in Nat
        BY <1>1, BackendLists DEF Probe
    <2>2. failCount' \in [Url -> 0..FailThreshold]
        <3>1. FailThreshold \in Nat \ {0}
            BY PoolAssumption
        <3>2. ASSUME NEW url, NEW success, Mark(url, success)
              PROVE  failCount' \in [Url -> 0..FailThreshold]
            <4> DEFINE n == IF success THEN 0
                            ELSE IF failCount[url] < FailThreshold
                                 THEN failCount[url] + 1 ELSE FailThreshold
            <4>1. failCount' = [failCount EXCEPT ![url] = n]
                BY <3>2 DEF Mark
            <4>2. url \in Url => n \in 0..FailThreshold
                BY <3>1
            <4> HIDE DEF n
            <4> QED BY <4>1, <4>2
        <3> QED BY <1>1, <3>2 DEF Probe
    <2>3. cursor' \in 1..(Len(probed) + 1)
        <3>1. Len(probed) # 0
            <4>1. probed \in Seq({probed[i] : i \in DOMAIN probed})
                BY PoolAssumption
            <4> QED BY <2>1, <4>1, EmptySeq
        <3>2. cursor % Len(probed) \in 0..(Len(probed) - 1)
            BY <2>1, <3>1
        <3> QED BY <1>1, <2>1, <3>2 DEF Probe
    <2> QED BY <1>1, <2>2, <2>3 DEF Probe
<1>2. ASSUME NEW list \in Replacements, ReplaceBackends(list)
      PROVE  PoolTypeOK'
    BY <1>2 DEF ReplaceBackends
<1>3. CASE UNCHANGED poolVars
    BY <1>3 DEF poolVars
<1> QED BY <1>1, <1>2, <1>3 DEF PoolNext

-----------------------------------------------------------------------------
(* The calls *)

\* Requests before their turn have called nobody, and one that has a context has
\* a backend: with these, GatewayTypeOK and AttemptsDistinct are inductive.
CallsInv ==
    /\ GatewayTypeOK
    /\ AttemptsDistinct
    /\ \A r \in Request :
          /\ handler[r] \in {"arrived", "admitted", "waiting"} =>
                calls[r] = <<>>
          /\ handler[r] \in {"admitted", "waiting"} => selected[r] \in Url

\* A step of one handler that calls at most one more backend, and one that it
\* has not called yet, preserves the invariant.
LEMMA CallsKept ==
    ASSUME CallsInv, QueueTypeOK', PoolTypeOK', NEW r \in Request,
           NEW h \in Handler, handler' = [handler EXCEPT ![r] = h],
           selected' = selected,
           answer' \in [Request -> AnswerCodes],
           response' \in [Request -> Outcomes \cup {0}],
           recorded' \in [Request -> Nat],
           NEW url \in Url, calls' = [calls EXCEPT ![r] = Append(@, url)],
           \A i \in 1..Len(calls[r]) : calls[r][i] # url,
           Len(calls[r]) < IF r \in Streamed THEN 1 ELSE MaxRetries + 1,
           h \notin {"arrived", "admitted", "waiting"}
    PROVE  CallsInv'
<1> DEFINE old == calls[r]
           new == Append(old, url)
<1>1. old \in Seq(Url) /\ Len(old) \in Nat
    BY DEF CallsInv, GatewayTypeOK
<1>2. /\ new \in Seq(Url) /\ Len(new) = Len(old) + 1
      /\ \A i \in 1..Len(old) : new[i] = old[i]
      /\ new[Len(old) + 1] = url
    BY <1>1, AppendProperties
<1>3. /\ calls' \in [Request -> Seq(Url)] /\ calls'[r] = new
      /\ \A s \in Request \ {r} : calls'[s] = calls[s]
    BY <1>2 DEF CallsInv, GatewayTypeOK
<1>4. /\ \A i, j \in 1..Len(old) : old[i] = old[j] => i = j
      /\ \A i \in 1..Len(old) : old[i] # url
    BY DEF CallsInv, AttemptsDistinct
<1>5. \A i \in 1..Len(new) : i \in 1..Len(old) \/ i = Len(old) + 1
    BY <1>1, <1>2
<1> HIDE DEF new, old
<1>6. \A i, j \in 1..Len(new) : new[i] = new[j] => i = j
    <2> SUFFICES ASSUME NEW i \in 1..Len(new), NEW j \in 1..Len(new),
                        new[i] = new[j]
                 PROVE  i = j
        OBVIOUS
    <2>1. CASE i \in 1..Len(old) /\ j \in 1..Len(old)
        BY <1>2, <1>4, <2>1
    <2>2. CASE i = Len(old) + 1 \/ j = Len(old) + 1
        BY <1>2, <1>4, <1>5, <2>2
    <2> QED BY <1>5, <2>1, <2>2
<1>7. Len(new) <= IF r \in Streamed THEN 1 ELSE MaxRetries + 1
    BY <1>1, <1>2 DEF old, MaxRetries
<1>8. AttemptsDistinct'
    BY <1>3, <1>6, <1>7 DEF AttemptsDistinct, CallsInv, MaxRetries
<1>9. GatewayTypeOK'
    BY <1>3 DEF GatewayTypeOK, CallsInv
<1>10. handler'[r] = h /\ \A s \in Request \ {r} : handler'[s] = handler[s]
    BY DEF CallsInv, GatewayTypeOK
<1> QED BY <1>3, <1>8, <1>9, <1>10 DEF CallsInv

\* Every step of the gateway preserves the invariant about calls.
LEMMA CallsInvStep ==
    /\ QueueTypeOK' /\ HandlerInv /\ HandlerInv' /\ CallsInv
    /\ [GatewayNext]_vars
    => CallsInv'
<1> SUFFICES ASSUME QueueTypeOK', HandlerInv, HandlerInv', CallsInv,
                    [GatewayNext]_vars
             PROVE  CallsInv'
    OBVIOUS
<1>0. PoolTypeOK /\ QueueTypeOK /\ GatewayTypeOK
    BY DEF CallsInv, GatewayTypeOK
\* Steps that call nobody and choose no backend.
<1>1. ASSUME UNCHANGED <<selected, calls>>, PoolTypeOK',
             answer' \in [Request -> AnswerCodes],
             response' \in [Request -> Outcomes \cup {0}],
             \A r \in Request :
                /\ handler'[r] \in {"arrived", "admitted", "waiting"} =>
                      handler[r] \in {"arrived", "admitted", "waiting"}
                /\ handler'[r] \in {"admitted", "waiting"} =>
                      handler[r] \in {"admitted", "waiting"}
      PROVE  CallsInv'
    BY <1>1 DEF CallsInv, GatewayTypeOK, AttemptsDistinct, HandlerInv,
                HandlerTypeOK
<1>2. UNCHANGED poolVars => PoolTypeOK'
    BY <1>0 DEF poolVars, PoolTypeOK
<1> USE DEF GoTo, AnswerWith
<1>3. ASSUME NEW r \in Request,
             \/ Refuse(r) \/ NoBackend(r) \/ EnterQueue(r) \/ QueueFull(r)
             \/ WaitOn(r) \/ QueueTimeout(r) \/ StartWithoutBackend(r)
             \/ CallRaises(r) \/ StreamEnds(r) \/ CallReturns(r)
             \/ Disconnect(r) \/ Release(r)
      PROVE  CallsInv'
    <2>1. UNCHANGED <<selected, calls, poolVars>>
        BY <1>3 DEF Refuse, NoBackend, EnterQueue, QueueFull, WaitOn,
                    QueueTimeout, StartWithoutBackend, CallRaises, StreamEnds,
                    CallReturns, Disconnect, Release, handlerVars
    <2>2. answer' \in [Request -> AnswerCodes]
        <3>0. /\ answer \in [Request -> AnswerCodes]
              /\ Refusals \subseteq AnswerCodes
              /\ 200 \in AnswerCodes /\ 408 \in AnswerCodes
              /\ 429 \in AnswerCodes /\ 500 \in AnswerCodes
              /\ 502 \in AnswerCodes
            BY <1>0 DEF GatewayTypeOK, AnswerCodes
        <3>2. CASE Refuse(r)
            BY <3>0, <3>2 DEF Refuse
        <3>3. CASE NoBackend(r) \/ QueueFull(r) \/ QueueTimeout(r)
                   \/ CallRaises(r)
            BY <3>0, <3>3 DEF NoBackend, QueueFull, QueueTimeout, CallRaises
        <3>4. CASE Release(r) /\ r \notin Streamed
            BY <3>0, <3>4 DEF Release
        <3>5. CASE \/ EnterQueue(r) \/ WaitOn(r) \/ StartWithoutBackend(r)
                   \/ StreamEnds(r) \/ CallReturns(r) \/ Disconnect(r)
                   \/ Release(r) /\ r \in Streamed
            <4>1. answer' = answer
                BY <3>5 DEF EnterQueue, WaitOn, StartWithoutBackend,
                            StreamEnds, CallReturns, Disconnect, Release,
                            handlerVars
            <4> QED BY <3>0, <4>1
        <3> QED BY <1>3, <3>2, <3>3, <3>4, <3>5
    <2>3. response' \in [Request -> Outcomes \cup {0}]
        BY <1>0, <1>3
           DEF Refuse, NoBackend, EnterQueue, QueueFull, WaitOn,
               QueueTimeout, StartWithoutBackend, CallRaises, StreamEnds,
               CallReturns, Disconnect, Release, handlerVars, GatewayTypeOK
    <2>4. \A s \in Request :
             /\ handler'[s] \in {"arrived", "admitted", "waiting"} =>
                   handler[s] \in {"arrived", "admitted", "waiting"}
             /\ handler'[s] \in {"admitted", "waiting"} =>
                   handler[s] \in {"admitted", "waiting"}
        BY <1>0, <1>3
           DEF Refuse, NoBackend, EnterQueue, QueueFull, WaitOn,
               QueueTimeout, StartWithoutBackend, CallRaises, StreamEnds,
               CallReturns, Disconnect, Release, handlerVars, GatewayTypeOK
    <2> QED BY <1>1, <1>2, <2>1, <2>2, <2>3, <2>4
<1>4. ASSUME NEW r \in Request, Admit(r) PROVE CallsInv'
    <2> DEFINE list == Eligible(ProtocolOf[r], ModelOf[r], {})
    <2>1. ProtocolOf[r] \in Protocol /\ list # <<>>
        BY <1>4, GatewayAssumption DEF Admit
    <2>2. /\ Pick(ProtocolOf[r], list) \in Url
          /\ indices' \in [Protocol -> Nat]
        BY <1>0, <1>4, <2>1, PickedIsEligible DEF Admit
    <2>3. /\ selected' = [selected EXCEPT ![r] = Pick(ProtocolOf[r], list)]
          /\ handler[r] = "arrived"
          /\ handler' = [handler EXCEPT ![r] = "admitted"]
          /\ UNCHANGED <<calls, response, answer, recorded>>
          /\ UNCHANGED <<backends, probed, cursor, failCount>>
        BY <1>4 DEF Admit
    <2> HIDE DEF list
    <2>4. PoolTypeOK'
        BY <1>0, <2>2, <2>3 DEF PoolTypeOK
    <2>5. GatewayTypeOK' /\ AttemptsDistinct'
        BY <2>2, <2>3, <2>4
           DEF CallsInv, GatewayTypeOK, AttemptsDistinct, Handler
    <2> QED BY <2>2, <2>3, <2>5 DEF CallsInv, GatewayTypeOK
<1>5. ASSUME NEW r \in Request, NEW exclude,
             CallNext(r, exclude), {calls[r][i] : i \in 1..Len(calls[r])}
                                       \subseteq exclude,
             Len(calls[r]) < MaxRetries + 1, r \notin Streamed,
             handler' = [handler EXCEPT ![r] = "calling"],
             UNCHANGED <<selected, answer, recorded>>,
             response' \in [Request -> Outcomes \cup {0}]
      PROVE  CallsInv'
    <2> DEFINE list == Eligible(ProtocolOf[r], ModelOf[r], exclude)
               url  == Pick(ProtocolOf[r], list)
    <2>1. ProtocolOf[r] \in Protocol /\ list # <<>>
        BY <1>5, GatewayAssumption DEF CallNext
    <2>2. url \in Url \ exclude /\ indices' \in [Protocol -> Nat]
        BY <1>0, <1>5, <2>1, PickedIsEligible DEF CallNext
    <2>3. /\ calls' = [calls EXCEPT ![r] = Append(@, url)]
          /\ UNCHANGED <<backends, probed, cursor, failCount>>
        BY <1>5 DEF CallNext
    <2> HIDE DEF list, url
    <2>4. PoolTypeOK'
        BY <1>0, <2>2, <2>3 DEF PoolTypeOK
    <2>5. \A i \in 1..Len(calls[r]) : calls[r][i] # url
        BY <1>5, <2>2
    <2>6. /\ recorded' \in [Request -> Nat]
          /\ answer' \in [Request -> AnswerCodes]
        BY <1>0, <1>5 DEF GatewayTypeOK
    <2>7. PICK u \in Url : u = url
        BY <2>2
    <2>8. "calling" \in Handler
          /\ "calling" \notin {"arrived", "admitted", "waiting"}
        BY DEF Handler
    <2>9. Len(calls[r]) < IF r \in Streamed THEN 1 ELSE MaxRetries + 1
        BY <1>5
    <2>10. /\ calls' = [calls EXCEPT ![r] = Append(@, u)]
           /\ \A i \in 1..Len(calls[r]) : calls[r][i] # u
        BY <2>3, <2>5, <2>7
    <2>11. selected' = selected
        BY <1>5
    <2> QED BY <1>5, <2>4, <2>6, <2>8, <2>9, <2>10, <2>11, CallsKept
<1>6. ASSUME NEW r \in Request, StartCall(r) PROVE CallsInv'
    <2>1. /\ r \notin Streamed /\ handler[r] = "waiting"
          /\ handler' = [handler EXCEPT ![r] = "calling"]
          /\ CallNext(r, {})
          /\ UNCHANGED <<selected, response, answer, recorded>>
        BY <1>6 DEF StartCall
    <2>2. calls[r] = <<>>
        BY <2>1 DEF CallsInv
    <2>3. Len(calls[r]) = 0 /\ {calls[r][i] : i \in 1..Len(calls[r])} = {}
        BY <2>2, EmptySeq
    <2>4. response' \in [Request -> Outcomes \cup {0}]
        BY <1>0, <2>1 DEF GatewayTypeOK
    <2>5. Len(calls[r]) < MaxRetries + 1
        BY <2>3 DEF MaxRetries
    <2> QED BY <1>5, <2>1, <2>3, <2>4, <2>5
<1>7. ASSUME NEW r \in Request, Retry(r) PROVE CallsInv'
    <2>1. /\ handler[r] = "calling"
          /\ Len(calls[r]) <= MaxRetries
          /\ CallNext(r, TriedUrls(r))
          /\ UNCHANGED <<handler, selected, answer, recorded>>
          /\ response' \in [Request -> Outcomes \cup {0}]
        BY <1>0, <1>7 DEF Retry, Retriable, GatewayTypeOK
    <2>2. r \notin Streamed
        BY <2>1 DEF HandlerInv, Agrees, AnswerAgrees
    <2>3. handler' = [handler EXCEPT ![r] = "calling"]
        BY <1>0, <2>1 DEF GatewayTypeOK
    <2>4. Len(calls[r]) \in Nat
        BY <1>0 DEF GatewayTypeOK
    <2>5. Len(calls[r]) < MaxRetries + 1
        BY <2>1, <2>4 DEF MaxRetries
    <2>6. {calls[r][i] : i \in 1..Len(calls[r])} \subseteq TriedUrls(r)
        BY DEF TriedUrls
    <2> QED BY <1>5, <2>1, <2>2, <2>3, <2>5, <2>6
<1>8. ASSUME NEW r \in Request, StartStream(r) PROVE CallsInv'
    <2>1. /\ r \in Streamed /\ handler[r] = "waiting"
          /\ handler' = [handler EXCEPT ![r] = "streaming"]
          /\ calls' = [calls EXCEPT ![r] = Append(@, selected[r])]
          /\ answer' = [answer EXCEPT ![r] = 200]
          /\ UNCHANGED <<selected, response, recorded>>
          /\ UNCHANGED poolVars
        BY <1>8 DEF StartStream
    <2>2. calls[r] = <<>> /\ selected[r] \in Url
        BY <2>1 DEF CallsInv
    <2>3. Len(calls[r]) = 0
        BY <2>2, EmptySeq
    <2>4. /\ recorded' \in [Request -> Nat]
          /\ response' \in [Request -> Outcomes \cup {0}]
          /\ answer' \in [Request -> AnswerCodes]
        BY <1>0, <2>1 DEF GatewayTypeOK, AnswerCodes
    <2>5. PICK url \in Url : url = selected[r]
        BY <2>2
    <2>6. "streaming" \in Handler
          /\ "streaming" \notin {"arrived", "admitted", "waiting"}
        BY DEF Handler
    <2>7. calls' = [calls EXCEPT ![r] = Append(@, url)]
        BY <2>1, <2>5
    <2>8. \A i \in 1..Len(calls[r]) : calls[r][i] # url
        BY <2>3
    <2>9. Len(calls[r]) < IF r \in Streamed THEN 1 ELSE MaxRetries + 1
        BY <2>1, <2>3
    <2>10. PoolTypeOK' /\ selected' = selected
        BY <1>2, <2>1
    <2>11. handler' = [handler EXCEPT ![r] = "streaming"]
        BY <2>1
    <2> QED BY <2>4, <2>6, <2>7, <2>8, <2>9, <2>10, <2>11, CallsKept
<1>9. ASSUME NEW r \in Request, CancelRequest(r) PROVE CallsInv'
    BY <1>0, <1>1, <1>2, <1>9 DEF CancelRequest, handlerVars, GatewayTypeOK
<1>10. ASSUME UpdateQueueConfig PROVE CallsInv'
    BY <1>0, <1>1, <1>2, <1>10
       DEF UpdateQueueConfig, handlerVars, GatewayTypeOK
<1>11. ASSUME PoolStep PROVE CallsInv'
    <2>1. PoolTypeOK'
        BY <1>0, <1>11, PoolTypeStep DEF PoolStep
    <2> QED BY <1>0, <1>1, <1>11, <2>1 DEF PoolStep, handlerVars, GatewayTypeOK
<1>12. CASE UNCHANGED vars
    BY <1>0, <1>1, <1>2, <1>12 DEF vars, handlerVars, GatewayTypeOK
<1> QED
    BY <1>3, <1>4, <1>6, <1>7, <1>8, <1>9, <1>10, <1>11, <1>12
    DEF GatewayNext, HandlerStep

\* In every reachable state the calls of each request are to known and distinct
\* backends, and a request has called none before its turn.
THEOREM CallsInvariant == GatewaySpec => []CallsInv
<1>1. GatewayInit => CallsInv
    <2> SUFFICES ASSUME GatewayInit PROVE CallsInv
        OBVIOUS
    <2>1. PoolTypeOK
        <3>1. backends \in Configurations /\ probed = backends
            BY DEF GatewayInit, PoolInit
        <3>2. Len(probed) \in Nat
            <4>1. probed \in Seq({probed[i] : i \in DOMAIN probed})
                BY <3>1, PoolAssumption
            <4> QED BY <4>1
        <3> QED BY <3>1, <3>2, PoolAssumption
                DEF GatewayInit, PoolInit, PoolTypeOK
    <2>2. QueueTypeOK
        BY TypeInit DEF GatewayInit
    <2>3. calls \in [Request -> Seq(Url)] /\ Len(<<>>) = 0
        BY EmptySeq DEF GatewayInit
    <2> QED BY <2>1, <2>2, <2>3
            DEF GatewayInit, CallsInv, GatewayTypeOK, AttemptsDistinct, Handler,
                MaxRetries, AnswerCodes
<1> QED
    BY <1>1, CallsInvStep, GatewayQueueInvariants, HandlersAgree, PTL
    DEF GatewaySpec

\* Every variable of the gateway keeps its type, the backends' among them.
THEOREM GatewayTypeCorrect == GatewaySpec => []GatewayTypeOK
<1>1. CallsInv => GatewayTypeOK
    BY DEF CallsInv
<1> QED BY <1>1, CallsInvariant, PTL

\* No request is tried twice on one backend, nor more often than the retry
\* allows, and a stream once, whatever happens to the list and the health of the
\* backends between two attempts.
THEOREM AttemptsStayDistinct == GatewaySpec => []AttemptsDistinct
<1>1. CallsInv => AttemptsDistinct
    BY DEF CallsInv
<1> QED BY <1>1, CallsInvariant, PTL

=============================================================================
