------------------------ MODULE PriorityQueueProofs ------------------------
(***************************************************************************)
(* Proofs about PriorityQueue for every set of requests, every ranking and *)
(* every choice of limits allowed by QueueAssumption.                      *)
(***************************************************************************)
EXTENDS PriorityQueue, FiniteSetTheorems, TLAPS

QueueInv == QueueTypeOK /\ SlotAccounting /\ IdleQueueWakesFront

-----------------------------------------------------------------------------

\* notify_all() keeps the type of `stage` and leaves nobody asleep.
LEMMA NotifyAllWakes ==
    ASSUME NEW st \in [Request -> Stage]
    PROVE  /\ NotifyAll(st) \in [Request -> Stage]
           /\ \A r \in Request : NotifyAll(st)[r] # "asleep"
           /\ \A r \in Request : st[r] # "asleep" => NotifyAll(st)[r] = st[r]
           /\ \A r \in Request : st[r] = "asleep" => NotifyAll(st)[r] = "woken"
BY DEF NotifyAll, Stage

\* The initial states satisfy the type invariant.
LEMMA TypeInit == QueueInit => QueueTypeOK
BY DEF QueueInit, QueueTypeOK, Stage

\* Every step preserves the type invariant.
LEMMA TypeStep == QueueTypeOK /\ [QueueNext]_queueVars => QueueTypeOK'
<1> SUFFICES ASSUME QueueTypeOK, [QueueNext]_queueVars PROVE QueueTypeOK'
    OBVIOUS
<1> USE DEF QueueTypeOK
<1>1. ASSUME NEW r \in Request, Enqueue(r) PROVE QueueTypeOK'
    <2>1. [stage EXCEPT ![r] = "queued"] \in [Request -> Stage]
        BY DEF Stage
    <2> QED BY <1>1, <2>1, NotifyAllWakes DEF Enqueue
<1>2. ASSUME NEW r \in Request, RefuseFull(r) PROVE QueueTypeOK'
    BY <1>2 DEF RefuseFull, Stage
<1>3. ASSUME NEW r \in Request, TakeTurn(r) PROVE QueueTypeOK'
    BY <1>3 DEF TakeTurn, Stage
<1>4. ASSUME NEW r \in Request, Sleep(r) PROVE QueueTypeOK'
    BY <1>4 DEF Sleep, Stage
<1>5. ASSUME NEW r \in Request, Timeout(r) PROVE QueueTypeOK'
    BY <1>5 DEF Timeout, Stage
<1>6. ASSUME NEW r \in Request, SignalDone(r) PROVE QueueTypeOK'
    <2>1. [stage EXCEPT ![r] = "done"] \in [Request -> Stage]
        BY DEF Stage
    <2> QED BY <1>6, <2>1, NotifyAllWakes DEF SignalDone
<1>7. ASSUME NEW r \in Request, Cancel(r) PROVE QueueTypeOK'
    BY <1>7, NotifyAllWakes DEF Cancel
<1>8. ASSUME NEW n \in MaxSizes, UpdateMaxSize(n) PROVE QueueTypeOK'
    BY <1>8 DEF UpdateMaxSize
<1>9. ASSUME NEW n \in Concurrencies, UpdateConcurrency(n) PROVE QueueTypeOK'
    BY <1>9, NotifyAllWakes DEF UpdateConcurrency
<1>10. ASSUME UNCHANGED queueVars PROVE QueueTypeOK'
    BY <1>10 DEF queueVars
<1> QED
    BY <1>1, <1>2, <1>3, <1>4, <1>5, <1>6, <1>7, <1>8, <1>9, <1>10 DEF QueueNext

\* The queue's state always has its type, whatever the order of calls.
THEOREM QueueTypeCorrect == QueueSpec => []QueueTypeOK
<1> QED BY TypeInit, TypeStep, PTL DEF QueueSpec

-----------------------------------------------------------------------------

\* Every step preserves the agreement of heap, processing and handlers.
LEMMA AccountingStep ==
    QueueTypeOK /\ SlotAccounting /\ [QueueNext]_queueVars => SlotAccounting'
<1> SUFFICES ASSUME QueueTypeOK, SlotAccounting, [QueueNext]_queueVars
             PROVE  SlotAccounting'
    OBVIOUS
<1> USE DEF QueueTypeOK, SlotAccounting
<1>1. ASSUME NEW r \in Request, Enqueue(r) PROVE SlotAccounting'
    <2> DEFINE st == [stage EXCEPT ![r] = "queued"]
    <2>1. st \in [Request -> Stage]
        BY DEF Stage
    <2>2. stage' = NotifyAll(st) /\ processing' = processing
          /\ heap' = heap \cup {r} /\ stage[r] = "new"
        BY <1>1 DEF Enqueue
    <2>3. \A s \in Request : stage'[s] = "running" <=> stage[s] = "running"
        BY <2>1, <2>2, NotifyAllWakes
    <2>4. \A s \in heap' : stage'[s] \in {"queued", "asleep", "woken", "expired"}
        BY <2>1, <2>2, NotifyAllWakes
    <2> QED BY <2>2, <2>3, <2>4
<1>2. ASSUME NEW r \in Request, RefuseFull(r) PROVE SlotAccounting'
    BY <1>2 DEF RefuseFull
<1>3. ASSUME NEW r \in Request, TakeTurn(r) PROVE SlotAccounting'
    BY <1>3 DEF TakeTurn
<1>4. ASSUME NEW r \in Request, Sleep(r) PROVE SlotAccounting'
    BY <1>4 DEF Sleep, AboutToCheck
<1>5. ASSUME NEW r \in Request, Timeout(r) PROVE SlotAccounting'
    BY <1>5 DEF Timeout
<1>6. ASSUME NEW r \in Request, SignalDone(r) PROVE SlotAccounting'
    <2> DEFINE st == [stage EXCEPT ![r] = "done"]
    <2>1. st \in [Request -> Stage]
        BY DEF Stage
    <2>2. stage' = NotifyAll(st) /\ processing' = processing \ {r}
          /\ heap' = heap /\ stage[r] = "running"
        BY <1>6 DEF SignalDone
    <2>3. \A s \in Request :
              stage'[s] = "running" <=> stage[s] = "running" /\ s # r
        BY <2>1, <2>2, NotifyAllWakes
    <2>4. \A s \in heap' : stage'[s] \in {"queued", "asleep", "woken", "expired"}
        BY <2>1, <2>2, NotifyAllWakes
    <2> QED BY <2>2, <2>3, <2>4
<1>7. ASSUME NEW r \in Request, Cancel(r) PROVE SlotAccounting'
    BY <1>7, NotifyAllWakes DEF Cancel
<1>8. ASSUME NEW n \in MaxSizes, UpdateMaxSize(n) PROVE SlotAccounting'
    BY <1>8 DEF UpdateMaxSize
<1>9. ASSUME NEW n \in Concurrencies, UpdateConcurrency(n) PROVE SlotAccounting'
    BY <1>9, NotifyAllWakes DEF UpdateConcurrency
<1>10. ASSUME UNCHANGED queueVars PROVE SlotAccounting'
    BY <1>10 DEF queueVars
<1> QED
    BY <1>1, <1>2, <1>3, <1>4, <1>5, <1>6, <1>7, <1>8, <1>9, <1>10 DEF QueueNext

\* A slot is held exactly by the handlers between wait_for_turn() and
\* signal_done(), and no cancelled, refused, running or finished request keeps
\* a heap entry.
THEOREM SlotsAccountedFor == QueueSpec => []SlotAccounting
<1>1. QueueInit => SlotAccounting
    BY DEF QueueInit, SlotAccounting
<1> QED BY <1>1, TypeInit, TypeStep, AccountingStep, PTL DEF QueueSpec

-----------------------------------------------------------------------------

\* A request at the front of an idle queue has its turn, so its check cannot
\* end in condition.wait().
LEMMA IdleFrontHasTurn ==
    ASSUME NEW r \in Request, QueueTypeOK, IsFront(r),
           processing = {}, maxConcurrency > 0
    PROVE  HasTurn(r)
BY FS_EmptySet DEF HasTurn

\* Every step keeps the front of an idle queue awake.
LEMMA IdleStep ==
    QueueTypeOK /\ IdleQueueWakesFront /\ [QueueNext]_queueVars
        => IdleQueueWakesFront'
<1> SUFFICES ASSUME QueueTypeOK, IdleQueueWakesFront, [QueueNext]_queueVars
             PROVE  IdleQueueWakesFront'
    OBVIOUS
<1> USE DEF QueueTypeOK, IdleQueueWakesFront
<1>1. ASSUME NEW r \in Request, Enqueue(r) PROVE IdleQueueWakesFront'
    <2>1. [stage EXCEPT ![r] = "queued"] \in [Request -> Stage]
        BY DEF Stage
    <2> QED BY <1>1, <2>1, NotifyAllWakes DEF Enqueue
<1>2. ASSUME NEW r \in Request, RefuseFull(r) PROVE IdleQueueWakesFront'
    BY <1>2 DEF RefuseFull, IsFront
<1>3. ASSUME NEW r \in Request, TakeTurn(r) PROVE IdleQueueWakesFront'
    BY <1>3 DEF TakeTurn
<1>4. ASSUME NEW r \in Request, Sleep(r) PROVE IdleQueueWakesFront'
    <2>1. ASSUME processing = {}, maxConcurrency > 0
          PROVE  ~IsFront(r)
        BY <1>4, <2>1, IdleFrontHasTurn DEF Sleep
    <2> QED BY <1>4, <2>1 DEF Sleep, IsFront
<1>5. ASSUME NEW r \in Request, Timeout(r) PROVE IdleQueueWakesFront'
    BY <1>5 DEF Timeout, IsFront
<1>6. ASSUME NEW r \in Request, SignalDone(r) PROVE IdleQueueWakesFront'
    <2>1. [stage EXCEPT ![r] = "done"] \in [Request -> Stage]
        BY DEF Stage
    <2> QED BY <1>6, <2>1, NotifyAllWakes DEF SignalDone
<1>7. ASSUME NEW r \in Request, Cancel(r) PROVE IdleQueueWakesFront'
    BY <1>7, NotifyAllWakes DEF Cancel
<1>8. ASSUME NEW n \in MaxSizes, UpdateMaxSize(n) PROVE IdleQueueWakesFront'
    BY <1>8 DEF UpdateMaxSize, IsFront
<1>9. ASSUME NEW n \in Concurrencies, UpdateConcurrency(n)
      PROVE  IdleQueueWakesFront'
    BY <1>9, NotifyAllWakes DEF UpdateConcurrency
<1>10. ASSUME UNCHANGED queueVars PROVE IdleQueueWakesFront'
    BY <1>10 DEF queueVars, IsFront
<1> QED
    BY <1>1, <1>2, <1>3, <1>4, <1>5, <1>6, <1>7, <1>8, <1>9, <1>10 DEF QueueNext

\* No wakeup of the front is ever lost while nothing is being processed, for
\* any number of slots, any timeouts and any cancellations.
THEOREM FrontAwakeWhenIdle == QueueSpec => []IdleQueueWakesFront
<1>1. QueueInit => IdleQueueWakesFront
    BY DEF QueueInit, IdleQueueWakesFront
<1> QED BY <1>1, TypeInit, TypeStep, IdleStep, PTL DEF QueueSpec

\* Whoever has its turn is awake to take it.
FrontAwakeWhenFree == \A r \in Request : HasTurn(r) => stage[r] # "asleep"

\* With one slot, the default, a free slot means an idle queue: no wakeup is
\* ever lost.  (With more slots this fails: heappop() notifies nobody.)
THEOREM SingleSlotFrontAwake ==
    ASSUME \A n \in Concurrencies : n <= 1
    PROVE  QueueSpec => []FrontAwakeWhenFree
<1>1. QueueTypeOK /\ IdleQueueWakesFront => FrontAwakeWhenFree
    <2> SUFFICES ASSUME QueueTypeOK, IdleQueueWakesFront,
                        NEW r \in Request, HasTurn(r)
                 PROVE  stage[r] # "asleep"
        BY DEF FrontAwakeWhenFree
    <2>1. IsFiniteSet(processing)
        BY FS_Subset, QueueAssumption DEF QueueTypeOK
    <2>2. maxConcurrency \in Int /\ maxConcurrency <= 1
        BY QueueAssumption DEF QueueTypeOK
    <2>3. Cardinality(processing) \in Nat
        BY <2>1, FS_CardinalityType
    <2>4. Cardinality(processing) = 0 /\ maxConcurrency > 0
        BY <2>2, <2>3 DEF HasTurn
    <2>5. processing = {}
        BY <2>1, <2>4, FS_EmptySet
    <2> QED BY <2>4, <2>5 DEF IdleQueueWakesFront, HasTurn
<1> QED BY <1>1, QueueTypeCorrect, FrontAwakeWhenIdle, PTL

-----------------------------------------------------------------------------
(* Refinement of TurnScheduler *)

Standings == [r \in Request |-> Standing(r)]

\* Requests whose standing is "waiting" are those of the heap that have not
\* expired; those "running" are exactly `processing`.
LEMMA StandingCases ==
    ASSUME QueueTypeOK, SlotAccounting, NEW r \in Request
    PROVE  /\ Standing(r) = "outside" <=> stage[r] = "new"
           /\ Standing(r) = "running" <=> r \in processing
           /\ Standing(r) = "waiting" <=> StillWaiting(r)
           /\ Standing(r) \in {"outside", "running", "waiting", "left"}
BY DEF Standing, StillWaiting, QueueTypeOK, SlotAccounting

\* The sets of the abstract scheduler under the refinement mapping.
LEMMA MappedSets ==
    ASSUME QueueTypeOK, SlotAccounting
    PROVE  /\ Scheduler!Waiting = {r \in Request : StillWaiting(r)}
           /\ Scheduler!Running = processing
           /\ Scheduler!Waiting \subseteq heap
<1>1. \A r \in Request : Standings[r] = Standing(r)
    BY DEF Standings
<1> QED
    BY <1>1, StandingCases
    DEF Scheduler!Waiting, Scheduler!Running, QueueTypeOK, StillWaiting

\* The instance counts sets as this module does.
LEMMA SameCardinality ==
    ASSUME NEW S PROVE Scheduler!Cardinality(S) = Cardinality(S)
BY Zenon DEF Scheduler!Cardinality, Cardinality

\* The abstract waiting room is never fuller than the heap.
LEMMA WaitingFits ==
    ASSUME QueueTypeOK, SlotAccounting
    PROVE  /\ Cardinality(Scheduler!Waiting) \in Nat
           /\ Cardinality(heap) \in Nat
           /\ Cardinality(Scheduler!Waiting) <= Cardinality(heap)
<1>1. IsFiniteSet(heap)
    BY FS_Subset, QueueAssumption DEF QueueTypeOK
<1> QED BY <1>1, MappedSets, FS_Subset, FS_CardinalityType

\* The front of the heap is outranked by no waiting request.
LEMMA FrontNotOutranked ==
    ASSUME QueueTypeOK, NEW r \in Request, IsFront(r),
           NEW s \in heap
    PROVE  ~Scheduler!Outranks(s, r)
<1>1. s \in Request
    BY DEF QueueTypeOK
<1>2. /\ Priority[r] \in Int /\ Priority[s] \in Int
      /\ Timestamp[r] \in Int /\ Timestamp[s] \in Int
    BY <1>1, QueueAssumption
<1>3. CASE s = r
    BY <1>2, <1>3 DEF Scheduler!Outranks
<1>4. CASE s # r
    BY <1>2, <1>4 DEF IsFront, Before, Scheduler!Outranks
<1> QED BY <1>3, <1>4

\* A step that changes one request's standing and no limit is a Move.
LEMMA MoveOne ==
    ASSUME NEW r \in Request, NEW from, NEW to,
           Standing(r) = from, Standing(r)' = to,
           \A s \in Request \ {r} : Standing(s)' = Standing(s),
           maxSize' = maxSize, maxConcurrency' = maxConcurrency
    PROVE  Scheduler!Move(r, from, to)
<1>1. Standings[r] = from
    BY DEF Standings
<1>2. Standings' = [Standings EXCEPT ![r] = to]
    BY DEF Standings
<1> QED BY <1>1, <1>2 DEF Scheduler!Move, Standings

\* A step of notify_all() changes nobody's standing.
LEMMA NotifyKeepsStanding ==
    ASSUME NEW st \in [Request -> Stage], NEW s \in Request,
           stage' = NotifyAll(st), st[s] = stage[s],
           s \in heap' <=> s \in heap, s \in processing' <=> s \in processing
    PROVE  Standing(s)' = Standing(s)
<1>1. /\ stage'[s] = "new" <=> stage[s] = "new"
      /\ stage'[s] = "expired" <=> stage[s] = "expired"
    BY NotifyAllWakes
<1> QED BY <1>1 DEF Standing, StillWaiting

\* Every queue step is a step of the abstract scheduler or a stutter.
LEMMA RefinementStep ==
    QueueInv /\ QueueInv' /\ [QueueNext]_queueVars
        => [Scheduler!SchedulerNext]_(Scheduler!schedulerVars)
<1> SUFFICES ASSUME QueueInv, QueueInv', [QueueNext]_queueVars
             PROVE  [Scheduler!SchedulerNext]_(Scheduler!schedulerVars)
    OBVIOUS
<1> USE DEF QueueInv
<1> DEFINE Goal == [Scheduler!SchedulerNext]_(Scheduler!schedulerVars)
<1>s. ASSUME \A s \in Request : Standing(s)' = Standing(s),
             maxSize' = maxSize, maxConcurrency' = maxConcurrency
      PROVE  Goal
    <2>1. Standings' = Standings
        BY <1>s DEF Standings
    <2> QED BY <1>s, <2>1 DEF Scheduler!schedulerVars, Standings
<1>1. ASSUME NEW r \in Request, Enqueue(r) PROVE Goal
    <2> DEFINE st == [stage EXCEPT ![r] = "queued"]
    <2>1. st \in [Request -> Stage]
        BY DEF QueueTypeOK, Stage
    <2>2. /\ stage' = NotifyAll(st) /\ processing' = processing
          /\ heap' = heap \cup {r} /\ stage[r] = "new"
          /\ maxSize' = maxSize /\ maxConcurrency' = maxConcurrency
        BY <1>1 DEF Enqueue
    <2>3. Standing(r) = "outside" /\ Standing(r)' = "waiting"
        <3>0. st[r] = "queued"
            BY DEF QueueTypeOK
        <3>1. stage'[r] = "queued"
            BY <2>1, <2>2, <3>0, NotifyAllWakes
        <3>2. r \notin processing'
            BY <2>2 DEF SlotAccounting
        <3> QED BY <2>2, <3>1, <3>2 DEF Standing, StillWaiting, SlotAccounting
    <2>4. \A s \in Request \ {r} : Standing(s)' = Standing(s)
        BY <2>1, <2>2, NotifyKeepsStanding DEF QueueTypeOK
    <2>5. Scheduler!Move(r, "outside", "waiting")
        BY <2>2, <2>3, <2>4, MoveOne
    <2>6. Cardinality(Scheduler!Waiting) < maxSize
        <3>1. maxSize \in Int
            BY QueueAssumption DEF QueueTypeOK
        <3>2. Cardinality(heap) < maxSize
            BY <1>1 DEF Enqueue
        <3> QED BY <3>1, <3>2, WaitingFits
    <2> QED BY <2>5, <2>6, SameCardinality
            DEF Scheduler!SchedulerNext, Scheduler!Admit
<1>2. ASSUME NEW r \in Request, RefuseFull(r) PROVE Goal
    <2>1. Standing(r) = "outside" /\ Standing(r)' = "left"
        BY <1>2 DEF RefuseFull, Standing, StillWaiting, QueueTypeOK, SlotAccounting
    <2>2. \A s \in Request \ {r} : Standing(s)' = Standing(s)
        BY <1>2 DEF RefuseFull, Standing, StillWaiting, QueueTypeOK
    <2>3. Scheduler!Move(r, "outside", "left")
        BY <1>2, <2>1, <2>2, MoveOne DEF RefuseFull
    <2> QED BY <2>3 DEF Scheduler!SchedulerNext, Scheduler!TurnAway
<1>3. ASSUME NEW r \in Request, TakeTurn(r) PROVE Goal
    <2>1. Standing(r) = "waiting" /\ Standing(r)' = "running"
        BY <1>3 DEF TakeTurn, AboutToCheck, HasTurn, IsFront, Standing,
                    StillWaiting, QueueTypeOK, SlotAccounting
    <2>2. \A s \in Request \ {r} : Standing(s)' = Standing(s)
        BY <1>3 DEF TakeTurn, Standing, StillWaiting, QueueTypeOK
    <2>3. Scheduler!Move(r, "waiting", "running")
        BY <1>3, <2>1, <2>2, MoveOne DEF TakeTurn
    <2>4. \A s \in Scheduler!Waiting : ~Scheduler!Outranks(s, r)
        BY <1>3, MappedSets, FrontNotOutranked DEF TakeTurn, HasTurn
    <2>5. Cardinality(Scheduler!Running) < maxConcurrency
        BY <1>3, MappedSets DEF TakeTurn, HasTurn
    <2> QED BY <2>3, <2>4, <2>5, SameCardinality
            DEF Scheduler!SchedulerNext, Scheduler!Start
<1>4. ASSUME NEW r \in Request, Sleep(r) PROVE Goal
    <2>1. \A s \in Request : Standing(s)' = Standing(s)
        BY <1>4 DEF Sleep, AboutToCheck, Standing, StillWaiting, QueueTypeOK
    <2> QED BY <1>4, <2>1, <1>s DEF Sleep
<1>5. ASSUME NEW r \in Request, Timeout(r) PROVE Goal
    <2>1. \A s \in Request \ {r} : Standing(s)' = Standing(s)
        BY <1>5 DEF Timeout, Standing, StillWaiting, QueueTypeOK
    <2>2. CASE r \in heap
        <3>1. Standing(r) = "waiting" /\ Standing(r)' = "left"
            BY <1>5, <2>2 DEF Timeout, Standing, StillWaiting, QueueTypeOK,
                              SlotAccounting
        <3>2. Scheduler!Move(r, "waiting", "left")
            BY <1>5, <2>1, <3>1, MoveOne DEF Timeout
        <3> QED BY <3>2 DEF Scheduler!SchedulerNext, Scheduler!Withdraw
    <2>3. CASE r \notin heap
        <3>1. Standing(r)' = Standing(r)
            BY <1>5, <2>3 DEF Timeout, Standing, StillWaiting, QueueTypeOK
        <3> QED BY <1>5, <2>1, <3>1, <1>s DEF Timeout
    <2> QED BY <2>2, <2>3
<1>6. ASSUME NEW r \in Request, SignalDone(r) PROVE Goal
    <2> DEFINE st == [stage EXCEPT ![r] = "done"]
    <2>1. st \in [Request -> Stage]
        BY DEF QueueTypeOK, Stage
    <2>2. /\ stage' = NotifyAll(st) /\ processing' = processing \ {r}
          /\ heap' = heap /\ stage[r] = "running"
          /\ maxSize' = maxSize /\ maxConcurrency' = maxConcurrency
        BY <1>6 DEF SignalDone
    <2>3. Standing(r) = "running" /\ Standing(r)' = "left"
        <3>0. st[r] = "done"
            BY DEF QueueTypeOK
        <3>1. stage'[r] = "done"
            BY <2>1, <2>2, <3>0, NotifyAllWakes
        <3>2. r \notin heap
            BY <2>2 DEF SlotAccounting
        <3> QED BY <2>2, <3>1, <3>2 DEF Standing, StillWaiting, SlotAccounting
    <2>4. \A s \in Request \ {r} : Standing(s)' = Standing(s)
        BY <2>1, <2>2, NotifyKeepsStanding DEF QueueTypeOK
    <2>5. Scheduler!Move(r, "running", "left")
        BY <2>2, <2>3, <2>4, MoveOne
    <2> QED BY <2>5 DEF Scheduler!SchedulerNext, Scheduler!Finish
<1>7. ASSUME NEW r \in Request, Cancel(r) PROVE Goal
    <2>1. /\ stage \in [Request -> Stage] /\ stage' = NotifyAll(stage)
          /\ heap' = heap \ {r} /\ processing' = processing /\ r \in heap
          /\ maxSize' = maxSize /\ maxConcurrency' = maxConcurrency
        BY <1>7 DEF Cancel, QueueTypeOK
    <2>2. \A s \in Request \ {r} : Standing(s)' = Standing(s)
        BY <2>1, NotifyKeepsStanding
    <2>3. stage'[r] # "new" /\ r \notin processing /\ stage[r] # "new"
        BY <2>1, NotifyAllWakes DEF SlotAccounting
    <2>4. Standing(r)' = "left"
        BY <2>1, <2>3 DEF Standing, StillWaiting
    <2>5. CASE stage[r] = "expired"
        <3>1. Standing(r)' = Standing(r)
            BY <2>3, <2>4, <2>5 DEF Standing, StillWaiting
        <3> QED BY <2>1, <2>2, <3>1, <1>s
    <2>6. CASE stage[r] # "expired"
        <3>1. Standing(r) = "waiting"
            BY <2>1, <2>3, <2>6 DEF Standing, StillWaiting
        <3>2. Scheduler!Move(r, "waiting", "left")
            BY <2>1, <2>2, <2>4, <3>1, MoveOne
        <3> QED BY <3>2 DEF Scheduler!SchedulerNext, Scheduler!Withdraw
    <2> QED BY <2>5, <2>6
<1>8. ASSUME NEW n \in MaxSizes, UpdateMaxSize(n) PROVE Goal
    <2>1. Standings' = Standings
        BY <1>8 DEF UpdateMaxSize, Standings, Standing, StillWaiting
    <2> QED BY <1>8, <2>1 DEF UpdateMaxSize, Standings,
                              Scheduler!SchedulerNext, Scheduler!SetCapacity
<1>9. ASSUME NEW n \in Concurrencies, UpdateConcurrency(n) PROVE Goal
    <2>1. stage \in [Request -> Stage] /\ stage' = NotifyAll(stage)
          /\ heap' = heap /\ processing' = processing /\ maxSize' = maxSize
        BY <1>9 DEF UpdateConcurrency, QueueTypeOK
    <2>2. \A s \in Request : Standing(s)' = Standing(s)
        BY <2>1, NotifyKeepsStanding
    <2>3. Standings' = Standings
        BY <2>2 DEF Standings
    <2> QED BY <1>9, <2>1, <2>3 DEF UpdateConcurrency, Standings,
                              Scheduler!SchedulerNext, Scheduler!SetLimit
<1>10. ASSUME UNCHANGED queueVars PROVE Goal
    <2>1. \A s \in Request : Standing(s)' = Standing(s)
        BY <1>10 DEF queueVars, Standing, StillWaiting
    <2> QED BY <1>10, <2>1, <1>s DEF queueVars
<1> QED
    BY <1>1, <1>2, <1>3, <1>4, <1>5, <1>6, <1>7, <1>8, <1>9, <1>10 DEF QueueNext

\* The queue implements the abstract scheduler: whatever is interleaved with
\* it, only a best ranked waiting request starts, only under the limit, only
\* once, and nothing that was cancelled, refused or timed out ever runs.
THEOREM QueueImplementsScheduler == QueueSpec => ImplementsScheduler
<1>1. QueueInit => QueueInv
    BY TypeInit DEF QueueInv, QueueInit, SlotAccounting, IdleQueueWakesFront
<1>2. QueueInv /\ [QueueNext]_queueVars => QueueInv'
    BY TypeStep, AccountingStep, IdleStep DEF QueueInv
<1>3. QueueInit => Scheduler!SchedulerInit
    BY DEF QueueInit, Scheduler!SchedulerInit, Standing, StillWaiting
<1> QED
    BY <1>1, <1>2, <1>3, RefinementStep, PTL
    DEF QueueSpec, ImplementsScheduler, Scheduler!SchedulerSpec

=============================================================================
