--------------------------- MODULE PriorityQueue ---------------------------
(***************************************************************************)
(* app/core/queue.py, the gateway's asyncio priority queue, together with  *)
(* the protocol its only callers follow (app/api/proxy.py): enqueue, then  *)
(* wait_for_turn, then signal_done; cancel and the limit updates come from *)
(* other handlers at any time.                                             *)
(*                                                                         *)
(* Every critical section of the class runs under self._lock without       *)
(* awaiting anything but condition.wait(), so on the event loop it is one  *)
(* atomic action here. A handler that goes on without suspending keeps the *)
(* event loop: nobody comes between enqueue() and the first check of       *)
(* wait_for_turn() while the lock is free (HasLoop). What is never atomic  *)
(* is kept: between a notify_all() and the check of a notified waiter      *)
(* others run, and the timer of wait_for() may fire while it sleeps or     *)
(* after.                                                                  *)
(*                                                                         *)
(* The heap is the set of requests it holds; heap[0] is the least entry in *)
(* the lexicographic order of (priority, timestamp, id(context)).          *)
(***************************************************************************)
EXTENDS Integers, FiniteSets

CONSTANTS Request,        \* contexts built by _process_request
          Priority,       \* context.priority
          Timestamp,      \* context.timestamp (wall clock, ties possible)
          Tiebreaker,     \* id(context), distinct for distinct contexts
          Timed,          \* requests whose handler read queue.timeout > 0
          MaxSizes,       \* values update_max_size may set
          Concurrencies   \* values update_concurrency may set

ASSUME QueueAssumption ==
    /\ IsFiniteSet(Request)
    /\ Priority \in [Request -> Int]
    /\ Timestamp \in [Request -> Int]
    /\ Tiebreaker \in [Request -> Int]
    /\ \A r, s \in Request : Tiebreaker[r] = Tiebreaker[s] => r = s
    /\ Timed \subseteq Request
    /\ MaxSizes \subseteq Int
    /\ Concurrencies \subseteq Int

VARIABLES heap,             \* self._heap, as a set
          processing,       \* self._processing
          maxSize,          \* self._max_size
          maxConcurrency,   \* self._max_concurrency
          stage             \* where each request's handler stands

queueVars == <<heap, processing, maxSize, maxConcurrency, stage>>

(***************************************************************************)
(* "new"      context built, enqueue() not yet run                         *)
(* "refused"  enqueue() returned False, the client got 429                 *)
(* "queued"   enqueue() returned True, wait_for_turn() not yet checked     *)
(* "asleep"   inside condition.wait()                                      *)
(* "woken"    notified, the check of wait_for_turn() not yet repeated      *)
(* "running"  wait_for_turn() returned                                     *)
(* "expired"  wait_for_turn() raised TimeoutError, the client got 408      *)
(* "done"     signal_done() ran                                            *)
(***************************************************************************)
Stage == {"new", "refused", "queued", "asleep", "woken",
          "running", "expired", "done"}

\* Tuple comparison of the heap entries (priority, timestamp, id, context).
Before(r, s) ==
    \/ Priority[r] < Priority[s]
    \/ /\ Priority[r] = Priority[s]
       /\ \/ Timestamp[r] < Timestamp[s]
          \/ Timestamp[r] = Timestamp[s] /\ Tiebreaker[r] < Tiebreaker[s]

IsFront(r) == r \in heap /\ \A s \in heap \ {r} : Before(r, s)

\* condition.notify_all(): every waiter leaves the wait set.
NotifyAll(st) == [r \in Request |-> IF st[r] = "asleep" THEN "woken" ELSE st[r]]

QueueInit ==
    /\ heap = {}
    /\ processing = {}
    /\ maxSize \in MaxSizes
    /\ maxConcurrency \in Concurrencies
    /\ stage = [r \in Request |-> "new"]

\* wait_for() runs condition.wait() in a task of its own, so a waiter with a
\* timer holds the lock across suspensions; whoever wants it meanwhile stands
\* in line, and the line may outlast that waiter.  Without such a waiter the
\* lock is always taken at once.
LockContended == \E r \in Timed : stage[r] \notin {"new", "refused", "queued"}

\* After enqueue() the handler goes on to its first check without suspending,
\* unless it has to stand in line for the lock.
RunsOn(r) == stage[r] = "queued" /\ ~LockContended

\* No handler, or none but r's, keeps the event loop.
LoopFree == \A s \in Request : ~RunsOn(s)
HasLoop(r) == \A s \in Request \ {r} : ~RunsOn(s)

-----------------------------------------------------------------------------
(* enqueue() *)

Enqueue(r) ==
    /\ HasLoop(r)
    /\ stage[r] = "new"
    /\ Cardinality(heap) < maxSize
    /\ heap' = heap \cup {r}
    /\ stage' = NotifyAll([stage EXCEPT ![r] = "queued"])
    /\ UNCHANGED <<processing, maxSize, maxConcurrency>>

RefuseFull(r) ==
    /\ HasLoop(r)
    /\ stage[r] = "new"
    /\ Cardinality(heap) >= maxSize
    /\ stage' = [stage EXCEPT ![r] = "refused"]
    /\ UNCHANGED <<heap, processing, maxSize, maxConcurrency>>

-----------------------------------------------------------------------------
(* wait_for_turn(): one pass of its loop ends in a turn or in condition.wait() *)

AboutToCheck(r) == HasLoop(r) /\ stage[r] \in {"queued", "woken"}

\* (Mutation) lets one request too many run.
HasTurnOffByOne(r) == Cardinality(processing) <= maxConcurrency /\ IsFront(r)

HasTurn(r) == Cardinality(processing) < maxConcurrency /\ IsFront(r)

\* (Mutation) takes the slot without popping the heap.
TakeTurnNoPop(r) ==
    /\ AboutToCheck(r)
    /\ HasTurn(r)
    /\ processing' = processing \cup {r}
    /\ stage' = [stage EXCEPT ![r] = "running"]
    /\ UNCHANGED <<heap, maxSize, maxConcurrency>>

TakeTurn(r) ==
    /\ AboutToCheck(r)
    /\ HasTurn(r)
    /\ processing' = processing \cup {r}
    /\ heap' = heap \ {r}
    /\ stage' = [stage EXCEPT ![r] = "running"]
    /\ UNCHANGED <<maxSize, maxConcurrency>>

Sleep(r) ==
    /\ AboutToCheck(r)
    /\ ~HasTurn(r)
    /\ stage' = [stage EXCEPT ![r] = "asleep"]
    /\ UNCHANGED <<heap, processing, maxSize, maxConcurrency>>

Check(r) == TakeTurn(r) \/ Sleep(r)

\* The timer of asyncio.wait_for() fires while the waiter sleeps, or after it
\* was notified but before it looks again.  The handler's except clause
\* answers 408; the heap entry is not touched.
Timeout(r) ==
    /\ HasLoop(r)
    /\ r \in Timed
    /\ stage[r] \in {"asleep", "woken"}
    /\ stage' = [stage EXCEPT ![r] = "expired"]
    /\ UNCHANGED <<heap, processing, maxSize, maxConcurrency>>

-----------------------------------------------------------------------------
(* signal_done(), cancel() and the limit updates *)

\* (Mutation) frees the slot without telling the waiters.
SignalDoneSilent(r) ==
    /\ HasLoop(r)
    /\ stage[r] = "running"
    /\ processing' = processing \ {r}
    /\ stage' = [stage EXCEPT ![r] = "done"]
    /\ UNCHANGED <<heap, maxSize, maxConcurrency>>

SignalDone(r) ==
    /\ HasLoop(r)
    /\ stage[r] = "running"
    /\ processing' = processing \ {r}
    /\ stage' = NotifyAll([stage EXCEPT ![r] = "done"])
    /\ UNCHANGED <<heap, maxSize, maxConcurrency>>

\* (Mutation) removes the entry without telling the waiters behind it.
CancelSilent(r) ==
    /\ LoopFree
    /\ r \in heap
    /\ heap' = heap \ {r}
    /\ UNCHANGED <<processing, maxSize, maxConcurrency, stage>>

\* The owner's DELETE /v1/queue/{request_id}: only the entry goes, the waiter
\* of the cancelled request is woken like all others and told nothing.
Cancel(r) ==
    /\ LoopFree
    /\ r \in heap
    /\ heap' = heap \ {r}
    /\ stage' = NotifyAll(stage)
    /\ UNCHANGED <<processing, maxSize, maxConcurrency>>

\* update_max_size() neither evicts nor notifies.
UpdateMaxSize(n) ==
    /\ LoopFree
    /\ maxSize' = n
    /\ UNCHANGED <<heap, processing, maxConcurrency, stage>>

\* (Mutation) keeps the number of free slots instead of the limit.
UpdateConcurrencyFree(n) ==
    /\ LoopFree
    /\ maxConcurrency' = n - Cardinality(processing)
    /\ stage' = NotifyAll(stage)
    /\ UNCHANGED <<heap, processing, maxSize>>

UpdateConcurrency(n) ==
    /\ LoopFree
    /\ maxConcurrency' = n
    /\ stage' = NotifyAll(stage)
    /\ UNCHANGED <<heap, processing, maxSize>>

QueueNext ==
    \/ \E r \in Request : \/ Enqueue(r)
                          \/ RefuseFull(r)
                          \/ TakeTurn(r)
                          \/ Sleep(r)
                          \/ Timeout(r)
                          \/ SignalDone(r)
                          \/ Cancel(r)
    \/ \E n \in MaxSizes : UpdateMaxSize(n)
    \/ \E n \in Concurrencies : UpdateConcurrency(n)

QueueSpec == QueueInit /\ [][QueueNext]_queueVars

\* The event loop runs every ready task: a notified waiter gets the lock (which
\* asyncio grants in FIFO order) and repeats its check.
CheckFairness == \A r \in Request : WF_queueVars(Check(r))

\* Backend calls have a finite timeout, so a handler that returns normally
\* from its call reaches signal_done().
DoneFairness == \A r \in Request : WF_queueVars(SignalDone(r))

PromptQueueSpec == QueueSpec /\ CheckFairness
FairQueueSpec   == QueueSpec /\ CheckFairness /\ DoneFairness

-----------------------------------------------------------------------------
(* Properties *)

QueueTypeOK ==
    /\ heap \subseteq Request
    /\ processing \subseteq Request
    /\ maxSize \in MaxSizes
    /\ maxConcurrency \in Concurrencies
    /\ stage \in [Request -> Stage]

\* self._processing is exactly the set of handlers between the return of
\* wait_for_turn() and signal_done(), no request is in the heap and in
\* processing at once, and every entry of the heap belongs to a handler on its
\* way to a turn, except that an expired wait leaves an entry without a waiter.
SlotAccounting ==
    /\ processing = {r \in Request : stage[r] = "running"}
    /\ \A r \in heap : stage[r] \in {"queued", "asleep", "woken", "expired"}

\* With nothing being processed and a positive limit, the request at heap[0]
\* never sleeps: each way of emptying `processing`, of changing the front and
\* of raising the limit has notified it, and it cannot have gone back to
\* sleep.  (queue.py: the notify_all() of enqueue, signal_done, cancel and
\* update_concurrency, and the absence of one after heappop.)
IdleQueueWakesFront ==
    processing = {} /\ maxConcurrency > 0 =>
        \A r \in Request : IsFront(r) => stage[r] # "asleep"

\* A request that still waits for its turn.
StillWaiting(r) == r \in heap /\ stage[r] # "expired"

\* Every waiting request is eventually given its turn or withdrawn.
EveryWaiterServed == \A r \in Request : StillWaiting(r) ~> ~StillWaiting(r)

\* "A request acquires its turn when it is at the front of the heap and the
\* number of currently processing requests is below the limit" (docstring of
\* wait_for_turn): it does not stay there with a slot free, however long the
\* running requests take.
FrontTakesFreeSlot == \A r \in Request : HasTurn(r) ~> ~HasTurn(r)

\* What a caller can observe of a request.
Standing(r) == CASE stage[r] = "new"   -> "outside"
                 [] r \in processing   -> "running"
                 [] StillWaiting(r)    -> "waiting"
                 [] OTHER              -> "left"

Scheduler == INSTANCE TurnScheduler WITH
    Capacities <- MaxSizes,
    Limits     <- Concurrencies,
    standing   <- [r \in Request |-> Standing(r)],
    capacity   <- maxSize,
    limit      <- maxConcurrency

\* The queue implements the abstract scheduler: sleeping, waking, stale entries
\* and waiters of cancelled requests are not visible in who starts and when.
ImplementsScheduler == Scheduler!SchedulerSpec

=============================================================================
