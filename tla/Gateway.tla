------------------------------ MODULE Gateway ------------------------------
(***************************************************************************)
(* The life of a proxied request: _process_request, _execute_with_retry,   *)
(* _stream_wrapper and _record_completion of app/api/proxy.py, with the    *)
(* adapters' outcomes, composed with the queue (PriorityQueue) and the     *)
(* backends (BackendPool) they share.                                      *)
(*                                                                         *)
(* An action runs from one suspension of the handler to the next.  The     *)
(* round-robin lock is never held across a suspension, so selecting a      *)
(* backend belongs to the action that does it.  The queue's lock may be    *)
(* contended, so enqueueing and releasing a slot are actions of their own; *)
(* with the lock free the handler does not suspend before them and keeps   *)
(* the event loop (Controls).                                              *)
(* Authentication, body size, rate limit and quota are one choice between  *)
(* their refusals and going on.                                            *)
(***************************************************************************)
EXTENDS PriorityQueue, BackendPool

CONSTANTS Streamed,       \* requests with "stream": true
          ProtocolOf,     \* request -> protocol of its endpoint
          ModelOf,        \* request -> model it names, or NoModel
          Refusals,       \* status codes of the checks before the queue
          Outcomes,       \* status codes an adapter may put in the context
          Faults,         \* faults the run allows: "raise", "disconnect"
          NoUrl           \* no backend selected yet

ASSUME GatewayAssumption ==
    /\ Streamed \subseteq Request
    /\ ProtocolOf \in [Request -> Protocol]
    /\ Outcomes \subseteq Int
    /\ Refusals \subseteq Int
    /\ NoUrl \notin Url

VARIABLES handler,      \* request -> where its handler stands
          selected,     \* request -> backend chosen before the queue
          calls,        \* request -> urls called for it, in order
          response,     \* context.response_status, 0 for None
          answer,       \* status code sent to the client, 0 before
          recorded      \* how often _record_completion ran for the request

handlerVars == <<handler, selected, calls, response, answer, recorded>>
vars == <<queueVars, poolVars, handlerVars>>

(***************************************************************************)
(* "arrived"    before the checks                                          *)
(* "admitted"   context built, about to enqueue()                          *)
(* "waiting"    enqueued, in wait_for_turn()                               *)
(* "calling"    in adapter.call() (non-streaming)                          *)
(* "streaming"  the response body is being produced by _stream_wrapper()   *)
(* "releasing"  the call or stream is over, about to signal_done()         *)
(* "finished"   nothing more will be done for the request                  *)
(***************************************************************************)
Handler == {"arrived", "admitted", "waiting", "calling", "streaming",
            "releasing", "finished"}

GatewayInit ==
    /\ QueueInit
    /\ PoolInit
    /\ handler = [r \in Request |-> "arrived"]
    /\ selected = [r \in Request |-> NoUrl]
    /\ calls = [r \in Request |-> <<>>]
    /\ response = [r \in Request |-> 0]
    /\ answer = [r \in Request |-> 0]
    /\ recorded = [r \in Request |-> 0]

\* The handler runs on towards the queue's lock, which it gets at once, or from
\* enqueue() to its first check.
GoesOn(r) ==
    RunsOn(r) \/ (handler[r] \in {"admitted", "releasing"} /\ ~LockContended)

\* No handler, or none but r's, keeps the event loop.
LoopIdle == \A s \in Request : ~GoesOn(s)
Controls(r) == \A s \in Request \ {r} : ~GoesOn(s)

GoTo(r, from, to) ==
    /\ Controls(r)
    /\ handler[r] = from
    /\ handler' = [handler EXCEPT ![r] = to]

AnswerWith(r, code) == answer' = [answer EXCEPT ![r] = code]

-----------------------------------------------------------------------------
(* Before the queue *)

\* Authentication, body size, rate limit or quota refuses the request.
Refuse(r) ==
    /\ GoTo(r, "arrived", "finished")
    /\ \E code \in Refusals : AnswerWith(r, code)
    /\ UNCHANGED <<queueVars, poolVars, selected, calls, response, recorded>>

\* No backend is eligible: 502 before queueing.
NoBackend(r) ==
    /\ Eligible(ProtocolOf[r], ModelOf[r], {}) = <<>>
    /\ GoTo(r, "arrived", "finished")
    /\ AnswerWith(r, 502)
    /\ UNCHANGED <<queueVars, poolVars, selected, calls, response, recorded>>

\* A backend is selected, which advances the index, and the context is built.
Admit(r) ==
    LET list == Eligible(ProtocolOf[r], ModelOf[r], {})
    IN  /\ list # <<>>
        /\ GoTo(r, "arrived", "admitted")
        /\ selected' = [selected EXCEPT ![r] = Pick(ProtocolOf[r], list)]
        /\ Advance(ProtocolOf[r], list)
        /\ UNCHANGED <<queueVars, backends, probed, cursor, failCount,
                       calls, response, answer, recorded>>

EnterQueue(r) ==
    /\ GoTo(r, "admitted", "waiting")
    /\ Enqueue(r)
    /\ UNCHANGED <<poolVars, selected, calls, response, answer, recorded>>

\* (Mutation) answers a full queue with 503.
QueueFullAs503(r) ==
    /\ GoTo(r, "admitted", "finished")
    /\ RefuseFull(r)
    /\ AnswerWith(r, 503)
    /\ UNCHANGED <<poolVars, selected, calls, response, recorded>>

QueueFull(r) ==
    /\ GoTo(r, "admitted", "finished")
    /\ RefuseFull(r)
    /\ AnswerWith(r, 429)
    /\ UNCHANGED <<poolVars, selected, calls, response, recorded>>

-----------------------------------------------------------------------------
(* In the queue *)

WaitOn(r) ==
    /\ Controls(r)
    /\ handler[r] = "waiting"
    /\ Sleep(r)
    /\ UNCHANGED <<poolVars, handlerVars>>

QueueTimeout(r) ==
    /\ GoTo(r, "waiting", "finished")
    /\ Timeout(r)
    /\ AnswerWith(r, 408)
    /\ UNCHANGED <<poolVars, selected, calls, response, recorded>>

\* Select a backend not in `exclude` and call it.
CallNext(r, exclude) ==
    LET list == Eligible(ProtocolOf[r], ModelOf[r], exclude)
    IN  /\ list # <<>>
        /\ calls' = [calls EXCEPT ![r] = Append(@, Pick(ProtocolOf[r], list))]
        /\ Advance(ProtocolOf[r], list)
        /\ UNCHANGED <<backends, probed, cursor, failCount>>

\* wait_for_turn() returns to a non-streaming handler, whose first attempt
\* selects a backend anew ...
StartCall(r) ==
    /\ r \notin Streamed
    /\ GoTo(r, "waiting", "calling")
    /\ TakeTurn(r)
    /\ CallNext(r, {})
    /\ UNCHANGED <<selected, response, answer, recorded>>

\* (Mutation) keeps waiting for a backend when none is eligible.
StartNeedsBackend(r) == r \in Request /\ FALSE

\* ... and has no result at all when none is eligible any more.
StartWithoutBackend(r) ==
    /\ r \notin Streamed
    /\ Eligible(ProtocolOf[r], ModelOf[r], {}) = <<>>
    /\ GoTo(r, "waiting", "releasing")
    /\ TakeTurn(r)
    /\ UNCHANGED <<poolVars, selected, calls, response, answer, recorded>>

\* (Mutation) streams without waiting for a turn.
StartStreamUnqueued(r) ==
    /\ r \in Streamed
    /\ GoTo(r, "waiting", "streaming")
    /\ calls' = [calls EXCEPT ![r] = Append(@, selected[r])]
    /\ AnswerWith(r, 200)
    /\ UNCHANGED <<queueVars, poolVars, selected, response, recorded>>

\* A streaming handler answers 200 and streams from the backend selected
\* before it queued.
StartStream(r) ==
    /\ r \in Streamed
    /\ GoTo(r, "waiting", "streaming")
    /\ TakeTurn(r)
    /\ calls' = [calls EXCEPT ![r] = Append(@, selected[r])]
    /\ AnswerWith(r, 200)
    /\ UNCHANGED <<poolVars, selected, response, recorded>>

-----------------------------------------------------------------------------
(* Calling the backend: _execute_with_retry *)

MaxRetries == 1

\* (Mutation) forgets the backends already tried.
TriedNothing(r) == {calls[r][i] : i \in {}}

TriedUrls(r) == {calls[r][i] : i \in 1..Len(calls[r])}

\* An attempt answered 502 or 503 may be followed by another one.
Retriable(r, status) == status \in {502, 503} /\ Len(calls[r]) <= MaxRetries

Retry(r) ==
    /\ Controls(r)
    /\ handler[r] = "calling"
    /\ \E status \in Outcomes :
          /\ Retriable(r, status)
          /\ response' = [response EXCEPT ![r] = status]
    /\ CallNext(r, TriedUrls(r))
    /\ UNCHANGED <<queueVars, handler, selected, answer, recorded>>

CallReturns(r) ==
    /\ GoTo(r, "calling", "releasing")
    /\ \E status \in Outcomes :
          /\ \/ ~Retriable(r, status)
             \/ Eligible(ProtocolOf[r], ModelOf[r], TriedUrls(r)) = <<>>
          /\ response' = [response EXCEPT ![r] = status]
    /\ UNCHANGED <<queueVars, poolVars, selected, calls, answer, recorded>>

\* An exception the adapter does not catch (a read error, a 200 whose body is
\* not JSON) leaves _process_request before signal_done(): the framework
\* answers 500, the slot stays taken and nothing is recorded.
CallRaises(r) ==
    /\ "raise" \in Faults
    /\ GoTo(r, "calling", "finished")
    /\ AnswerWith(r, 500)
    /\ UNCHANGED <<queueVars, poolVars, selected, calls, response, recorded>>

-----------------------------------------------------------------------------
(* Streaming: _stream_wrapper *)

\* (Mutation) has no finally clause around the stream.
StreamEndsUnreleased(r) ==
    /\ GoTo(r, "streaming", "finished")
    /\ \E status \in Outcomes : response' = [response EXCEPT ![r] = status]
    /\ UNCHANGED <<queueVars, poolVars, selected, calls, answer, recorded>>

\* The adapter's generator ends: normally, with an error chunk, or by raising or
\* being cancelled, which leaves whatever status it had put in the context.
StreamEnds(r) ==
    /\ GoTo(r, "streaming", "releasing")
    /\ \/ \E status \in Outcomes : response' = [response EXCEPT ![r] = status]
       \/ Faults # {} /\ UNCHANGED response
    /\ UNCHANGED <<queueVars, poolVars, selected, calls, answer, recorded>>

\* A notified waiter with a timer holds the queue's lock until its handler,
\* waiting for the task that ran condition.wait(), is resumed.
LockHeld == \E s \in Timed : stage[s] = "woken"

\* The client goes away and the response task is cancelled.  The finally
\* clause still runs, but in a cancelled scope: it gets the lock only if it
\* does not have to wait for it.  With the lock free, and for a generator
\* suspended in its yield, which is closed later outside that scope, it amounts
\* to StreamEnds.
Disconnect(r) ==
    /\ "disconnect" \in Faults
    /\ r \in Streamed
    /\ LockHeld
    /\ handler[r] \in {"streaming", "releasing"}
    /\ handler' = [handler EXCEPT ![r] = "finished"]
    /\ UNCHANGED <<queueVars, poolVars, selected, calls, response, answer,
                   recorded>>

-----------------------------------------------------------------------------
(* Releasing the slot *)

\* (Mutation) records only plain requests.
ReleaseUnrecorded(r) ==
    /\ GoTo(r, "releasing", "finished")
    /\ SignalDone(r)
    /\ recorded' = [recorded EXCEPT ![r] = IF r \in Streamed THEN @ ELSE @ + 1]
    /\ IF r \in Streamed THEN UNCHANGED answer ELSE AnswerWith(r, 200)
    /\ UNCHANGED <<poolVars, selected, calls, response>>

\* (Mutation) answers a stream again with the backend's status.
ReleaseAnswersAgain(r) ==
    /\ GoTo(r, "releasing", "finished")
    /\ SignalDone(r)
    /\ recorded' = [recorded EXCEPT ![r] = @ + 1]
    /\ AnswerWith(r, IF r \in Streamed THEN response[r] ELSE 200)
    /\ UNCHANGED <<poolVars, selected, calls, response>>

\* signal_done(), then _record_completion(), then the answer of a
\* non-streaming handler, which is 200 whatever the backend said.
Release(r) ==
    /\ GoTo(r, "releasing", "finished")
    /\ SignalDone(r)
    /\ recorded' = [recorded EXCEPT ![r] = @ + 1]
    /\ IF r \in Streamed THEN UNCHANGED answer ELSE AnswerWith(r, 200)
    /\ UNCHANGED <<poolVars, selected, calls, response>>

-----------------------------------------------------------------------------
(* Other handlers *)

CancelRequest(r) ==
    LoopIdle /\ Cancel(r) /\ UNCHANGED <<poolVars, handlerVars>>

UpdateQueueConfig ==
    /\ LoopIdle
    /\ \/ \E n \in MaxSizes : UpdateMaxSize(n)
       \/ \E n \in Concurrencies : UpdateConcurrency(n)
    /\ UNCHANGED <<poolVars, handlerVars>>

PoolStep == LoopIdle /\ PoolNext /\ UNCHANGED <<queueVars, handlerVars>>

HandlerStep(r) ==
    \/ Refuse(r) \/ NoBackend(r) \/ Admit(r) \/ EnterQueue(r) \/ QueueFull(r)
    \/ WaitOn(r) \/ QueueTimeout(r)
    \/ StartCall(r) \/ StartWithoutBackend(r) \/ StartStream(r)
    \/ Retry(r) \/ CallReturns(r) \/ CallRaises(r)
    \/ StreamEnds(r) \/ Disconnect(r) \/ Release(r)

GatewayNext ==
    \/ PoolStep
    \/ UpdateQueueConfig
    \/ \E r \in Request : HandlerStep(r) \/ CancelRequest(r)

GatewaySpec == GatewayInit /\ [][GatewayNext]_vars

\* The event loop resumes every handler that can go on, probes and timers
\* aside; adapters' calls and streams end, because httpx runs them under
\* backend.timeout.
Progress(r) ==
    \/ EnterQueue(r) \/ QueueFull(r) \/ WaitOn(r)
    \/ StartCall(r) \/ StartWithoutBackend(r) \/ StartStream(r)
    \/ Retry(r) \/ CallReturns(r) \/ StreamEnds(r) \/ Release(r)

FairGatewaySpec == GatewaySpec /\ \A r \in Request : WF_vars(Progress(r))

-----------------------------------------------------------------------------
(* Properties *)

\* The answers of the handler itself, of its checks, and those an adapter's
\* status could become (Release lets none of these become one, although DOCS.md
\* promises 502 and 504 for a backend that cannot be reached or is too slow).
AnswerCodes == Refusals \cup Outcomes \cup {0, 200, 408, 429, 500, 502}

GatewayTypeOK ==
    /\ QueueTypeOK
    /\ PoolTypeOK
    /\ handler \in [Request -> Handler]
    /\ selected \in [Request -> Url \cup {NoUrl}]
    /\ calls \in [Request -> Seq(Url)]
    /\ response \in [Request -> Outcomes \cup {0}]
    /\ answer \in [Request -> AnswerCodes]
    /\ recorded \in [Request -> Nat]

\* Requests whose backend is being called.
InCall == {r \in Request : handler[r] \in {"calling", "streaming"}}

\* The backends never see more calls at once than the largest concurrency
\* limit that was ever configured (README.md: up to queue.concurrency requests
\* are processed simultaneously), retries, streams and faults included.
LoadBounded == InCall # {} => \E n \in Concurrencies : Cardinality(InCall) <= n

\* _record_completion() runs exactly once for a request that gave its slot
\* back and never for one that was refused, expired or cancelled; and a client
\* whose request ended that way was answered.
CompletionRecorded ==
    \A r \in Request :
        /\ recorded[r] = IF stage[r] = "done" THEN 1 ELSE 0
        /\ stage[r] \in {"refused", "expired", "done"} => answer[r] # 0

\* A request is tried at most twice, never twice on one backend, also when the
\* backend list is replaced or health changes between the attempts; a stream
\* is tried once.
AttemptsDistinct ==
    \A r \in Request :
        /\ Len(calls[r]) <= IF r \in Streamed THEN 1 ELSE MaxRetries + 1
        /\ \A i, j \in 1..Len(calls[r]) : calls[r][i] = calls[r][j] => i = j

\* Nobody is answered twice, and what was answered stands.
AnsweredOnce == [][\A r \in Request : answer[r] # 0 => answer'[r] = answer[r]]_vars

CallsTo(url) ==
    Cardinality({attempt \in Request \X (1..(MaxRetries + 1)) :
        LET r == attempt[1]  i == attempt[2]
        IN  i <= Len(calls[r]) /\ calls[r][i] = url})

\* Round-robin: while every configured backend is equally eligible, no two of
\* them differ by more than one call (README.md: "Round-robin across multiple
\* backends supporting the same protocol").
CallsBalanced ==
    \A i, j \in 1..Len(backends) :
        CallsTo(backends[i].url) <= CallsTo(backends[j].url) + 1

\* A slot that was taken is given back, however the call or the stream ends
\* (PLAN.md: signal_done in finally, to make sure that the slot is released;
\* _stream_wrapper: "ensure signal_done is always called").
SlotsReleased == \A r \in Request : stage[r] = "running" ~> stage[r] = "done"

\* A request that got a context is answered, unless it is cancelled in the
\* queue, whose waiter nobody tells.
Withdrawn(r) == handler[r] = "waiting" /\ r \notin heap

AdmittedAnswered ==
    \A r \in Request :
        handler[r] = "admitted" ~> (answer[r] # 0 \/ Withdrawn(r))

=============================================================================
