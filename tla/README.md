# LLM Scheduler: specification, model checking and proofs

LLM Scheduler is an asyncio gateway in front of LLM backends. A client's request
is authenticated, checked against limits, given a place in a priority queue and,
when its turn comes, forwarded to one of several backends. This directory holds
TLA+ modules for the part of it that schedules (the queue, the handler that uses
it, the backends it chooses from, the limits a request passes before it) and for
the part that administers it (keys, password and login, runtime configuration,
the shared client, the queries of the log). TLC checks them on small instances,
and TLAPS proves the main results for every value of the constants.

    tlc -workers 2 -config MCQueueSafety.cfg MCPriorityQueue.tla
    tlapm PriorityQueueProofs.tla

Paths below are relative to the repository's root (`app/core/queue.py` and so on).

## 1. The system

One process, one event loop. Coroutines interleave only where they await, so
what is hard is everything that happens between two awaits of one handler:
another handler's step, a timer, a probe, an operator's request, a disconnect.

| Component | State | Operations | Talks to |
|---|---|---|---|
| Priority queue, `app/core/queue.py` | heap, processing set, two limits, a Condition and its lock | `enqueue`, `wait_for_turn`, `signal_done`, `cancel`, `update_max_size`, `update_concurrency` | called by the request handler, `DELETE /v1/queue/{id}`, `PUT /admin/api/config` |
| Request handling, `app/api/proxy.py` | one `RequestContext` per request | `_process_request`, `_execute_with_retry`, `_stream_wrapper`, `_record_completion`, `_save_log` | queue, backend selection, adapters, database, metrics |
| Backend selection, `_select_backend` | round-robin index per protocol | select, reset | configuration, health checker |
| Health checker, `app/core/health_checker.py` | health per url, list captured at start | probe loop, `_mark`, `is_healthy` | backends |
| Adapters, `app/adapters/` | none of their own | `call`, `stream` | leave a status, tokens or an error in the context, or raise |
| Runtime configuration, `app/api/admin_api.py`, `app/config.py` | the configuration object | `PUT /admin/api/config`, section by section | queue, indices, strategy, HTTP client |
| Rate limiter, `app/core/rate_limiter.py` | deque of times per user | `check`, `reset` | request handling |
| Quota checker, retention, `app/core/quota_checker.py`, `app/database.py` | `request_logs` | `check_quota`, cleanup | request handling, `_save_log` |
| API keys, `app/api/admin_api.py`, `app/core/auth.py` | `api_keys` | create, update, delete, authenticate | shared SQLite connection |
| Admin password and login, `app/main.py`, `app/api/admin_pages.py` | password in memory and in the file, failures per address | startup hashing, reset file, change, login, lockout | file system, sessions |
| Shared HTTP client, `app/core/http_client.py` | client, its proxy | init, get, close | `GET /v1/models` |
| Metrics, `app/core/metrics.py` | counters and gauges | increments, sets | request handling |
| Strategies, `app/strategies/` | the strategy object | made, replaced; `compute_priority`, which the handler never calls | request handling, configuration |
| Log queries, `app/api/admin_api.py` | none | `get_stats`, `get_logs` | `request_logs`, `api_keys` |

What makes each correct, in a sentence:

* queue: best rank first, never more than the limit, no turn lost, nobody
  forgotten, no slot or heap entry without an owner;
* request handling: the queue's protocol on every path, one answer, one record,
  the slot given back, at most one retry and elsewhere;
* selection and health: only eligible backends, turns shared evenly;
* configuration: the running components end up as configured, or nothing changes;
* limiter: no more than the limit in any window, and no request refused below it;
* quota and retention: sums over the right interval, and no cleanup gives tokens back;
* keys: an update changes what it names and nothing else;
* password: what the operator set last survives a restart, and nothing else opens
  the console; lockout bounds the guesses and lasts no longer than it must;
* shared client: whoever gets it can use it, and it goes through the right proxy;
* queries: a breakdown leaves no request out, pages skip no row.

Hard behaviours, listed at their lines in `PROJECT.json` under "hazards": a timer
against a notification; a notified waiter that looks before or after another
step; heap entries without a waiter and waiters without an entry; limits changed
under running requests; exceptions and cancellations between taking a slot and
giving it back; a backend chosen long before it is used; one index shared by
lists of different lengths; read-modify-write across an await; one database
transaction shared by all handlers; a file that is truncated before it is
rewritten; a client closed by one call and wanted by another.

## 2. The modules

| Module | Role |
|---|---|
| `TurnScheduler` | abstract: requests wait, the best ranked waiting one may start below the limit, leaving is final |
| `PriorityQueue` | `app/core/queue.py` and the protocol of its callers |
| `PriorityQueueProofs` | theorems about it |
| `BackendPool` | backends, round-robin indices, health probes, replacement of the list |
| `Gateway` | EXTENDS both: the life of a request in `app/api/proxy.py` |
| `GatewayProofs` | theorems about it; EXTENDS `PriorityQueueProofs` |
| `WallClock` | the machine's clock, which may be set back, and its dates |
| `RateLimiter` | `app/core/rate_limiter.py` |
| `TokenQuota` | the sums of `app/core/quota_checker.py`, the rows and the cleanup of `app/database.py` |
| `Admission` | EXTENDS both: a request from its key to the queue, and its log row |
| `AdmissionProofs` | theorems about it |
| `ApiKeys`, `ApiKeysProofs` | the table of keys: `app/api/admin_api.py`, and what of `app/core/auth.py` and `_save_log` meets it on the connection |
| `AdminPassword` | the password in files and memory: `app/main.py`, `app/config.py`, `app/api/admin_api.py` |
| `LoginLockout` | EXTENDS `WallClock`: `POST /admin/login` of `app/api/admin_pages.py` |
| `ConsoleProofs` | theorems about these two |
| `RuntimeConfig` | `PUT /admin/api/config` of `app/api/admin_api.py` |
| `HttpClient` | EXTENDS `RuntimeConfig`: `app/core/http_client.py` |
| `ConfigProofs` | theorems about these two |
| `LogQueries` | `get_stats` and `get_logs` of `app/api/admin_api.py` |
| `Administration` | EXTENDS the administrative modules |
| `AdministrationProofs` | theorems about `LogQueries`, and what those about the parts say of the whole; EXTENDS their proof modules |
| `DataTheorems` | lemmas about sums over finite sets and about loops that collect a list |
| `MCPriorityQueue`, `MCGateway`, `MCAdmission`, `MCAdministration` | instances for TLC |

### PriorityQueue

`heap` is the set of requests in `self._heap`, ordered by `Before`, the tuple
comparison of `(priority, timestamp, id)`; `heapq`'s array is not modelled, only
that `heap[0]` is the least entry. `processing`, `maxSize` and `maxConcurrency`
are the fields of those names. `stage` says where each request's handler stands;
"asleep" is `condition.wait()`, "woken" the time between a notification and the
next look at the heap.

| Action | Code |
|---|---|
| `Enqueue`, `RefuseFull` | the two outcomes of `enqueue()` |
| `TakeTurn`, `Sleep` | one pass of the loop of `wait_for_turn()` |
| `Timeout` | the timer of `asyncio.wait_for`, also after a notification; the entry stays in the heap |
| `SignalDone`, `Cancel`, `UpdateMaxSize`, `UpdateConcurrency` | the methods of those names |

Why an action may be a whole critical section: inside `async with self._lock` no
method awaits anything but `condition.wait()`, and an `asyncio.Lock` that nobody
holds is acquired without suspending. So a handler that comes from `enqueue()`
goes straight on to its first check: `RunsOn` says so, and `HasLoop`, a guard of
every other action, lets nobody in between. The exception are waiters with a timer.
`asyncio.wait_for` (Python 3.11, the image of the Dockerfile) runs
`condition.wait()` in a task of its own; when that task is notified it takes the
lock, and holds it until the waiter is resumed. Whoever wants the lock meanwhile
stands in line, and the line may outlast that waiter. `LockContended` is therefore
true once a request with a timer has come as far as its check; from then on a
handler may be overtaken anywhere between two calls of the queue. Without timers
the model has only the runs that the event loop has; with them it allows at most
some more.

`Timed` is the set of requests whose handler read `queue.timeout > 0`. A timer is
a step that may happen any time while the waiter waits; that every notification
restarts it is not modelled (it has no effect without a clock).

### BackendPool

`backends` is `config.backends`; a record has a url, the protocols, the models
(a set; empty or with `"*"` serves all) and the enabled flag. `Eligible` is the
loop over the list, as a function of the position it has reached; with it `Pick`
and `Advance` are `_select_backend`, whose lock is never held across a
suspension. `indices` keeps `idx + 1`, not reduced, as the code does. `probed` is
the list the health checker was started with: `ReplaceBackends` does not change
it, and a url never probed counts as healthy. `failCount` is capped at
`FailThreshold`, beyond which it changes nothing.

### Gateway

One action runs from one suspension of `_process_request` to the next.

| Action | Code |
|---|---|
| `Refuse` | authentication, body size, rate limit, quota: some refusal |
| `NoBackend`, `Admit` | the selection before the queue: 502, or a context |
| `EnterQueue`, `QueueFull` | `enqueue()`: wait, or 429 |
| `WaitOn`, `QueueTimeout` | `wait_for_turn()`: asleep, or 408 |
| `StartCall`, `StartWithoutBackend` | the turn of a plain request and its first attempt, with a new selection |
| `StartStream` | the turn of a stream: 200, on the backend selected before the queue |
| `Retry`, `CallReturns` | `_execute_with_retry` after 502/503, and its end |
| `CallRaises` | an exception the adapter lets through, e.g. `httpx.ReadError` |
| `StreamEnds`, `Disconnect` | the body is over, or its task is cancelled |
| `Release` | `signal_done()`, `_record_completion()`, the plain answer |
| `CancelRequest`, `UpdateQueueConfig`, `PoolStep` | the other handlers and the probe loop |

A handler keeps the event loop from the selection to its first check in the queue,
and from the end of a call to the release of its slot, unless it must wait for the
queue's lock: `GoesOn` and `Controls` say so, as `RunsOn` and `HasLoop` do for the
queue alone.

`Disconnect` deserves a word. When a client goes away Starlette cancels the task
that iterates over the body; the `finally` of `_stream_wrapper` runs in the
cancelled scope. If the queue's lock is free it is acquired without suspending and
all is well, which is `StreamEnds` followed by `Release`. If it is held the
cancellation is delivered in `acquire()` and neither `signal_done()` nor
`_record_completion()` happens, which is `Disconnect`. The lock is held at such a
moment only by a notified waiter with a timer (`LockHeld`).

The set `Faults` of a configuration says which of "raise" and "disconnect" may
happen; the safety run has both.

### RateLimiter, TokenQuota, Admission

These are what `Gateway` has as one abstract refusal, `Refuse`; here the queue and
the backends are one stage, "admitted".

| Action | Code |
|---|---|
| `PassLimiter`, `Limited` | the rate limit (`Grant`, `Reject`: the outcomes of `check()`), up to the date `check_quota` reads |
| `PassDaily`, `PassMonthly`, `Exceeded` | the two sums of `check_quota`, an await each |
| `Leave`, `Complete` | the end of the request without or with `_record_completion` |
| `SaveLog`, `SaveFails` | the task of `_save_log` |
| `Restart` | the process ends; at its start the limiter is empty and `cleanup_old_logs` runs |
| `TurnClock` | time passes, or the clock is set back |

`windows[u]` is the deque of u's name, `<<>>` also when it is absent. Popping from
the left until a time is not expired leaves later, smaller times in place:
`Fresh` says so, since after the clock was set back the deque is not sorted.
`elapsed` is the time that really passes. Only the properties read it: they bound
the requests within a window of real time, whatever the clock shows. The clock is
not set forward by a jump: that would end windows early, which no code reading a
wall clock can prevent.

`log` has of a row the request (hence its user and tokens) and the date of its
`created_at`. The column is `CURRENT_TIMESTAMP`, "2026-11-19 02:19:17", and the
bound of a sum an `isoformat()`, "2026-11-19T00:00:00+00:00". The column has no
converter and SQLite compares text: a space sorts before a T, so rows of the date
of the bound are below it and rows of later dates above. `UsageSince` is that
comparison on dates. `cleanup_old_logs` compares with `datetime(...)`, which has
the column's format; of the first date in the retention any part may be old
enough, as the time of day is not in the model. `INSERT` and commit are one step.
`inserted` is history: the rows there ever were, from which the cleanup has taken
some. Windows and sums are by name, which several keys may have. For the quota that is
what `tests/test_quota.py:77` asks for ("Quota check is per-user"), although
README.md:21 speaks of the API key; for the limiter see section 4.

### ApiKeys

All handlers use one `aiosqlite` connection. Every awaited statement is a step,
and between two of them any other handler may run its own; there is one
transaction, which whoever commits first ends for everybody.

| Action | Code |
|---|---|
| `InsertKey`, `AnswerCreate` | `create_api_key`: the INSERT, and `SELECT last_insert_rowid()` |
| `FindKey` | the SELECT of `update_api_key` and `delete_api_key`, 404 if no row |
| `WriteUpdate`, `WriteDelete` | their UPDATE and DELETE |
| `InsertLog` | the INSERT of `_save_log` |
| `Commit` | `commit()` of any of them |
| `CrashAndReopen` | the process dies, the transaction is lost, the file is opened again |

`db` is what the connection sees, `disk` what was committed. `Accepts` is the
SELECT of `authenticate_request` with its 401 and 403. The tables have
AUTOINCREMENT ids, so `lastKey` only grows. A key is named by the call that drew
it: that two draws differ is assumed (`KeysAssumption`).

### AdminPassword

| Action | Code |
|---|---|
| `PutResetFile` | the operator writes `reset_admin_password` |
| `LoadConfig` | `load_config`: local over file over default |
| `TakeReset`, `HashAtStartup`, `StartAsLoaded` | `lifespan` of `app/main.py`: the reset file, the hashing, neither |
| `Change` | `change_admin_password` up to the assignment in memory |
| `Truncate`, `Dump`, `WriteFails`, `SkipWrite` | `open(p, "w")`, `safe_dump`, an exception in either, no file |
| `ProcessEnds` | a stop, a crash, a restart |

The write is split where the code has two effects on the file: opening truncates
it. A text is a word and how often it was hashed, and a hash has 60 characters
(`HashLength`), because the code tells the two apart by length. A password has
characters (`Length`), which the code tests, and bytes (`Bytes`), of which bcrypt
takes no more than 72: `HashAtStartup` and `TakeReset` stop the startup for a longer
one, and `Change` has no effect. `promised` and
`kept` are history: the password an operator may expect to work, until it was
answered 500, or lost in a crash before it was written.

### LoginLockout

`LoginRefused`, `LoginSucceeds` and `LoginFails` are the three ends of the
handler, which does not await between the filter and its answer; `ForgetFailures`
is a restart. A failure carries the reading of the clock, which the code keeps,
and the real time, which only the properties read.

### RuntimeConfig and HttpClient

`PutConfig` is the whole handler, which does not await. `Order` is the order in
which it takes the settings and `Written` those it reaches: an unknown strategy
raises after it is in the configuration (500), an unknown protocol before (422),
and what precedes stays. `pending` is the queue of `update_concurrency()` tasks;
asyncio starts them in the order they were scheduled and the queue's lock is
granted in the order asked for. `queueLimits.max` is written only by a call that
sends it. `EnsureStrategy` is the first step of a proxied request.

`ReuseClient`, `ReplaceClosed`, `StartRebuild` and `FinishRebuild` are
`get_client`, cut at the one await, `aclose()`, before which the old client is
already marked closed.

### LogQueries

Each SELECT is a step; rows are added and keys change in between. `Joined` is the
LEFT JOIN on the name and `GroupOf` the GROUP BY, whose `name` is the column of
`api_keys`. A row has its user, whether it failed, and whether it is in the period
asked for.

### Administration

No step of one part reads or writes the variables of another: of the handlers of
one part, none calls one of another part. (The queries read the table of keys,
and `LogQueries` lets it change at will.) On the variables of one part every
behaviour of all parts together is therefore a behaviour of that part alone, and a
property of one part holds of the composition if it holds of the part.
`AdminSpec` uses this: a behaviour picks one part at the start. The theorems are
about the specification of each part, which allows any steps of the others, and
`AdministrationHasParts` takes them to `AdminSpec`.

### What is abstracted

Bodies, headers, tokens and error texts are left out; a status code is kept where
a branch or an answer depends on it. Timestamps are arbitrary constants with ties:
the model does not assume that the wall clock runs forward between two requests.
Debug dumps, logging and metrics values are left out.

## 3. The runs

| Run | States | Shows |
|---|---|---|
| `queue_safety` | 87,822 | types, `SlotAccounting`, `IdleQueueWakesFront`, refinement of `TurnScheduler` |
| `queue_two_slots` | violation | the front can sleep next to a free slot |
| `queue_expired_entry` | violation | an expired entry blocks the queue |
| `gateway_safety` | 485,644 | bounded load, one record, one answer, distinct attempts |
| `gateway_liveness` | 6,032 | admitted requests are answered, waiters served, slots given back |
| `gateway_slot_leak` | violation | an uncaught exception keeps the slot |
| `gateway_round_robin` | violation | calls are not balanced over equal backends |
| `admission_safety` | 932,118 | the limit holds in real time, refusals are justified, a cleanup does not reopen the monthly quota |
| `admission_daily_quota` | violation | usage of today is not counted |
| `admin_safety` | 581,977 | answered key changes are saved, deleted keys stay out, the promised password works, guesses are bounded, the queue follows the configuration, clients fit, queries are complete |
| `keys_lost_update` | violation | an update undoes a concurrent one of another field |
| `keys_created_id` | violation | a create answers with the id of a log row |

Bounds. The queue runs use three or four requests ranked so that every kind of
comparison occurs: a tie in priority decided by time, a tie in both decided by the
id, and a late request that outranks all. Four are enough for one to run, one to
be the front, one to expire or be cancelled and one to arrive; and for two to run
and two to wait, which the two-slot violation takes. Capacities of 1 and
3 reach a full heap and one that is longer than a lowered limit; limits of 0, 1, 2
include no service, the default, and the first value at which slots and waiters
can be out of step. The gateway runs use two requests, a stream without a timer
and a plain one with, over two urls, under limits of 0 and 1: enough for one to be
in flight, with a retry elsewhere or a list replaced between its attempts, while the
other waits, finds the queue full, or holds the lock as a woken waiter when the stream
is abandoned. Larger limits are in the liveness run, and in the theorem
`LoadStaysBounded`.
The routed list contains one url twice, as the routing example in DOCS.md does, a
disabled backend and one that serves a single model. Every run explores its whole
instance; requests are finitely many and never reused, so no counter needs a cap
except `failCount`.

The admission run has three requests of one user, through keys of one name with
limits 2 and 1, so that a window can hold two expired times and a smaller limit
can meet a window filled under a larger one, and one of another user, whose
requests purge windows and whose tokens must not count. The window is 1 and time
runs to 2, so a request can be inside, exactly at the end of and beyond the
window; the clock may be set back by 1. A date lasts about as long as a window
(only the order of dates matters to the sums). The dates pass midnight within a
month and into the next while a check is under way. A retention of one day, the
shortest that reaches back over these months, and a table of two rows make both
parts of the cleanup delete something, and rows reach the very date at which they
expire. Keys without a limit do not enter the limiter; the run of the daily quota
has one.

The liveness run has three requests, one a stream, over one backend whose health
comes and goes, and a limit that changes between 1 and 2 while they wait: three
are needed for one to run, one to wait at the front and one behind it.

The administrative runs. Keys: one key in the table and one created while two
updates (of the limit, and disabling), a delete and a log row run, all on the old
key or the new one, with crashes anywhere; these are the fewest handlers for which
a commit saves another's half, an update meets a delete, and a log row takes the
last row id. Passwords: one on each side of every length the code tests (5, 8, 59,
60 and 73 characters against 6, 60 and 72), and one of 30 characters in 90 bytes,
through any number of changes, resets,
failing writes and restarts. Login: two addresses, two failures and a lockout of
two, three attempts per address, a clock that runs to 3 and may be set back by 1,
so that failures expire one at a time, and during a refusal. Configuration: four
bodies, two of them refused at the two settings that can be, with two changes of
the concurrency in flight; three calls want the client, so two can rebuild it
while the third comes by, for two proxies. Queries: a log that grows from two rows
to four under pages of two, one row out of the period, two keys that may share a
name, have none of the log's, or go away.

Deadlock is checked in every run: the configuration and cancellation actions,
probes, or restarts keep the models from stopping.

Fairness. `FairQueueSpec` has weak fairness of each waiter's check (the event
loop runs every ready task and the lock is granted in FIFO order) and of
`SignalDone` (a call ends, since it runs under `backend.timeout`).
`PromptQueueSpec` has only the first: it asks what holds however long calls take.
`FairGatewaySpec` has weak fairness of each handler's own progress and none of
clients arriving, operators, timers, probes or faults. `MCGatewayLiveness`
excludes timeouts, limits below 1 and faults: with them the properties are false,
which is what `queue_expired_entry` and `gateway_slot_leak` show. Nothing in
`Administration` must happen: its properties are safety properties.

## 4. What the violations say

1. **A waiting request sleeps next to a free slot** (`queue_two_slots`). With
   concurrency 2, let A and B run, H (better rank) and L wait, and A and B finish
   in one pass of the loop. If L is resumed first it is not the front and sleeps
   again; H takes its turn and pops itself; `heappop` notifies nobody. L sleeps
   although one slot is free, until the next enqueue, release or cancellation.
   Running `app/core/queue.py` with this order of arrivals gives exactly
   that end state (processing 1, waiting 1, limit 2). The docstring of
   `wait_for_turn` says that such a request acquires its turn. With one slot this
   cannot happen: theorem `SingleSlotFrontAwake`.
2. **An expired wait blocks the queue** (`queue_expired_entry`). On a timeout
   nobody removes the heap entry. When it reaches the front nobody takes the turn
   and everyone behind it waits until they expire too. It also keeps its place in
   the capacity. The client can still delete it by `DELETE /v1/queue/{id}`.
3. **A slot is lost with an exception** (`gateway_slot_leak`). The plain path has
   no `finally`. With the default concurrency of 1 the gateway then serves nobody
   until it is restarted or the limit is raised.
4. **Round-robin is not balanced** (`gateway_round_robin`). A plain request
   advances the index twice, so with two equal backends sequential requests all
   go to the same one.
5. **Today's usage is not counted** (`admission_daily_quota`). `check_quota` sums
   the rows from "2026-11-19T00:00:00+00:00" on, and the rows of that day read
   "2026-11-19 ...", which is less. A daily quota therefore refuses nobody on the
   day it is spent, and the monthly sum omits the first of the month. SQLite
   gives the same answer for the two texts. `tests/test_quota.py` inserts rows
   with `isoformat()` values, which `_save_log` never writes, and passes.
6. **An update undoes another one** (`keys_lost_update`). `update_api_key` reads
    the row, awaits, and writes every column back. One that sets the limit and one
    that disables the key, overlapping, can leave the key enabled. DOCS.md:517 says
    that only provided fields are updated.
7. **A create answers with a foreign id** (`keys_created_id`).
    `SELECT last_insert_rowid()` comes two awaits after the INSERT, on a connection
    on which the log writer inserts too. `tests/test_api.py` updates and deletes the
    new key by that id.

What else the models show, without a run of its own:

* A failed backend is answered 200. The adapters turn a connection error and a
  timeout into a status 502 or 504 in the context and an error body; the plain
  handler answers the body with status 200 (`Release`), and only the log row has the
  real one. When no backend was left after the wait there is no result, and the
  answer is 200 and empty (`StartWithoutBackend`). DOCS.md:188-190 promises 502 and
  504. `GatewayTypeOK` and `AdmittedAnswered` ask for an answer, not for a true one.
* Keys with one name limit each other. The limiter keeps its windows by user name,
  which the table of keys does not make unique, and compares one window with the
  limit of whichever key comes. The limiter's docstring (`app/core/rate_limiter.py:9`)
  and DOCS.md:1086 speak of a limit per API key. What is true, and checked, is
  `RefusedOnlyAtLimit`: the requests of the name reached the limit.
* A slot can be lost with a disconnect, too: the `finally` of `_stream_wrapper` awaits
  the lock of the queue in a task that is being cancelled, and if a notified waiter
  with a timer holds the lock the await is cancelled with it (`Disconnect`). The
  docstring says that `signal_done` is always called. `SlotsReleased` fails with the
  fault "disconnect" as it does with "raise".
* A stream goes to the backend chosen before it waited, although probes may have
  marked it unhealthy since (`StartStream`); the plain path chooses again. DOCS.md:1154
  and 1189 exclude unhealthy backends always.
* Trimming the log to `max_records` takes the oldest rows of all users, however
  recent, so after a restart a user whose rows the traffic of others pushed out passes
  the monthly check. With a table that is never full, a retention that reaches over
  the month and a clock that is not set back it cannot happen: `MonthlyQuotaSurvives`.
* A password changed through the API is overridden at the next start if
  `config.local.yaml` sets one, and is not written at all if the configuration
  file does not exist, though the answer is 200 (DOCS.md:995 says persisted). On
  the read-only mount of `docker-compose.yml` the answer is 500 and the new
  password is in use until the restart. `OnlyPromisedPasswordWorks` excludes
  exactly these: `local = Nothing`, `kept`, an answer of 500.
* A crash between `open(p, "w")` and the end of the dump leaves an empty file:
  the next start takes every default, the password among them.
* A password of more than 72 bytes is refused by bcrypt; in the reset file it stops
  the startup, after the file was removed, and in the configuration, if it has less
  than 60 characters, it stops every startup.
* The lockout is a sliding window: it ends 300 s after the oldest of the last five
  failures, not 300 s after the fifth (DOCS.md:991).
* Switching the proxy off keeps the old client, as `proxy_url and ...` is false
  for an empty one (DOCS.md:821 says that changes take effect immediately);
  `HandedClientFits` therefore speaks of calls that ask for a proxy. Two calls
  rebuilding at once leave a client open that nobody closes, and a client is
  closed under calls still using it.
* A configuration call answered 422 leaves the settings before the refused one
  applied. An unknown strategy stays in the configuration, and before the first
  proxied request it makes every one fail with 500.
* An update of a row that was deleted meanwhile writes nothing and answers 200. A
  key disabled or deleted while its request waits in the queue is still served.
* In `get_stats` all users without a key are one line, a user with two keys of
  that name is counted twice, and errors, counted last, can exceed the total.

## 5. What is proved

Every invariant and every action property of the passing runs, for every value of
the constants that the named assumptions allow: every finite set of requests, all
priorities and timestamps, any distinct tiebreakers, any sets of integer limits
(`QueueAssumption`), any backend lists (`PoolAssumption`), any outcomes and faults
(`GatewayAssumption`), and those listed at the end of this section.

About the queue (`PriorityQueueProofs`):

* `QueueTypeCorrect`: types; inductive as it stands.
* `SlotsAccountedFor`: `SlotAccounting`, inductive with the types.
* `FrontAwakeWhenIdle`: `IdleQueueWakesFront`, inductive with the types. The heart
  is `IdleFrontHasTurn`: with `processing` empty and a positive limit the front's
  check succeeds, so it cannot go to sleep; every other step either leaves the
  front, the limit and `processing` as they were or wakes everyone.
* `SingleSlotFrontAwake`: if no limit exceeds 1, whoever `HasTurn` is awake.
* `QueueImplementsScheduler`: the refinement. `RefinementStep` takes each action
  to one abstract action or a stutter; `StandingCases` computes the mapped state,
  `FrontNotOutranked` shows that the front is not outranked by a waiting request,
  `WaitingFits` that the abstract capacity has room when the heap has, since
  expired entries only make the heap larger.

About the gateway (`GatewayProofs`):

* Every gateway step is composed of a queue step or leaves the queue alone
  (`GatewayStepIsQueueStep`, `GatewayUsesQueue`). That is how the module is built, and
  says nothing of the handlers; it carries the queue's invariants over
  (`GatewayQueueInvariants`).
* `HandlersAgree`: the inductive invariant `HandlerInv`. It ties where a handler
  stands to the request's stage (`StageAgrees`), its answer (`AnswerAgrees`: none
  before the turn is used up, one as soon as a stream has started) and its record
  (`RecordAgrees`). `CompletionRecorded` alone is not inductive: `Release` could
  record a stage that was already "done", or leave a request unanswered, were it
  not known that a releasing handler is "running" and a stream has its 200. The
  step is split into the handler that moves (`MoverAgrees`) and the others, which
  are at most woken (`OthersUnmoved`, `AgreesUnmoved`).
* `CompletionsRecorded`, `AnswersStand`: its consequences.
* `LoadStaysBounded`: calls in flight are a subset of `processing` (`HandlersAgree`
  and `SlotAccounting`), which is below some configured limit (`SlotsBounded`,
  since only `TakeTurn` adds to it, under the current limit).
* `GatewayImplementsScheduler`: with `QueueImplementsScheduler`, every behaviour
  of the gateway is one of `TurnScheduler`.
* `GatewayTypeCorrect`, `AttemptsStayDistinct`: from `CallsInv`. Distinct attempts
  need to know that a request before its turn has called nobody; and types, that
  what is selected is a known url. Both depend on what the selection loop collects
  (`EligibleElements`: backends outside `exclude` only) and on the index designating
  one of them however long the list has become (`PickedIsEligible`).

About admission (`AdmissionProofs`):

* `AdmissionTypeCorrect`: types, and that no window outgrows the largest limit of
  its keys. It needs what popping does (`FreshPops`: a prefix goes).
* `LimiterInvariant`: `LimiterInv`, from which the next two follow. The numbers in a
  window are no evidence by themselves: after the clock was set back they are not
  sorted, and one that is expired can stand behind one that is not. So `Recorded`
  names the request behind each of them. The requests are distinct and in the order
  in which they passed; a number is at most the real time and falls short of it by
  no more than the clock was set back until now; whoever passed within the last span
  is among them. Popping keeps the latter because such a request's number is not
  below the cutoff, however far the clock was set back (`FreshIsRecorded`). The purge
  may empty a window whose last number is expired, because those before it passed
  earlier still (`StaleIsForgotten`).
* `RateIsRespected`, `RefusedAtLimitOnly`: a window counts at least those of the last
  span (`WindowCounts`), and after popping at most those of the span stretched by
  what the clock was set back (`FreshCounts`).
* `QuotaRefusalsJustified`: from `QuotaInv`, by which only a request with a quota is in
  `check_quota`. The sum compared as text leaves out rows that the real usage has
  and never the other way round, and a sum over fewer rows is no larger
  (`UsageNotOverstated`, `TokensMonotone`).
* `MonthlyQuotaOutlivesCleanup`: from `LogInv`, which relates every row that is missing
  from the log to the checks under way: while `LogReachesBack`, it was older than the
  retention when it was deleted (`CleanupExpiresOnly`), and for a check under way when
  that check began, since a restart ends every check there is and the date never goes
  back. So the rows that a check sums have all been kept.

About the administrative parts, each for its own specification:

* `AnsweredIsSaved` (`ApiKeysProofs`): `AnswersAreSaved`, inductive with the types
  of the tables (`TablesOK`). A commit makes all rows saved; every other write
  touches the row of a call that is now "written" (`OtherRowsSaved`).
* `DeletedForGood`: from `DeleteInv`. `DeletedKeyStaysOut` needs that the deleted
  id lies below the ids still to be given, that a key is in one row only, and that
  a key not drawn yet is in no row and has been seen by no delete.
* `PromisedPasswordOpens` (`ConsoleProofs`): from `PasswordInv`. Nothing is
  ever hashed twice, a promise is in the memory while the process runs, and a kept
  one is what the next start loads. It needs a default shorter than a hash.
* `GuessesStayBounded`, `RefusalsJustified` (`ConsoleProofs`): from
  `LockoutInv`. The bound says nothing of failures the filter dropped, hence
  `DroppedAreOld`: these are a lockout old in real time, since the clock never
  runs ahead of it (`TimedRight`).
* `QueueLimitsFollow` (`ConfigProofs`): from `ConfigInv`.
  `QueueFollowsConfig` says nothing while tasks are under way, so the invariant
  speaks of `LastScheduled`, the limit the last of them will set.
* `HandedClientsFit` (`ConfigProofs`): from `ClientInv`, whose point is that what is
  recorded of the current client's proxy is true also while it is closed.
* `KeysTypeCorrect`, `PasswordTypeCorrect`, `LockoutTypeCorrect`,
  `ConfigTypeCorrect`, `ClientTypeCorrect`: the types of each part.

About the queries of the log and the whole (`AdministrationProofs`):

* `QueriesInvariant`: `QueriesInv`, which is `ReaderInv` and `StatsInv` with the types.
  What a reader has not seen of the rows it wants is beyond the pages it has had;
  new rows only push it further, and a page that rows follow is full (`FullPage`), so
  after a short one nothing is left. The total is of rows that are still in the
  period when the lines are fetched (`PeriodGrows`), the join has them all
  (`JoinKeepsAll`), and its groups share it out (`GroupsAddUp`).
* `AdministrationHasParts`: `AdminSpec` implies the specification of each part, hence
  `AdministrationTypeCorrect`, `BreakdownIsComplete`, `PagesAreComplete` and
  `AdministrationIsSafe`, which are about what the run explores.

Sums and loops (`DataTheorems`). What `MapThenSumSet` computes, and what a recursive
function collects, is settled by induction, but the library's induction theorems take
an operator as a parameter, which the provers cannot instantiate. The proofs use
well-foundedness instead: if the claim were false, some finite subset, or some
position, would be a smallest counterexample (`SmallestSubset`, `LeastNat`), and the
one below it refutes it. In this way: a sum exists (`SumsExist`, the recursive function
is defined), does not depend on the order (`SumsAdd`), grows with the set
(`SumsMonotone`), and the sizes of the parts of a set add up to its size
(`PartsAddUp`); a loop ends (`CollectExists`) with a list of elements it has chosen
(`CollectedElements`).

What these assume, besides the first paragraph: a list of backends is a list, of
known urls and protocols (`PoolAssumption`); a calendar in which dates do not go
backwards and a month starts no later than its days (`ClockAssumption`), a positive
span (`LimiterAssumption`), tokens that are numbers or missing (`QuotaAssumption`),
and limits that are numbers (`AdmissionAssumption`); disjoint sets of calls, distinct
keys and an initial table (`KeysAssumption`); passwords of no more characters than
bytes (`PasswordAssumption`); positive numbers for the lockout (`LockoutAssumption`); bodies
that send known settings, an initial strategy and protocol that are known
(`ConfigAssumption`); finitely many names and key ids, as strings and integers of
SQLite are bounded, and a positive page size (`QueriesAssumption`). The bounds of the
exploration (`MaxTime`, `MaxSetBack`, `MaxAttempts`, `MaxPending`, `MaxRows`) are
constants too: the theorems hold for all of them.

Only model-checked: the three liveness properties, `AdmittedAnswered`,
`SlotsReleased` and `EveryWaiterServed`, since temporal reasoning with fairness and
ENABLED is beyond the prover. The properties of the violation runs are false.

## 6. Plan

Done, with their proofs: the queue, its abstract specification and refinement, the
gateway around it, the backends; the rate limiter, the quota and the retention; the
keys, the password, the login, the configuration, the shared client; the queries of
the log.

Left, most important first:

1. `LockedQueue`: the queue with its lock as a FIFO of coroutines, refining
   `PriorityQueue`; `HeapArray`: `heapq` with `pop(i)` and `heapify`, checked against
   the set of entries; a clock for the restarted timer.
2. The log row: what it says of a retried request (the error text of the first
   attempt is not cleared, `app/api/proxy.py:283`).

Not modelled, and why:

* metrics: counters and gauges no handler reads;
* `compute_priority` of the strategies: the handler does not call it, and the
  queue leaves priorities arbitrary;
* `get_stats_timeseries`: one SELECT and a grouping by time; the `key_id` filter of
  `get_stats`, which is computed and not used;
* the settings of `PUT /admin/api/config` that no component keeps a copy of;
* debug dumps, logging, parsing of backend responses, templates and static files:
  data and wording;
* the session cookie, signed by the framework, and `verify_admin`, which no route
  uses; `admin.enabled` is taken to be true;
* `close_client()` and `stop()` of the health checker, which run at shutdown only.
