--------------------------- MODULE TurnScheduler ---------------------------
(***************************************************************************)
(* What the gateway's queue promises its callers, without heap, lock or    *)
(* wakeups: requests wait, the best ranked waiting request is the only one *)
(* that may start, and no request starts while `limit' or more run.        *)
(*                                                                         *)
(* "Requests are enqueued by priority (lower value = higher priority)" and *)
(* "up to queue.concurrency requests are processed simultaneously"         *)
(* (README.md, Queue Behavior); "timestamp ensures FIFO ordering within    *)
(* the same priority" (DOCS.md, Priority Queue).  A request that has left  *)
(* never comes back: withdrawing (cancel, 408) and finishing are final.    *)
(***************************************************************************)
EXTENDS Integers, FiniteSets

CONSTANTS Request,      \* request contexts
          Priority,     \* context.priority, lower is better
          Timestamp,    \* context.timestamp
          Capacities,   \* values the waiting capacity may take
          Limits        \* values the concurrency limit may take

VARIABLES standing,     \* request -> "outside", "waiting", "running", "left"
          capacity,
          limit

schedulerVars == <<standing, capacity, limit>>

Waiting == {r \in Request : standing[r] = "waiting"}
Running == {r \in Request : standing[r] = "running"}

\* s strictly outranks r: better priority or, at equal priority, older.
Outranks(s, r) ==
    \/ Priority[s] < Priority[r]
    \/ Priority[s] = Priority[r] /\ Timestamp[s] < Timestamp[r]

Move(r, from, to) ==
    /\ standing[r] = from
    /\ standing' = [standing EXCEPT ![r] = to]
    /\ UNCHANGED <<capacity, limit>>

-----------------------------------------------------------------------------

Admit(r)    == Cardinality(Waiting) < capacity /\ Move(r, "outside", "waiting")
TurnAway(r) == Move(r, "outside", "left")
Withdraw(r) == Move(r, "waiting", "left")
Finish(r)   == Move(r, "running", "left")

Start(r) ==
    /\ Cardinality(Running) < limit
    /\ \A s \in Waiting : ~Outranks(s, r)
    /\ Move(r, "waiting", "running")

SetCapacity(n) == capacity' = n /\ UNCHANGED <<standing, limit>>
SetLimit(n)    == limit' = n /\ UNCHANGED <<standing, capacity>>

SchedulerInit ==
    /\ standing = [r \in Request |-> "outside"]
    /\ capacity \in Capacities
    /\ limit \in Limits

SchedulerNext ==
    \/ \E r \in Request :
          Admit(r) \/ TurnAway(r) \/ Start(r) \/ Withdraw(r) \/ Finish(r)
    \/ \E n \in Capacities : SetCapacity(n)
    \/ \E n \in Limits : SetLimit(n)

SchedulerSpec == SchedulerInit /\ [][SchedulerNext]_schedulerVars

=============================================================================
