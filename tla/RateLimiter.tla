---------------------------- MODULE RateLimiter ----------------------------
(***************************************************************************)
(* app/core/rate_limiter.py: the sliding window of request times per user. *)
(* check() does not await, so it is one action: Grant or Reject.           *)
(***************************************************************************)
EXTENDS WallClock, Sequences, FiniteSetsExt

CONSTANTS User,           \* names of the API keys (keys may share a name)
          Span,           \* the window, 60 seconds
          CleanupAfter    \* time between two purges of stale windows, 300 s

ASSUME LimiterAssumption ==
    /\ Span \in Nat \ {0}
    /\ CleanupAfter \in Nat

VARIABLES windows,        \* self._windows, <<>> where absent
          lastCleanup     \* self._last_cleanup

limiterVars == <<windows, lastCleanup>>

Cutoff == Wall - Span

\* _last_cleanup is read as 0 before it is set: ages ago.
LongAgo == -(CleanupAfter + MaxSetBack + 1)

\* (Mutation) drops a time that is exactly Span old.
FreshStrict(w) ==
    LET kept == {i \in 1..Len(w) : w[i] > Cutoff}
    IN  IF kept = {} THEN <<>> ELSE SubSeq(w, Min(kept), Len(w))

\* (Mutation) an `if' in place of the `while'.
FreshOnce(w) == IF w # <<>> /\ w[1] < Cutoff THEN Tail(w) ELSE w

\* popleft() until the first time is not expired; what is behind it stays, also
\* a smaller time that was recorded after the clock had been set back.
Fresh(w) ==
    LET kept == {i \in 1..Len(w) : w[i] >= Cutoff}
    IN  IF kept = {} THEN <<>> ELSE SubSeq(w, Min(kept), Len(w))

Stale(w) == w = <<>> \/ w[Len(w)] < Cutoff

LimiterInit ==
    /\ windows = [u \in User |-> <<>>]
    /\ lastCleanup = LongAgo

AtLimit(u, limit) == Len(Fresh(windows[u])) >= limit

\* (Mutation) counts the requests it refuses.
RejectCounted(u, limit) ==
    /\ AtLimit(u, limit)
    /\ windows' = [windows EXCEPT ![u] = Append(Fresh(@), Wall)]
    /\ UNCHANGED lastCleanup

Reject(u, limit) ==
    /\ AtLimit(u, limit)
    /\ windows' = [windows EXCEPT ![u] = Fresh(@)]
    /\ UNCHANGED lastCleanup

\* The time is recorded, then the stale windows of all users are purged if the
\* last purge is long enough ago.
Grant(u, limit) ==
    LET recorded == [windows EXCEPT ![u] = Append(Fresh(@), Wall)]
        purged   == [v \in User |->
                        IF Stale(recorded[v]) THEN <<>> ELSE recorded[v]]
        isDue    == Wall - lastCleanup > CleanupAfter
    IN  /\ ~AtLimit(u, limit)
        /\ windows' = IF isDue THEN purged ELSE recorded
        /\ lastCleanup' = IF isDue THEN Wall ELSE lastCleanup

\* A new process starts with an empty limiter.
ResetLimiter ==
    /\ windows' = [u \in User |-> <<>>]
    /\ lastCleanup' = LongAgo

=============================================================================
