----------------------------- MODULE Admission -----------------------------
(***************************************************************************)
(* What stands between a request with a valid key and the queue: the rate  *)
(* limit and the token quota of its key, as _process_request of            *)
(* app/api/proxy.py applies them, and what feeds the quota afterwards: the *)
(* log row that _save_log inserts in a task of its own once the request is *)
(* recorded.  The queue and the backends are one stage here (Gateway has   *)
(* them); a process restart may fall between any two steps.                *)
(*                                                                         *)
(* The rate check does not await.  Each SQL sum of the quota check does,   *)
(* so other requests are checked, finish and are logged in between, while  *)
(* the dates it compares with were fixed when it began.                    *)
(***************************************************************************)
EXTENDS RateLimiter, TokenQuota

CONSTANTS RateOf,       \* request -> rate_limit read from its key, 0: none
          DailyOf,      \* request -> token_quota_daily, 0: none
          MonthlyOf     \* request -> token_quota_monthly, 0: none

ASSUME AdmissionAssumption ==
    /\ UserOf \in [Request -> User]
    /\ RateOf \in [Request -> Nat]
    /\ DailyOf \in [Request -> Nat]
    /\ MonthlyOf \in [Request -> Nat]

VARIABLES stage,        \* where each request stands
          since,        \* request -> the date its quota check began with
          grantedAt     \* request -> time the limiter let it pass (history)

admissionVars == <<stage, since, grantedAt>>
vars == <<clockVars, limiterVars, quotaVars, admissionVars>>

(***************************************************************************)
(* "arrived"    authenticated                                              *)
(* "limited"    429 from the rate limiter                                  *)
(* "daily"      in check_quota, before the daily sum                       *)
(* "monthly"    in check_quota, before the monthly sum                     *)
(* "exceeded"   429 from the quota                                         *)
(* "admitted"   on its way through queue and backend                       *)
(* "completed"  recorded, its log row not yet inserted                     *)
(* "ended"      logged; or left without a record (502, 429, 408, 500); or  *)
(*              gone with its process; or its row could not be inserted    *)
(***************************************************************************)
Stage == {"arrived", "limited", "daily", "monthly", "exceeded", "admitted",
          "completed", "ended"}

InFlight == {"daily", "monthly", "admitted", "completed"}

Never == -1

AdmissionInit ==
    /\ ClockInit
    /\ LimiterInit
    /\ QuotaInit
    /\ stage = [r \in Request |-> "arrived"]
    /\ since = [r \in Request |-> Today]
    /\ grantedAt = [r \in Request |-> Never]

GoTo(r, from, to) == stage[r] = from /\ stage' = [stage EXCEPT ![r] = to]

\* The first sum check_quota asks for, if any.
FirstCheck(r) == CASE DailyOf[r] > 0   -> "daily"
                   [] MonthlyOf[r] > 0 -> "monthly"
                   [] OTHER            -> "admitted"

AfterDaily(r) == IF MonthlyOf[r] > 0 THEN "monthly" ELSE "admitted"

-----------------------------------------------------------------------------

\* No rate limit, or below it; check_quota, if called, reads the date.
PassLimiter(r) ==
    /\ GoTo(r, "arrived", FirstCheck(r))
    /\ since' = IF FirstCheck(r) = "admitted" THEN since
                ELSE [since EXCEPT ![r] = Today]
    /\ \/ /\ RateOf[r] > 0
          /\ Grant(UserOf[r], RateOf[r])
          /\ grantedAt' = [grantedAt EXCEPT ![r] = elapsed]
       \/ RateOf[r] = 0 /\ UNCHANGED <<limiterVars, grantedAt>>
    /\ UNCHANGED <<clockVars, quotaVars>>

Limited(r) ==
    /\ RateOf[r] > 0
    /\ GoTo(r, "arrived", "limited")
    /\ Reject(UserOf[r], RateOf[r])
    /\ UNCHANGED <<clockVars, quotaVars, since, grantedAt>>

DailyUsed(r)   == UsageSince(UserOf[r], since[r])
MonthlyUsed(r) == UsageSince(UserOf[r], MonthStart[since[r]])

PassDaily(r) ==
    /\ DailyUsed(r) < DailyOf[r]
    /\ GoTo(r, "daily", AfterDaily(r))
    /\ UNCHANGED <<clockVars, limiterVars, quotaVars, since, grantedAt>>

PassMonthly(r) ==
    /\ MonthlyUsed(r) < MonthlyOf[r]
    /\ GoTo(r, "monthly", "admitted")
    /\ UNCHANGED <<clockVars, limiterVars, quotaVars, since, grantedAt>>

Exceeded(r) ==
    /\ \/ GoTo(r, "daily", "exceeded") /\ DailyUsed(r) >= DailyOf[r]
       \/ GoTo(r, "monthly", "exceeded") /\ MonthlyUsed(r) >= MonthlyOf[r]
    /\ UNCHANGED <<clockVars, limiterVars, quotaVars, since, grantedAt>>

\* The queue is full, the wait expires, no backend is left, or the call raises.
Leave(r) ==
    /\ GoTo(r, "admitted", "ended")
    /\ UNCHANGED <<clockVars, limiterVars, quotaVars, since, grantedAt>>

Complete(r) ==
    /\ GoTo(r, "admitted", "completed")
    /\ UNCHANGED <<clockVars, limiterVars, quotaVars, since, grantedAt>>

\* INSERT and commit, taken as one: only a crash tells them apart.
SaveLog(r) ==
    /\ GoTo(r, "completed", "ended")
    /\ InsertRow(r)
    /\ UNCHANGED <<clockVars, limiterVars, since, grantedAt>>

\* The statement raises: the error is logged and the row is missing.
SaveFails(r) ==
    /\ GoTo(r, "completed", "ended")
    /\ UNCHANGED <<clockVars, limiterVars, quotaVars, since, grantedAt>>

-----------------------------------------------------------------------------

\* The process ends and starts again: the limiter and everything in flight are
\* gone, the log is cleaned up.
Restart ==
    /\ stage' = [r \in Request |->
                    IF stage[r] \in InFlight THEN "ended" ELSE stage[r]]
    /\ grantedAt' = [r \in Request |-> Never]
    /\ ResetLimiter
    /\ CleanupLogs
    /\ UNCHANGED <<clockVars, since>>

TurnClock ==
    /\ Tick \/ SetClockBack
    /\ UNCHANGED <<limiterVars, quotaVars, admissionVars>>

AdmissionNext ==
    \/ \E r \in Request :
          \/ PassLimiter(r) \/ Limited(r)
          \/ PassDaily(r) \/ PassMonthly(r) \/ Exceeded(r)
          \/ Leave(r) \/ Complete(r) \/ SaveLog(r) \/ SaveFails(r)
    \/ Restart
    \/ TurnClock

AdmissionSpec == AdmissionInit /\ [][AdmissionNext]_vars

-----------------------------------------------------------------------------
(* Properties *)

\* Types; and a user's window holds no more times than the largest limit of the
\* user's keys, so refused requests do not make it grow.
AdmissionTypeOK ==
    /\ elapsed \in 0..MaxTime
    /\ setBack \in 0..MaxSetBack
    /\ windows \in [User -> Seq(Int)]
    /\ \A u \in User : windows[u] # <<>> =>
          \E r \in Request : UserOf[r] = u /\ Len(windows[u]) <= RateOf[r]
    /\ lastCleanup \in Int
    /\ inserted \subseteq Row
    /\ log \subseteq inserted
    /\ stage \in [Request -> Stage]
    /\ since \in [Request -> Day]
    /\ grantedAt \in [Request -> 0..MaxTime \cup {Never}]

\* Requests of u that the limiter let pass at time t or later.
GrantedFrom(u, t) ==
    {r \in Request : UserOf[r] = u /\ grantedAt[r] # Never /\ grantedAt[r] >= t}

\* Whoever passes the limiter is, within the last Span of time that really
\* passed, one of at most as many as its limit: whoever's request purged the
\* windows, for keys that share a name with different limits, and when the
\* clock has been set back.  The process counts from its own start.
RateRespected ==
    [][\A r \in Request :
          stage[r] = "arrived" /\ grantedAt'[r] # Never =>
              Cardinality(GrantedFrom(UserOf[r], elapsed - Span)')
                  <= RateOf[r]]_vars

\* Nobody is refused unless that many requests of its name really passed within
\* Span, or within Span plus the time the clock was set back by.  The window is
\* kept by name (proxy.py: limiter.check(user_name, ...)), so the requests of
\* all keys of a name count: a key can be refused for those of another, although
\* rate_limiter.py and DOCS.md speak of a limit per key.
RefusedOnlyAtLimit ==
    [][\A r \in Request :
          stage[r] = "arrived" /\ stage'[r] = "limited" =>
              Cardinality(GrantedFrom(UserOf[r], elapsed - Span - setBack))
                  >= RateOf[r]]_vars

QuotaReached(r, quota, day) ==
    quota > 0 /\ UsageFrom(UserOf[r], day) >= quota

\* A request refused for its quota belongs to a user whose own logged usage, in
\* the day or month in which its check began, has reached that quota.
QuotaRefusalJustified ==
    [][\A r \in Request :
          stage[r] # "exceeded" /\ stage'[r] = "exceeded" =>
              \/ QuotaReached(r, DailyOf[r], since[r])
              \/ QuotaReached(r, MonthlyOf[r], MonthStart[since[r]])]_vars

PassesMonthly(r) == stage[r] = "monthly" /\ stage'[r] = "admitted"

UnderMonthlyQuota(r) ==
    EverUsedSince(UserOf[r], MonthStart[since[r]]) < MonthlyOf[r]

\* The retention reaches back over the bound of every month, the table never
\* had to be trimmed and the clock was never set back.
LogReachesBack ==
    /\ RetentionDays > 0 => \A d \in Day : MonthStart[d] >= d - RetentionDays
    /\ MaxRecords > 0 => Cardinality(inserted) <= MaxRecords
    /\ setBack = 0

\* Under these conditions whoever passes the monthly check has logged less than
\* the monthly quota since the bound of the month ("SUM since 1st of month",
\* DOCS.md), in all the rows there ever were: whatever restarts clean up and
\* whenever a check began, no tokens are given back.
MonthlyQuotaSurvives ==
    [][LogReachesBack =>
          \A r \in Request : PassesMonthly(r) => UnderMonthlyQuota(r)]_vars

\* "Daily check: SUM(prompt_tokens + completion_tokens) since midnight UTC"
\* (DOCS.md): nobody whose logged usage of the day has reached the daily quota
\* passes the daily check.
DailyQuotaEnforced ==
    [][\A r \in Request :
          stage[r] = "daily" /\ stage'[r] \in {"monthly", "admitted"} =>
              UsageFrom(UserOf[r], since[r]) < DailyOf[r]]_vars

=============================================================================
