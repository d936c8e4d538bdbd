----------------------------- MODULE TokenQuota -----------------------------
(***************************************************************************)
(* app/core/quota_checker.py over the request_logs table of                *)
(* app/database.py, with the rows _save_log inserts and the cleanup at     *)
(* startup.                                                                *)
(*                                                                         *)
(* A row's created_at is CURRENT_TIMESTAMP, "2026-11-19 02:19:17"; the     *)
(* bound of a sum is an isoformat(), "2026-11-19T00:00:00+00:00".  SQLite  *)
(* compares the two as text, and a space sorts before a T: on the day of   *)
(* the bound no row reaches it, on any later day every row does.  The time *)
(* of day is otherwise left out, so that day numbers are enough.           *)
(***************************************************************************)
EXTENDS WallClock, FiniteSetsExt

CONSTANTS Request,
          UserOf,         \* request -> user_name of its row
          TokensOf,       \* request -> prompt + completion tokens, or NoTokens
          NoTokens,       \* NULL: the backend reported none
          RetentionDays,  \* log_retention.retention_days
          MaxRecords      \* log_retention.max_records

ASSUME QuotaAssumption ==
    /\ \A r \in Request : TokensOf[r] \in Nat \/ TokensOf[r] = NoTokens
    /\ RetentionDays \in Nat
    /\ MaxRecords \in Nat

VARIABLES log,            \* rows of request_logs, one per request at most
          inserted        \* every row there ever was (history)

Row == [request : Request, day : Day]

quotaVars == <<log, inserted>>

QuotaInit == log = {} /\ inserted = {}

\* SUM() passes over NULL, COALESCE makes an empty sum 0.
TokensIn(rows) ==
    MapThenSumSet(LAMBDA row : TokensOf[row.request],
                  {row \in rows : TokensOf[row.request] # NoTokens})

\* (Mutation) sums the rows of everybody.
UsageOfAll(u, day) == TokensIn({row \in log : row.day > day})

\* created_at >= day_start (or month_start), compared as text.
UsageSince(u, day) ==
    TokensIn({row \in log : UserOf[row.request] = u /\ row.day > day})

-----------------------------------------------------------------------------

\* _save_log(): one row stamped with the time of the insertion.
InsertRow(r) ==
    LET row == [request |-> r, day |-> Today]
    IN  log' = log \cup {row} /\ inserted' = inserted \cup {row}

\* (Mutation) deletes a day too many.
ExpiredEarly(row) == RetentionDays > 0 /\ row.day <= Today - RetentionDays + 1

\* Some time of the row's day is older than the retention.
MayExpire(row) == RetentionDays > 0 /\ row.day <= Today - RetentionDays

\* ORDER BY created_at ASC; the order within a day is left open.
OldestOf(trimmed, rows) ==
    \A t \in trimmed, kept \in rows \ trimmed : t.day <= kept.day

\* cleanup_old_logs(): rows older than the retention, of whose first day any
\* part may be old enough, then the oldest ones beyond the maximum.
CleanupLogs ==
    /\ \E expired \in SUBSET log :
          LET remaining == log \ expired
              excess    == Cardinality(remaining) - MaxRecords
          IN  /\ \A row \in expired : MayExpire(row)
              /\ RetentionDays > 0 =>
                    \A row \in remaining : row.day >= Today - RetentionDays
              /\ IF MaxRecords > 0 /\ excess > 0
                 THEN \E trimmed \in SUBSET remaining :
                         /\ Cardinality(trimmed) = excess
                         /\ OldestOf(trimmed, remaining)
                         /\ log' = remaining \ trimmed
                 ELSE log' = remaining
    /\ UNCHANGED inserted

\* What the documents call the usage of a user: of a day or a month, from its
\* midnight on.
UsageFrom(u, day) ==
    TokensIn({row \in log : UserOf[row.request] = u /\ row.day >= day})

\* What the sum would be had no row ever been deleted.
EverUsedSince(u, day) ==
    TokensIn({row \in inserted : UserOf[row.request] = u /\ row.day > day})

=============================================================================
