-------------------------- MODULE MCAdministration --------------------------
(***************************************************************************)
(* Instances of Administration for TLC.  Keys: one key in the table, one   *)
(* more created while two updates (of the limit, and disabling), a delete  *)
(* and a log row run, on the old key or the new one.  Passwords: at every  *)
(* boundary of length the code tests, and one of few characters and many  *)
(* bytes.  Configuration: two proxies, a limit *)
(* that changes twice, and a call refused at each setting that can be.     *)
(* Queries: two keys that may share a name or have none of the log's.      *)
(***************************************************************************)
EXTENDS Administration, TLC

CONSTANTS c1, u1, u2, d1, l1, oldKey, admin123, tiny, short, long, huge,
          wide

Row1(limit) == [enabled |-> "on", limit |-> limit]

MCBody == (c1 :> Row1("low")) @@ (u1 :> [limit |-> "high"])
              @@ (u2 :> [enabled |-> "off"])
MCInitialKeys == (1 :> [key |-> oldKey, cols |-> Row1("low")])

MCLength == (admin123 :> 8) @@ (tiny :> 5) @@ (short :> 59) @@ (long :> 60)
                @@ (huge :> 73) @@ (wide :> 30)

MCBytes == (wide :> 90) @@ MCLength

MCDateAt     == [t \in -1..3 |-> 1]
MCMonthStart == [d \in {1} |-> 1]

\* The first row is older than the period the statistics ask for.
MCOldLog == <<[user |-> "alice", error |-> TRUE, recent |-> FALSE],
              [user |-> "bob", error |-> FALSE, recent |-> TRUE]>>

MCInitialConfig ==
    [max_length |-> 5, concurrency |-> 1, strategy |-> "api_key",
     backends |-> "initial", proxy_enabled |-> FALSE,
     proxy_protocol |-> "http", proxy_host |-> ""]

MCBodies ==
    {[concurrency |-> 2, proxy_enabled |-> TRUE, proxy_host |-> "first"],
     [concurrency |-> 1, proxy_host |-> "second", strategy |-> "api_key"],
     [max_length |-> 3, strategy |-> "unknown", backends |-> "other"],
     [backends |-> "other", proxy_enabled |-> FALSE, proxy_protocol |-> "ftp",
      proxy_host |-> "third"]}

=============================================================================
