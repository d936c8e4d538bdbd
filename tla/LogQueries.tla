----------------------------- MODULE LogQueries -----------------------------
(***************************************************************************)
(* The read side of app/api/admin_api.py: get_stats, three SELECTs with an *)
(* await between them, and the pages of get_logs, a count and a SELECT per *)
(* page.  Meanwhile requests complete and are logged, and keys come, go    *)
(* and are renamed.  The rows of the log are numbered by their place.      *)
(***************************************************************************)
EXTENDS Integers, Sequences, FiniteSetsExt

CONSTANTS Name,           \* names of keys and users
          KeyId,          \* keys that may be in the table
          OldLog,         \* the rows logged before the model starts
          MaxRows,        \* bound of the exploration
          PerPage,        \* per_page of the reader
          NoName          \* SQL's NULL, and a key that is not in the table

\* What the queries look at: who, whether it failed, and whether created_at is
\* within the period asked for (new rows are).
LogRow == [user : Name, error : BOOLEAN, recent : BOOLEAN]

\* Both are finite: names are strings of bounded length, ids are 64-bit integers.
ASSUME QueriesAssumption ==
    /\ IsFiniteSet(Name)
    /\ IsFiniteSet(KeyId)
    /\ OldLog \in Seq(LogRow)
    /\ MaxRows \in Nat
    /\ PerPage \in Nat \ {0}
    /\ NoName \notin Name

VARIABLES log,            \* request_logs, by id
          nameOf,         \* api_keys: key -> name, NoName if not in the table
          stats,          \* get_stats: "idle", "totalled", "grouped", "done"
          total,          \* total_requests
          perKey,         \* the breakdown: group -> requests
          errors,         \* errors
          reader,         \* one who pages through the logs: "idle", "done" or
                          \* "counted"/"next" for a page in progress/to come
          page,           \* the page asked for
          found,          \* rows that the reader has seen
          wanted          \* history: the rows there were when it began

queryVars == <<log, nameOf, stats, total, perKey, errors, reader, page, found,
               wanted>>

QueriesInit ==
    /\ log = OldLog
    /\ nameOf \in [KeyId -> Name \cup {NoName}]
    /\ stats = "idle"
    /\ total = 0
    /\ perKey = [g \in Name \cup {NoName} |-> 0]
    /\ errors = 0
    /\ reader = "idle"
    /\ page = 1
    /\ found = {}
    /\ wanted = {}

----------------------------------------------------------------------------
\* What goes on meanwhile.

LogRequest(u, failed) ==
    /\ Len(log) < MaxRows
    /\ log' = Append(log, [user |-> u, error |-> failed, recent |-> TRUE])
    /\ UNCHANGED <<nameOf, stats, total, perKey, errors, reader, page, found,
                   wanted>>

\* A create, a rename or a delete.
ChangeKey(k, n) ==
    /\ nameOf' = [nameOf EXCEPT ![k] = n]
    /\ UNCHANGED <<log, stats, total, perKey, errors, reader, page, found,
                   wanted>>

----------------------------------------------------------------------------
\* get_stats

InPeriod == {i \in DOMAIN log : log[i].recent}

CountTotal ==
    /\ stats = "idle"
    /\ stats' = "totalled"
    /\ total' = Cardinality(InPeriod)
    /\ UNCHANGED <<log, nameOf, perKey, errors, reader, page, found, wanted>>

\* (Mutation) JOIN for LEFT JOIN.
JoinedInner ==
    {pair \in InPeriod \X KeyId : nameOf[pair[2]] = log[pair[1]].user}

\* request_logs LEFT JOIN api_keys ON the name: a row with all keys of the name
\* of its user, or alone.
Joined ==
    {pair \in InPeriod \X KeyId : nameOf[pair[2]] = log[pair[1]].user}
        \cup {<<i, NoName>> : i \in {j \in InPeriod :
                                  \A k \in KeyId : nameOf[k] # log[j].user}}

\* GROUP BY name means the column of api_keys, which comes before the alias of
\* that name: the rows without a key are one group, whoever their users are.
GroupOf(pair) == IF pair[2] = NoName THEN NoName ELSE nameOf[pair[2]]

GroupByKey ==
    /\ stats = "totalled"
    /\ stats' = "grouped"
    /\ perKey' = [g \in Name \cup {NoName} |->
                    Cardinality({pair \in Joined : GroupOf(pair) = g})]
    /\ UNCHANGED <<log, nameOf, total, errors, reader, page, found, wanted>>

CountErrors ==
    /\ stats = "grouped"
    /\ stats' = "done"
    /\ errors' = Cardinality({i \in InPeriod : log[i].error})
    /\ UNCHANGED <<log, nameOf, total, perKey, reader, page, found, wanted>>

----------------------------------------------------------------------------
\* get_logs, for a reader who asks for page after page until one is short.

CountRows ==
    /\ reader \in {"idle", "next"}
    /\ reader' = "counted"
    /\ wanted' = IF reader = "idle" THEN DOMAIN log ELSE wanted
    /\ UNCHANGED <<log, nameOf, stats, total, perKey, errors, page, found>>

\* (Mutation) the offset of page 1 is taken for that of page 0.
PageRowsShifted(p) ==
    {i \in DOMAIN log : Len(log) - i \in (p * PerPage)..((p + 1) * PerPage - 1)}

\* ORDER BY id DESC LIMIT per_page OFFSET (page - 1) * per_page
PageRows(p) ==
    {i \in DOMAIN log : Len(log) - i \in ((p - 1) * PerPage)..(p * PerPage - 1)}

FetchPage ==
    /\ reader = "counted"
    /\ found' = found \cup PageRows(page)
    /\ reader' = IF Cardinality(PageRows(page)) < PerPage
                 THEN "done" ELSE "next"
    /\ page' = page + 1
    /\ UNCHANGED <<log, nameOf, stats, total, perKey, errors, wanted>>

QueriesNext ==
    \/ \E u \in Name, failed \in BOOLEAN : LogRequest(u, failed)
    \/ \E k \in KeyId, n \in Name \cup {NoName} : ChangeKey(k, n)
    \/ CountTotal
    \/ GroupByKey
    \/ CountErrors
    \/ CountRows
    \/ FetchPage

QueriesSpec == QueriesInit /\ [][QueriesNext]_queryVars

----------------------------------------------------------------------------
QueriesTypeOK ==
    /\ log \in Seq(LogRow)
    /\ nameOf \in [KeyId -> Name \cup {NoName}]
    /\ stats \in {"idle", "totalled", "grouped", "done"}
    /\ total \in Nat
    /\ perKey \in [Name \cup {NoName} -> Nat]
    /\ errors \in Nat
    /\ reader \in {"idle", "counted", "next", "done"}
    /\ page \in Nat
    /\ found \subseteq DOMAIN log

\* The lines of a statistics answer add up to no less than its total, which was
\* taken before: requests without a key are in a line too, and what is logged
\* or renamed in between does not take any away.  (They can add up to more: a
\* request counts once for every key of its user's name.)
BreakdownCoversTotal ==
    stats \in {"grouped", "done"} =>
        MapThenSumSet(LAMBDA g : perKey[g], Name \cup {NoName}) >= total

\* Whoever pages through the logs until a page is short has seen every row that
\* was there at the start, although new rows push them to later pages.
PagesSkipNothing == reader = "done" => wanted \subseteq found

=============================================================================
