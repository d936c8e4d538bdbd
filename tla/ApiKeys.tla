------------------------------ MODULE ApiKeys ------------------------------
(***************************************************************************)
(* The table of API keys: create, update and delete of                     *)
(* app/api/admin_api.py, the log writer of app/api/proxy.py, and the       *)
(* authentication of app/core/auth.py, on the one SQLite connection that   *)
(* they share.  Each awaited statement is a step; between two of them any  *)
(* other handler may run its own.  The driver opens a transaction at the   *)
(* first write and commit() ends it: there is one transaction for          *)
(* everybody, and a commit saves whatever anyone has written so far.       *)
(*                                                                         *)
(*   create    idle --Insert--> written --Commit--> committed              *)
(*                  --AnswerCreate--> answered                             *)
(*   update,   idle --Find--> found | missing                              *)
(*   delete    found --Write--> written --Commit--> answered               *)
(*   log       idle --Insert--> written --Commit--> answered               *)
(*                                                                         *)
(* A crash of the process loses the open transaction and every call.       *)
(***************************************************************************)
EXTENDS Naturals

CONSTANTS Creates, Updates, Deletes, Logs,  \* the calls, one set per handler
          Field,          \* the columns a call can set, "enabled" among them
          Value,          \* what is stored in them, "on" among it
          Body,           \* call -> columns it sends -> value
          Target,         \* ids that updates and deletes ask for
          InitialKeys     \* id -> row, the table that startup finds

Call == Creates \cup Updates \cup Deletes \cup Logs

\* The key of a new row is random; it is named by the call that draws it.
Key == Creates \cup {InitialKeys[k].key : k \in DOMAIN InitialKeys}
Row == [key : Key, cols : [Field -> Value]]

ASSUME KeysAssumption ==
    /\ Creates \cap (Updates \cup Deletes \cup Logs) = {}
    /\ Updates \cap (Deletes \cup Logs) = {}
    /\ Deletes \cap Logs = {}
    /\ "enabled" \in Field
    /\ "on" \in Value
    /\ \A c \in Creates : /\ Body[c] \in [Field -> Value]
                          /\ Body[c]["enabled"] = "on"
    /\ \A u \in Updates : /\ DOMAIN Body[u] \subseteq Field
                          /\ \A f \in DOMAIN Body[u] : Body[u][f] \in Value
    /\ Target \subseteq Nat
    /\ DOMAIN InitialKeys \subseteq Nat
    /\ InitialKeys \in [DOMAIN InitialKeys ->
                            [key : Key \ Creates, cols : [Field -> Value]]]
    /\ \A j, k \in DOMAIN InitialKeys :
          InitialKeys[j].key = InitialKeys[k].key => j = k

VARIABLES db,             \* what the connection sees: keys (id -> row), and the
                          \* last ids given to a key and to a log row
          disk,           \* the same as the last commit left it
          lastRowid,      \* last_insert_rowid() of the connection
          stage,          \* call -> where its handler is
          target,         \* update or delete -> the id it was called with
          seen,           \* update or delete -> the row it found (`existing')
          answeredId      \* create -> the id in its answer, 0 before

keysVars == <<db, disk, lastRowid, stage, target, seen, answeredId>>

NoRow == [key |-> "none"]

\* table with row r at id k; without the row at k
Put(table, k, r) ==
    [i \in DOMAIN table \cup {k} |-> IF i = k THEN r ELSE table[i]]
Without(table, k) == [i \in DOMAIN table \ {k} |-> table[i]]

KeysInit ==
    /\ \E last \in DOMAIN InitialKeys \cup {0} :
          /\ \A k \in DOMAIN InitialKeys : k <= last
          /\ db = [keys |-> InitialKeys, lastKey |-> last, lastLog |-> 0]
    /\ disk = db
    /\ lastRowid = 0
    /\ stage = [c \in Call |-> "idle"]
    /\ target = [c \in Updates \cup Deletes |-> 0]
    /\ seen = [c \in Updates \cup Deletes |-> NoRow]
    /\ answeredId = [c \in Creates |-> 0]

----------------------------------------------------------------------------
\* The handlers.

InsertKey(c) ==
    /\ c \in Creates
    /\ stage[c] = "idle"
    /\ LET id == db.lastKey + 1 IN
          /\ db' = [db EXCEPT
                !.keys = Put(@, id, [key |-> c, cols |-> Body[c]]),
                !.lastKey = id]
          /\ lastRowid' = id
    /\ stage' = [stage EXCEPT ![c] = "written"]
    /\ UNCHANGED <<disk, target, seen, answeredId>>

\* SELECT last_insert_rowid(): of the connection, whoever inserted last.
AnswerCreate(c) ==
    /\ c \in Creates
    /\ stage[c] = "committed"
    /\ answeredId' = [answeredId EXCEPT ![c] = lastRowid]
    /\ stage' = [stage EXCEPT ![c] = "answered"]
    /\ UNCHANGED <<db, disk, lastRowid, target, seen>>

\* (Mutation) the test of `existing' is left out.
FindKeyUnchecked(h, k) ==
    /\ h \in Updates \cup Deletes
    /\ stage[h] = "idle"
    /\ target' = [target EXCEPT ![h] = k]
    /\ stage' = [stage EXCEPT ![h] = "found"]
    /\ seen' = [seen EXCEPT ![h] = IF k \in DOMAIN db.keys THEN db.keys[k]
                                  ELSE NoRow]
    /\ UNCHANGED <<db, disk, lastRowid, answeredId>>

\* Update and delete look the id up first and answer 404 if it is not there.
FindKey(h, k) ==
    /\ h \in Updates \cup Deletes
    /\ stage[h] = "idle"
    /\ target' = [target EXCEPT ![h] = k]
    /\ IF k \in DOMAIN db.keys
       THEN /\ stage' = [stage EXCEPT ![h] = "found"]
            /\ seen' = [seen EXCEPT ![h] = db.keys[k]]
       ELSE /\ stage' = [stage EXCEPT ![h] = "missing"]
            /\ UNCHANGED seen
    /\ UNCHANGED <<db, disk, lastRowid, answeredId>>

\* Every column is written: those not sent, as they were found.
NewColumns(u) ==
    [f \in Field |-> IF f \in DOMAIN Body[u] THEN Body[u][f]
                     ELSE seen[u].cols[f]]

\* (Mutation) writes the row back also when it is gone.
WriteUpdateUpsert(u) ==
    /\ u \in Updates
    /\ stage[u] = "found"
    /\ db' = [db EXCEPT
          !.keys = Put(@, target[u], [seen[u] EXCEPT !.cols = NewColumns(u)])]
    /\ stage' = [stage EXCEPT ![u] = "written"]
    /\ UNCHANGED <<disk, lastRowid, target, seen, answeredId>>

\* UPDATE ... WHERE id = ?: no row, no effect, and no complaint.
WriteUpdate(u) ==
    /\ u \in Updates
    /\ stage[u] = "found"
    /\ db' = IF target[u] \in DOMAIN db.keys
             THEN [db EXCEPT !.keys[target[u]].cols = NewColumns(u)]
             ELSE db
    /\ stage' = [stage EXCEPT ![u] = "written"]
    /\ UNCHANGED <<disk, lastRowid, target, seen, answeredId>>

WriteDelete(d) ==
    /\ d \in Deletes
    /\ stage[d] = "found"
    /\ db' = [db EXCEPT !.keys = Without(@, target[d])]
    /\ stage' = [stage EXCEPT ![d] = "written"]
    /\ UNCHANGED <<disk, lastRowid, target, seen, answeredId>>

\* _save_log, started when a proxied request completes.
InsertLog(l) ==
    /\ l \in Logs
    /\ stage[l] = "idle"
    /\ db' = [db EXCEPT !.lastLog = @ + 1]
    /\ lastRowid' = db.lastLog + 1
    /\ stage' = [stage EXCEPT ![l] = "written"]
    /\ UNCHANGED <<disk, target, seen, answeredId>>

AfterCommit(h) == IF h \in Creates THEN "committed" ELSE "answered"

\* (Mutation) the handlers of the admin API forget to commit.
CommitForgotten(h) ==
    /\ stage[h] = "written"
    /\ disk' = IF h \in Logs THEN db ELSE disk
    /\ stage' = [stage EXCEPT ![h] = AfterCommit(h)]
    /\ UNCHANGED <<db, lastRowid, target, seen, answeredId>>

Commit(h) ==
    /\ stage[h] = "written"
    /\ disk' = db
    /\ stage' = [stage EXCEPT ![h] = AfterCommit(h)]
    /\ UNCHANGED <<db, lastRowid, target, seen, answeredId>>

\* The process dies and starts again on what was committed.  A call is not
\* sent twice; one that was not sent yet reaches the new process.
InFlight == {"found", "written", "committed"}

CrashAndReopen ==
    /\ db' = disk
    /\ lastRowid' = 0
    /\ stage' = [c \in Call |-> IF stage[c] \in InFlight THEN "lost"
                                ELSE stage[c]]
    /\ UNCHANGED <<disk, target, seen, answeredId>>

KeysNext ==
    \/ \E c \in Creates : InsertKey(c) \/ AnswerCreate(c)
    \/ \E h \in Updates \cup Deletes, k \in Target : FindKey(h, k)
    \/ \E u \in Updates : WriteUpdate(u)
    \/ \E d \in Deletes : WriteDelete(d)
    \/ \E l \in Logs : InsertLog(l)
    \/ \E h \in Call : Commit(h)
    \/ CrashAndReopen

KeysSpec == KeysInit /\ [][KeysNext]_keysVars

----------------------------------------------------------------------------
\* authenticate_request: one SELECT by the key sent, 401 if there is no row,
\* 403 if it is disabled.
Accepts(key) ==
    \E k \in DOMAIN db.keys : /\ db.keys[k].key = key
                              /\ db.keys[k].cols["enabled"] = "on"

KeysTypeOK ==
    /\ \A t \in {db, disk} :
          /\ t = [keys |-> t.keys, lastKey |-> t.lastKey, lastLog |-> t.lastLog]
          /\ t.lastKey \in Nat
          /\ t.lastLog \in Nat
          /\ DOMAIN t.keys \subseteq 0..t.lastKey
          /\ \A k \in DOMAIN t.keys : t.keys[k] \in Row
    /\ lastRowid \in Nat
    /\ stage \in [Call -> InFlight \cup {"idle", "answered", "missing", "lost"}]
    /\ target \in [Updates \cup Deletes -> Target \cup {0}]
    /\ seen \in [Updates \cup Deletes -> Row \cup {NoRow}]
    /\ \A h \in Updates \cup Deletes :
          stage[h] \in {"found", "written", "answered"} => seen[h] \in Row
    /\ answeredId \in [Creates -> Nat]

\* The calls whose write concerns the row at k.
Touches(h, k) ==
    IF h \in Creates THEN k \in DOMAIN db.keys /\ db.keys[k].key = h
    ELSE h \in Updates \cup Deletes /\ target[h] = k

SameRow(k) ==
    /\ k \in DOMAIN db.keys <=> k \in DOMAIN disk.keys
    /\ k \in DOMAIN db.keys => db.keys[k] = disk.keys[k]

\* A row differs from the committed one only while a call that wrote it waits
\* for its commit: no create, update or delete that was answered is lost in a
\* crash, although all share a transaction and any of them commits it.
AnswersAreSaved ==
    \A k \in DOMAIN db.keys \cup DOMAIN disk.keys :
        SameRow(k) \/ \E h \in Call : stage[h] = "written" /\ Touches(h, k)

\* A key whose deletion was answered stays out: no update that had read the
\* row before, no later key and no crash brings the id back or makes
\* authentication accept the key.
DeletedKeyStaysOut ==
    \A d \in Deletes : stage[d] = "answered" =>
        /\ target[d] \notin DOMAIN db.keys \cup DOMAIN disk.keys
        /\ ~Accepts(seen[d].key)

\* An update changes only the columns it was sent (DOCS.md: "All fields are
\* optional; only provided fields are updated").
OnlyProvidedFieldsUpdated ==
    [][\A u \in Updates : WriteUpdate(u) =>
          \A f \in Field \ DOMAIN Body[u] :
              target[u] \in DOMAIN db.keys =>
                  db'.keys[target[u]].cols[f] = db.keys[target[u]].cols[f]
      ]_keysVars

\* The id in the answer to a create is the id of the key in that answer
\* (tests/test_api.py updates and deletes the new key by that id).
AnswersOwnId ==
    \A c \in Creates : stage[c] = "answered" =>
        \A k \in DOMAIN db.keys : db.keys[k].key = c => answeredId[c] = k

=============================================================================
