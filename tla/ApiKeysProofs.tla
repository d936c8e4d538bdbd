---------------------------- MODULE ApiKeysProofs ----------------------------
(***************************************************************************)
(* Proofs about ApiKeys, for any calls with any bodies, any columns, and   *)
(* any table to start with, over any number of crashes.                    *)
(***************************************************************************)
EXTENDS ApiKeys, TLAPS

Table == {t \in [keys : UNION {[K -> Row] : K \in SUBSET Nat},
                 lastKey : Nat, lastLog : Nat] :
             DOMAIN t.keys \subseteq 0..t.lastKey}

\* The tables are tables, and whoever found a row has seen one.
TablesOK ==
    /\ db \in Table
    /\ disk \in Table
    /\ stage \in [Call -> InFlight \cup {"idle", "answered", "missing", "lost"}]
    /\ target \in [Updates \cup Deletes -> Target \cup {0}]
    /\ seen \in [Updates \cup Deletes -> Row \cup {NoRow}]
    /\ \A h \in Updates \cup Deletes :
          stage[h] \in {"found", "written", "answered"} => seen[h] \in Row

\* A new row is a row.
LEMMA NewRow ==
    ASSUME NEW c \in Creates
    PROVE  [key |-> c, cols |-> Body[c]] \in Row
BY KeysAssumption DEF Row, Key

\* So is an updated one, with the key that it had.
LEMMA UpdatedRow ==
    ASSUME NEW u \in Updates, seen[u] \in Row, NEW r \in Row
    PROVE  /\ [r EXCEPT !.cols = NewColumns(u)] \in Row
           /\ [r EXCEPT !.cols = NewColumns(u)].key = r.key
<1>1. NewColumns(u) \in [Field -> Value]
    BY KeysAssumption DEF NewColumns, Row
<1> QED BY <1>1 DEF Row

\* An insert takes an id that no row has, and leaves every row.
LEMMA InsertedTable ==
    ASSUME TablesOK, NEW c \in Creates, InsertKey(c)
    PROVE  LET id == db.lastKey + 1 IN
           /\ db' \in Table
           /\ id \in Nat /\ id \notin DOMAIN db.keys
           /\ db'.lastKey = id
           /\ DOMAIN db'.keys = DOMAIN db.keys \cup {id}
           /\ db'.keys[id].key = c
           /\ \A k \in DOMAIN db.keys : db'.keys[k] = db.keys[k]
<1> DEFINE id == db.lastKey + 1
           r  == [key |-> c, cols |-> Body[c]]
<1>1. db.lastKey \in Nat /\ DOMAIN db.keys \subseteq 0..db.lastKey
      /\ db.keys \in [DOMAIN db.keys -> Row] /\ db.lastLog \in Nat
    BY DEF TablesOK, Table
<1>2. r \in Row
    BY NewRow
<1>3. db' = [keys |-> Put(db.keys, id, r), lastKey |-> id,
             lastLog |-> db.lastLog]
    BY DEF InsertKey, TablesOK, Table
<1>4. /\ Put(db.keys, id, r) \in [DOMAIN db.keys \cup {id} -> Row]
      /\ Put(db.keys, id, r)[id] = r
      /\ \A k \in DOMAIN db.keys : k # id => Put(db.keys, id, r)[k] = db.keys[k]
    BY <1>1, <1>2 DEF Put
<1>5. id \in Nat /\ id \notin DOMAIN db.keys
      /\ DOMAIN db.keys \cup {id} \subseteq 0..id /\ 0..id \subseteq Nat
    BY <1>1
<1>6. db' \in Table
    BY <1>1, <1>3, <1>4, <1>5 DEF Table
<1> QED BY <1>3, <1>4, <1>5, <1>6

\* An update leaves the keys and their ids, and every other row.
LEMMA UpdatedTable ==
    ASSUME TablesOK, NEW u \in Updates, WriteUpdate(u)
    PROVE  /\ db' \in Table
           /\ db'.lastKey = db.lastKey
           /\ DOMAIN db'.keys = DOMAIN db.keys
           /\ \A k \in DOMAIN db.keys : db'.keys[k].key = db.keys[k].key
           /\ \A k \in DOMAIN db.keys \ {target[u]} : db'.keys[k] = db.keys[k]
<1>1. CASE target[u] \notin DOMAIN db.keys
    BY <1>1 DEF WriteUpdate, TablesOK
<1>2. CASE target[u] \in DOMAIN db.keys
    <2> DEFINE k == target[u]
               r == [db.keys[k] EXCEPT !.cols = NewColumns(u)]
    <2>1. db.keys \in [DOMAIN db.keys -> Row] /\ db.keys[k] \in Row
        BY <1>2 DEF TablesOK, Table
    <2>2. seen[u] \in Row
        BY DEF WriteUpdate, TablesOK
    <2>3. r \in Row /\ r.key = db.keys[k].key
        BY <2>1, <2>2, UpdatedRow
    <2>4. db' = [db EXCEPT !.keys = [db.keys EXCEPT ![k] = r]]
        BY <1>2 DEF WriteUpdate
    <2>5. [db.keys EXCEPT ![k] = r] \in [DOMAIN db.keys -> Row]
        BY <2>1, <2>3
    <2>6. db'.keys = [db.keys EXCEPT ![k] = r] /\ db'.lastKey = db.lastKey
        BY <2>4 DEF TablesOK, Table
    <2>7. db' \in Table
        BY <2>4, <2>5 DEF TablesOK, Table
    <2> QED BY <1>2, <2>1, <2>3, <2>6, <2>7
<1> QED BY <1>1, <1>2

\* A delete leaves every other row, and the last id.
LEMMA DeletedTable ==
    ASSUME TablesOK, NEW d \in Deletes, WriteDelete(d)
    PROVE  /\ db' \in Table
           /\ db'.lastKey = db.lastKey
           /\ DOMAIN db'.keys = DOMAIN db.keys \ {target[d]}
           /\ \A k \in DOMAIN db'.keys : db'.keys[k] = db.keys[k]
<1>1. db' = [db EXCEPT !.keys = Without(db.keys, target[d])]
    BY DEF WriteDelete
<1>2. db.keys \in [DOMAIN db.keys -> Row]
    BY DEF TablesOK, Table
<1>3. Without(db.keys, target[d]) \in [DOMAIN db.keys \ {target[d]} -> Row]
    BY <1>2 DEF Without
<1>4. db'.keys = Without(db.keys, target[d]) /\ db'.lastKey = db.lastKey
    BY <1>1 DEF TablesOK, Table
<1>5. db' \in Table
    BY <1>1, <1>3 DEF TablesOK, Table
<1> QED BY <1>4, <1>5 DEF Without

-----------------------------------------------------------------------------

\* The table that startup finds is one.
LEMMA TablesInit == KeysInit => TablesOK
<1> SUFFICES ASSUME KeysInit PROVE TablesOK
    OBVIOUS
<1>1. PICK last \in DOMAIN InitialKeys \cup {0} :
          /\ \A k \in DOMAIN InitialKeys : k <= last
          /\ db = [keys |-> InitialKeys, lastKey |-> last, lastLog |-> 0]
    BY DEF KeysInit
<1>2. InitialKeys \in [DOMAIN InitialKeys -> Row] /\ last \in Nat
      /\ DOMAIN InitialKeys \subseteq 0..last
    BY <1>1, KeysAssumption DEF Row
<1>3. db \in Table
    BY <1>1, <1>2 DEF Table
<1> QED BY <1>3 DEF KeysInit, TablesOK, Call

\* Every step leaves tables, and handlers that have seen what they found.
LEMMA TablesStep == TablesOK /\ [KeysNext]_keysVars => TablesOK'
<1> SUFFICES ASSUME TablesOK, [KeysNext]_keysVars PROVE TablesOK'
    OBVIOUS
<1>1. ASSUME NEW c \in Creates, InsertKey(c) PROVE TablesOK'
    <2>1. db' \in Table
        BY <1>1, InsertedTable
    <2> QED BY <1>1, <2>1, KeysAssumption
           DEF InsertKey, TablesOK, InFlight, Call
<1>2. ASSUME NEW c \in Creates, AnswerCreate(c) PROVE TablesOK'
    BY <1>2, KeysAssumption DEF AnswerCreate, TablesOK, Call
<1>3. ASSUME NEW h \in Updates \cup Deletes, NEW k \in Target, FindKey(h, k)
      PROVE  TablesOK'
    <2>1. k \in DOMAIN db.keys => db.keys[k] \in Row
        BY DEF TablesOK, Table
    <2> QED BY <1>3, <2>1 DEF FindKey, TablesOK, InFlight, Call
<1>4. ASSUME NEW u \in Updates, WriteUpdate(u) PROVE TablesOK'
    <2>1. db' \in Table
        BY <1>4, UpdatedTable
    <2> QED BY <1>4, <2>1 DEF WriteUpdate, TablesOK, InFlight, Call
<1>5. ASSUME NEW d \in Deletes, WriteDelete(d) PROVE TablesOK'
    <2>1. db' \in Table
        BY <1>5, DeletedTable
    <2> QED BY <1>5, <2>1 DEF WriteDelete, TablesOK, InFlight, Call
<1>6. ASSUME NEW l \in Logs, InsertLog(l) PROVE TablesOK'
    <2>1. db' \in Table
        BY <1>6 DEF InsertLog, TablesOK, Table
    <2> QED BY <1>6, <2>1, KeysAssumption
           DEF InsertLog, TablesOK, InFlight, Call
<1>7. ASSUME NEW h \in Call, Commit(h) PROVE TablesOK'
    BY <1>7, KeysAssumption DEF Commit, AfterCommit, TablesOK, InFlight
<1>8. CASE CrashAndReopen
    BY <1>8 DEF CrashAndReopen, TablesOK, InFlight, Call
<1>9. CASE UNCHANGED keysVars
    BY <1>9 DEF keysVars, TablesOK
<1> QED BY <1>1, <1>2, <1>3, <1>4, <1>5, <1>6, <1>7, <1>8, <1>9 DEF KeysNext

\* The ids that the connection and the answers give are ids.
IdsOK == lastRowid \in Nat /\ answeredId \in [Creates -> Nat]

\* Every step leaves ids there.
LEMMA IdsStep == TablesOK /\ IdsOK /\ [KeysNext]_keysVars => IdsOK'
<1> SUFFICES ASSUME TablesOK, IdsOK, [KeysNext]_keysVars PROVE IdsOK'
    OBVIOUS
<1>0. db.lastKey + 1 \in Nat /\ db.lastLog + 1 \in Nat
    BY DEF TablesOK, Table
<1>1. ASSUME NEW c \in Creates, InsertKey(c) PROVE IdsOK'
    BY <1>0, <1>1 DEF InsertKey, IdsOK
<1>2. ASSUME NEW c \in Creates, AnswerCreate(c) PROVE IdsOK'
    BY <1>2 DEF AnswerCreate, IdsOK
<1>3. ASSUME NEW l \in Logs, InsertLog(l) PROVE IdsOK'
    BY <1>0, <1>3 DEF InsertLog, IdsOK
<1>4. CASE CrashAndReopen
    BY <1>4 DEF CrashAndReopen, IdsOK
<1>5. CASE UNCHANGED <<lastRowid, answeredId>>
    BY <1>5 DEF IdsOK
<1> QED BY <1>1, <1>2, <1>3, <1>4, <1>5
        DEF KeysNext, FindKey, WriteUpdate, WriteDelete, Commit, keysVars

\* The tables, the rows and what the calls have seen of them have their types.
THEOREM KeysTypeCorrect == KeysSpec => []KeysTypeOK
<1>1. KeysInit => IdsOK
    BY DEF KeysInit, IdsOK
<1>2. TablesOK /\ IdsOK => KeysTypeOK
    <2> SUFFICES ASSUME TablesOK, IdsOK PROVE KeysTypeOK
        OBVIOUS
    <2>1. ASSUME NEW t \in Table
          PROVE  /\ t = [keys |-> t.keys, lastKey |-> t.lastKey,
                         lastLog |-> t.lastLog]
                 /\ t.lastKey \in Nat /\ t.lastLog \in Nat
                 /\ DOMAIN t.keys \subseteq 0..t.lastKey
                 /\ \A k \in DOMAIN t.keys : t.keys[k] \in Row
        BY DEF Table
    <2> QED BY <2>1 DEF TablesOK, IdsOK, KeysTypeOK
<1> QED BY <1>1, <1>2, TablesInit, TablesStep, IdsStep, PTL DEF KeysSpec

-----------------------------------------------------------------------------

\* A row that a step leaves alone is saved, or waits for the same commit.
LEMMA OtherRowsSaved ==
    ASSUME AnswersAreSaved, disk' = disk, target' = target,
           \A h \in Call : stage[h] = "written" => stage'[h] = "written",
           NEW k \in DOMAIN db.keys \cup DOMAIN disk.keys,
           k \in DOMAIN db.keys <=> k \in DOMAIN db'.keys,
           k \in DOMAIN db.keys => db'.keys[k] = db.keys[k]
    PROVE  SameRow(k)' \/ \E h \in Call : stage'[h] = "written"
                                          /\ Touches(h, k)'
<1>1. CASE SameRow(k)
    BY <1>1 DEF SameRow
<1>2. ASSUME NEW h \in Call, stage[h] = "written", Touches(h, k)
      PROVE  Touches(h, k)'
    BY <1>2 DEF Touches
<1> QED BY <1>1, <1>2 DEF AnswersAreSaved

\* Every difference between the connection's tables and the saved ones has
\* somebody who will commit it.
LEMMA SavedStep ==
    TablesOK /\ AnswersAreSaved /\ [KeysNext]_keysVars => AnswersAreSaved'
<1> SUFFICES ASSUME TablesOK, AnswersAreSaved, [KeysNext]_keysVars
             PROVE  AnswersAreSaved'
    OBVIOUS
<1>1. ASSUME NEW c \in Creates, InsertKey(c) PROVE AnswersAreSaved'
    <2>1. PICK id \in Nat :
              /\ DOMAIN db'.keys = DOMAIN db.keys \cup {id}
              /\ db'.keys[id].key = c
              /\ \A k \in DOMAIN db.keys : db'.keys[k] = db.keys[k]
              /\ id \notin DOMAIN db.keys
        BY <1>1, InsertedTable
    <2>2. /\ stage' = [stage EXCEPT ![c] = "written"] /\ stage[c] = "idle"
          /\ disk' = disk /\ target' = target
        BY <1>1 DEF InsertKey
    <2>3. stage'[c] = "written" /\ c \in Call
        BY <2>2 DEF TablesOK, Call
    <2>4. Touches(c, id)'
        BY <2>1 DEF Touches
    <2>5. ASSUME NEW k \in (DOMAIN db'.keys \cup DOMAIN disk'.keys)
                            \ {id}
          PROVE  SameRow(k)'
                 \/ \E h \in Call : stage'[h] = "written" /\ Touches(h, k)'
        BY <2>1, <2>2, <2>5, OtherRowsSaved DEF TablesOK
    <2> QED BY <2>3, <2>4, <2>5 DEF AnswersAreSaved
<1>2. ASSUME NEW u \in Updates, WriteUpdate(u) PROVE AnswersAreSaved'
    <2>1. /\ DOMAIN db'.keys = DOMAIN db.keys
          /\ \A k \in DOMAIN db.keys : db'.keys[k].key = db.keys[k].key
          /\ \A k \in DOMAIN db.keys \ {target[u]} : db'.keys[k] = db.keys[k]
        BY <1>2, UpdatedTable
    <2>2. /\ stage' = [stage EXCEPT ![u] = "written"]
          /\ disk' = disk /\ target' = target
        BY <1>2 DEF WriteUpdate
    <2>3. stage'[u] = "written" /\ u \in Call
        BY <2>2 DEF TablesOK, Call
    <2>4. Touches(u, target[u])'
        BY <2>2, KeysAssumption DEF Touches
    <2>5. ASSUME NEW k \in (DOMAIN db'.keys \cup DOMAIN disk'.keys)
                            \ {target[u]}
          PROVE  SameRow(k)'
                 \/ \E h \in Call : stage'[h] = "written" /\ Touches(h, k)'
        BY <2>1, <2>2, <2>5, OtherRowsSaved DEF TablesOK
    <2> QED BY <2>2, <2>3, <2>4, <2>5 DEF AnswersAreSaved
<1>3. ASSUME NEW d \in Deletes, WriteDelete(d) PROVE AnswersAreSaved'
    <2>1. /\ DOMAIN db'.keys = DOMAIN db.keys \ {target[d]}
          /\ \A k \in DOMAIN db'.keys : db'.keys[k] = db.keys[k]
        BY <1>3, DeletedTable
    <2>2. /\ stage' = [stage EXCEPT ![d] = "written"]
          /\ disk' = disk /\ target' = target
        BY <1>3 DEF WriteDelete
    <2>3. stage'[d] = "written" /\ d \in Call
        BY <2>2 DEF TablesOK, Call
    <2>4. Touches(d, target[d])'
        BY <2>2, KeysAssumption DEF Touches
    <2>5. ASSUME NEW k \in (DOMAIN db'.keys \cup DOMAIN disk'.keys)
                            \ {target[d]}
          PROVE  SameRow(k)'
                 \/ \E h \in Call : stage'[h] = "written" /\ Touches(h, k)'
        BY <2>1, <2>2, <2>5, OtherRowsSaved DEF TablesOK
    <2> QED BY <2>2, <2>3, <2>4, <2>5 DEF AnswersAreSaved
\* Steps that write no key: who had written still has, and touches the same.
<1>4. ASSUME db'.keys = db.keys, disk' = disk,
             \A h \in Call : stage[h] = "written" =>
                 stage'[h] = "written"
                 /\ (h \in Updates \cup Deletes => target'[h] = target[h])
      PROVE  AnswersAreSaved'
    BY <1>4 DEF AnswersAreSaved, SameRow, Touches
<1>5. ASSUME NEW c \in Creates, AnswerCreate(c) PROVE AnswersAreSaved'
    BY <1>4, <1>5 DEF AnswerCreate, TablesOK
<1>6. ASSUME NEW h \in Updates \cup Deletes, NEW k \in Target, FindKey(h, k)
      PROVE  AnswersAreSaved'
    BY <1>4, <1>6 DEF FindKey, TablesOK
<1>7. ASSUME NEW l \in Logs, InsertLog(l) PROVE AnswersAreSaved'
    <2>1. db'.keys = db.keys
        BY <1>7 DEF InsertLog, TablesOK, Table
    <2> QED BY <1>4, <1>7, <2>1 DEF InsertLog, TablesOK
<1>8. CASE db' = disk'
    BY <1>8 DEF AnswersAreSaved, SameRow
<1>9. CASE UNCHANGED keysVars
    BY <1>4, <1>9 DEF keysVars
<1> QED
    BY <1>1, <1>2, <1>3, <1>5, <1>6, <1>7, <1>8, <1>9
       DEF KeysNext, Commit, CrashAndReopen

\* Nothing that was answered is lost in a crash.
THEOREM AnsweredIsSaved == KeysSpec => []AnswersAreSaved
<1>1. KeysInit => AnswersAreSaved
    BY DEF KeysInit, AnswersAreSaved, SameRow
<1> QED BY <1>1, TablesInit, TablesStep, SavedStep, PTL DEF KeysSpec

-----------------------------------------------------------------------------

\* A key is in one row, whoever is to create one has not yet, and a delete
\* knows the only row of its key, until it has removed it for good.
KeysDistinct(t) ==
    \A j, k \in DOMAIN t.keys : t.keys[j].key = t.keys[k].key => j = k

FoundBy(d) == stage[d] \in {"found", "written", "answered"}

KeyUnused(c) ==
    /\ \A k \in DOMAIN db.keys : db.keys[k].key # c
    /\ \A k \in DOMAIN disk.keys : disk.keys[k].key # c
    /\ \A d \in Deletes : FoundBy(d) => seen[d].key # c

\* No row of t, or one to be given an id by it, is the one that d found.
Removed(d, t) ==
    /\ target[d] <= t.lastKey
    /\ \A k \in DOMAIN t.keys : k # target[d] /\ t.keys[k].key # seen[d].key

DeleteInv ==
    /\ KeysDistinct(db)
    /\ KeysDistinct(disk)
    /\ \A c \in Creates : stage[c] = "idle" => KeyUnused(c)
    /\ \A d \in Deletes :
          /\ target[d] \in Nat
          /\ stage[d] = "found" =>
                /\ target[d] <= db.lastKey
                /\ \A k \in DOMAIN db.keys :
                      db.keys[k].key = seen[d].key => k = target[d]
          /\ stage[d] \in {"written", "answered"} => Removed(d, db)
          /\ stage[d] = "answered" => Removed(d, disk)

\* Startup finds every key once, and no call has done anything.
LEMMA DeleteInit == KeysInit => DeleteInv
<1> SUFFICES ASSUME KeysInit PROVE DeleteInv
    OBVIOUS
<1>1. db.keys = InitialKeys /\ disk = db
    BY DEF KeysInit
<1>2. /\ \A c \in Creates : stage[c] = "idle"
      /\ \A d \in Deletes : stage[d] = "idle" /\ target[d] = 0
    BY DEF KeysInit, Call
<1>3. \A k \in DOMAIN db.keys : db.keys[k].key \in Key \ Creates
    BY <1>1, KeysAssumption
<1>4. KeysDistinct(db)
    BY <1>1, KeysAssumption DEF KeysDistinct
<1> QED BY <1>1, <1>2, <1>3, <1>4 DEF DeleteInv, KeyUnused, FoundBy

\* Every step preserves the invariant about deletions.
LEMMA DeleteStep ==
    TablesOK /\ DeleteInv /\ [KeysNext]_keysVars => DeleteInv'
<1> SUFFICES ASSUME TablesOK, DeleteInv, [KeysNext]_keysVars PROVE DeleteInv'
    OBVIOUS
<1>0. /\ db.lastKey \in Nat /\ disk.lastKey \in Nat
      /\ DOMAIN db.keys \subseteq 0..db.lastKey
      /\ \A d \in Deletes : d \in Call /\ d \in Updates \cup Deletes
      /\ Creates \subseteq Call /\ Creates \cap Deletes = {}
    BY KeysAssumption DEF TablesOK, Table, Call
<1>1. ASSUME NEW c \in Creates, InsertKey(c) PROVE DeleteInv'
    <2>1. PICK id \in Nat :
              /\ id = db.lastKey + 1
              /\ db'.lastKey = id
              /\ DOMAIN db'.keys = DOMAIN db.keys \cup {id}
              /\ db'.keys[id].key = c
              /\ \A k \in DOMAIN db.keys : db'.keys[k] = db.keys[k]
              /\ id \notin DOMAIN db.keys
        BY <1>1, InsertedTable
    <2>2. /\ stage' = [stage EXCEPT ![c] = "written"] /\ stage[c] = "idle"
          /\ disk' = disk /\ target' = target /\ seen' = seen
        BY <1>1 DEF InsertKey
    <2>3. /\ stage'[c] = "written"
          /\ \A h \in Call \ {c} : stage'[h] = stage[h]
        BY <1>0, <2>2 DEF TablesOK
    <2>4. KeyUnused(c)
        BY <2>2 DEF DeleteInv
    <2>5. KeysDistinct(db')
        BY <2>1, <2>4 DEF DeleteInv, KeysDistinct, KeyUnused
    <2>6. \A b \in Creates : stage'[b] = "idle" => KeyUnused(b)'
        BY <1>0, <2>1, <2>2, <2>3 DEF DeleteInv, KeyUnused, FoundBy
    <2>7. ASSUME NEW d \in Deletes
          PROVE  /\ target'[d] \in Nat
                 /\ stage'[d] = "found" =>
                        /\ target'[d] <= db'.lastKey
                        /\ \A k \in DOMAIN db'.keys :
                              db'.keys[k].key = seen'[d].key => k = target'[d]
                 /\ stage'[d] \in {"written", "answered"} => Removed(d, db)'
                 /\ stage'[d] = "answered" => Removed(d, disk)'
        <3>1. stage'[d] = stage[d] /\ target'[d] = target[d]
              /\ seen'[d] = seen[d]
            BY <1>0, <2>2, <2>3
        <3>2. target[d] \in Nat
            BY DEF DeleteInv
        <3>3. FoundBy(d) => seen[d].key # c
            BY <2>4 DEF KeyUnused
        <3> QED BY <1>0, <2>1, <2>2, <3>1, <3>2, <3>3
                DEF DeleteInv, Removed, FoundBy
    <2> QED BY <2>2, <2>5, <2>6, <2>7 DEF DeleteInv
<1>2. ASSUME NEW u \in Updates, WriteUpdate(u) PROVE DeleteInv'
    <2>1. /\ db'.lastKey = db.lastKey
          /\ DOMAIN db'.keys = DOMAIN db.keys
          /\ \A k \in DOMAIN db.keys : db'.keys[k].key = db.keys[k].key
        BY <1>2, UpdatedTable
    <2>2. /\ stage' = [stage EXCEPT ![u] = "written"]
          /\ disk' = disk /\ target' = target /\ seen' = seen
        BY <1>2 DEF WriteUpdate
    <2>3. \A h \in Creates \cup Deletes : stage'[h] = stage[h]
        BY <2>2, KeysAssumption DEF TablesOK, Call
    <2> QED BY <2>1, <2>2, <2>3
            DEF DeleteInv, KeysDistinct, KeyUnused, FoundBy, Removed
<1>3. ASSUME NEW d \in Deletes, WriteDelete(d) PROVE DeleteInv'
    <2>1. /\ db'.lastKey = db.lastKey
          /\ DOMAIN db'.keys = DOMAIN db.keys \ {target[d]}
          /\ \A k \in DOMAIN db'.keys : db'.keys[k] = db.keys[k]
        BY <1>3, DeletedTable
    <2>2. /\ stage' = [stage EXCEPT ![d] = "written"] /\ stage[d] = "found"
          /\ disk' = disk /\ target' = target /\ seen' = seen
        BY <1>3 DEF WriteDelete
    <2>3. /\ stage'[d] = "written"
          /\ \A h \in (Creates \cup Deletes) \ {d} : stage'[h] = stage[h]
        BY <1>0, <2>2 DEF TablesOK
    <2>4. Removed(d, db)'
        BY <2>1, <2>2 DEF DeleteInv, Removed
    <2>5. \A e \in Deletes \ {d} :
              stage[e] \in {"written", "answered"} => Removed(e, db)'
        BY <2>1, <2>2 DEF DeleteInv, Removed
    <2>6. \A e \in Deletes \ {d} : stage[e] = "answered" => Removed(e, disk)'
        BY <2>2 DEF DeleteInv, Removed
    <2>7. \A c \in Creates : stage'[c] = "idle" => KeyUnused(c)'
        BY <1>0, <2>1, <2>2, <2>3 DEF DeleteInv, KeyUnused, FoundBy
    <2>8. KeysDistinct(db)' /\ KeysDistinct(disk)'
        BY <2>1, <2>2 DEF DeleteInv, KeysDistinct
    <2> QED BY <2>1, <2>2, <2>3, <2>4, <2>5, <2>6, <2>7, <2>8 DEF DeleteInv
<1>4. ASSUME NEW h \in Updates \cup Deletes, NEW n \in Target, FindKey(h, n)
      PROVE  DeleteInv'
    <2>1. db' = db /\ disk' = disk
        BY <1>4 DEF FindKey
    <2>2. \A c \in Creates : stage'[c] = stage[c]
        BY <1>4, KeysAssumption DEF FindKey, TablesOK, Call
    <2>3. \A d \in Deletes \ {h} : stage'[d] = stage[d]
              /\ target'[d] = target[d] /\ seen'[d] = seen[d]
        BY <1>4 DEF FindKey, TablesOK, Call
    <2>4. n \in Nat
        BY KeysAssumption
    <2>5. ASSUME h \in Deletes
          PROVE  /\ target'[h] = n
                 /\ stage'[h] \in {"found", "missing"}
                 /\ stage'[h] = "found" => n \in DOMAIN db.keys
                                           /\ seen'[h] = db.keys[n]
        BY <1>4, <2>5 DEF FindKey, TablesOK, Call
    <2>6. ASSUME NEW c \in Creates, stage'[c] = "idle" PROVE KeyUnused(c)'
        BY <2>1, <2>2, <2>3, <2>5, <2>6 DEF DeleteInv, KeyUnused, FoundBy
    <2>7. ASSUME NEW d \in Deletes \ {h}
          PROVE  (stage'[d] \in {"written", "answered"} => Removed(d, db)')
                 /\ (stage'[d] = "answered" => Removed(d, disk)')
        BY <2>1, <2>3, <2>7 DEF DeleteInv, Removed
    <2>8. ASSUME h \in Deletes, stage'[h] = "found"
          PROVE  /\ target'[h] <= db'.lastKey
                 /\ \A k \in DOMAIN db'.keys :
                      db'.keys[k].key = seen'[h].key => k = target'[h]
        BY <1>0, <2>1, <2>5, <2>8 DEF DeleteInv, KeysDistinct
    <2> QED BY <2>1, <2>3, <2>4, <2>5, <2>6, <2>7, <2>8
            DEF DeleteInv, KeysDistinct
<1>5. ASSUME NEW l \in Logs, InsertLog(l) PROVE DeleteInv'
    <2>1. db'.keys = db.keys /\ db'.lastKey = db.lastKey
        BY <1>5 DEF InsertLog, TablesOK, Table
    <2>2. \A h \in Creates \cup Deletes : stage'[h] = stage[h]
        BY <1>5, KeysAssumption DEF InsertLog, TablesOK, Call
    <2> QED BY <1>5, <2>1, <2>2
            DEF InsertLog, DeleteInv, KeysDistinct, KeyUnused, FoundBy, Removed
<1>6. ASSUME NEW c \in Creates, AnswerCreate(c) PROVE DeleteInv'
    <2>1. /\ \A d \in Deletes : stage'[d] = stage[d]
          /\ \A b \in Creates : stage'[b] = "idle" => stage[b] = "idle"
        BY <1>6, KeysAssumption DEF AnswerCreate, TablesOK, Call
    <2> QED BY <1>6, <2>1
            DEF AnswerCreate, DeleteInv, KeysDistinct, KeyUnused, FoundBy,
                Removed
<1>7. ASSUME NEW h \in Call, Commit(h) PROVE DeleteInv'
    <2>1. /\ db' = db /\ disk' = db /\ target' = target /\ seen' = seen
          /\ stage[h] = "written"
          /\ stage' = [stage EXCEPT ![h] = AfterCommit(h)]
        BY <1>7 DEF Commit
    <2>2. /\ \A d \in Deletes : stage'[d] = stage[d]
                 \/ (stage[d] = "written" /\ stage'[d] = "answered")
          /\ \A c \in Creates : stage'[c] = "idle" => stage[c] = "idle"
        BY <1>0, <2>1 DEF TablesOK, AfterCommit
    <2>3. \A d \in Deletes :
              stage'[d] \in {"written", "answered"} =>
                  Removed(d, db)' /\ Removed(d, disk)'
        BY <2>1, <2>2 DEF DeleteInv, Removed
    <2>4. \A c \in Creates : stage'[c] = "idle" => KeyUnused(c)'
        BY <2>1, <2>2 DEF DeleteInv, KeyUnused, FoundBy
    <2> QED BY <2>1, <2>2, <2>3, <2>4 DEF DeleteInv, KeysDistinct
<1>8. CASE CrashAndReopen
    <2>1. /\ db' = disk /\ disk' = disk /\ target' = target /\ seen' = seen
          /\ \A d \in Deletes : FoundBy(d)' =>
                stage[d] = "answered" /\ stage'[d] = "answered"
          /\ \A c \in Creates : stage'[c] = "idle" => stage[c] = "idle"
        BY <1>0, <1>8 DEF CrashAndReopen, InFlight, FoundBy
    <2>2. \A d \in Deletes : FoundBy(d)' => Removed(d, db)' /\ Removed(d, disk)'
        BY <2>1 DEF DeleteInv, Removed
    <2>3. \A c \in Creates : stage'[c] = "idle" => KeyUnused(c)'
        BY <2>1 DEF DeleteInv, KeyUnused, FoundBy
    <2> QED BY <2>1, <2>2, <2>3 DEF DeleteInv, KeysDistinct, FoundBy
<1>9. CASE UNCHANGED keysVars
    BY <1>9 DEF keysVars, DeleteInv, KeysDistinct, KeyUnused, FoundBy, Removed
<1> QED BY <1>1, <1>2, <1>3, <1>4, <1>5, <1>6, <1>7, <1>8, <1>9 DEF KeysNext

\* A deleted key opens nothing and its id is not used again.
THEOREM DeletedForGood == KeysSpec => []DeletedKeyStaysOut
<1>1. DeleteInv => DeletedKeyStaysOut
    BY DEF DeleteInv, Removed, DeletedKeyStaysOut, Accepts
<1> QED BY <1>1, TablesInit, TablesStep, DeleteInit, DeleteStep, PTL
        DEF KeysSpec

=============================================================================
