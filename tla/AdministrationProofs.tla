------------------------ MODULE AdministrationProofs ------------------------
(***************************************************************************)
(* Proofs about LogQueries, for any log, any page size and any changes     *)
(* between two statements, and about Administration: what the other proof  *)
(* modules show of the parts holds of the whole.                           *)
(***************************************************************************)
EXTENDS Administration, ApiKeysProofs, ConsoleProofs, ConfigProofs,
        DataTheorems

-----------------------------------------------------------------------------
(* Pages of the log *)

\* The inductive invariant of a reader: what it has not seen of the rows it
\* wants is beyond the pages it has had.
ReaderInv ==
    /\ page \in Nat \ {0}
    /\ wanted \subseteq DOMAIN log
    /\ reader = "idle" => page = 1
    /\ reader \in {"counted", "next"} =>
          \A i \in wanted \ found : Len(log) - i >= (page - 1) * PerPage
    /\ PagesSkipNothing

\* The offsets of a page follow those of the page before.
LEMMA PageOffsets ==
    ASSUME NEW p \in Nat \ {0}
    PROVE  /\ (p - 1) * PerPage \in Nat /\ p * PerPage \in Nat
           /\ p * PerPage = (p - 1) * PerPage + PerPage
<1>1. PerPage \in Nat
    BY QueriesAssumption
<1> QED BY <1>1

\* A page that more rows follow is full.
LEMMA FullPage ==
    ASSUME QueriesTypeOK, NEW p \in Nat \ {0}, Len(log) > p * PerPage
    PROVE  Cardinality(PageRows(p)) = PerPage
<1> DEFINE n     == Len(log)
           first == (p - 1) * PerPage
           last  == p * PerPage
<1>1. n \in Nat /\ DOMAIN log = 1..n /\ PerPage \in Nat \ {0}
    BY QueriesAssumption DEF QueriesTypeOK
<1>2. first \in Nat /\ last \in Nat /\ last = first + PerPage /\ n > last
    BY PageOffsets
<1>3. PageRows(p) = {i \in DOMAIN log : n - i \in first..(last - 1)}
    BY DEF PageRows
<1> HIDE DEF n, first, last
<1>4. PageRows(p) = (n - last + 1)..(n - first)
    BY <1>1, <1>2, <1>3
<1> QED BY <1>1, <1>2, <1>4, FS_Interval

\* What was beyond the pages before this one is on it, or beyond it.
LEMMA PageTaken ==
    ASSUME QueriesTypeOK, NEW p \in Nat \ {0}, NEW i \in DOMAIN log,
           Len(log) - i >= (p - 1) * PerPage, i \notin PageRows(p)
    PROVE  Len(log) - i >= p * PerPage
<1> DEFINE n     == Len(log)
           first == (p - 1) * PerPage
           last  == p * PerPage
<1>1. n \in Nat /\ DOMAIN log = 1..n
    BY DEF QueriesTypeOK
<1>2. first \in Nat /\ last \in Nat
    BY PageOffsets
<1>3. ~(n - i \in first..(last - 1))
    BY DEF PageRows
<1>4. n - i >= first
    OBVIOUS
<1> HIDE DEF n, first, last
<1>5. n - i >= last
    BY <1>1, <1>2, <1>3, <1>4
<1> QED BY <1>5 DEF n, last

-----------------------------------------------------------------------------
(* The statistics *)

\* Every row of the period is in the join, alone or with its keys.
LEMMA JoinKeepsAll ==
    ASSUME QueriesTypeOK
    PROVE  /\ IsFiniteSet(Joined) /\ IsFiniteSet(InPeriod)
           /\ Cardinality(InPeriod) <= Cardinality(Joined)
<1>1. IsFiniteSet(DOMAIN log) /\ IsFiniteSet(InPeriod)
    <2>1. DOMAIN log = 1..Len(log) /\ Len(log) \in Int
        BY DEF QueriesTypeOK
    <2> QED BY <2>1, FS_Interval, FS_Subset DEF InPeriod
<1>2. IsFiniteSet(Joined)
    <2>1. IsFiniteSet(KeyId \cup {NoName})
        BY QueriesAssumption, FS_AddElement
    <2>2. IsFiniteSet(InPeriod \X (KeyId \cup {NoName}))
        BY <1>1, <2>1, FS_Product
    <2>3. Joined \subseteq InPeriod \X (KeyId \cup {NoName})
        BY DEF Joined
    <2> QED BY <2>2, <2>3, FS_Subset
<1> DEFINE row == [pair \in Joined |-> pair[1]]
<1>3. row \in Surjection(Joined, InPeriod)
    <2>1. \A pair \in Joined : pair[1] \in InPeriod
        BY DEF Joined
    <2>2. ASSUME NEW i \in InPeriod PROVE \E pair \in Joined : pair[1] = i
        <3>1. CASE \E k \in KeyId : nameOf[k] = log[i].user
            <4>1. PICK k \in KeyId : nameOf[k] = log[i].user
                BY <3>1
            <4>2. <<i, k>> \in Joined
                BY <4>1 DEF Joined
            <4> QED BY <4>2
        <3>2. CASE \A k \in KeyId : nameOf[k] # log[i].user
            <4>1. <<i, NoName>> \in Joined
                BY <3>2 DEF Joined
            <4> QED BY <4>1
        <3> QED BY <3>1, <3>2
    <2> QED BY <2>1, <2>2 DEF Surjection
<1>4. Cardinality(InPeriod) <= Cardinality(Joined)
    <2> HIDE DEF row
    <2> QED BY <1>2, <1>3, FS_Surjection
<1> QED BY <1>1, <1>2, <1>4

\* A row that is logged does not leave the period.
LEMMA PeriodGrows ==
    ASSUME QueriesTypeOK, NEW r \in LogRow, log' = Append(log, r)
    PROVE  Cardinality(InPeriod) <= Cardinality(InPeriod')
<1>1. /\ Len(log) \in Nat /\ DOMAIN log = 1..Len(log)
      /\ DOMAIN log' = 1..(Len(log) + 1)
      /\ \A i \in DOMAIN log : log'[i] = log[i]
    BY DEF QueriesTypeOK
<1>2. InPeriod \subseteq InPeriod'
    BY <1>1 DEF InPeriod
<1>3. IsFiniteSet(InPeriod')
    <2>1. IsFiniteSet(DOMAIN log')
        BY <1>1, FS_Interval
    <2> QED BY <2>1, FS_Subset DEF InPeriod
<1> QED BY <1>2, <1>3, FS_Subset

\* The sum of the lines of a breakdown.
SumOfLines(lines) == MapThenSumSet(LAMBDA g : lines[g], Name \cup {NoName})

\* It is that of any function that adds them up one by one.
LEMMA LinesAreSummed ==
    ASSUME NEW lines \in [Name \cup {NoName} -> Nat], NEW g,
           Sums(g, lines, Name \cup {NoName})
    PROVE  SumOfLines(lines) = g[Name \cup {NoName}]
<1> DEFINE G == Name \cup {NoName}
           Iterates(h) ==
               h = [s \in SUBSET G |->
                       IF s = {} THEN 0
                       ELSE lines[Chosen(s)] + h[s \ {Chosen(s)}]]
           f == CHOOSE h : Iterates(h)
<1>1. SumOfLines(lines) = f[G]
    BY DEF SumOfLines, MapThenSumSet, MapThenFoldSet, Chosen
<1>2. IsFiniteSet(G)
    BY QueriesAssumption, FS_AddElement
<1> HIDE DEF G
<1>3. Iterates(g)
    <2> DEFINE h == [s \in SUBSET G |->
                       IF s = {} THEN 0
                       ELSE lines[Chosen(s)] + g[s \ {Chosen(s)}]]
    <2>1. g \in [SUBSET G -> Nat]
        BY DEF Sums, G
    <2>2. \A s \in SUBSET G : g[s] = h[s]
        BY DEF Sums, Adds, G
    <2> QED BY <2>1, <2>2
<1>4. Iterates(f)
    <2> HIDE DEF Iterates
    <2> QED BY <1>3
<1>5. Adds(f, lines, G)
    <2> HIDE DEF f
    <2> QED BY <1>4 DEF Adds
<1>6. Adds(g, lines, G)
    BY DEF Sums, G
<1> HIDE DEF f
<1>7. g[G] = f[G]
    BY <1>2, <1>5, <1>6, SumsAgree
<1> QED BY <1>1, <1>7 DEF G

\* The groups of the breakdown share out the join.
LEMMA GroupsAddUp ==
    ASSUME QueriesTypeOK, GroupByKey
    PROVE  /\ perKey' \in [Name \cup {NoName} -> Nat]
           /\ SumOfLines(perKey') = Cardinality(Joined)
<1> DEFINE G == Name \cup {NoName}
           group == [pair \in Joined |-> GroupOf(pair)]
<1>1. IsFiniteSet(G) /\ IsFiniteSet(Joined)
    BY QueriesAssumption, FS_AddElement, JoinKeepsAll
<1>2. group \in [Joined -> G]
    <2>1. ASSUME NEW pair \in Joined PROVE GroupOf(pair) \in G
        <3>1. pair[2] = NoName \/ pair[2] \in KeyId
            BY DEF Joined
        <3> QED BY <3>1 DEF GroupOf, QueriesTypeOK
    <2> QED BY <2>1
<1>3. perKey' = [g \in G |->
                    Cardinality({pair \in Joined : GroupOf(pair) = g})]
    BY DEF GroupByKey
<1>4. ASSUME NEW g \in G
      PROVE  /\ perKey'[g] = Cardinality({pair \in Joined : group[pair] = g})
             /\ perKey'[g] \in Nat
    <2>1. {pair \in Joined : GroupOf(pair) = g}
            = {pair \in Joined : group[pair] = g}
        OBVIOUS
    <2>2. IsFiniteSet({pair \in Joined : group[pair] = g})
        BY <1>1, FS_Subset
    <2>3. perKey'[g] = Cardinality({pair \in Joined : GroupOf(pair) = g})
        BY <1>3
    <2> QED BY <2>1, <2>2, <2>3, FS_CardinalityType
<1> HIDE DEF group
<1>5. perKey' \in [G -> Nat]
    BY <1>3, <1>4
<1> HIDE DEF G
<1>6. PICK g : Sums(g, perKey', G)
    BY <1>1, <1>5, SumsExist
<1>7. g[G] = Cardinality(Joined)
    BY <1>1, <1>2, <1>4, <1>6, PartsAddUp DEF Sums
<1>8. SumOfLines(perKey') = g[G]
    BY <1>5, <1>6, LinesAreSummed DEF G
<1> QED BY <1>5, <1>7, <1>8 DEF G

-----------------------------------------------------------------------------
(* The queries *)

\* The inductive invariant of the statistics: before the lines are fetched, the
\* total is of rows that are still there.
StatsInv ==
    /\ stats = "totalled" => total <= Cardinality(InPeriod)
    /\ stats \in {"grouped", "done"} => SumOfLines(perKey) >= total

QueriesInv == QueriesTypeOK /\ ReaderInv /\ StatsInv

\* The process starts with no query under way.
LEMMA QueriesInvInit == QueriesInit => QueriesInv
BY QueriesAssumption
   DEF QueriesInit, QueriesInv, QueriesTypeOK, ReaderInv, StatsInv,
       PagesSkipNothing

\* The next page of a reader.
LEMMA ReaderStep ==
    ASSUME QueriesInv, FetchPage
    PROVE  ReaderInv'
<1>1. /\ page \in Nat \ {0} /\ page' = page + 1 /\ page' \in Nat \ {0}
      /\ log' = log /\ wanted' = wanted /\ reader = "counted"
      /\ found' = found \cup PageRows(page)
      /\ reader' = IF Cardinality(PageRows(page)) < PerPage
                   THEN "done" ELSE "next"
      /\ wanted \subseteq DOMAIN log
    BY DEF FetchPage, QueriesInv, ReaderInv
<1>2. ASSUME NEW i \in wanted \ found' PROVE Len(log) - i >= page * PerPage
    <2>1. i \in DOMAIN log /\ i \notin PageRows(page)
        BY <1>1
    <2>2. Len(log) - i >= (page - 1) * PerPage
        BY <1>1 DEF QueriesInv, ReaderInv
    <2> QED BY <1>1, <2>1, <2>2, PageTaken DEF QueriesInv
<1>3. page' - 1 = page
    BY <1>1
<1>4. ASSUME reader' = "done" PROVE wanted \subseteq found'
    <2>1. SUFFICES ASSUME NEW i \in wanted \ found' PROVE FALSE
        OBVIOUS
    <2>2. Len(log) - i >= page * PerPage
        BY <1>2
    <2>3. /\ i \in 1..Len(log) /\ Len(log) \in Nat
        BY <1>1 DEF QueriesInv, QueriesTypeOK
    <2>4. page * PerPage \in Nat
        BY <1>1, PageOffsets
    <2>5. Len(log) > page * PerPage
        BY <2>2, <2>3, <2>4
    <2>6. Cardinality(PageRows(page)) = PerPage
        BY <1>1, <2>5, FullPage DEF QueriesInv
    <2> QED BY <1>1, <1>4, <2>6, QueriesAssumption
<1> QED BY <1>1, <1>2, <1>3, <1>4 DEF ReaderInv, PagesSkipNothing

\* Every step preserves the invariant.
LEMMA QueriesInvStep ==
    QueriesInv /\ [QueriesNext]_queryVars => QueriesInv'
<1> SUFFICES ASSUME QueriesInv, [QueriesNext]_queryVars PROVE QueriesInv'
    OBVIOUS
<1>0. /\ QueriesTypeOK /\ ReaderInv /\ StatsInv
      /\ Len(log) \in Nat /\ DOMAIN log = 1..Len(log)
    BY DEF QueriesInv, QueriesTypeOK
<1>1. ASSUME NEW u \in Name, NEW failed \in BOOLEAN, LogRequest(u, failed)
      PROVE  QueriesInv'
    <2> DEFINE r == [user |-> u, error |-> failed, recent |-> TRUE]
    <2>1. /\ log' = Append(log, r) /\ r \in LogRow
          /\ UNCHANGED <<nameOf, stats, total, perKey, errors, reader, page,
                         found, wanted>>
        BY <1>1 DEF LogRequest, LogRow
    <2> HIDE DEF r
    <2>2. /\ log' \in Seq(LogRow) /\ Len(log') = Len(log) + 1
          /\ DOMAIN log \subseteq DOMAIN log'
        BY <1>0, <2>1 DEF QueriesTypeOK
    <2>3. Cardinality(InPeriod) <= Cardinality(InPeriod')
        BY <1>0, <2>1, PeriodGrows
    <2>4. QueriesTypeOK'
        BY <1>0, <2>1, <2>2 DEF QueriesTypeOK
    <2>5. (page - 1) * PerPage \in Nat
        BY <1>0, PageOffsets DEF ReaderInv
    <2>6. ReaderInv'
        <3>1. ASSUME NEW i \in wanted, Len(log) - i >= (page - 1) * PerPage
              PROVE  Len(log') - i >= (page - 1) * PerPage
            <4>1. i \in 1..Len(log)
                BY <1>0 DEF ReaderInv
            <4> QED BY <1>0, <2>2, <2>5, <3>1, <4>1
        <3> QED BY <1>0, <2>1, <2>2, <3>1 DEF ReaderInv, PagesSkipNothing
    <2>7. StatsInv'
        <3>1. Cardinality(InPeriod) \in Nat /\ Cardinality(InPeriod') \in Nat
            <4>1. IsFiniteSet(DOMAIN log) /\ IsFiniteSet(DOMAIN log')
                BY <1>0, <2>2, FS_Interval
            <4>2. IsFiniteSet(InPeriod) /\ IsFiniteSet(InPeriod')
                BY <4>1, FS_Subset DEF InPeriod
            <4> QED BY <4>2, FS_CardinalityType
        <3>2. total \in Nat
            BY <1>0 DEF QueriesTypeOK
        <3> QED BY <1>0, <2>1, <2>3, <3>1, <3>2 DEF StatsInv
    <2> QED BY <2>4, <2>6, <2>7 DEF QueriesInv
<1>2. ASSUME NEW k \in KeyId, NEW n \in Name \cup {NoName}, ChangeKey(k, n)
      PROVE  QueriesInv'
    BY <1>0, <1>2 DEF ChangeKey, QueriesInv, QueriesTypeOK, ReaderInv,
                      PagesSkipNothing, StatsInv, InPeriod
<1>3. CASE CountTotal
    <2>1. Cardinality(InPeriod) \in Nat
        BY <1>0, JoinKeepsAll, FS_CardinalityType
    <2> QED BY <1>0, <1>3, <2>1
            DEF CountTotal, QueriesInv, QueriesTypeOK, ReaderInv,
                PagesSkipNothing, StatsInv, InPeriod
<1>4. CASE GroupByKey
    <2>1. /\ perKey' \in [Name \cup {NoName} -> Nat]
          /\ SumOfLines(perKey') = Cardinality(Joined)
        BY <1>0, <1>4, GroupsAddUp
    <2>2. Cardinality(InPeriod) \in Nat /\ Cardinality(Joined) \in Nat
          /\ Cardinality(InPeriod) <= Cardinality(Joined)
        BY <1>0, JoinKeepsAll, FS_CardinalityType
    <2>3. total \in Nat /\ total <= Cardinality(InPeriod)
        BY <1>0, <1>4 DEF GroupByKey, StatsInv, QueriesTypeOK
    <2>4. SumOfLines(perKey') >= total
        BY <2>1, <2>2, <2>3
    <2> QED BY <1>0, <1>4, <2>1, <2>4
            DEF GroupByKey, QueriesInv, QueriesTypeOK, ReaderInv,
                PagesSkipNothing, StatsInv
<1>5. CASE CountErrors
    <2>1. Cardinality({i \in InPeriod : log[i].error}) \in Nat
        BY <1>0, JoinKeepsAll, FS_Subset, FS_CardinalityType
    <2> QED BY <1>0, <1>5, <2>1
            DEF CountErrors, QueriesInv, QueriesTypeOK, ReaderInv,
                PagesSkipNothing, StatsInv
<1>6. CASE CountRows
    <2>1. ASSUME reader = "idle", NEW i \in DOMAIN log
          PROVE  Len(log) - i >= (page - 1) * PerPage
        <3>1. (page - 1) * PerPage = 0
            BY <1>0, <2>1, QueriesAssumption DEF ReaderInv
        <3> QED BY <1>0, <3>1
    <2>2. ReaderInv'
        BY <1>0, <1>6, <2>1 DEF CountRows, ReaderInv, PagesSkipNothing
    <2> QED BY <1>0, <1>6, <2>2
            DEF CountRows, QueriesInv, QueriesTypeOK, StatsInv, InPeriod
<1>7. CASE FetchPage
    <2>1. ReaderInv'
        BY <1>7, ReaderStep
    <2>2. PageRows(page) \subseteq DOMAIN log
        BY DEF PageRows
    <2> QED BY <1>0, <1>7, <2>1, <2>2
            DEF FetchPage, QueriesInv, QueriesTypeOK, StatsInv, InPeriod
<1>8. CASE UNCHANGED queryVars
    BY <1>0, <1>8 DEF queryVars, QueriesInv, QueriesTypeOK, ReaderInv,
                      PagesSkipNothing, StatsInv, InPeriod
<1> QED BY <1>1, <1>2, <1>3, <1>4, <1>5, <1>6, <1>7, <1>8 DEF QueriesNext

\* The queries keep their invariant, whatever happens between two statements.
THEOREM QueriesInvariant == QueriesSpec => []QueriesInv
BY QueriesInvInit, QueriesInvStep, PTL DEF QueriesSpec

-----------------------------------------------------------------------------
(* The parts and the whole *)

\* A behaviour of the whole is one of each part: no step of a part touches
\* another one.
THEOREM AdministrationHasParts ==
    AdminSpec => /\ KeysSpec
                 /\ PasswordSpec
                 /\ LockoutSpec
                 /\ ConfigSpec
                 /\ ClientSpec
                 /\ QueriesSpec
<1>1. AdminInit => /\ KeysInit /\ PasswordInit /\ ClockInit /\ LockoutInit
                   /\ ConfigInit /\ ClientInit /\ QueriesInit
    BY DEF AdminInit
<1>2. [AdminNext]_adminVars => [KeysNext]_keysVars
    BY DEF AdminNext, adminVars, KeysStep, PasswordStep, LoginStep, ConfigStep,
           QueriesStep
<1>3. [AdminNext]_adminVars => [PasswordNext]_passwordVars
    BY DEF AdminNext, adminVars, KeysStep, PasswordStep, LoginStep, ConfigStep,
           QueriesStep
<1>4. [AdminNext]_adminVars => [LockoutNext]_<<clockVars, lockoutVars>>
    BY DEF AdminNext, adminVars, KeysStep, PasswordStep, LoginStep, ConfigStep,
           QueriesStep
<1>5. [AdminNext]_adminVars => [ClientNext]_<<configVars, clientVars>>
    BY DEF AdminNext, adminVars, KeysStep, PasswordStep, LoginStep, ConfigStep,
           QueriesStep
<1>6. [ClientNext]_<<configVars, clientVars>> => [ConfigNext]_configVars
    BY DEF ClientNext, ReuseClient, ReplaceClosed, StartRebuild, FinishRebuild
<1>7. [AdminNext]_adminVars => [QueriesNext]_queryVars
    BY DEF AdminNext, adminVars, KeysStep, PasswordStep, LoginStep, ConfigStep,
           QueriesStep
<1> QED BY <1>1, <1>2, <1>3, <1>4, <1>5, <1>6, <1>7, PTL
        DEF AdminSpec, KeysSpec, PasswordSpec, LockoutSpec, ConfigSpec,
            ClientSpec, QueriesSpec

\* The state of every part has its type, whichever part runs.
THEOREM AdministrationTypeCorrect == AdminSpec => []AdminTypeOK
<1>1. QueriesInv => QueriesTypeOK
    BY DEF QueriesInv
<1>2. /\ KeysTypeOK /\ PasswordTypeOK /\ LockoutTypeOK
      /\ ConfigTypeOK /\ ClientTypeOK /\ QueriesTypeOK
      => AdminTypeOK
    BY DEF AdminTypeOK
<1> QED BY <1>1, <1>2, AdministrationHasParts, KeysTypeCorrect,
           PasswordTypeCorrect, LockoutTypeCorrect, ConfigTypeCorrect,
           ClientTypeCorrect, QueriesInvariant, PTL

\* The lines of the statistics cover the total, although they are fetched later.
THEOREM BreakdownIsComplete == AdminSpec => []BreakdownCoversTotal
<1>1. QueriesInv => BreakdownCoversTotal
    BY DEF QueriesInv, StatsInv, BreakdownCoversTotal, SumOfLines
<1> QED BY <1>1, AdministrationHasParts, QueriesInvariant, PTL

\* Whoever pages through the log to its end misses no row that was there at the
\* start.
THEOREM PagesAreComplete == AdminSpec => []PagesSkipNothing
<1>1. QueriesInv => PagesSkipNothing
    BY DEF QueriesInv, ReaderInv
<1> QED BY <1>1, AdministrationHasParts, QueriesInvariant, PTL

\* What is proved of the parts is so of the whole.
THEOREM AdministrationIsSafe ==
    AdminSpec => /\ []AnswersAreSaved
                 /\ []DeletedKeyStaysOut
                 /\ []OnlyPromisedPasswordWorks
                 /\ []GuessesBounded
                 /\ []RefusedOnlyForGuesses
                 /\ []QueueFollowsConfig
                 /\ HandedClientFits
BY AdministrationHasParts, AnsweredIsSaved, DeletedForGood,
   PromisedPasswordOpens, GuessesStayBounded, RefusalsJustified,
   QueueLimitsFollow, HandedClientsFit, PTL

=============================================================================
