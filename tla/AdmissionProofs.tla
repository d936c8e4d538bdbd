-------------------------- MODULE AdmissionProofs --------------------------
(***************************************************************************)
(* Proofs about Admission, for any requests, users, limits and quotas, any *)
(* span of the limiter, any calendar and any times at which the clock is   *)
(* set back: what the rate limiter guarantees of real time although it     *)
(* reads a clock that lies, that a refusal for a quota is justified, and   *)
(* that no cleanup of the log at a restart lets a user pass the monthly    *)
(* quota again, as long as the retention reaches back over every month.    *)
(***************************************************************************)
EXTENDS Admission, DataTheorems

-----------------------------------------------------------------------------
(* The clock and the windows *)

\* The clock shows a reading that has a date.
LEMMA ClockIsRight ==
    AdmissionTypeOK =>
        /\ elapsed \in Nat /\ setBack \in Nat /\ Wall \in Int
        /\ Cutoff \in Int /\ Span \in Nat
        /\ Wall \in Readings /\ Today \in Day
        /\ Day \subseteq Nat
<1> SUFFICES ASSUME AdmissionTypeOK
             PROVE  /\ elapsed \in Nat /\ setBack \in Nat /\ Wall \in Int
                    /\ Cutoff \in Int /\ Span \in Nat
                    /\ Wall \in Readings /\ Today \in Day
                    /\ Day \subseteq Nat
    OBVIOUS
<1>1. /\ elapsed \in 0..MaxTime /\ setBack \in 0..MaxSetBack
      /\ MaxTime \in Nat /\ MaxSetBack \in Nat /\ Span \in Nat
    BY ClockAssumption, LimiterAssumption DEF AdmissionTypeOK
<1>2. Wall \in (-MaxSetBack)..MaxTime /\ Cutoff \in Int
    BY <1>1 DEF Wall, Cutoff
<1>3. Day \subseteq Nat
    BY ClockAssumption DEF Day
<1> QED BY <1>1, <1>2, <1>3 DEF Readings, Today, Day

\* Fresh pops a number of expired times from the left, up to the first one that
\* is not: what the `while' of check() does.
LEMMA FreshPops ==
    ASSUME NEW w \in Seq(Int), Cutoff \in Int
    PROVE  \E d \in 0..Len(w) :
              /\ Fresh(w) \in Seq(Int)
              /\ Len(Fresh(w)) = Len(w) - d
              /\ \A i \in 1..Len(w) - d : Fresh(w)[i] = w[i + d]
              /\ \A i \in 1..d : w[i] < Cutoff
              /\ d < Len(w) => w[d + 1] >= Cutoff
<1> DEFINE kept == {i \in 1..Len(w) : w[i] >= Cutoff}
<1>1. Len(w) \in Nat /\ \A i \in 1..Len(w) : w[i] \in Int
    BY ElementOfSeq
<1>2. CASE kept = {}
    <2>1. Fresh(w) = <<>>
        BY <1>2 DEF Fresh
    <2>2. \A i \in 1..Len(w) : w[i] < Cutoff
        BY <1>1, <1>2
    <2> QED BY <1>1, <2>1, <2>2
<1>3. CASE kept # {}
    <2> DEFINE k == Min(kept)
    <2>1. k \in kept /\ \A j \in kept : k <= j
        <3>1. \E n \in kept : \A m \in kept : n <= m
            <4>1. kept \in SUBSET Nat
                BY <1>1
            <4> HIDE DEF kept
            <4> QED BY <1>3, <4>1, LeastNat
        <3> HIDE DEF kept
        <3> QED BY <3>1 DEF Min
    <2>2. Fresh(w) = SubSeq(w, k, Len(w))
        BY <1>3 DEF Fresh
    <2> HIDE DEF k
    <2>3. k \in 1..Len(w) /\ w[k] >= Cutoff
        BY <2>1
    <2>4. \A i \in k..Len(w) : w[i] \in Int
        BY <1>1, <2>3
    <2>5. /\ Fresh(w) \in Seq(Int)
          /\ Len(Fresh(w)) = Len(w) - k + 1
          /\ \A i \in 1..Len(w) - k + 1 : Fresh(w)[i] = w[k + i - 1]
        BY <1>1, <2>2, <2>3, <2>4, SubSeqProperties
    <2>6. \A i \in 1..(k - 1) : w[i] < Cutoff
        <3> SUFFICES ASSUME NEW i \in 1..(k - 1) PROVE w[i] < Cutoff
            OBVIOUS
        <3>1. i \in 1..Len(w) /\ ~(k <= i)
            BY <1>1, <2>3
        <3>2. i \notin kept
            BY <2>1, <3>1
        <3> QED BY <1>1, <3>1, <3>2
    <2> DEFINE d == k - 1
    <2>7. d \in 0..Len(w) /\ Len(Fresh(w)) = Len(w) - d /\ w[d + 1] >= Cutoff
        BY <1>1, <2>3, <2>5
    <2>8. \A i \in 1..Len(w) - d : Fresh(w)[i] = w[i + d]
        <3> SUFFICES ASSUME NEW i \in 1..Len(w) - d
                     PROVE  Fresh(w)[i] = w[i + d]
            OBVIOUS
        <3>1. i \in 1..Len(w) - k + 1 /\ k + i - 1 = i + d
            BY <1>1, <2>3
        <3> QED BY <2>5, <3>1
    <2> QED BY <2>5, <2>6, <2>7, <2>8
<1> QED BY <1>2, <1>3

-----------------------------------------------------------------------------
(* Types *)

\* Every variable keeps its type; and a user's window has no more times than the
\* largest limit of the user's keys, since check() records after it has popped
\* and compared, and a refused request records nothing.
THEOREM AdmissionTypeCorrect == AdmissionSpec => []AdmissionTypeOK
<1>1. AdmissionInit => AdmissionTypeOK
    <2> SUFFICES ASSUME AdmissionInit PROVE AdmissionTypeOK
        OBVIOUS
    <2>1. MaxTime \in Nat /\ MaxSetBack \in Nat /\ CleanupAfter \in Nat
        BY ClockAssumption, LimiterAssumption
    <2>2. 0 \in Readings /\ Wall = 0
        BY <2>1 DEF Readings, AdmissionInit, ClockInit, Wall
    <2>3. Today \in Day
        BY <2>2 DEF Today, Day
    <2>4. windows \in [User -> Seq(Int)]
        BY EmptySeq DEF AdmissionInit, LimiterInit
    <2> QED BY <2>1, <2>3, <2>4
            DEF AdmissionInit, ClockInit, LimiterInit, QuotaInit, LongAgo,
                AdmissionTypeOK, Stage, Never
<1>2. AdmissionTypeOK /\ [AdmissionNext]_vars => AdmissionTypeOK'
    <2> SUFFICES ASSUME AdmissionTypeOK, [AdmissionNext]_vars
                 PROVE  AdmissionTypeOK'
        OBVIOUS
    <2>0. /\ elapsed \in Nat /\ setBack \in Nat /\ Wall \in Int
          /\ Cutoff \in Int /\ Today \in Day
        BY ClockIsRight
    <2>1. ASSUME NEW r \in Request, PassLimiter(r) PROVE AdmissionTypeOK'
        <3> DEFINE u == UserOf[r]
        <3>1. u \in User /\ RateOf[r] \in Nat
            BY AdmissionAssumption
        <3>2. /\ stage' \in [Request -> Stage]
              /\ since' \in [Request -> Day]
              /\ UNCHANGED <<elapsed, setBack, quotaVars>>
            BY <2>0, <2>1
               DEF PassLimiter, GoTo, FirstCheck, Stage, AdmissionTypeOK,
                   clockVars
        <3>3. CASE Grant(u, RateOf[r])
                   /\ grantedAt' = [grantedAt EXCEPT ![r] = elapsed]
            <4> DEFINE fresh    == Fresh(windows[u])
                       recorded ==
                           [windows EXCEPT ![u] = Append(Fresh(@), Wall)]
            <4>1. fresh \in Seq(Int) /\ Len(fresh) \in Nat
                  /\ Len(fresh) < RateOf[r]
                <5>1. windows[u] \in Seq(Int)
                    BY <3>1 DEF AdmissionTypeOK
                <5>2. fresh \in Seq(Int)
                    BY <2>0, <5>1, FreshPops
                <5> QED BY <3>1, <3>3, <5>2 DEF Grant, AtLimit
            <4>2. /\ Append(fresh, Wall) \in Seq(Int)
                  /\ Len(Append(fresh, Wall)) <= RateOf[r]
                BY <2>0, <3>1, <4>1, AppendProperties
            <4>3. recorded \in [User -> Seq(Int)]
                BY <3>1, <4>2 DEF AdmissionTypeOK
            <4>4. \A v \in User : recorded[v] # <<>> =>
                     \E q \in Request : UserOf[q] = v
                                        /\ Len(recorded[v]) <= RateOf[q]
                BY <3>1, <4>2 DEF AdmissionTypeOK
            <4>5. /\ windows' \in [User -> Seq(Int)]
                  /\ \A v \in User : windows'[v] # <<>> =>
                        windows'[v] = recorded[v]
                <5> HIDE DEF recorded
                <5> QED BY <3>3, <4>3, EmptySeq DEF Grant, recorded
            <4>6. lastCleanup' \in Int
                BY <2>0, <3>3 DEF Grant, AdmissionTypeOK
            <4>7. grantedAt' \in [Request -> 0..MaxTime \cup {Never}]
                BY <3>3 DEF AdmissionTypeOK
            <4> HIDE DEF recorded
            <4> QED BY <3>2, <4>4, <4>5, <4>6, <4>7 DEF quotaVars, AdmissionTypeOK
        <3>4. CASE UNCHANGED <<limiterVars, grantedAt>>
            BY <3>2, <3>4 DEF AdmissionTypeOK, limiterVars, quotaVars
        <3> QED BY <2>1, <3>3, <3>4 DEF PassLimiter
    <2>2. ASSUME NEW r \in Request, Limited(r) PROVE AdmissionTypeOK'
        <3> DEFINE u == UserOf[r]
        <3>1. u \in User /\ windows[u] \in Seq(Int)
            BY AdmissionAssumption DEF AdmissionTypeOK
        <3>2. /\ Fresh(windows[u]) \in Seq(Int)
              /\ Len(Fresh(windows[u])) <= Len(windows[u])
              /\ windows[u] = <<>> => Fresh(windows[u]) = <<>>
            <4>1. PICK d \in 0..Len(windows[u]) :
                     /\ Fresh(windows[u]) \in Seq(Int)
                     /\ Len(Fresh(windows[u])) = Len(windows[u]) - d
                BY <2>0, <3>1, FreshPops
            <4>2. Len(windows[u]) \in Nat
                BY <3>1
            <4>3. windows[u] = <<>> => Fresh(windows[u]) = <<>>
                BY <4>1, EmptySeq
            <4> QED BY <4>1, <4>2, <4>3
        <3>3. windows' = [windows EXCEPT ![u] = Fresh(@)]
              /\ lastCleanup' = lastCleanup
            BY <2>2 DEF Limited, Reject
        <3>4. windows' \in [User -> Seq(Int)]
            BY <3>2, <3>3 DEF AdmissionTypeOK
        <3>5. \A v \in User : windows'[v] # <<>> =>
                 \E q \in Request : UserOf[q] = v
                                    /\ Len(windows'[v]) <= RateOf[q]
            <4> SUFFICES ASSUME NEW v \in User, windows'[v] # <<>>
                         PROVE  \E q \in Request : UserOf[q] = v
                                    /\ Len(windows'[v]) <= RateOf[q]
                OBVIOUS
            <4>1. Len(windows'[v]) <= Len(windows[v]) /\ windows[v] # <<>>
                  /\ Len(windows'[v]) \in Nat /\ Len(windows[v]) \in Nat
                BY <3>1, <3>2, <3>3, <3>4 DEF AdmissionTypeOK
            <4>2. PICK q \in Request : UserOf[q] = v
                                       /\ Len(windows[v]) <= RateOf[q]
                BY <4>1 DEF AdmissionTypeOK
            <4> QED BY <4>1, <4>2, AdmissionAssumption
        <3>6. stage' \in [Request -> Stage]
            BY <2>2 DEF Limited, GoTo, Stage, AdmissionTypeOK
        <3>7. UNCHANGED <<elapsed, setBack, quotaVars, since, grantedAt>>
            BY <2>2 DEF Limited, clockVars
        <3> QED BY <3>3, <3>4, <3>5, <3>6, <3>7 DEF quotaVars, AdmissionTypeOK
    <2>3. ASSUME NEW r \in Request,
                 PassDaily(r) \/ PassMonthly(r) \/ Exceeded(r) \/ Leave(r)
                     \/ Complete(r) \/ SaveFails(r)
          PROVE  AdmissionTypeOK'
        <3>1. stage' \in [Request -> Stage]
            BY <2>3 DEF PassDaily, PassMonthly, Exceeded, Leave, Complete,
                        SaveFails, GoTo, AfterDaily, Stage, AdmissionTypeOK
        <3>2. UNCHANGED <<clockVars, limiterVars, quotaVars, since, grantedAt>>
            BY <2>3 DEF PassDaily, PassMonthly, Exceeded, Leave, Complete,
                        SaveFails
        <3> QED BY <3>1, <3>2 DEF clockVars, limiterVars, quotaVars, AdmissionTypeOK
    <2>4. ASSUME NEW r \in Request, SaveLog(r) PROVE AdmissionTypeOK'
        BY <2>0, <2>4 DEF SaveLog, InsertRow, Row, GoTo, Stage, clockVars,
                          limiterVars, AdmissionTypeOK
    <2>5. CASE Restart
        <3>1. log' \subseteq log /\ inserted' = inserted
            BY <2>5 DEF Restart, CleanupLogs
        <3>2. /\ windows' \in [User -> Seq(Int)]
              /\ \A u \in User : windows'[u] = <<>>
              /\ lastCleanup' \in Int
            BY <2>5, EmptySeq, ClockAssumption, LimiterAssumption
               DEF Restart, ResetLimiter, LongAgo
        <3>3. /\ stage' \in [Request -> Stage]
              /\ grantedAt' \in [Request -> 0..MaxTime \cup {Never}]
              /\ UNCHANGED <<elapsed, setBack, since>>
            BY <2>5 DEF Restart, Stage, InFlight, clockVars, AdmissionTypeOK
        <3> QED BY <3>1, <3>2, <3>3 DEF AdmissionTypeOK
    <2>6. CASE TurnClock
        <3>1. elapsed' \in 0..MaxTime /\ setBack' \in 0..MaxSetBack
            BY <2>6, ClockAssumption
               DEF TurnClock, Tick, SetClockBack, AdmissionTypeOK
        <3> QED BY <2>6, <3>1
                DEF TurnClock, limiterVars, quotaVars, admissionVars,
                    AdmissionTypeOK
    <2>7. CASE UNCHANGED vars
        BY <2>7 DEF vars, clockVars, limiterVars, quotaVars, admissionVars,
                    AdmissionTypeOK
    <2> QED BY <2>1, <2>2, <2>3, <2>4, <2>5, <2>6, <2>7 DEF AdmissionNext
<1> QED BY <1>1, <1>2, PTL DEF AdmissionSpec

-----------------------------------------------------------------------------
(* The rate limiter *)

\* o names the request behind every time of w, a window of u: each one a
\* request of u that passed, no two the same, in the order in which they passed;
\* the recorded time is the real one or less, by no more than the clock was set
\* back until now; and whoever passed within the last Span is still there.
Recorded(o, w, u) ==
    /\ o \in [1..Len(w) -> Request]
    /\ \A i, j \in 1..Len(w) : o[i] = o[j] => i = j
    /\ \A i \in 1..Len(w) :
          /\ UserOf[o[i]] = u
          /\ grantedAt[o[i]] # Never
          /\ grantedAt[o[i]] - setBack <= w[i]
          /\ w[i] <= grantedAt[o[i]]
    /\ \A i, j \in 1..Len(w) : i <= j => grantedAt[o[i]] <= grantedAt[o[j]]
    /\ \A r \in GrantedFrom(u, elapsed - Span) : \E i \in 1..Len(w) : o[i] = r

\* The inductive invariant of the limiter: the times are in real order although
\* the numbers in the window need not be.
LimiterInv ==
    /\ \A r \in Request : grantedAt[r] <= elapsed
                          /\ (stage[r] = "arrived" => grantedAt[r] = Never)
    /\ \A u \in User : \E o : Recorded(o, windows[u], u)
    /\ IsFiniteSet({r \in Request : grantedAt[r] # Never})

\* Popping the expired times keeps everybody of the last Span: a time within it
\* shows no less than the cutoff, however far the clock was set back.
LEMMA FreshIsRecorded ==
    ASSUME AdmissionTypeOK, LimiterInv, NEW u \in User
    PROVE  \E o : Recorded(o, Fresh(windows[u]), u)
<1> DEFINE w == windows[u]
<1>0. /\ w \in Seq(Int) /\ Len(w) \in Nat
      /\ elapsed \in Nat /\ setBack \in Nat /\ Cutoff \in Int /\ Span \in Nat
      /\ Cutoff = elapsed - Span - setBack
      /\ \A r \in Request : grantedAt[r] \in Int
    BY ClockIsRight DEF AdmissionTypeOK, Cutoff, Wall, Never
<1>1. PICK o : Recorded(o, w, u)
    BY DEF LimiterInv
<1>2. PICK d \in 0..Len(w) :
          /\ Fresh(w) \in Seq(Int)
          /\ Len(Fresh(w)) = Len(w) - d
          /\ \A i \in 1..Len(w) - d : Fresh(w)[i] = w[i + d]
          /\ \A i \in 1..d : w[i] < Cutoff
    BY <1>0, FreshPops
<1> DEFINE p == [i \in 1..Len(Fresh(w)) |-> o[i + d]]
<1> HIDE DEF w
<1>3. \A i \in 1..Len(Fresh(w)) : i + d \in 1..Len(w)
    BY <1>0, <1>2
<1>4. \A r \in GrantedFrom(u, elapsed - Span) :
          \E i \in 1..Len(Fresh(w)) : p[i] = r
    <2> SUFFICES ASSUME NEW r \in GrantedFrom(u, elapsed - Span)
                 PROVE  \E i \in 1..Len(Fresh(w)) : p[i] = r
        OBVIOUS
    <2>1. r \in Request /\ grantedAt[r] >= elapsed - Span
        BY DEF GrantedFrom
    <2>2. PICK j \in 1..Len(w) : o[j] = r
        BY <1>1 DEF Recorded
    <2>3. w[j] \in Int
        BY <1>0, ElementOfSeq
    <2>4. w[j] >= Cutoff
        BY <1>0, <1>1, <2>1, <2>2, <2>3 DEF Recorded
    <2>5. j - d \in 1..Len(Fresh(w)) /\ (j - d) + d = j
        BY <1>0, <1>2, <2>3, <2>4
    <2>6. p[j - d] = r
        BY <2>2, <2>5
    <2> QED BY <2>5, <2>6
<1>5. p \in [1..Len(Fresh(w)) -> Request]
    BY <1>1, <1>3 DEF Recorded
<1>6. \A i \in 1..Len(Fresh(w)) : p[i] = o[i + d] /\ Fresh(w)[i] = w[i + d]
    BY <1>2
<1> HIDE DEF p
<1>7. \A i, j \in 1..Len(Fresh(w)) : p[i] = p[j] => i = j
    <2> SUFFICES ASSUME NEW i \in 1..Len(Fresh(w)),
                        NEW j \in 1..Len(Fresh(w)), p[i] = p[j]
                 PROVE  i = j
        OBVIOUS
    <2>1. i + d = j + d
        BY <1>1, <1>3, <1>6 DEF Recorded
    <2> QED BY <2>1, <1>2
<1>8. \A i \in 1..Len(Fresh(w)) :
          /\ UserOf[p[i]] = u
          /\ grantedAt[p[i]] # Never
          /\ grantedAt[p[i]] - setBack <= Fresh(w)[i]
          /\ Fresh(w)[i] <= grantedAt[p[i]]
    BY <1>1, <1>3, <1>6 DEF Recorded
<1>9. \A i, j \in 1..Len(Fresh(w)) :
          i <= j => grantedAt[p[i]] <= grantedAt[p[j]]
    <2> SUFFICES ASSUME NEW i \in 1..Len(Fresh(w)),
                        NEW j \in 1..Len(Fresh(w)), i <= j
                 PROVE  grantedAt[p[i]] <= grantedAt[p[j]]
        OBVIOUS
    <2>1. i + d <= j + d
        BY <1>2
    <2> QED BY <1>1, <1>3, <1>6, <2>1 DEF Recorded
<1>10. Recorded(p, Fresh(w), u)
    BY <1>4, <1>5, <1>7, <1>8, <1>9 DEF Recorded
<1> QED BY <1>10 DEF w

\* A request that passes is recorded behind the ones that are there, with the
\* time that the clock shows.
LEMMA GrantIsRecorded ==
    ASSUME AdmissionTypeOK, LimiterInv, NEW r \in Request,
           stage[r] = "arrived", NEW w \in Seq(Int), NEW o,
           Recorded(o, w, UserOf[r]), NEW v, v = Append(w, Wall),
           grantedAt' = [grantedAt EXCEPT ![r] = elapsed],
           UNCHANGED clockVars
    PROVE  (\E p : Recorded(p, v, UserOf[r]))'
<1> DEFINE u == UserOf[r]
           n == Len(w)
           p == [i \in 1..(n + 1) |-> IF i = n + 1 THEN r ELSE o[i]]
<1>0. /\ n \in Nat /\ Wall \in Int /\ Wall = elapsed - setBack
      /\ elapsed \in Nat /\ setBack \in Nat /\ Span \in Nat
      /\ elapsed' = elapsed /\ setBack' = setBack
      /\ \A q \in Request : grantedAt[q] \in Int /\ grantedAt[q] <= elapsed
      /\ grantedAt[r] = Never /\ elapsed # Never
      /\ grantedAt \in [Request -> Int]
    BY ClockIsRight DEF AdmissionTypeOK, LimiterInv, Wall, Never, clockVars
<1>1. /\ Len(v) = n + 1 /\ v[n + 1] = Wall
      /\ \A i \in 1..n : v[i] = w[i]
    BY <1>0, AppendProperties
<1>2. \A i \in 1..n : o[i] \in Request /\ o[i] # r
    BY <1>0 DEF Recorded
<1>3. /\ \A q \in Request \ {r} : grantedAt'[q] = grantedAt[q]
      /\ grantedAt'[r] = elapsed
    BY <1>0
<1>4. /\ p \in [1..Len(v) -> Request]
      /\ p[n + 1] = r /\ \A i \in 1..n : p[i] = o[i]
    BY <1>0, <1>1, <1>2
<1>5. \A i \in 1..Len(v) : i = n + 1 \/ i \in 1..n
    BY <1>0, <1>1
<1>10. p' = p
    OBVIOUS
<1> HIDE DEF p, n
<1>6. \A i, j \in 1..Len(v) : p[i] = p[j] => i = j
    BY <1>2, <1>4, <1>5 DEF Recorded, n
<1>7. \A i \in 1..Len(v) :
          /\ UserOf[p[i]] = u
          /\ grantedAt'[p[i]] # Never
          /\ grantedAt'[p[i]] - setBack' <= v[i]
          /\ v[i] <= grantedAt'[p[i]]
    <2> SUFFICES ASSUME NEW i \in 1..Len(v)
                 PROVE  /\ UserOf[p[i]] = u
                        /\ grantedAt'[p[i]] # Never
                        /\ grantedAt'[p[i]] - setBack' <= v[i]
                        /\ v[i] <= grantedAt'[p[i]]
        OBVIOUS
    <2>1. CASE i = n + 1
        BY <1>0, <1>1, <1>3, <1>4, <2>1
    <2>2. CASE i \in 1..n
        BY <1>0, <1>1, <1>2, <1>3, <1>4, <2>2 DEF Recorded, n
    <2> QED BY <1>5, <2>1, <2>2
<1>8. \A i, j \in 1..Len(v) : i <= j => grantedAt'[p[i]] <= grantedAt'[p[j]]
    <2> SUFFICES ASSUME NEW i \in 1..Len(v), NEW j \in 1..Len(v), i <= j
                 PROVE  grantedAt'[p[i]] <= grantedAt'[p[j]]
        OBVIOUS
    <2>1. CASE j = n + 1
        <3>1. p[i] \in Request
            BY <1>4
        <3> QED BY <1>0, <1>3, <1>4, <2>1, <3>1
    <2>2. CASE j \in 1..n
        <3>1. i \in 1..n
            BY <1>0, <1>5, <2>2
        <3>2. grantedAt[o[i]] <= grantedAt[o[j]]
            BY <2>2, <3>1 DEF Recorded, n
        <3>3. /\ grantedAt'[p[i]] = grantedAt[o[i]]
              /\ grantedAt'[p[j]] = grantedAt[o[j]]
            BY <1>2, <1>3, <1>4, <2>2, <3>1
        <3> QED BY <3>2, <3>3
    <2> QED BY <1>5, <2>1, <2>2
<1>9. \A q \in GrantedFrom(u, elapsed - Span)' : \E i \in 1..Len(v) : p[i] = q
    <2> SUFFICES ASSUME NEW q \in GrantedFrom(u, elapsed - Span)'
                 PROVE  \E i \in 1..Len(v) : p[i] = q
        OBVIOUS
    <2>1. CASE q = r
        BY <1>0, <1>1, <1>4, <2>1
    <2>2. CASE q # r
        <3>1. q \in GrantedFrom(u, elapsed - Span)
            BY <1>0, <1>3, <2>2 DEF GrantedFrom
        <3>2. PICK i \in 1..n : o[i] = q
            BY <3>1 DEF Recorded, n
        <3>3. i \in 1..Len(v)
            BY <1>0, <1>1
        <3> QED BY <1>4, <3>2, <3>3
    <2> QED BY <2>1, <2>2
<1>11. Recorded(p, v, u)'
    BY <1>4, <1>6, <1>7, <1>8, <1>9, <1>10 DEF Recorded
<1> QED BY <1>11

\* A window whose last time is expired has nobody of the last Span: those
\* before passed earlier still.
LEMMA StaleIsForgotten ==
    ASSUME AdmissionTypeOK, AdmissionTypeOK', UNCHANGED clockVars,
           NEW u, NEW w \in Seq(Int), NEW o, Recorded(o, w, u)', Stale(w)
    PROVE  (\E p : Recorded(p, <<>>, u))'
<1>0. /\ Len(w) \in Nat /\ elapsed \in Nat /\ setBack \in Nat
      /\ Span \in Nat /\ Cutoff = elapsed - Span - setBack
      /\ elapsed' = elapsed /\ setBack' = setBack
      /\ \A r \in Request : grantedAt'[r] \in Int
    BY ClockIsRight DEF AdmissionTypeOK, Cutoff, Wall, Never, clockVars
<1>1. GrantedFrom(u, elapsed - Span)' = {}
    <2> SUFFICES ASSUME NEW r \in GrantedFrom(u, elapsed - Span)' PROVE FALSE
        OBVIOUS
    <2>1. r \in Request /\ grantedAt'[r] >= elapsed - Span
        BY <1>0 DEF GrantedFrom
    <2>2. PICK i \in 1..Len(w) : o[i] = r
        BY DEF Recorded
    <2> DEFINE last == o[Len(w)]
    <2>3. Len(w) \in 1..Len(w) /\ i <= Len(w)
        BY <1>0
    <2>4. /\ last \in Request
          /\ grantedAt'[r] <= grantedAt'[last]
          /\ grantedAt'[last] - setBack' <= w[Len(w)]
        BY <2>2, <2>3 DEF Recorded
    <2>5. w[Len(w)] \in Int /\ w[Len(w)] < Cutoff
        <3>1. w[Len(w)] \in Int
            BY <2>3, ElementOfSeq
        <3>2. w # <<>>
            BY <2>3, EmptySeq
        <3> QED BY <3>1, <3>2 DEF Stale
    <2> HIDE DEF last
    <2> QED BY <1>0, <2>1, <2>4, <2>5
<1>2. Recorded(<<>>, <<>>, u)'
    <2>1. Len(<<>>) = 0 /\ 1..0 = {} /\ <<>> \in [1..0 -> Request]
        BY EmptySeq
    <2> QED BY <1>1, <2>1 DEF Recorded
<1> QED BY <1>2

\* Nothing changes for a window when time passes, the clock is set back or
\* another user's request passes.
LEMMA StaysRecorded ==
    ASSUME AdmissionTypeOK, NEW u, NEW w \in Seq(Int), NEW o, Recorded(o, w, u),
           \A r \in Request : UserOf[r] = u => grantedAt'[r] = grantedAt[r],
           elapsed' \in Nat, elapsed' >= elapsed,
           setBack' \in Nat, setBack' >= setBack
    PROVE  Recorded(o, w, u)'
<1>0. /\ Len(w) \in Nat /\ elapsed \in Nat /\ setBack \in Nat
      /\ Span \in Nat
      /\ \A r \in Request : grantedAt[r] \in Int
    BY ClockIsRight DEF AdmissionTypeOK, Never
<1>1. \A i \in 1..Len(w) : o[i] \in Request /\ UserOf[o[i]] = u
                           /\ w[i] \in Int
    BY ElementOfSeq DEF Recorded
<1>2. \A i \in 1..Len(w) : grantedAt'[o[i]] = grantedAt[o[i]]
    BY <1>1
<1>3. GrantedFrom(u, elapsed - Span)' \subseteq GrantedFrom(u, elapsed - Span)
    BY <1>0 DEF GrantedFrom
<1>4. \A i \in 1..Len(w) : /\ grantedAt'[o[i]] # Never
                           /\ grantedAt'[o[i]] - setBack' <= w[i]
                           /\ w[i] <= grantedAt'[o[i]]
    BY <1>0, <1>1, <1>2 DEF Recorded
<1>5. \A i, j \in 1..Len(w) :
          i <= j => grantedAt'[o[i]] <= grantedAt'[o[j]]
    BY <1>2 DEF Recorded
<1> QED BY <1>1, <1>3, <1>4, <1>5 DEF Recorded

\* An empty window is right when nobody has passed.
LEMMA NothingRecorded ==
    ASSUME NEW u, \A r \in Request : grantedAt'[r] = Never, windows'[u] = <<>>
    PROVE  (\E o : Recorded(o, windows[u], u))'
<1>1. Len(<<>>) = 0 /\ 1..0 = {} /\ <<>> \in [1..0 -> Request]
    BY EmptySeq
<1>2. GrantedFrom(u, elapsed - Span)' = {}
    BY DEF GrantedFrom
<1>3. Recorded(<<>>, windows[u], u)'
    BY <1>1, <1>2 DEF Recorded
<1> QED BY <1>3

\* In every reachable state each window lists times of requests that passed, and
\* has all that did within the last Span: check() forgets nobody too early,
\* although it reads a clock that may be set back.
THEOREM LimiterInvariant == AdmissionSpec => []LimiterInv
<1>1. AdmissionInit => LimiterInv
    <2> SUFFICES ASSUME AdmissionInit PROVE LimiterInv
        OBVIOUS
    <2>1. Len(<<>>) = 0 /\ 1..0 = {} /\ <<>> \in [1..0 -> Request]
        BY EmptySeq
    <2>2. \A u \in User : GrantedFrom(u, elapsed - Span) = {}
        BY DEF AdmissionInit, GrantedFrom
    <2>3. \A u \in User : Recorded(<<>>, windows[u], u)
        BY <2>1, <2>2 DEF Recorded, AdmissionInit, LimiterInit
    <2>4. {r \in Request : grantedAt[r] # Never} = {}
        BY DEF AdmissionInit
    <2>5. \A r \in Request : grantedAt[r] <= elapsed /\ grantedAt[r] = Never
        BY DEF AdmissionInit, ClockInit, Never
    <2> QED BY <2>3, <2>4, <2>5, FS_EmptySet DEF LimiterInv
<1>2. AdmissionTypeOK /\ AdmissionTypeOK' /\ LimiterInv /\ [AdmissionNext]_vars
          => LimiterInv'
    <2> SUFFICES ASSUME AdmissionTypeOK, AdmissionTypeOK', LimiterInv,
                        [AdmissionNext]_vars
                 PROVE  LimiterInv'
        OBVIOUS
    <2>0. /\ elapsed \in Nat /\ setBack \in Nat /\ elapsed # Never
          /\ grantedAt \in [Request -> Int]
          /\ windows \in [User -> Seq(Int)]
        BY ClockIsRight DEF AdmissionTypeOK, Never
    <2>1. ASSUME NEW r \in Request, PassLimiter(r),
                 Grant(UserOf[r], RateOf[r]),
                 grantedAt' = [grantedAt EXCEPT ![r] = elapsed]
          PROVE  LimiterInv'
        <3> DEFINE u        == UserOf[r]
                   fresh    == Fresh(windows[u])
                   recorded == [windows EXCEPT ![u] = Append(Fresh(@), Wall)]
        <3>0. /\ u \in User /\ stage[r] = "arrived"
              /\ stage' \in [Request -> Stage]
              /\ \A q \in Request : stage'[q] = "arrived" =>
                    q # r /\ stage[q] = "arrived"
              /\ elapsed' = elapsed /\ setBack' = setBack
            BY <2>1, AdmissionAssumption
               DEF PassLimiter, GoTo, FirstCheck, AdmissionTypeOK, clockVars
        <3>1. \A q \in Request :
                 /\ grantedAt'[q] <= elapsed'
                 /\ stage'[q] = "arrived" => grantedAt'[q] = Never
            BY <2>0, <2>1, <3>0 DEF LimiterInv
        <3>2. IsFiniteSet({q \in Request : grantedAt'[q] # Never})
            <4>1. {q \in Request : grantedAt'[q] # Never}
                      = {q \in Request : grantedAt[q] # Never} \cup {r}
                BY <2>0, <2>1
            <4> QED BY <4>1, FS_AddElement DEF LimiterInv
        <3>3. fresh \in Seq(Int)
            BY <2>0, <3>0, ClockIsRight, FreshPops
        <3>4. ASSUME NEW v \in User
              PROVE  (\E o : Recorded(o, windows[v], v))'
            <4>1. PICK x : x = recorded[v]
                OBVIOUS
            <4>2. x \in Seq(Int) /\ \E o : Recorded(o, x, v)'
                <5>1. CASE v = u
                    <6>1. PICK w : w = fresh
                        OBVIOUS
                    <6>2. w \in Seq(Int) /\ x = Append(w, Wall)
                        BY <2>0, <3>0, <3>3, <4>1, <5>1, <6>1
                    <6>3. PICK o : Recorded(o, w, u)
                        <7>1. \E o : Recorded(o, fresh, u)
                            BY <3>0, FreshIsRecorded
                        <7> QED BY <6>1, <7>1
                    <6>4. UNCHANGED clockVars
                        BY <2>1 DEF PassLimiter
                    <6>5. \E p : Recorded(p, x, u)'
                        BY <2>1, <3>0, <6>2, <6>3, <6>4, GrantIsRecorded
                    <6>6. x \in Seq(Int)
                        BY <6>2, ClockIsRight, AppendProperties
                    <6> QED BY <5>1, <6>5, <6>6
                <5>2. CASE v # u
                    <6>1. x = windows[v] /\ x \in Seq(Int)
                        BY <2>0, <4>1, <5>2
                    <6>2. PICK o : Recorded(o, x, v)
                        <7>1. \E o : Recorded(o, windows[v], v)
                            BY DEF LimiterInv
                        <7> QED BY <6>1, <7>1
                    <6>3. \A q \in Request : UserOf[q] = v =>
                             grantedAt'[q] = grantedAt[q]
                        BY <2>0, <2>1, <5>2
                    <6>4. Recorded(o, x, v)'
                        BY <2>0, <3>0, <6>1, <6>2, <6>3, StaysRecorded
                    <6> QED BY <6>1, <6>4
                <5> QED BY <5>1, <5>2
            <4>3. PICK o : Recorded(o, x, v)'
                BY <4>2
            <4>4. windows'[v] = x \/ (windows'[v] = <<>> /\ Stale(x))
                BY <2>1, <4>1 DEF Grant
            <4>5. UNCHANGED clockVars
                BY <2>1 DEF PassLimiter
            <4>6. CASE windows'[v] = x
                BY <4>3, <4>6
            <4>7. CASE windows'[v] = <<>> /\ Stale(x)
                <5>1. \E p : Recorded(p, <<>>, v)'
                    BY <4>2, <4>3, <4>5, <4>7, StaleIsForgotten
                <5> QED BY <4>7, <5>1
            <4> QED BY <4>4, <4>6, <4>7
        <3> QED BY <3>1, <3>2, <3>4 DEF LimiterInv
    <2>2. ASSUME NEW r \in Request, Limited(r) PROVE LimiterInv'
        <3> DEFINE u == UserOf[r]
        <3>0. /\ u \in User
              /\ \A q \in Request :
                    stage'[q] = "arrived" => stage[q] = "arrived"
              /\ elapsed' = elapsed /\ setBack' = setBack
              /\ grantedAt' = grantedAt
              /\ windows' = [windows EXCEPT ![u] = Fresh(@)]
            BY <2>2, AdmissionAssumption
               DEF Limited, Reject, GoTo, AdmissionTypeOK, clockVars
        <3>1. ASSUME NEW v \in User
              PROVE  (\E o : Recorded(o, windows[v], v))'
            <4>1. PICK x : x = windows'[v]
                OBVIOUS
            <4>2. x = IF v = u THEN Fresh(windows[v]) ELSE windows[v]
                BY <2>0, <3>0, <4>1
            <4>3. PICK o : Recorded(o, x, v)
                <5>1. /\ \E o : Recorded(o, windows[v], v)
                      /\ \E o : Recorded(o, Fresh(windows[v]), v)
                    BY FreshIsRecorded DEF LimiterInv
                <5> QED BY <4>2, <5>1
            <4>4. x \in Seq(Int)
                BY <4>1 DEF AdmissionTypeOK
            <4>5. Recorded(o, x, v)'
                BY <2>0, <3>0, <4>3, <4>4, StaysRecorded
            <4> QED BY <4>1, <4>5
        <3> QED BY <3>0, <3>1 DEF LimiterInv
    <2>3. ASSUME UNCHANGED <<windows, grantedAt>>,
                 \A q \in Request :
                    stage'[q] = "arrived" => stage[q] = "arrived",
                 elapsed' \in Nat, elapsed' >= elapsed,
                 setBack' \in Nat, setBack' >= setBack
          PROVE  LimiterInv'
        <3>1. ASSUME NEW v \in User
              PROVE  (\E o : Recorded(o, windows[v], v))'
            <4>1. PICK x : x = windows[v]
                OBVIOUS
            <4>2. PICK o : Recorded(o, x, v)
                <5>1. \E o : Recorded(o, windows[v], v)
                    BY DEF LimiterInv
                <5> QED BY <4>1, <5>1
            <4>3. Recorded(o, x, v)'
                BY <2>0, <2>3, <4>1, <4>2, StaysRecorded
            <4> QED BY <2>3, <4>1, <4>3
        <3>2. \A q \in Request : grantedAt[q] <= elapsed'
            BY <2>0, <2>3 DEF LimiterInv
        <3> QED BY <2>3, <3>1, <3>2 DEF LimiterInv
    <2>4. ASSUME NEW r \in Request, PassLimiter(r), RateOf[r] = 0,
                 UNCHANGED <<limiterVars, grantedAt>>
          PROVE  LimiterInv'
        BY <2>0, <2>3, <2>4
           DEF PassLimiter, GoTo, FirstCheck, limiterVars, clockVars,
               AdmissionTypeOK
    <2>5. ASSUME NEW r \in Request,
                 PassDaily(r) \/ PassMonthly(r) \/ Exceeded(r) \/ Leave(r)
                     \/ Complete(r) \/ SaveLog(r) \/ SaveFails(r)
          PROVE  LimiterInv'
        <3>1. UNCHANGED <<clockVars, limiterVars, grantedAt>>
            BY <2>5 DEF PassDaily, PassMonthly, Exceeded, Leave, Complete,
                        SaveLog, SaveFails
        <3>2. \A q \in Request : stage'[q] = "arrived" => stage[q] = "arrived"
            BY <2>5 DEF PassDaily, PassMonthly, Exceeded, Leave, Complete,
                        SaveLog, SaveFails, GoTo, AfterDaily, AdmissionTypeOK
        <3> QED BY <2>0, <2>3, <3>1, <3>2 DEF limiterVars, clockVars
    <2>6. CASE Restart
        <3>1. /\ \A q \in Request : grantedAt'[q] = Never
              /\ \A v \in User : windows'[v] = <<>>
              /\ elapsed' = elapsed
            BY <2>6 DEF Restart, ResetLimiter, clockVars
        <3>2. ASSUME NEW v \in User
              PROVE  (\E o : Recorded(o, windows[v], v))'
            BY <3>1, NothingRecorded
        <3>3. {q \in Request : grantedAt'[q] # Never} = {}
            BY <3>1
        <3>4. \A q \in Request : grantedAt'[q] <= elapsed'
            BY <2>0, <3>1 DEF Never
        <3> QED BY <3>1, <3>2, <3>3, <3>4, FS_EmptySet DEF LimiterInv
    <2>7. CASE TurnClock
        BY <2>0, <2>3, <2>7
           DEF TurnClock, Tick, SetClockBack, limiterVars, admissionVars
    <2>8. CASE UNCHANGED vars
        BY <2>0, <2>3, <2>8 DEF vars, clockVars, limiterVars, admissionVars
    <2> QED BY <2>1, <2>2, <2>4, <2>5, <2>6, <2>7, <2>8
            DEF AdmissionNext, PassLimiter
<1> QED BY <1>1, <1>2, AdmissionTypeCorrect, PTL DEF AdmissionSpec

\* As many times are recorded for a user as requests passed in the last Span.
LEMMA WindowCounts ==
    AdmissionTypeOK /\ LimiterInv =>
        \A u \in User :
            Cardinality(GrantedFrom(u, elapsed - Span)) <= Len(windows[u])
<1> SUFFICES ASSUME AdmissionTypeOK, LimiterInv, NEW u \in User
             PROVE  Cardinality(GrantedFrom(u, elapsed - Span))
                        <= Len(windows[u])
    OBVIOUS
<1> DEFINE G == GrantedFrom(u, elapsed - Span)
           n == Len(windows[u])
<1>1. PICK o : Recorded(o, windows[u], u)
    BY DEF LimiterInv
<1>2. n \in Nat
    BY DEF AdmissionTypeOK
<1> DEFINE f == [r \in G |-> CHOOSE i \in 1..n : o[i] = r]
<1>3. \A r \in G : f[r] \in 1..n /\ o[f[r]] = r
    BY <1>1 DEF Recorded
<1>4. f \in Injection(G, 1..n)
    <2>1. f \in [G -> 1..n]
        BY <1>3
    <2> HIDE DEF f, G, n
    <2> QED BY <1>3, <2>1 DEF Injection, IsInjective
<1>5. IsFiniteSet(1..n) /\ Cardinality(1..n) = n
    BY <1>2, FS_Interval
<1> HIDE DEF f, G, n
<1>6. Cardinality(G) <= Cardinality(1..n)
    BY <1>4, <1>5, FS_Injection
<1> QED BY <1>5, <1>6 DEF G, n

\* All times that are left in a window after popping are of requests that passed
\* within Span, and the time the clock was set back by.
LEMMA FreshCounts ==
    ASSUME AdmissionTypeOK, LimiterInv, NEW u \in User
    PROVE  Len(Fresh(windows[u]))
               <= Cardinality(GrantedFrom(u, elapsed - Span - setBack))
<1> DEFINE w == windows[u]
           G == GrantedFrom(u, elapsed - Span - setBack)
           n == Len(Fresh(w))
<1>0. /\ w \in Seq(Int) /\ Len(w) \in Nat
      /\ elapsed \in Nat /\ setBack \in Nat /\ Cutoff \in Int /\ Span \in Nat
      /\ Cutoff = elapsed - Span - setBack
      /\ \A r \in Request : grantedAt[r] \in Int
    BY ClockIsRight DEF AdmissionTypeOK, Cutoff, Wall, Never
<1>1. PICK o : Recorded(o, w, u)
    BY DEF LimiterInv
<1>2. PICK d \in 0..Len(w) :
          /\ n = Len(w) - d
          /\ d < Len(w) => w[d + 1] >= Cutoff
    BY <1>0, FreshPops
<1> HIDE DEF w, n
<1> DEFINE f == [i \in 1..n |-> o[i + d]]
<1>3. \A i \in 1..n : i + d \in 1..Len(w)
    BY <1>0, <1>2
<1>4. \A i \in 1..n : f[i] \in G
    <2> SUFFICES ASSUME NEW i \in 1..n PROVE o[i + d] \in G
        OBVIOUS
    <2>1. d + 1 \in 1..Len(w) /\ i + d \in 1..Len(w) /\ d + 1 <= i + d
        BY <1>0, <1>2
    <2>2. w[d + 1] >= Cutoff /\ w[d + 1] \in Int
        BY <1>0, <1>2, <2>1, ElementOfSeq
    <2> DEFINE first == o[d + 1]
               this  == o[i + d]
    <2>3. /\ first \in Request /\ this \in Request
          /\ w[d + 1] <= grantedAt[first]
          /\ grantedAt[first] <= grantedAt[this]
          /\ UserOf[this] = u /\ grantedAt[this] # Never
        BY <1>1, <2>1 DEF Recorded
    <2> HIDE DEF first, this
    <2>4. grantedAt[this] >= elapsed - Span - setBack
        BY <1>0, <2>2, <2>3
    <2>5. this \in G
        BY <2>3, <2>4 DEF GrantedFrom
    <2> QED BY <2>5 DEF this
<1>5. f \in Injection(1..n, G)
    <2>1. f \in [1..n -> G]
        BY <1>4
    <2>2. ASSUME NEW i \in 1..n, NEW j \in 1..n, f[i] = f[j] PROVE i = j
        <3>1. o[i + d] = o[j + d] /\ i + d \in 1..Len(w) /\ j + d \in 1..Len(w)
            BY <1>3, <2>2
        <3>2. i + d = j + d
            BY <1>1, <3>1 DEF Recorded
        <3> QED BY <1>2, <3>2
    <2> HIDE DEF f, G
    <2> QED BY <2>1, <2>2 DEF Injection, IsInjective
<1>6. n \in Nat
    BY <1>0, <1>2
<1>7. Cardinality(1..n) = n
    BY <1>6, FS_Interval
<1>8. IsFiniteSet(G)
    BY FS_Subset DEF LimiterInv, GrantedFrom
<1> HIDE DEF f, G
<1>9. Cardinality(1..n) <= Cardinality(G)
    BY <1>5, <1>8, FS_Injection
<1> QED BY <1>7, <1>9 DEF G, n, w

\* Within the last Span of real time no more requests of a user have passed
\* than the limit of the key by which the last one passed, although the limiter
\* reads a clock that may be set back any time, its purge may empty windows and
\* the user's keys have different limits.
THEOREM RateIsRespected == AdmissionSpec => RateRespected
<1>1. /\ AdmissionTypeOK /\ AdmissionTypeOK' /\ LimiterInv
      /\ (\A u \in User : Cardinality(GrantedFrom(u, elapsed - Span))
                              <= Len(windows[u]))'
      /\ [AdmissionNext]_vars
      => \A r \in Request :
            stage[r] = "arrived" /\ grantedAt'[r] # Never =>
                Cardinality(GrantedFrom(UserOf[r], elapsed - Span)')
                    <= RateOf[r]
    <2> SUFFICES ASSUME AdmissionTypeOK, AdmissionTypeOK', LimiterInv,
                        (\A u \in User :
                            Cardinality(GrantedFrom(u, elapsed - Span))
                                <= Len(windows[u]))',
                        [AdmissionNext]_vars, NEW r \in Request,
                        stage[r] = "arrived", grantedAt'[r] # Never
                 PROVE  Cardinality(GrantedFrom(UserOf[r], elapsed - Span)')
                            <= RateOf[r]
        OBVIOUS
    <2> DEFINE u == UserOf[r]
               fresh == Fresh(windows[u])
    <2>1. grantedAt[r] = Never
        BY DEF LimiterInv
    <2>2. PassLimiter(r) /\ Grant(u, RateOf[r])
        <3>1. ~Restart
            BY DEF Restart
        <3>2. ~UNCHANGED grantedAt
            BY <2>1
        <3>3. PICK q \in Request : PassLimiter(q)
            BY <3>1, <3>2
               DEF AdmissionNext, Limited, PassDaily, PassMonthly, Exceeded,
                   Leave, Complete, SaveLog, SaveFails, TurnClock,
                   admissionVars, vars
        <3>4. Grant(UserOf[q], RateOf[q])
              /\ grantedAt' = [grantedAt EXCEPT ![q] = elapsed]
            BY <3>2, <3>3 DEF PassLimiter
        <3>5. q = r
            BY <2>1, <3>4 DEF AdmissionTypeOK
        <3> QED BY <3>3, <3>4, <3>5
    <2>3. u \in User /\ RateOf[r] \in Nat /\ windows[u] \in Seq(Int)
          /\ windows \in [User -> Seq(Int)] /\ windows' \in [User -> Seq(Int)]
        BY AdmissionAssumption DEF AdmissionTypeOK
    <2>4. fresh \in Seq(Int) /\ Wall \in Int
        BY <2>3, ClockIsRight, FreshPops
    <2>5. ~(Len(fresh) >= RateOf[r])
        BY <2>2 DEF Grant, AtLimit
    <2>6. windows'[u] = Append(fresh, Wall) \/ windows'[u] = <<>>
        BY <2>2, <2>3 DEF Grant
    <2>7. Len(windows'[u]) <= RateOf[r]
        <3>1. Len(Append(fresh, Wall)) = Len(fresh) + 1 /\ Len(fresh) \in Nat
            BY <2>4, AppendProperties
        <3>2. Len(<<>>) = 0
            BY EmptySeq
        <3> HIDE DEF fresh
        <3> QED BY <2>3, <2>5, <2>6, <3>1, <3>2
    <2>8. Cardinality(GrantedFrom(u, elapsed - Span)') <= Len(windows'[u])
        BY <2>3
    <2>9. Cardinality(GrantedFrom(u, elapsed - Span)') \in Nat
        <3>1. IsFiniteSet(GrantedFrom(u, elapsed - Span)')
            <4>1. GrantedFrom(u, elapsed - Span)'
                    \subseteq {q \in Request : grantedAt'[q] # Never}
                BY DEF GrantedFrom
            <4>2. {q \in Request : grantedAt'[q] # Never}
                    \subseteq {q \in Request : grantedAt[q] # Never} \cup {r}
                BY <2>2 DEF PassLimiter, AdmissionTypeOK
            <4>3. IsFiniteSet({q \in Request : grantedAt[q] # Never} \cup {r})
                BY FS_AddElement DEF LimiterInv
            <4> QED BY <4>1, <4>2, <4>3, FS_Subset
        <3> QED BY <3>1, FS_CardinalityType
    <2>10. Len(windows'[u]) \in Nat
        BY <2>3
    <2> QED BY <2>3, <2>7, <2>8, <2>9, <2>10
<1> QED BY <1>1, AdmissionTypeCorrect, LimiterInvariant, WindowCounts, PTL
        DEF AdmissionSpec, RateRespected

\* A request is refused only when as many as its limit really passed within
\* Span, or within Span plus the time that the clock was set back by.
THEOREM RefusedAtLimitOnly == AdmissionSpec => RefusedOnlyAtLimit
<1>1. AdmissionTypeOK /\ LimiterInv /\ [AdmissionNext]_vars
      => \A r \in Request :
            stage[r] = "arrived" /\ stage'[r] = "limited" =>
                Cardinality(GrantedFrom(UserOf[r], elapsed - Span - setBack))
                    >= RateOf[r]
    <2> SUFFICES ASSUME AdmissionTypeOK, LimiterInv, [AdmissionNext]_vars,
                        NEW r \in Request,
                        stage[r] = "arrived", stage'[r] = "limited"
                 PROVE  Cardinality(GrantedFrom(UserOf[r],
                                                elapsed - Span - setBack))
                            >= RateOf[r]
        OBVIOUS
    <2>1. Limited(r)
        <3>1. ASSUME NEW q \in Request, PassLimiter(q) PROVE FALSE
            BY <3>1 DEF PassLimiter, GoTo, FirstCheck, AdmissionTypeOK
        <3>2. ASSUME NEW q \in Request,
                     PassDaily(q) \/ PassMonthly(q) \/ Exceeded(q) \/ Leave(q)
                         \/ Complete(q) \/ SaveLog(q) \/ SaveFails(q)
              PROVE  FALSE
            BY <3>2 DEF PassDaily, PassMonthly, Exceeded, Leave, Complete,
                        SaveLog, SaveFails, GoTo, AfterDaily, AdmissionTypeOK
        <3>3. ~Restart /\ ~TurnClock /\ ~UNCHANGED vars
            BY DEF Restart, TurnClock, admissionVars, vars
        <3>4. PICK q \in Request : Limited(q)
            BY <3>1, <3>2, <3>3 DEF AdmissionNext
        <3>5. q = r
            BY <3>4 DEF Limited, GoTo, AdmissionTypeOK
        <3> QED BY <3>4, <3>5
    <2> DEFINE u == UserOf[r]
               G == GrantedFrom(u, elapsed - Span - setBack)
    <2>2. u \in User /\ RateOf[r] \in Nat
        BY AdmissionAssumption
    <2>3. Len(Fresh(windows[u])) >= RateOf[r]
        BY <2>1 DEF Limited, Reject, AtLimit
    <2>4. Len(Fresh(windows[u])) <= Cardinality(G)
        BY <2>2, FreshCounts
    <2>5. Len(Fresh(windows[u])) \in Nat
        <3>1. windows[u] \in Seq(Int)
            BY <2>2 DEF AdmissionTypeOK
        <3> QED BY <3>1, ClockIsRight, FreshPops
    <2>6. Cardinality(G) \in Nat
        <3>1. IsFiniteSet(G)
            BY FS_Subset DEF LimiterInv, GrantedFrom
        <3> QED BY <3>1, FS_CardinalityType
    <2> HIDE DEF G
    <2> QED BY <2>2, <2>3, <2>4, <2>5, <2>6 DEF G
<1> QED BY <1>1, AdmissionTypeCorrect, LimiterInvariant, PTL
        DEF AdmissionSpec, RefusedOnlyAtLimit

-----------------------------------------------------------------------------
(* The quota *)

Counted(rows) == {row \in rows : TokensOf[row.request] # NoTokens}

Tokens(rows) == [row \in rows |-> TokensOf[row.request]]

\* What TokensIn computes is the sum of the tokens of the rows that have some.
LEMMA TokensAreSummed ==
    ASSUME NEW rows \in SUBSET Row, IsFiniteSet(rows), NEW g,
           Sums(g, Tokens(Counted(rows)), Counted(rows))
    PROVE  TokensIn(rows) = g[Counted(rows)]
<1> DEFINE C == Counted(rows)
           w == Tokens(C)
           Iterates(h) ==
               h = [s \in SUBSET C |->
                       IF s = {} THEN 0
                       ELSE TokensOf[Chosen(s).request] + h[s \ {Chosen(s)}]]
           f == CHOOSE h : Iterates(h)
<1>1. TokensIn(rows) = f[C]
    BY DEF TokensIn, MapThenSumSet, MapThenFoldSet, Chosen, Counted
<1>2. \A s \in SUBSET C : s # {} =>
          /\ Chosen(s) \in C /\ s \ {Chosen(s)} \in SUBSET C
          /\ w[Chosen(s)] = TokensOf[Chosen(s).request]
    BY ChosenIn DEF Tokens
<1> HIDE DEF C, w
<1>3. Iterates(g)
    <2> DEFINE h == [s \in SUBSET C |->
                       IF s = {} THEN 0
                       ELSE TokensOf[Chosen(s).request] + g[s \ {Chosen(s)}]]
    <2>1. g \in [SUBSET C -> Nat]
        BY DEF Sums, C, w
    <2>2. \A s \in SUBSET C : g[s] = h[s]
        BY <1>2 DEF Sums, Adds, C, w
    <2> QED BY <2>1, <2>2
<1>4. Iterates(f)
    <2> HIDE DEF Iterates
    <2> QED BY <1>3
<1>5. Adds(f, w, C)
    <2> HIDE DEF f
    <2> QED BY <1>2, <1>4 DEF Adds
<1>6. Adds(g, w, C)
    BY DEF Sums, C, w
<1>7. IsFiniteSet(C)
    BY FS_Subset DEF C, Counted
<1> HIDE DEF f
<1>8. g[C] = f[C]
    BY <1>5, <1>6, <1>7, SumsAgree
<1> QED BY <1>1, <1>8 DEF C

\* Fewer rows have no more tokens.
LEMMA TokensMonotone ==
    ASSUME NEW more \in SUBSET Row, IsFiniteSet(more), NEW rows \in SUBSET more
    PROVE  /\ TokensIn(rows) \in Nat /\ TokensIn(more) \in Nat
           /\ TokensIn(rows) <= TokensIn(more)
<1> DEFINE C == Counted(rows)
           D == Counted(more)
<1>1. C \subseteq D /\ D \subseteq more /\ rows \in SUBSET Row
    BY DEF Counted
<1>2. IsFiniteSet(C) /\ IsFiniteSet(D) /\ IsFiniteSet(rows)
    BY <1>1, FS_Subset
<1>3. Tokens(C) \in [C -> Nat] /\ Tokens(D) \in [D -> Nat]
    BY QuotaAssumption DEF Counted, Tokens, Row
<1>4. PICK g : Sums(g, Tokens(C), C)
    BY <1>2, <1>3, SumsExist
<1>5. PICK h : Sums(h, Tokens(D), D)
    BY <1>2, <1>3, SumsExist
<1>6. TokensIn(rows) = g[C] /\ TokensIn(more) = h[D]
    BY <1>1, <1>2, <1>4, <1>5, TokensAreSummed
<1>7. \A row \in C : Tokens(C)[row] = Tokens(D)[row]
    BY <1>1 DEF Tokens
<1> HIDE DEF C, D
<1>8. g[C] = h[C]
    BY <1>1, <1>2, <1>4, <1>5, <1>7, SumsAgree DEF Sums
<1>9. h[C] <= h[D]
    BY <1>1, <1>2, <1>3, <1>5, SumsMonotone
<1>10. g[C] \in Nat /\ h[D] \in Nat
    BY <1>4, <1>5 DEF Sums
<1> QED BY <1>6, <1>8, <1>9, <1>10

\* The inductive invariant of the quota: a check is only under way for a quota
\* that the key has.
QuotaInv ==
    /\ \A r \in Request : /\ stage[r] = "daily" => DailyOf[r] > 0
                          /\ stage[r] = "monthly" => MonthlyOf[r] > 0
    /\ IsFiniteSet(log) /\ IsFiniteSet(inserted)

\* Only requests with a quota are in check_quota, and finitely many rows have
\* been inserted.
THEOREM QuotaInvariant == AdmissionSpec => []QuotaInv
<1>1. AdmissionInit => QuotaInv
    BY FS_EmptySet DEF AdmissionInit, QuotaInit, QuotaInv
<1>2. AdmissionTypeOK /\ QuotaInv /\ [AdmissionNext]_vars => QuotaInv'
    <2> SUFFICES ASSUME AdmissionTypeOK, QuotaInv, [AdmissionNext]_vars
                 PROVE  QuotaInv'
        OBVIOUS
    <2> USE DEF QuotaInv
    <2>1. ASSUME NEW r \in Request, PassLimiter(r) PROVE QuotaInv'
        <3>1. /\ FirstCheck(r) = "daily" => DailyOf[r] > 0
              /\ FirstCheck(r) = "monthly" => MonthlyOf[r] > 0
            BY DEF FirstCheck
        <3> QED BY <2>1, <3>1 DEF PassLimiter, GoTo, quotaVars, AdmissionTypeOK
    <2>2. ASSUME NEW r \in Request, PassDaily(r) PROVE QuotaInv'
        <3>1. MonthlyOf[r] \in Nat
            BY AdmissionAssumption
        <3> QED BY <2>2, <3>1 DEF PassDaily, GoTo, AfterDaily, quotaVars,
                                  AdmissionTypeOK
    <2>3. ASSUME NEW r \in Request,
                 Limited(r) \/ PassMonthly(r) \/ Exceeded(r) \/ Leave(r)
                     \/ Complete(r) \/ SaveFails(r)
          PROVE  QuotaInv'
        BY <2>3 DEF Limited, PassMonthly, Exceeded, Leave, Complete, SaveFails,
                    GoTo, quotaVars, AdmissionTypeOK
    <2>4. ASSUME NEW r \in Request, SaveLog(r) PROVE QuotaInv'
        <3>1. IsFiniteSet(log') /\ IsFiniteSet(inserted')
            BY <2>4, FS_AddElement DEF SaveLog, InsertRow
        <3> QED BY <2>4, <3>1 DEF SaveLog, GoTo, AdmissionTypeOK
    <2>5. CASE Restart
        <3>1. log' \subseteq log /\ inserted' = inserted
            BY <2>5 DEF Restart, CleanupLogs
        <3>2. IsFiniteSet(log')
            BY <3>1, FS_Subset
        <3> QED BY <2>5, <3>1, <3>2 DEF Restart, InFlight
    <2>6. CASE TurnClock \/ UNCHANGED vars
        BY <2>6 DEF TurnClock, admissionVars, quotaVars, vars
    <2> QED BY <2>1, <2>2, <2>3, <2>4, <2>5, <2>6 DEF AdmissionNext
<1> QED BY <1>1, <1>2, AdmissionTypeCorrect, PTL DEF AdmissionSpec

\* The sum that the text comparison makes leaves out rows of the bound's date,
\* so it is never more than what the user has really used since.
LEMMA UsageNotOverstated ==
    ASSUME AdmissionTypeOK, QuotaInv, NEW u, NEW day \in Nat
    PROVE  /\ UsageSince(u, day) \in Nat /\ UsageFrom(u, day) \in Nat
           /\ UsageSince(u, day) <= UsageFrom(u, day)
<1> DEFINE rows == {row \in log : UserOf[row.request] = u /\ row.day > day}
           more == {row \in log : UserOf[row.request] = u /\ row.day >= day}
<1>1. \A row \in log : row.day \in Nat
    BY ClockIsRight DEF AdmissionTypeOK, Row
<1>2. rows \subseteq more /\ more \subseteq log /\ more \subseteq Row
    BY <1>1 DEF AdmissionTypeOK
<1>3. IsFiniteSet(more)
    BY <1>2, FS_Subset DEF QuotaInv
<1> HIDE DEF rows, more
<1>4. /\ TokensIn(rows) \in Nat /\ TokensIn(more) \in Nat
      /\ TokensIn(rows) <= TokensIn(more)
    BY <1>2, <1>3, TokensMonotone
<1> QED BY <1>4 DEF rows, more, UsageSince, UsageFrom

\* A request refused for its quota has a user whose own logged usage, in the day
\* or month in which its check began, has reached that quota.
THEOREM QuotaRefusalsJustified == AdmissionSpec => QuotaRefusalJustified
<1>1. AdmissionTypeOK /\ QuotaInv /\ [AdmissionNext]_vars
      => \A r \in Request :
            stage[r] # "exceeded" /\ stage'[r] = "exceeded" =>
                \/ QuotaReached(r, DailyOf[r], since[r])
                \/ QuotaReached(r, MonthlyOf[r], MonthStart[since[r]])
    <2> SUFFICES ASSUME AdmissionTypeOK, QuotaInv, [AdmissionNext]_vars,
                        NEW r \in Request,
                        stage[r] # "exceeded", stage'[r] = "exceeded"
                 PROVE  \/ QuotaReached(r, DailyOf[r], since[r])
                        \/ QuotaReached(r, MonthlyOf[r], MonthStart[since[r]])
        OBVIOUS
    <2>1. Exceeded(r)
        <3>1. ASSUME NEW q \in Request, PassLimiter(q) PROVE FALSE
            BY <3>1 DEF PassLimiter, GoTo, FirstCheck, AdmissionTypeOK
        <3>2. ASSUME NEW q \in Request,
                     Limited(q) \/ PassDaily(q) \/ PassMonthly(q) \/ Leave(q)
                         \/ Complete(q) \/ SaveLog(q) \/ SaveFails(q)
              PROVE  FALSE
            BY <3>2 DEF Limited, PassDaily, PassMonthly, Leave, Complete,
                        SaveLog, SaveFails, GoTo, AfterDaily, AdmissionTypeOK
        <3>3. ~Restart /\ ~TurnClock /\ ~UNCHANGED vars
            BY DEF Restart, TurnClock, admissionVars, vars
        <3>4. PICK q \in Request : Exceeded(q)
            BY <3>1, <3>2, <3>3 DEF AdmissionNext
        <3>5. q = r
            BY <3>4 DEF Exceeded, GoTo, AdmissionTypeOK
        <3> QED BY <3>4, <3>5
    <2>2. /\ since[r] \in Nat /\ MonthStart[since[r]] \in Nat
          /\ DailyOf[r] \in Nat /\ MonthlyOf[r] \in Nat
        <3>1. since[r] \in Day /\ Day \subseteq Nat
            BY ClockIsRight DEF AdmissionTypeOK
        <3> QED BY <3>1, ClockAssumption, AdmissionAssumption
    <2>3. CASE stage[r] = "daily" /\ DailyUsed(r) >= DailyOf[r]
        <3>1. /\ DailyUsed(r) \in Nat /\ UsageFrom(UserOf[r], since[r]) \in Nat
              /\ DailyUsed(r) <= UsageFrom(UserOf[r], since[r])
            BY <2>2, UsageNotOverstated DEF DailyUsed
        <3>2. UsageFrom(UserOf[r], since[r]) >= DailyOf[r]
            BY <2>2, <2>3, <3>1
        <3> QED BY <2>3, <3>2 DEF QuotaReached, QuotaInv
    <2>4. CASE stage[r] = "monthly" /\ MonthlyUsed(r) >= MonthlyOf[r]
        <3> DEFINE m == MonthStart[since[r]]
        <3>1. /\ MonthlyUsed(r) \in Nat /\ UsageFrom(UserOf[r], m) \in Nat
              /\ MonthlyUsed(r) <= UsageFrom(UserOf[r], m)
            BY <2>2, UsageNotOverstated DEF MonthlyUsed
        <3>2. UsageFrom(UserOf[r], m) >= MonthlyOf[r]
            BY <2>2, <2>4, <3>1
        <3> QED BY <2>4, <3>2 DEF QuotaReached, QuotaInv
    <2> QED BY <2>1, <2>3, <2>4 DEF Exceeded, GoTo
<1> QED BY <1>1, AdmissionTypeCorrect, QuotaInvariant, PTL
        DEF AdmissionSpec, QuotaRefusalJustified

-----------------------------------------------------------------------------
(* The log *)

\* Whatever row is missing from the log was older than the retention when it was
\* deleted, and for a quota check under way when the check began: the restart
\* that deleted it ended all the checks before.
LogInv ==
    LogReachesBack =>
        \A row \in inserted \ log :
            /\ RetentionDays > 0
            /\ row.day <= Today - RetentionDays
            /\ \A r \in Request :
                  stage[r] \in {"daily", "monthly"} =>
                      row.day <= since[r] - RetentionDays

\* While the table was never too long, a cleanup deletes expired rows only.
LEMMA CleanupExpiresOnly ==
    ASSUME AdmissionTypeOK, QuotaInv, LogReachesBack, CleanupLogs,
           NEW row \in log \ log'
    PROVE  MayExpire(row)
<1>1. PICK expired \in SUBSET log :
        /\ \A r \in expired : MayExpire(r)
        /\ IF MaxRecords > 0 /\ Cardinality(log \ expired) - MaxRecords > 0
           THEN \E trimmed \in SUBSET (log \ expired) :
                   /\ Cardinality(trimmed)
                          = Cardinality(log \ expired) - MaxRecords
                   /\ OldestOf(trimmed, log \ expired)
                   /\ log' = (log \ expired) \ trimmed
           ELSE log' = log \ expired
    BY DEF CleanupLogs
<1>2. (log \ expired) \subseteq inserted /\ IsFiniteSet(inserted)
    BY DEF AdmissionTypeOK, QuotaInv
<1>3. /\ Cardinality(log \ expired) <= Cardinality(inserted)
      /\ Cardinality(log \ expired) \in Nat /\ Cardinality(inserted) \in Nat
    BY <1>2, FS_Subset, FS_CardinalityType
<1>4. MaxRecords \in Nat
    BY QuotaAssumption
<1>5. ~(MaxRecords > 0 /\ Cardinality(log \ expired) - MaxRecords > 0)
    BY <1>3, <1>4 DEF LogReachesBack
<1> QED BY <1>1, <1>5

\* The invariant of the log: no step deletes a row that a check still counts.
LEMMA LogInvariant == AdmissionSpec => []LogInv
<1>1. AdmissionInit => LogInv
    BY DEF AdmissionInit, QuotaInit, LogInv
<1>2. AdmissionTypeOK /\ AdmissionTypeOK' /\ QuotaInv /\ QuotaInv' /\ LogInv
          /\ [AdmissionNext]_vars
      => LogInv'
    <2> SUFFICES ASSUME AdmissionTypeOK, AdmissionTypeOK', QuotaInv, QuotaInv',
                        LogInv, [AdmissionNext]_vars, LogReachesBack',
                        NEW row \in inserted' \ log'
                 PROVE  /\ RetentionDays > 0
                        /\ row.day <= Today' - RetentionDays
                        /\ \A r \in Request :
                              stage'[r] \in {"daily", "monthly"} =>
                                  row.day <= since'[r] - RetentionDays
        BY DEF LogInv
    <2> DEFINE Old(d) == RetentionDays > 0 /\ row.day <= d - RetentionDays
    <2>0. /\ Today \in Nat /\ RetentionDays \in Nat
          /\ elapsed \in Nat /\ setBack \in Nat /\ Wall \in Readings
          /\ \A r \in Request : since[r] \in Nat
        BY ClockIsRight, QuotaAssumption DEF AdmissionTypeOK
    <2>1. row \in Row /\ row.day \in Nat
        BY <2>0, ClockIsRight DEF AdmissionTypeOK, Row
    \* A row that was missing already, of a request whose check is not new.
    <2>2. ASSUME row \in inserted \ log, LogReachesBack
          PROVE  /\ RetentionDays > 0
                 /\ row.day <= Today - RetentionDays
                 /\ \A r \in Request : stage[r] \in {"daily", "monthly"} =>
                       row.day <= since[r] - RetentionDays
        BY <2>2 DEF LogInv
    <2>3. ASSUME NEW r \in Request, PassLimiter(r)
          PROVE  /\ RetentionDays > 0
                 /\ row.day <= Today' - RetentionDays
                 /\ \A q \in Request : stage'[q] \in {"daily", "monthly"} =>
                       row.day <= since'[q] - RetentionDays
        <3>1. UNCHANGED <<elapsed, setBack, log, inserted>>
            BY <2>3 DEF PassLimiter, clockVars, quotaVars
        <3>2. LogReachesBack /\ row \in inserted \ log /\ Today' = Today
            BY <3>1 DEF LogReachesBack, Today, Wall
        <3>3. \A q \in Request \ {r} :
                 stage'[q] = stage[q] /\ since'[q] = since[q]
            BY <2>3 DEF PassLimiter, GoTo, AdmissionTypeOK
        <3>4. stage'[r] \in {"daily", "monthly"} => since'[r] = Today
            BY <2>3 DEF PassLimiter, GoTo, FirstCheck, AdmissionTypeOK
        <3> QED BY <2>2, <3>2, <3>3, <3>4
    <2>4. ASSUME NEW r \in Request,
                 Limited(r) \/ PassDaily(r) \/ PassMonthly(r) \/ Exceeded(r)
                     \/ Leave(r) \/ Complete(r) \/ SaveLog(r) \/ SaveFails(r)
          PROVE  /\ RetentionDays > 0
                 /\ row.day <= Today' - RetentionDays
                 /\ \A q \in Request : stage'[q] \in {"daily", "monthly"} =>
                       row.day <= since'[q] - RetentionDays
        <3>1. UNCHANGED <<elapsed, setBack, since>>
            BY <2>4 DEF Limited, PassDaily, PassMonthly, Exceeded, Leave,
                        Complete, SaveLog, SaveFails, clockVars
        <3>2. /\ inserted \subseteq inserted'
              /\ inserted' \ log' \subseteq inserted \ log
            BY <2>4 DEF Limited, PassDaily, PassMonthly, Exceeded, Leave,
                        Complete, SaveLog, InsertRow, SaveFails, quotaVars
        <3>3. Cardinality(inserted) <= Cardinality(inserted')
              /\ Cardinality(inserted) \in Nat /\ Cardinality(inserted') \in Nat
            BY <3>2, FS_Subset, FS_CardinalityType DEF QuotaInv
        <3>4. LogReachesBack
            BY <3>1, <3>3, QuotaAssumption DEF LogReachesBack
        <3>5. \A q \in Request : stage'[q] \in {"daily", "monthly"} =>
                                    stage[q] \in {"daily", "monthly"}
            BY <2>4 DEF Limited, PassDaily, PassMonthly, Exceeded, Leave,
                        Complete, SaveLog, SaveFails, GoTo, AfterDaily,
                        AdmissionTypeOK
        <3>6. Today' = Today
            BY <3>1 DEF Today, Wall
        <3> QED BY <2>2, <3>1, <3>2, <3>4, <3>5, <3>6
    <2>5. ASSUME Restart
          PROVE  /\ RetentionDays > 0
                 /\ row.day <= Today' - RetentionDays
                 /\ \A q \in Request : stage'[q] \in {"daily", "monthly"} =>
                       row.day <= since'[q] - RetentionDays
        <3>1. UNCHANGED <<elapsed, setBack, inserted>> /\ CleanupLogs
            BY <2>5 DEF Restart, CleanupLogs, clockVars
        <3>2. LogReachesBack /\ Today' = Today
            BY <3>1 DEF LogReachesBack, Today, Wall
        <3>3. \A q \in Request : stage'[q] \notin {"daily", "monthly"}
            BY <2>5 DEF Restart, InFlight
        <3>4. CASE row \in log
            <4>1. MayExpire(row)
                BY <3>1, <3>2, <3>4, CleanupExpiresOnly
            <4> QED BY <3>2, <3>3, <4>1 DEF MayExpire
        <3>5. CASE row \notin log
            BY <2>2, <3>1, <3>2, <3>3, <3>5
        <3> QED BY <3>4, <3>5
    <2>6. ASSUME TurnClock
          PROVE  /\ RetentionDays > 0
                 /\ row.day <= Today' - RetentionDays
                 /\ \A q \in Request : stage'[q] \in {"daily", "monthly"} =>
                       row.day <= since'[q] - RetentionDays
        <3>1. UNCHANGED <<log, inserted, stage, since>>
            BY <2>6 DEF TurnClock, quotaVars, admissionVars
        <3>2. setBack' = 0
            BY DEF LogReachesBack
        <3>3. setBack = 0 /\ elapsed' = elapsed + 1
            BY <2>0, <2>6, <3>2 DEF TurnClock, Tick, SetClockBack
        <3>4. LogReachesBack
            BY <3>1, <3>3 DEF LogReachesBack
        <3>5. Wall <= Wall' /\ Wall' \in Readings
            <4>1. Wall = elapsed /\ Wall' = elapsed + 1
                BY <2>0, <3>2, <3>3 DEF Wall
            <4>2. elapsed' \in 0..MaxTime /\ elapsed' = elapsed + 1
                BY <3>3 DEF AdmissionTypeOK
            <4>3. MaxTime \in Nat /\ MaxSetBack \in Nat
                BY ClockAssumption
            <4> QED BY <2>0, <4>1, <4>2, <4>3 DEF Readings
        <3>6. Today <= Today'
            BY <2>0, <3>5, ClockAssumption DEF Today
        <3>7. Today' \in Nat
            BY <3>5, ClockAssumption DEF Today
        <3> QED BY <2>0, <2>1, <2>2, <3>1, <3>4, <3>6, <3>7
    <2>7. CASE UNCHANGED vars
        <3>1. UNCHANGED <<elapsed, setBack, log, inserted, stage, since>>
            BY <2>7 DEF vars, clockVars, quotaVars, admissionVars
        <3>2. LogReachesBack /\ Today' = Today
            BY <3>1 DEF LogReachesBack, Today, Wall
        <3> QED BY <2>2, <3>1, <3>2
    <2> QED BY <2>3, <2>4, <2>5, <2>6, <2>7 DEF AdmissionNext
<1> QED BY <1>1, <1>2, AdmissionTypeCorrect, QuotaInvariant, PTL
        DEF AdmissionSpec

\* As long as the retention reaches back over every month, the maximum was never
\* exceeded and the clock was never set back, nobody passes the monthly check
\* who has logged the quota in the rows there ever were: a cleanup deletes none
\* of the rows that the check sums, and the checks under way do not survive it.
THEOREM MonthlyQuotaOutlivesCleanup == AdmissionSpec => MonthlyQuotaSurvives
<1>1. AdmissionTypeOK /\ LogInv /\ [AdmissionNext]_vars
      => (LogReachesBack =>
            \A r \in Request : PassesMonthly(r) => UnderMonthlyQuota(r))
    <2> SUFFICES ASSUME AdmissionTypeOK, LogInv, [AdmissionNext]_vars,
                        LogReachesBack, NEW r \in Request, PassesMonthly(r)
                 PROVE  UnderMonthlyQuota(r)
        OBVIOUS
    <2>1. PassMonthly(r)
        <3>1. PICK q \in Request :
                 \/ PassLimiter(q) \/ Limited(q) \/ PassDaily(q)
                 \/ PassMonthly(q) \/ Exceeded(q) \/ Leave(q) \/ Complete(q)
                 \/ SaveLog(q) \/ SaveFails(q)
            BY DEF AdmissionNext, Restart, TurnClock, InFlight, admissionVars,
                   vars, PassesMonthly
        <3>2. q = r
            BY <3>1 DEF PassLimiter, Limited, PassDaily, PassMonthly, Exceeded,
                        Leave, Complete, SaveLog, SaveFails, GoTo,
                        PassesMonthly, AdmissionTypeOK
        <3> QED BY <3>1, <3>2 DEF PassLimiter, Limited, PassDaily, Exceeded,
                        Leave, Complete, SaveLog, SaveFails, GoTo,
                        PassesMonthly, AdmissionTypeOK
    <2> DEFINE m == MonthStart[since[r]]
    <2>2. /\ since[r] \in Day /\ m \in Nat /\ RetentionDays \in Nat
          /\ since[r] \in Nat
        BY ClockIsRight, ClockAssumption, QuotaAssumption DEF AdmissionTypeOK
    <2>3. \A row \in inserted : row.day > m => row \in log
        <3> SUFFICES ASSUME NEW row \in inserted, row \notin log
                     PROVE  ~(row.day > m)
            OBVIOUS
        <3>1. row.day \in Nat
            BY ClockIsRight DEF AdmissionTypeOK, Row
        <3>2. RetentionDays > 0 /\ row.day <= since[r] - RetentionDays
            BY <2>1 DEF LogInv, PassMonthly, GoTo
        <3>3. m >= since[r] - RetentionDays
            BY <2>2, <3>2 DEF LogReachesBack
        <3> HIDE DEF m
        <3> QED BY <2>2, <3>1, <3>2, <3>3
    <2>4. {row \in inserted : UserOf[row.request] = UserOf[r] /\ row.day > m}
              = {row \in log : UserOf[row.request] = UserOf[r] /\ row.day > m}
        BY <2>3 DEF AdmissionTypeOK
    <2>5. EverUsedSince(UserOf[r], m) = MonthlyUsed(r)
        BY <2>4 DEF EverUsedSince, MonthlyUsed, UsageSince
    <2> QED BY <2>1, <2>5 DEF PassMonthly, UnderMonthlyQuota
<1> QED BY <1>1, AdmissionTypeCorrect, LogInvariant, PTL
        DEF AdmissionSpec, MonthlyQuotaSurvives

=============================================================================
