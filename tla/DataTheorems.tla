---------------------------- MODULE DataTheorems ----------------------------
(***************************************************************************)
(* Facts about data that the other proofs need: sums over finite sets, as  *)
(* MapThenSumSet computes them, and lists collected by a loop.  They need  *)
(* induction.  The library's induction theorems have an operator as        *)
(* parameter, so each proof takes a smallest counterexample instead.       *)
(***************************************************************************)
EXTENDS Integers, Sequences, FiniteSetTheorems, SequenceTheorems, TLAPS

-----------------------------------------------------------------------------
(* Smallest elements *)

\* Of some subsets of a finite set, one has none of the others within it.
LEMMA SmallestSubset ==
    ASSUME NEW S, IsFiniteSet(S), NEW X \in SUBSET SUBSET S, X # {}
    PROVE  \E m \in X : \A s \in X : s \subseteq m => s = m
<1> DEFINE R == StrictSubsetOrdering(S)
<1>1. IsWellFoundedOn(R, SUBSET S)
    BY FS_StrictSubsetOrderingWellFounded, FS_FiniteSubsetsOfFinite
<1>2. \E m \in X : \A s \in X : ~(<<s, m>> \in R)
    <2> HIDE DEF R
    <2> QED BY <1>1, WFMin
<1> QED BY <1>2 DEF StrictSubsetOrdering

\* The least element of a set of naturals.
LEMMA LeastNat ==
    ASSUME NEW S \in SUBSET Nat, S # {}
    PROVE  \E n \in S : \A m \in S : n <= m
<1> DEFINE R == {ss \in Nat \X Nat : ss[1] < ss[2]}
<1>1. IsWellFoundedOn(R, Nat)
    BY NatLessThanWellFounded DEF OpToRel
<1>2. \E n \in S : \A m \in S : ~(<<m, n>> \in R)
    <2> HIDE DEF R
    <2> QED BY <1>1, WFMin
<1>3. PICK n \in S : \A m \in S : ~(<<m, n>> \in R)
    BY <1>2
<1>4. ASSUME NEW m \in S PROVE n <= m
    <2>1. m \in Nat /\ n \in Nat OBVIOUS
    <2>2. ~(m < n) BY <1>3, <2>1
    <2> QED BY <2>1, <2>2
<1> QED BY <1>4

-----------------------------------------------------------------------------
(* Sums *)

Chosen(s) == CHOOSE x \in s : TRUE

\* g adds up the weights w for every subset of S, one chosen element at a time,
\* as the function does that MapThenSumSet iterates.
Adds(g, w, S) ==
    \A s \in SUBSET S :
        g[s] = IF s = {} THEN 0 ELSE w[Chosen(s)] + g[s \ {Chosen(s)}]

Sums(g, w, S) == g \in [SUBSET S -> Nat] /\ Adds(g, w, S)

\* The chosen element of a set that has some is one of them.
LEMMA ChosenIn == ASSUME NEW s, s # {} PROVE Chosen(s) \in s
BY DEF Chosen

\* Two such functions agree where both are defined.
LEMMA SumsAgree ==
    ASSUME NEW S, IsFiniteSet(S), NEW T, NEW w, NEW v, NEW g, NEW h,
           S \subseteq T, \A x \in S : w[x] = v[x], Adds(g, w, S), Adds(h, v, T)
    PROVE  g[S] = h[S]
<1> DEFINE Differ == {s \in SUBSET S : g[s] # h[s]}
<1>1. SUFFICES ASSUME Differ # {} PROVE FALSE
    OBVIOUS
<1>2. PICK s \in Differ : \A t \in Differ : t \subseteq s => t = s
    <2>1. Differ \in SUBSET SUBSET S
        OBVIOUS
    <2> HIDE DEF Differ
    <2> QED BY <1>1, <2>1, SmallestSubset
<1> DEFINE c == Chosen(s)
<1>3. s # {}
    BY <1>2 DEF Adds
<1>4. c \in s
    BY <1>3, ChosenIn
<1>5. g[s \ {c}] = h[s \ {c}]
    BY <1>2, <1>4
<1>6. g[s] = w[c] + g[s \ {c}] /\ h[s] = v[c] + h[s \ {c}]
    BY <1>2, <1>3 DEF Adds
<1> QED BY <1>2, <1>4, <1>5, <1>6

\* There is one for any finite set and any weights.
LEMMA SumsExist ==
    ASSUME NEW S, IsFiniteSet(S), NEW w \in [S -> Nat]
    PROVE  \E g : Sums(g, w, S)
<1> DEFINE Without == {T \in SUBSET S : ~ \E g : Sums(g, w, T)}
<1>1. SUFFICES ASSUME Without # {} PROVE FALSE
    OBVIOUS
<1>2. PICK T \in Without : \A t \in Without : t \subseteq T => t = T
    <2>1. Without \in SUBSET SUBSET S
        OBVIOUS
    <2> HIDE DEF Without
    <2> QED BY <1>1, <2>1, SmallestSubset
<1> DEFINE G(s) == CHOOSE g : Sums(g, w, s)
           V(s) == G(s)[s]
<1>3. ASSUME NEW s \in SUBSET T, s # T PROVE Sums(G(s), w, s)
    <2>1. \E g : Sums(g, w, s)
        BY <1>2, <1>3
    <2> QED BY <2>1
<1>4. ASSUME NEW s \in SUBSET T, s # T PROVE V(s) \in Nat
    <2>1. Sums(G(s), w, s)
        BY <1>3, <1>4
    <2> HIDE DEF G
    <2> QED BY <2>1 DEF Sums, Adds
<1>5. ASSUME NEW s \in SUBSET T, s # T, s # {}
      PROVE  V(s) = w[Chosen(s)] + V(s \ {Chosen(s)})
    <2> DEFINE t == s \ {Chosen(s)}
    <2>1. Chosen(s) \in s
        BY <1>5, ChosenIn
    <2>2. Sums(G(s), w, s) /\ Sums(G(t), w, t)
        BY <1>3, <1>5, <2>1
    <2>3. IsFiniteSet(t) /\ t \subseteq s
        BY FS_Subset
    <2>4. G(t)[t] = G(s)[t]
        <3> HIDE DEF G, t
        <3> QED BY <2>2, <2>3, SumsAgree DEF Sums
    <2>5. G(s)[s] = w[Chosen(s)] + G(s)[t]
        <3> HIDE DEF G
        <3> QED BY <2>2, <1>5 DEF Sums, Adds
    <2> QED BY <2>4, <2>5
<1> DEFINE c == Chosen(T)
           h == [s \in SUBSET T |-> IF s # T THEN V(s)
                                    ELSE IF T = {} THEN 0
                                    ELSE w[c] + V(T \ {c})]
<1>6. h \in [SUBSET T -> Nat]
    <2>1. T # {} => c \in T /\ T \ {c} # T /\ w[c] \in Nat
        BY ChosenIn
    <2>2. T # {} => w[c] + V(T \ {c}) \in Nat
        <3> HIDE DEF V, c
        <3> QED BY <2>1, <1>4
    <2> HIDE DEF V, c
    <2> QED BY <2>2, <1>4
<1>7. ASSUME NEW s \in SUBSET T
      PROVE  h[s] = IF s = {} THEN 0 ELSE w[Chosen(s)] + h[s \ {Chosen(s)}]
    <2>1. CASE s = T
        <3>1. T # {} => c \in T /\ T \ {c} # T
            BY ChosenIn
        <3> HIDE DEF V, c
        <3>2. T # {} => h[T \ {c}] = V(T \ {c})
            BY <3>1
        <3> QED BY <2>1, <3>1, <3>2 DEF c
    <2>2. CASE s # T /\ s = {}
        <3>1. Sums(G({}), w, {})
            BY <1>3, <2>2
        <3>2. V({}) = 0
            <4> HIDE DEF G
            <4> QED BY <3>1 DEF Sums, Adds
        <3> HIDE DEF V
        <3> QED BY <2>2, <3>2
    <2>3. CASE s # T /\ s # {}
        <3>1. Chosen(s) \in s /\ s \ {Chosen(s)} # T
            BY <2>3, ChosenIn
        <3>2. V(s) = w[Chosen(s)] + V(s \ {Chosen(s)})
            BY <1>5, <2>3
        <3> HIDE DEF V
        <3> QED BY <2>3, <3>1, <3>2
    <2> QED BY <2>1, <2>2, <2>3
<1>8. Sums(h, w, T)
    <2> HIDE DEF h
    <2> QED BY <1>6, <1>7 DEF Sums, Adds
<1> QED BY <1>2, <1>8

\* Adding an element adds its weight, whatever was chosen first.
LEMMA SumsAdd ==
    ASSUME NEW S, IsFiniteSet(S), NEW w \in [S -> Nat], NEW g, Sums(g, w, S),
           NEW s \in SUBSET S, NEW x \in S \ s
    PROVE  g[s \cup {x}] = g[s] + w[x]
<1> DEFINE Wrong == {t \in SUBSET S :
                        \E y \in S \ t : g[t \cup {y}] # g[t] + w[y]}
<1>1. SUFFICES ASSUME Wrong # {} PROVE FALSE
    OBVIOUS
<1>2. PICK t \in Wrong : \A u \in Wrong : u \subseteq t => u = t
    <2>1. Wrong \in SUBSET SUBSET S
        OBVIOUS
    <2> HIDE DEF Wrong
    <2> QED BY <1>1, <2>1, SmallestSubset
<1>3. PICK y \in S \ t : g[t \cup {y}] # g[t] + w[y]
    BY <1>2
<1> DEFINE b == t \cup {y}
           c == Chosen(b)
           d == b \ {c}
<1>4. c \in b
    BY ChosenIn
<1>5. b \in SUBSET S /\ b # {}
    BY <1>2
<1>6. g[b] = w[c] + g[d]
    <2> HIDE DEF b
    <2> QED BY <1>5 DEF Sums, Adds
<1>7. \A u \in SUBSET S : g[u] \in Nat
    BY DEF Sums, Adds
<1>8. w[y] \in Nat /\ w[c] \in Nat
    <2> HIDE DEF c, b
    <2> QED BY <1>4, <1>5
<1>9. g[b] # g[t] + w[y]
    BY <1>3
<1>10. CASE c = y
    <2>1. d = t
        BY <1>3, <1>10
    <2>2. g[t] \in Nat
        BY <1>2, <1>7
    <2> HIDE DEF c, b, d
    <2> QED BY <1>6, <1>8, <1>9, <1>10, <2>1, <2>2
<1>11. CASE c # y
    <2> DEFINE u == t \ {c}
               p == u \cup {y}
               q == u \cup {c}
    <2>1. c \in t
        BY <1>4, <1>11
    <2>2. u \in SUBSET S /\ u \subseteq t /\ u # t
        BY <1>2, <2>1
    <2>3. u \notin Wrong
        <3> HIDE DEF u, Wrong
        <3> QED BY <1>2, <2>2
    <2>4. y \in S \ u /\ c \in S \ u
        BY <1>2, <2>1
    <2>5. g[p] = g[u] + w[y] /\ g[q] = g[u] + w[c]
        <3> HIDE DEF u, c, b
        <3> QED BY <2>2, <2>3, <2>4
    <2>6. p = d /\ q = t
        BY <1>11, <2>1, <1>3
    <2>7. g[u] \in Nat
        BY <1>7, <2>2
    <2> HIDE DEF c, u, b, d, p, q, Wrong
    <2> QED BY <1>6, <1>8, <1>9, <2>5, <2>6, <2>7
<1> QED BY <1>10, <1>11

\* A part weighs no more than the whole.
LEMMA SumsMonotone ==
    ASSUME NEW S, IsFiniteSet(S), NEW w \in [S -> Nat], NEW g, Sums(g, w, S),
           NEW s \in SUBSET S
    PROVE  g[s] <= g[S]
<1> DEFINE Heavier == {t \in SUBSET S : s \cap t = {} /\ ~(g[s] <= g[s \cup t])}
<1>1. SUFFICES ASSUME Heavier # {} PROVE FALSE
    <2>1. S \ s \notin Heavier
        BY <1>1
    <2>2. s \cup (S \ s) = S /\ S \ s \in SUBSET S /\ s \cap (S \ s) = {}
        OBVIOUS
    <2>3. g[s] <= g[s \cup (S \ s)]
        BY <2>1, <2>2
    <2> QED BY <2>2, <2>3
<1>2. PICK t \in Heavier : \A u \in Heavier : u \subseteq t => u = t
    <2>1. Heavier \in SUBSET SUBSET S
        OBVIOUS
    <2> HIDE DEF Heavier
    <2> QED BY <1>1, <2>1, SmallestSubset
<1>3. \A u \in SUBSET S : g[u] \in Nat
    BY DEF Sums, Adds
<1>4. t \in SUBSET S /\ s \cap t = {} /\ ~(g[s] <= g[s \cup t])
    BY <1>2
<1>5. t # {}
    <2>1. SUFFICES ASSUME t = {} PROVE FALSE
        OBVIOUS
    <2>2. s \cup t = s
        BY <2>1
    <2>3. g[s] \in Nat /\ ~(g[s] <= g[s])
        BY <1>3, <1>4, <2>2
    <2> QED BY <2>3
<1>6. PICK x \in t : TRUE
    BY <1>5
<1> DEFINE u == t \ {x}
           v == s \cup u
<1>7. u \in SUBSET S /\ u \subseteq t /\ u # t /\ s \cap u = {}
    BY <1>4, <1>6
<1>8. u \notin Heavier
    <2> HIDE DEF u, Heavier
    <2> QED BY <1>2, <1>7
<1>9. g[s] <= g[v]
    <2> HIDE DEF u
    <2> QED BY <1>7, <1>8
<1>10. v \in SUBSET S /\ x \in S \ v /\ v \cup {x} = s \cup t
    BY <1>4, <1>6
<1>11. g[v \cup {x}] = g[v] + w[x]
    <2> HIDE DEF v
    <2> QED BY <1>10, SumsAdd
<1>12. g[s] \in Nat /\ g[v] \in Nat /\ w[x] \in Nat
    BY <1>3, <1>10
<1>13. ~(g[s] <= g[v \cup {x}])
    BY <1>4, <1>10
<1> HIDE DEF v
<1> QED BY <1>9, <1>11, <1>12, <1>13

\* The sizes of the parts of a finite set add up to its size.
LEMMA PartsAddUp ==
    ASSUME NEW S, IsFiniteSet(S), NEW P, IsFiniteSet(P), NEW part \in [P -> S],
           NEW w, NEW g, Adds(g, w, S),
           \A x \in S : w[x] = Cardinality({p \in P : part[p] = x})
    PROVE  g[S] = Cardinality(P)
<1> DEFINE Of(s) == {p \in P : part[p] \in s}
           Wrong == {s \in SUBSET S : g[s] # Cardinality(Of(s))}
<1>1. SUFFICES ASSUME Wrong # {} PROVE FALSE
    <2>1. S \notin Wrong
        BY <1>1
    <2>2. Of(S) = P
        OBVIOUS
    <2> QED BY <2>1, <2>2
<1>2. PICK s \in Wrong : \A t \in Wrong : t \subseteq s => t = s
    <2>1. Wrong \in SUBSET SUBSET S
        OBVIOUS
    <2> HIDE DEF Wrong
    <2> QED BY <1>1, <2>1, SmallestSubset
<1>3. s # {}
    <2>1. SUFFICES ASSUME s = {} PROVE FALSE
        OBVIOUS
    <2>2. Of(s) = {} /\ g[s] = 0
        BY <2>1 DEF Adds
    <2> QED BY <1>2, <2>2, FS_EmptySet
<1> DEFINE c    == Chosen(s)
           rest == s \ {c}
           one  == {p \in P : part[p] = c}
<1>4. c \in s /\ c \in S
    BY <1>2, <1>3, ChosenIn
<1>5. rest \in SUBSET S /\ rest \subseteq s /\ rest # s
    BY <1>2, <1>4
<1>6. rest \notin Wrong
    <2> HIDE DEF rest, Wrong
    <2> QED BY <1>2, <1>5
<1>7. g[rest] = Cardinality(Of(rest))
    <2> HIDE DEF rest
    <2> QED BY <1>5, <1>6
<1>8. g[s] = w[c] + g[rest] /\ w[c] = Cardinality(one)
    BY <1>2, <1>3, <1>4 DEF Adds
<1>9. Of(s) = one \cup Of(rest) /\ one \cap Of(rest) = {}
    BY <1>4
<1>10. IsFiniteSet(one) /\ IsFiniteSet(Of(rest))
    BY FS_Subset
<1> HIDE DEF Of, one, rest, c
<1>11. Cardinality(Of(s)) = Cardinality(one) + Cardinality(Of(rest)) - 0
    BY <1>9, <1>10, FS_Union, FS_EmptySet
<1>12. Cardinality(one) \in Nat /\ Cardinality(Of(rest)) \in Nat
    BY <1>10, FS_CardinalityType
<1>13. g[s] # Cardinality(Of(s))
    BY <1>2
<1> QED BY <1>7, <1>8, <1>11, <1>12, <1>13

-----------------------------------------------------------------------------
(* Lists *)

\* f is what a loop over the first n elements of s has appended, element by
\* element: those whose position is in keep.
Collects(f, s, keep, n) ==
    f = [i \in 0..n |-> IF i = 0 THEN <<>>
                        ELSE IF i \in keep THEN Append(f[i - 1], s[i])
                        ELSE f[i - 1]]

\* Such a loop ends with a list.
LEMMA CollectExists ==
    ASSUME NEW s, NEW keep, NEW n \in Nat
    PROVE  \E f : Collects(f, s, keep, n)
<1> DEFINE Without == {m \in Nat : ~ \E f : Collects(f, s, keep, m)}
<1>1. SUFFICES ASSUME Without # {} PROVE FALSE
    OBVIOUS
<1>2. PICK m \in Without : \A k \in Without : m <= k
    <2>1. Without \in SUBSET Nat
        OBVIOUS
    <2> HIDE DEF Without
    <2> QED BY <1>1, <2>1, LeastNat
<1>3. m # 0
    <2> DEFINE f == [i \in 0..0 |-> <<>>]
    <2>1. Collects(f, s, keep, 0)
        BY DEF Collects
    <2> QED BY <1>2, <2>1
<1>4. m - 1 \in Nat /\ m - 1 \notin Without
    BY <1>2, <1>3
<1>5. PICK f : Collects(f, s, keep, m - 1)
    BY <1>4
<1> DEFINE g == [i \in 0..m |->
                    IF i < m THEN f[i]
                    ELSE IF i \in keep THEN Append(f[m - 1], s[m])
                    ELSE f[m - 1]]
           body == [i \in 0..m |-> IF i = 0 THEN <<>>
                                   ELSE IF i \in keep THEN Append(g[i - 1], s[i])
                                   ELSE g[i - 1]]
<1>6. ASSUME NEW i \in 0..m PROVE g[i] = body[i]
    <2>1. CASE i = m
        <3>1. m - 1 \in 0..m /\ m - 1 < m
            BY <1>4
        <3>2. g[m - 1] = f[m - 1]
            BY <3>1
        <3> QED BY <1>3, <1>4, <2>1, <3>2
    <2>2. CASE i # m /\ i = 0
        <3>1. f[0] = <<>>
            BY <1>4, <1>5 DEF Collects
        <3> QED BY <1>4, <2>2, <3>1
    <2>3. CASE i # m /\ i # 0
        <3>1. i \in 0..m - 1 /\ i - 1 \in 0..m - 1 /\ i - 1 \in 0..m
            BY <1>4, <2>3
        <3>2. f[i] = IF i \in keep THEN Append(f[i - 1], s[i]) ELSE f[i - 1]
            BY <1>5, <2>3, <3>1 DEF Collects
        <3>3. g[i] = f[i] /\ g[i - 1] = f[i - 1]
            BY <1>4, <3>1
        <3> HIDE DEF g
        <3> QED BY <2>3, <3>2, <3>3
    <2> QED BY <2>1, <2>2, <2>3
<1>7. g = body
    <2>1. DOMAIN g = 0..m /\ DOMAIN body = 0..m
        OBVIOUS
    <2>2. g = [i \in 0..m |-> g[i]] /\ body = [i \in 0..m |-> body[i]]
        OBVIOUS
    <2> HIDE DEF g, body
    <2> QED BY <1>6, <2>2
<1>8. Collects(g, s, keep, m)
    BY <1>7 DEF Collects
<1> QED BY <1>2, <1>8

\* The list has no elements but those.
LEMMA CollectedElements ==
    ASSUME NEW s, NEW keep, NEW n \in Nat, NEW f, Collects(f, s, keep, n),
           NEW T, \A i \in 1..n : i \in keep => s[i] \in T
    PROVE  f[n] \in Seq(T)
<1> DEFINE Wrong == {m \in 0..n : f[m] \notin Seq(T)}
<1>1. SUFFICES ASSUME Wrong # {} PROVE FALSE
    OBVIOUS
<1>2. PICK m \in Wrong : \A k \in Wrong : m <= k
    <2>1. Wrong \in SUBSET Nat
        OBVIOUS
    <2> HIDE DEF Wrong
    <2> QED BY <1>1, <2>1, LeastNat
<1>3. m # 0
    BY <1>2, EmptySeq DEF Collects
<1>4. m \in 1..n /\ m - 1 \in 0..n /\ m - 1 \notin Wrong
    BY <1>2, <1>3
<1>5. f[m - 1] \in Seq(T)
    BY <1>4
<1>6. f[m] = IF m \in keep THEN Append(f[m - 1], s[m]) ELSE f[m - 1]
    BY <1>3, <1>4 DEF Collects
<1>7. f[m] \in Seq(T)
    BY <1>4, <1>5, <1>6, AppendProperties
<1> QED BY <1>2, <1>7

=============================================================================
