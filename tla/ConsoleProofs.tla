---------------------------- MODULE ConsoleProofs -----------------------------
(***************************************************************************)
(* Proofs about who gets into the admin console: about AdminPassword, for  *)
(* any passwords of any lengths, with a default that is shorter than a     *)
(* hash, and about LoginLockout, for any addresses, any number of failures *)
(* and any lockout, under a clock that may be set back any number of       *)
(* times.                                                                  *)
(***************************************************************************)
EXTENDS AdminPassword, LoginLockout, FiniteSetTheorems, TLAPS

-----------------------------------------------------------------------------
(* The password *)

\* What a file or the memory can hold: nothing is ever hashed twice.
Once == {t \in Text : t.hashes <= 1}

\* A promise that no write or restart has touched yet is in the memory; one
\* that is kept is what the next start will load.
PromiseHeld ==
    local = Nothing /\ promised # Nothing =>
        /\ memory # Nothing => memory.word = promised
        /\ kept => Merged.word = promised

\* A process that has not come to change anything has no promise but kept ones.
PromiseKept ==
    phase = "down" \/ (phase = "loaded" /\ writing = "no") =>
        promised = Nothing \/ kept

PasswordInv ==
    /\ PasswordTypeOK
    /\ file \in Once \cup {Empty, Nothing}
    /\ local \in Once \cup {Nothing}
    /\ memory \in Once \cup {Nothing}
    /\ writing # "no" => memory # Nothing
    /\ writing = "cut" => ~kept
    /\ PromiseHeld
    /\ PromiseKept

\* Loading never yields a password that was hashed twice.
LEMMA MergedOnce ==
    ASSUME file \in Once \cup {Empty, Nothing}, local \in Once \cup {Nothing}
    PROVE  Merged \in Once
BY PasswordAssumption DEF Merged, Once, Text, AsTyped

\* Neither the start nor a reader of the file can take a hash for plain text.
LEMMA OnlyPlainLooksPlain ==
    ASSUME NEW t \in Once, LooksPlain(t)
    PROVE  Hash(t) \in Once /\ Hash(t).word = t.word
BY PasswordAssumption DEF LooksPlain, TextLength, HashLength, Once, Text, Hash

\* The hash of what was typed is a hash of it.
LEMMA HashOfTyped ==
    ASSUME NEW p \in Plain
    PROVE  Hash(AsTyped(p)) \in Once /\ Hash(AsTyped(p)).word = p
BY DEF Hash, AsTyped, Once, Text

\* No text is mistaken for nothing.
LEMMA TextsApart == Nothing \notin Once /\ Empty \notin Once /\ Empty # Nothing
BY PasswordAssumption DEF Once

\* The files that the model starts with keep the invariant.
LEMMA PasswordInvInit == PasswordInit => PasswordInv
<1> SUFFICES ASSUME PasswordInit PROVE PasswordInv
    OBVIOUS
<1>1. file \in Once \cup {Empty, Nothing} /\ local \in Once \cup {Nothing}
    <2>1. \A p \in Plain : AsTyped(p) \in Once /\ Hash(AsTyped(p)) \in Once
        BY DEF Once, Text, AsTyped, Hash
    <2> QED BY <2>1 DEF PasswordInit
<1>2. Merged \in Once
    BY <1>1, MergedOnce
<1> QED BY <1>1, <1>2, PasswordAssumption
        DEF PasswordInit, PasswordInv, PasswordTypeOK, PromiseHeld, PromiseKept,
            Once, Text

\* Every step keeps it.
LEMMA PasswordInvStep ==
    PasswordInv /\ [PasswordNext]_passwordVars => PasswordInv'
<1> SUFFICES ASSUME PasswordInv, [PasswordNext]_passwordVars
             PROVE  PasswordInv'
    OBVIOUS
<1> USE TextsApart DEF PasswordInv, PasswordTypeOK, PromiseHeld, PromiseKept
<1>0. Once \subseteq Text
    BY DEF Once
<1>1. ASSUME NEW p \in Plain, PutResetFile(p) PROVE PasswordInv'
    BY <1>1 DEF PutResetFile, Merged
<1>2. CASE LoadConfig
    BY <1>0, <1>2, MergedOnce DEF LoadConfig, Merged
<1>3. CASE TakeReset
    BY <1>0, <1>3, HashOfTyped DEF TakeReset, Merged
<1>4. CASE HashAtStartup
    <2>1. CASE Hashable(memory.word)
        BY <1>0, <1>4, <2>1, OnlyPlainLooksPlain DEF HashAtStartup, Merged
    <2>2. CASE ~Hashable(memory.word)
        BY <1>4, <2>2 DEF HashAtStartup, Merged
    <2> QED BY <2>1, <2>2
<1>5. CASE StartAsLoaded
    BY <1>5 DEF StartAsLoaded, Merged
<1>6. ASSUME NEW old \in Plain, NEW new \in Plain, Change(old, new)
      PROVE  PasswordInv'
    BY <1>0, <1>6, HashOfTyped DEF Change, Merged
<1>7. CASE Truncate
    BY <1>7 DEF Truncate, Merged
<1>8. CASE Dump
    BY <1>0, <1>8 DEF Dump, Merged
<1>9. CASE SkipWrite
    BY <1>9 DEF SkipWrite, Merged
<1>10. CASE WriteFails
    BY <1>10 DEF WriteFails, Merged
<1>11. CASE ProcessEnds
    BY <1>11 DEF ProcessEnds, Merged
<1>12. CASE UNCHANGED passwordVars
    BY <1>12 DEF passwordVars, Merged
<1> QED BY <1>1, <1>2, <1>3, <1>4, <1>5, <1>6, <1>7, <1>8, <1>9, <1>10, <1>11,
           <1>12 DEF PasswordNext

\* Files, memory and promises have their types: no text is hashed twice.
THEOREM PasswordTypeCorrect == PasswordSpec => []PasswordTypeOK
<1>1. PasswordInv => PasswordTypeOK
    BY DEF PasswordInv
<1> QED BY <1>1, PasswordInvInit, PasswordInvStep, PTL DEF PasswordSpec

\* The password that was promised opens the console, and no other.
THEOREM PromisedPasswordOpens == PasswordSpec => []OnlyPromisedPasswordWorks
<1>1. PasswordInv => OnlyPromisedPasswordWorks
    BY DEF PasswordInv, PasswordTypeOK, PromiseHeld, Once, Text,
           OnlyPromisedPasswordWorks, Verify
<1> QED BY <1>1, PasswordInvInit, PasswordInvStep, PTL DEF PasswordSpec

-----------------------------------------------------------------------------
(* The lockout *)

allVars == <<clockVars, lockoutVars>>

\* The clock never showed more than the time that had passed, nor less by more
\* than it has been set back until now.
TimedRight(g) == g.real <= elapsed /\ g.at <= g.real /\ g.real - g.at <= setBack

\* What was dropped from the failures is a lockout old, in real time.
DroppedAreOld(a) ==
    \A g \in guesses[a] \ failures[a] : elapsed - g.real >= Lockout

\* The inductive invariant: GuessesBounded follows from it only for the
\* failures that are still kept, hence the clause about those that are not.
LockoutInv ==
    /\ LockoutTypeOK
    /\ \A a \in Address :
          /\ failures[a] \subseteq guesses[a]
          /\ IsFiniteSet(guesses[a])
          /\ \A g \in guesses[a] : TimedRight(g)
          /\ DroppedAreOld(a)

\* The failure that an attempt would record now.
Failure(a) == [no |-> attempts[a] + 1, at |-> Wall, real |-> elapsed]

\* The process starts with nothing to remember.
LEMMA LockoutInvInit == ClockInit /\ LockoutInit => LockoutInv
BY FS_EmptySet DEF ClockInit, LockoutInit, LockoutInv, LockoutTypeOK,
                   DroppedAreOld, Attempt

\* A guess that happened less than a lockout ago is still counted.
LEMMA YoungAreRecent ==
    ASSUME LockoutInv, NEW a \in Address, NEW g \in guesses[a],
           elapsed - g.real < Lockout
    PROVE  g \in Recent(a)
<1>1. g \in Attempt /\ elapsed \in Nat /\ setBack \in Nat /\ Lockout \in Nat
    BY LockoutAssumption DEF LockoutInv, LockoutTypeOK
<1>2. g \in failures[a]
    BY <1>1 DEF LockoutInv, DroppedAreOld, Attempt
<1>3. Wall - g.at <= elapsed - g.real
    BY <1>1 DEF LockoutInv, TimedRight, Wall, Attempt
<1> QED BY <1>1, <1>2, <1>3 DEF Recent, Wall, Attempt

\* What an attempt drops from the failures is a lockout old.
LEMMA DropsOnlyOld ==
    ASSUME LockoutInv, NEW a \in Address, NEW g \in guesses[a] \ Recent(a)
    PROVE  elapsed - g.real >= Lockout
<1>1. g \in Attempt /\ elapsed \in Nat /\ Lockout \in Nat
    BY LockoutAssumption DEF LockoutInv, LockoutTypeOK
<1> QED BY <1>1, YoungAreRecent DEF Attempt

\* Every step preserves the invariant.
LEMMA LockoutInvStep ==
    LockoutInv /\ [LockoutNext]_allVars => LockoutInv'
<1> SUFFICES ASSUME LockoutInv, [LockoutNext]_allVars PROVE LockoutInv'
    OBVIOUS
<1>0. /\ elapsed \in Nat /\ setBack \in Nat
      /\ \A a \in Address : Recent(a) \subseteq failures[a]
      /\ \A a \in Address : failures[a] \subseteq guesses[a]
      /\ \A a \in Address : \A g \in guesses[a] \ Recent(a) :
            elapsed - g.real >= Lockout
    BY DropsOnlyOld DEF LockoutInv, LockoutTypeOK, Recent
<1> USE DEF LockoutInv, LockoutTypeOK, DroppedAreOld
<1>1. ASSUME NEW a \in Address, LoginRefused(a), UNCHANGED clockVars
      PROVE  LockoutInv'
    BY <1>0, <1>1 DEF LoginRefused, clockVars, TimedRight
<1>2. ASSUME NEW a \in Address, LoginSucceeds(a), UNCHANGED clockVars
      PROVE  LockoutInv'
    BY <1>0, <1>2, FS_EmptySet DEF LoginSucceeds, clockVars, TimedRight
<1>3. ASSUME NEW a \in Address, LoginFails(a), UNCHANGED clockVars
      PROVE  LockoutInv'
    <2>1. Failure(a) \in Attempt /\ Failure(a).real = elapsed
          /\ TimedRight(Failure(a))
        BY <1>0 DEF Failure, Attempt, Wall, TimedRight
    <2>2. /\ failures' = [failures EXCEPT ![a] = Recent(a) \cup {Failure(a)}]
          /\ guesses' = [guesses EXCEPT ![a] = @ \cup {Failure(a)}]
          /\ attempts' \in [Address -> Nat]
          /\ elapsed' = elapsed /\ setBack' = setBack
        BY <1>3 DEF LoginFails, Failure, clockVars
    <2>3. \A b \in Address : IsFiniteSet(guesses'[b])
        BY <2>2, FS_AddElement
    <2>4. \A b \in Address : failures'[b] \subseteq guesses'[b]
        BY <1>0, <2>2
    <2>5. \A b \in Address : \A g \in guesses'[b] : TimedRight(g)'
        BY <2>1, <2>2 DEF TimedRight
    <2>6. \A b \in Address : DroppedAreOld(b)'
        BY <1>0, <2>2
    <2>7. LockoutTypeOK'
        BY <1>0, <2>1, <2>2
    <2> QED BY <2>3, <2>4, <2>5, <2>6, <2>7
<1>4. ASSUME ForgetFailures, UNCHANGED clockVars PROVE LockoutInv'
    BY <1>0, <1>4, FS_EmptySet DEF ForgetFailures, clockVars
<1>5. ASSUME Tick \/ SetClockBack, UNCHANGED lockoutVars PROVE LockoutInv'
    <2>1. /\ elapsed' \in Nat /\ setBack' \in Nat
          /\ elapsed' >= elapsed /\ setBack' >= setBack
        BY <1>0, <1>5 DEF Tick, SetClockBack
    <2>2. UNCHANGED <<failures, guesses, attempts>>
        BY <1>5 DEF lockoutVars
    <2>3. \A a \in Address : \A g \in guesses[a] :
              /\ TimedRight(g)'
              /\ elapsed - g.real >= Lockout => elapsed' - g.real >= Lockout
        BY <1>0, <2>1, LockoutAssumption DEF TimedRight, Attempt
    <2> QED BY <2>1, <2>2, <2>3
<1>6. CASE UNCHANGED allVars
    BY <1>6 DEF allVars, clockVars, lockoutVars, TimedRight
<1> QED BY <1>1, <1>2, <1>3, <1>4, <1>5, <1>6 DEF LockoutNext, allVars

-----------------------------------------------------------------------------

\* Failures and guesses have their types, whatever the clock shows.
THEOREM LockoutTypeCorrect == LockoutSpec => []LockoutTypeOK
<1>1. LockoutInv => LockoutTypeOK
    BY DEF LockoutInv
<1> QED BY <1>1, LockoutInvInit, LockoutInvStep, PTL DEF LockoutSpec, allVars

\* The guesses of a lockout's span that ends now number less than MaxFailures
\* when another password is checked: they are all among the recent failures.
LEMMA SpanIsRecent ==
    ASSUME LockoutInv, NEW a \in Address, NEW t \in Nat, elapsed < t + Lockout,
           NEW n \in Nat, Cardinality(Recent(a)) <= n
    PROVE  /\ IsFiniteSet(GuessesWithin(a, t, Lockout))
           /\ Cardinality(GuessesWithin(a, t, Lockout)) <= n
<1>1. GuessesWithin(a, t, Lockout) \subseteq Recent(a)
    <2> SUFFICES ASSUME NEW g \in GuessesWithin(a, t, Lockout)
                 PROVE  g \in Recent(a)
        OBVIOUS
    <2>1. g \in guesses[a] /\ t <= g.real
        BY DEF GuessesWithin
    <2>2. elapsed - g.real < Lockout
        BY <2>1, LockoutAssumption DEF LockoutInv, LockoutTypeOK, Attempt
    <2> QED BY <2>1, <2>2, YoungAreRecent
<1>2. IsFiniteSet(Recent(a))
    BY FS_Subset DEF LockoutInv, Recent
<1>3. /\ IsFiniteSet(GuessesWithin(a, t, Lockout))
      /\ Cardinality(GuessesWithin(a, t, Lockout)) <= Cardinality(Recent(a))
    BY <1>1, <1>2, FS_Subset
<1>4. /\ Cardinality(Recent(a)) \in Nat
      /\ Cardinality(GuessesWithin(a, t, Lockout)) \in Nat
    BY <1>2, <1>3, FS_CardinalityType
<1> QED BY <1>3, <1>4

\* Checking another wrong password keeps the bound.
LEMMA BoundStep ==
    LockoutInv /\ GuessesBounded /\ [LockoutNext]_allVars => GuessesBounded'
<1> SUFFICES ASSUME LockoutInv, GuessesBounded, [LockoutNext]_allVars
             PROVE  GuessesBounded'
    OBVIOUS
<1>0. elapsed \in Nat /\ guesses \in [Address -> SUBSET Attempt]
      /\ MaxFailures \in Nat \ {0} /\ Lockout \in Nat \ {0}
    BY LockoutAssumption DEF LockoutInv, LockoutTypeOK
<1>1. ASSUME NEW a \in Address, LoginFails(a) PROVE GuessesBounded'
    <2>1. guesses' = [guesses EXCEPT ![a] = @ \cup {Failure(a)}]
        BY <1>1 DEF LoginFails, Failure
    <2>2. Failure(a).real = elapsed
        BY DEF Failure
    <2>3. Cardinality(Recent(a)) < MaxFailures
        BY <1>1 DEF LoginFails
    <2> SUFFICES ASSUME NEW b \in Address, NEW g \in guesses'[b]
                 PROVE  Cardinality(GuessesWithin(b, g.real, Lockout)')
                            <= MaxFailures
        BY DEF GuessesBounded, GuessesWithin
    <2>4. CASE b # a
        BY <2>1, <2>4 DEF GuessesBounded, GuessesWithin
    <2>5. CASE b = a /\ elapsed < g.real + Lockout
        <3>1. g.real \in Nat
            BY <1>0, <2>1, <2>2, <2>5 DEF Attempt
        <3>2. IsFiniteSet(Recent(a))
            BY FS_Subset DEF LockoutInv, Recent
        <3>3. Cardinality(Recent(a)) \in Nat
            BY <3>2, FS_CardinalityType
        <3>4. /\ IsFiniteSet(GuessesWithin(a, g.real, Lockout))
              /\ Cardinality(GuessesWithin(a, g.real, Lockout))
                    <= MaxFailures - 1
            BY <1>0, <2>3, <2>5, <3>1, <3>3, SpanIsRecent
        <3>5. GuessesWithin(a, g.real, Lockout)'
                \subseteq GuessesWithin(a, g.real, Lockout) \cup {Failure(a)}
            BY <2>1 DEF GuessesWithin
        <3>6. Cardinality(GuessesWithin(a, g.real, Lockout)) \in Nat
            BY <3>4, FS_CardinalityType
        <3>7. /\ IsFiniteSet(GuessesWithin(a, g.real, Lockout)
                                \cup {Failure(a)})
              /\ Cardinality(GuessesWithin(a, g.real, Lockout)
                                \cup {Failure(a)}) \in 0..MaxFailures
            BY <1>0, <3>4, <3>6, FS_AddElement
        <3>8. Cardinality(GuessesWithin(a, g.real, Lockout)') \in Nat
              /\ Cardinality(GuessesWithin(a, g.real, Lockout)')
                    <= Cardinality(GuessesWithin(a, g.real, Lockout)
                                    \cup {Failure(a)})
            BY <3>5, <3>7, FS_Subset, FS_CardinalityType
        <3> QED BY <1>0, <2>5, <3>7, <3>8
    <2>6. CASE b = a /\ ~(elapsed < g.real + Lockout)
        <3>1. g # Failure(a) /\ g \in guesses[a]
            BY <1>0, <2>1, <2>2, <2>6
        <3>2. GuessesWithin(a, g.real, Lockout)'
                = GuessesWithin(a, g.real, Lockout)
            BY <2>1, <2>2, <2>6 DEF GuessesWithin
        <3> QED BY <2>6, <3>1, <3>2 DEF GuessesBounded
    <2> QED BY <2>4, <2>5, <2>6
<1>2. ASSUME NEW a \in Address, LoginSucceeds(a) PROVE GuessesBounded'
    <2>1. guesses' = [guesses EXCEPT ![a] = {}]
        BY <1>2 DEF LoginSucceeds
    <2> QED BY <1>0, <2>1 DEF GuessesBounded, GuessesWithin
<1>3. CASE ForgetFailures
    BY <1>3 DEF ForgetFailures, GuessesBounded
<1>4. CASE UNCHANGED guesses
    BY <1>4 DEF GuessesBounded, GuessesWithin
<1> QED BY <1>1, <1>2, <1>3, <1>4
        DEF LockoutNext, LoginRefused, lockoutVars, allVars

\* In any span of a lockout's length an address gets at most MaxFailures wrong
\* passwords checked.
THEOREM GuessesStayBounded == LockoutSpec => []GuessesBounded
<1>1. ClockInit /\ LockoutInit => GuessesBounded
    BY DEF LockoutInit, GuessesBounded
<1> QED BY <1>1, LockoutInvInit, LockoutInvStep, BoundStep, PTL
        DEF LockoutSpec, allVars

\* Nobody is turned away but for MaxFailures recent guesses.
THEOREM RefusalsJustified == LockoutSpec => []RefusedOnlyForGuesses
<1>1. LockoutInv => RefusedOnlyForGuesses
    <2> SUFFICES ASSUME LockoutInv, NEW a \in Address,
                        Cardinality(Recent(a)) >= MaxFailures
                 PROVE  Cardinality(GuessesWithin(a,
                                        elapsed - (Lockout + setBack - 1),
                                        Lockout + setBack)) >= MaxFailures
        BY DEF RefusedOnlyForGuesses
    <2> DEFINE start == elapsed - (Lockout + setBack - 1)
    <2>1. elapsed \in Nat /\ setBack \in Nat /\ MaxFailures \in Nat
          /\ Lockout \in Nat
        BY LockoutAssumption DEF LockoutInv, LockoutTypeOK
    <2>2. Recent(a) \subseteq GuessesWithin(a, start, Lockout + setBack)
        <3> SUFFICES ASSUME NEW g \in Recent(a)
                     PROVE  g \in GuessesWithin(a, start, Lockout + setBack)
            OBVIOUS
        <3>1. g \in guesses[a] /\ g \in Attempt /\ TimedRight(g)
              /\ Wall - g.at < Lockout
            BY DEF Recent, LockoutInv, LockoutTypeOK
        <3>2. start <= g.real /\ g.real < start + (Lockout + setBack)
            BY <2>1, <3>1 DEF TimedRight, Attempt, Wall
        <3> QED BY <3>1, <3>2 DEF GuessesWithin
    <2>3. IsFiniteSet(GuessesWithin(a, start, Lockout + setBack))
        BY FS_Subset DEF LockoutInv, GuessesWithin
    <2>4. /\ Cardinality(Recent(a))
                <= Cardinality(GuessesWithin(a, start, Lockout + setBack))
          /\ IsFiniteSet(Recent(a))
        BY <2>2, <2>3, FS_Subset
    <2>5. /\ Cardinality(Recent(a)) \in Nat
          /\ Cardinality(GuessesWithin(a, start, Lockout + setBack)) \in Nat
        BY <2>3, <2>4, FS_CardinalityType
    <2> QED BY <2>1, <2>4, <2>5
<1> QED BY <1>1, LockoutInvInit, LockoutInvStep, PTL DEF LockoutSpec, allVars

=============================================================================
