---------------------------- MODULE LoginLockout ----------------------------
(***************************************************************************)
(* POST /admin/login of app/api/admin_pages.py: failed logins are kept per *)
(* client address, and an address with too many recent ones is turned away *)
(* without looking at the password.  The handler does not await once it    *)
(* has the form, so an attempt is one action.  Times are readings of the   *)
(* wall clock; `real' is the time that really passed, which the code does  *)
(* not see.                                                                *)
(***************************************************************************)
EXTENDS WallClock, FiniteSets

CONSTANTS Address,        \* request.client.host
          MaxFailures,    \* _LOGIN_MAX_FAILURES, 5
          Lockout,        \* _LOGIN_LOCKOUT_SECONDS, 300
          MaxAttempts     \* bound of the exploration, per address

ASSUME LockoutAssumption ==
    /\ MaxFailures \in Nat \ {0}
    /\ Lockout \in Nat \ {0}
    /\ MaxAttempts \in Nat

VARIABLES failures,       \* _login_failures, the empty set where absent
          guesses,        \* history: the failed checks since the last success
                          \* or restart
          attempts        \* history: failed checks so far, to number them

lockoutVars == <<failures, guesses, attempts>>

\* (Mutation) keeps one second less than the lockout.
RecentShort(a) == {t \in failures[a] : Wall - t.at < Lockout - 1}

Recent(a) == {t \in failures[a] : Wall - t.at < Lockout}

LockoutInit ==
    /\ failures = [a \in Address |-> {}]
    /\ guesses = [a \in Address |-> {}]
    /\ attempts = [a \in Address |-> 0]

\* (Mutation) an attempt during the lockout counts as a failure.
LoginRefusedCounted(a) ==
    /\ Cardinality(Recent(a)) >= MaxFailures
    /\ failures' = [failures EXCEPT ![a] = Recent(a) \cup
           {[no |-> attempts[a] + 1, at |-> Wall, real |-> elapsed]}]
    /\ UNCHANGED <<guesses, attempts>>

LoginRefused(a) ==
    /\ Cardinality(Recent(a)) >= MaxFailures
    /\ failures' = [failures EXCEPT ![a] = Recent(a)]
    /\ UNCHANGED <<guesses, attempts>>

LoginSucceeds(a) ==
    /\ Cardinality(Recent(a)) < MaxFailures
    /\ failures' = [failures EXCEPT ![a] = {}]
    /\ guesses' = [guesses EXCEPT ![a] = {}]
    /\ UNCHANGED attempts

LoginFails(a) ==
    LET failure == [no |-> attempts[a] + 1, at |-> Wall, real |-> elapsed]
    IN  /\ attempts[a] < MaxAttempts
        /\ Cardinality(Recent(a)) < MaxFailures
        /\ failures' = [failures EXCEPT ![a] = Recent(a) \cup {failure}]
        /\ guesses' = [guesses EXCEPT ![a] = @ \cup {failure}]
        /\ attempts' = [attempts EXCEPT ![a] = @ + 1]

\* The failures are in memory only.
ForgetFailures ==
    /\ failures' = [a \in Address |-> {}]
    /\ guesses' = [a \in Address |-> {}]
    /\ UNCHANGED attempts

LockoutNext ==
    \/ /\ \/ \E a \in Address :
                LoginRefused(a) \/ LoginSucceeds(a) \/ LoginFails(a)
          \/ ForgetFailures
       /\ UNCHANGED clockVars
    \/ (Tick \/ SetClockBack) /\ UNCHANGED lockoutVars

LockoutSpec ==
    ClockInit /\ LockoutInit /\ [][LockoutNext]_<<clockVars, lockoutVars>>

----------------------------------------------------------------------------
Attempt == [no : Nat, at : Int, real : Nat]

LockoutTypeOK ==
    /\ elapsed \in Nat
    /\ setBack \in Nat
    /\ attempts \in [Address -> Nat]
    /\ failures \in [Address -> SUBSET Attempt]
    /\ guesses \in [Address -> SUBSET Attempt]

\* The failed checks of an address in the real time from t on, before t + span.
GuessesWithin(a, t, span) ==
    {g \in guesses[a] : t <= g.real /\ g.real < t + span}

\* An address gets no more than MaxFailures wrong passwords checked in any span
\* of real time as long as the lockout, unless it logs in or the process
\* restarts in between - also when the clock of the machine is set back.
GuessesBounded ==
    \A a \in Address : \A g \in guesses[a] :
        Cardinality(GuessesWithin(a, g.real, Lockout)) <= MaxFailures

\* An address that the next attempt would turn away had MaxFailures wrong
\* passwords checked less than a lockout ago (longer, by as much as the clock
\* was set back): being turned away does not prolong the lockout, and nobody
\* else's failures count.
RefusedOnlyForGuesses ==
    \A a \in Address :
        Cardinality(Recent(a)) >= MaxFailures =>
            Cardinality(GuessesWithin(a, elapsed - (Lockout + setBack - 1),
                                      Lockout + setBack)) >= MaxFailures

=============================================================================
