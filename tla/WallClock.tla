----------------------------- MODULE WallClock -----------------------------
(***************************************************************************)
(* The clock of the machine: time.time() of app/core/rate_limiter.py and   *)
(* the UTC date of app/core/quota_checker.py and of SQLite's               *)
(* CURRENT_TIMESTAMP.  An operator or NTP may set it back.  `elapsed' is   *)
(* the time that really passes; the code cannot see it.                    *)
(***************************************************************************)
EXTENDS Integers

CONSTANTS MaxTime,        \* bound of the exploration
          MaxSetBack,     \* how far in all the clock may be set back
          DateAt,         \* reading of the clock -> date, a number
          MonthStart      \* date -> first date of its month

Readings == (-MaxSetBack)..MaxTime
Day      == {DateAt[t] : t \in Readings}

ASSUME ClockAssumption ==
    /\ MaxTime \in Nat
    /\ MaxSetBack \in Nat
    /\ DateAt \in [Readings -> Nat]
    /\ \A s, t \in Readings : s <= t => DateAt[s] <= DateAt[t]
    /\ MonthStart \in [Day -> Nat]
    /\ \A d \in Day : MonthStart[d] <= d

VARIABLES elapsed,        \* time since the model starts
          setBack         \* how far the clock was set back since

clockVars == <<elapsed, setBack>>

Wall  == elapsed - setBack
Today == DateAt[Wall]

ClockInit == elapsed = 0 /\ setBack = 0

Tick ==
    /\ elapsed < MaxTime
    /\ elapsed' = elapsed + 1
    /\ UNCHANGED setBack

SetClockBack ==
    /\ setBack < MaxSetBack
    /\ setBack' = setBack + 1
    /\ UNCHANGED elapsed

=============================================================================
