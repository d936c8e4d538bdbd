---------------------------- MODULE MCAdmission ----------------------------
(***************************************************************************)
(* Instances of Admission for TLC: three requests of u1, through two keys  *)
(* of one name with limits 2 and 1 and different quotas; one of u2 without *)
(* a quota, whose tokens must not count against u1; and one of u1 without  *)
(* a rate limit, for the violation run.  Dates 1 and 2 are the end of one  *)
(* month and date 3 is the start of the next.                              *)
(***************************************************************************)
EXTENDS Admission, TLC

CONSTANTS r1, r2, r3, r4, r5, u1, u2

MCUserOf    == [r \in Request |-> IF r = r4 THEN u2 ELSE u1]
MCRateOf    == [r \in Request |-> CASE r \in {r1, r2} -> 2
                                    [] r \in {r3, r4} -> 1
                                    [] r = r5         -> 0]
MCDailyOf   == [r \in Request |-> IF r \in {r2, r5} THEN 5 ELSE 0]
MCMonthlyOf == [r \in Request |-> IF r \in {r2, r3} THEN 5 ELSE 0]
MCTokensOf  == [r \in Request |-> IF r = r3 THEN NoTokens ELSE 5]

MCDateAt     == [t \in -1..2 |-> IF t <= 0 THEN 1 ELSE t + 1]
MCMonthStart == [d \in 1..3 |-> IF d <= 2 THEN 1 ELSE 3]

=============================================================================
