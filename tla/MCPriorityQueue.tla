-------------------------- MODULE MCPriorityQueue --------------------------
(***************************************************************************)
(* Instances of PriorityQueue for TLC.  The ranks are chosen so that every *)
(* way two heap entries can compare occurs: r1 and r2 tie on priority and  *)
(* differ in timestamp, r2 and r3 tie on both and differ only in the       *)
(* tiebreaker, and r4 outranks them all while being the youngest.          *)
(***************************************************************************)
EXTENDS PriorityQueue, TLC

CONSTANTS r1, r2, r3, r4

AllPriority   == r1 :> 100 @@ r2 :> 100 @@ r3 :> 100 @@ r4 :> 0
AllTimestamp  == r1 :> 1 @@ r2 :> 2 @@ r3 :> 2 @@ r4 :> 3
AllTiebreaker == r1 :> 4 @@ r2 :> 3 @@ r3 :> 2 @@ r4 :> 1

MCPriority   == [r \in Request |-> AllPriority[r]]
MCTimestamp  == [r \in Request |-> AllTimestamp[r]]
MCTiebreaker == [r \in Request |-> AllTiebreaker[r]]

=============================================================================
