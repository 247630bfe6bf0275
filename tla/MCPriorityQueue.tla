--------------------------- MODULE MCPriorityQueue ---------------------------
(* Instance of PriorityQueue for TLC: three plans at two of three priority  *)
(* levels, which admit one plan each.                                       *)
EXTENDS PriorityQueue

CONSTANTS crit, norm, back

MCPlan == {crit, norm, back}
MCConcurrency == [l \in Level |-> 1]

(* Two plans of the same priority, for the order within a level.            *)
MCPriorityOf == crit :> 0 @@ norm :> 1 @@ back :> 1
=============================================================================
