------------------------- MODULE MCTaskOrchestrator -------------------------
(* Instances of TaskOrchestrator for TLC.                                   *)
EXTENDS TaskOrchestrator

CONSTANTS p1, p2, a, b, c, d

(* Two plans.  p1: a, then b.  p2: d alone.                                 *)
TwoPlans == {p1, p2}
TwoPlanStep == {a, b, d}
TwoPlanSteps == p1 :> <<a, b>> @@ p2 :> <<d>>
TwoPlanDependsOn == a :> {} @@ b :> {a} @@ d :> {}

(* One plan: a, then b and c in parallel.                                   *)
OnePlan == {p1}
ThreeSteps == {a, b, c}
OneSteps == p1 :> <<a, b, c>>
ForkDependsOn == a :> {} @@ b :> {a} @@ c :> {a}

SamePriority == [x \in Plan |-> MaxLevel]
MCConcurrency == [l \in Level |-> 1]
ThreeSlots == [l \in Level |-> 3]
=============================================================================
