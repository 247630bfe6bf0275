---------------------------- MODULE StepDataflow ----------------------------
(***************************************************************************)
(* What the orchestrator promises about the steps of its plans, with no    *)
(* queue, no loop and no executor: a step begins once its dependencies are *)
(* done, begins from idle only, and ends by its own result.  Idle steps    *)
(* may be given up (cancelled, or blocked by a failure), steps that are    *)
(* busy may be lost (the loop is stopped, or the execution is cancelled;   *)
(* one that was cancelled or rolled back meanwhile is then dropped or      *)
(* idle), and steps that are not busy may be made idle again (rollback).   *)
(***************************************************************************)
EXTENDS Integers

CONSTANTS Step, DependsOn

VARIABLE state

States == {"idle", "busy", "done", "failed", "dropped", "lost"}

Init == state = [s \in Step |-> "idle"]

Moved(S, to) == state' = [s \in Step |-> IF s \in S THEN to ELSE state[s]]

In(from) == {s \in Step : state[s] \in from}

Begin == \E S \in SUBSET In({"idle"}) :
            /\ \A s \in S : \A d \in DependsOn[s] : state[d] = "done"
            /\ Moved(S, "busy")

Succeed == \E s \in In({"busy"}) : Moved({s}, "done")

Fail == \E s \in In({"busy"}) : Moved({s}, "failed")

GiveUp == \E S \in SUBSET In({"idle", "lost"}) : Moved(S, "dropped")

Lose == \E S \in SUBSET In({"busy"}) : \E f \in [S -> {"lost", "dropped", "idle"}] :
            state' = [s \in Step |-> IF s \in S THEN f[s] ELSE state[s]]

Reset == \E S \in SUBSET (Step \ In({"busy"})) : Moved(S, "idle")

Next == Begin \/ Succeed \/ Fail \/ GiveUp \/ Lose \/ Reset

Spec == Init /\ [][Next]_state
=============================================================================
