---------------------------- MODULE PlanValidation ----------------------------
(***************************************************************************)
(* DAGValidator of orchestrator/dag.py, which TaskOrchestrator.submit runs *)
(* on every plan: missing dependencies, then a depth-first search for a    *)
(* cycle, then a breadth-first sweep for steps no root leads to; the first *)
(* error found is raised.                                                  *)
(*                                                                         *)
(* The depth-first search is recursive in the code.  stack is its call     *)
(* stack: the GRAY steps, each found through the one below it, so parent   *)
(* of a GRAY step is the entry below.  The neighbours of a step are tried  *)
(* in list order and those already tried are BLACK, so the loop stands at  *)
(* the first neighbour that is not BLACK.                                  *)
(***************************************************************************)
EXTENDS Integers, FiniteSets, SequencesExt

CONSTANTS Step,    \* the ids of the plan's steps
          Foreign, \* ids of no step of the plan
          Order,   \* the steps in list order
          NoStep

ASSUME OrderAssumption ==
    /\ IsFiniteSet(Step)
    /\ Order \in Seq(Step)
    /\ \A i, j \in DOMAIN Order : Order[i] = Order[j] => i = j
    /\ \A s \in Step : \E i \in DOMAIN Order : Order[i] = s

ASSUME IdAssumption == Step \cap Foreign = {} /\ NoStep \notin Step

VARIABLES deps,      \* depends_on of every step: the input
          pc,        \* which part of validate runs
          color,     \* the colours of _detect_cycle
          stack,     \* the calls of dfs in progress
          cycle,     \* the path _detect_cycle returned, <<>> for None
          queue,     \* the queue of _find_unreachable
          reachable, \* the set of _find_unreachable
          errors     \* the list of errors so far, by kind

vars == <<deps, pc, color, stack, cycle, queue, reachable, errors>>

TypeOK ==
    /\ deps \in [Step -> SUBSET (Step \cup Foreign)]
    /\ pc \in {"dependencies", "search", "roots", "sweep", "done"}
    /\ color \in [Step -> {"white", "gray", "black"}]
    /\ stack \in Seq(Step)
    /\ cycle \in Seq(Step)
    /\ queue \in Seq(Step)
    /\ reachable \in SUBSET Step
    /\ errors \in Seq({"missing", "cycle", "unreachable"})

Init ==
    /\ deps \in [Step -> SUBSET (Step \cup Foreign)]
    /\ pc = "dependencies"
    /\ color = [s \in Step |-> "white"]
    /\ stack = <<>>
    /\ cycle = <<>>
    /\ queue = <<>>
    /\ reachable = {}
    /\ errors = <<>>

(* s is the first element of S in list order.                              *)
IsFirst(S, s) ==
    \E i \in DOMAIN Order :
        /\ Order[i] = s
        /\ s \in S
        /\ \A j \in 1..i-1 : Order[j] \notin S

Before(s, t) ==
    \E i, j \in DOMAIN Order : i < j /\ Order[i] = s /\ Order[j] = t

(* The elements of S in list order: the one element of this set.           *)
Listings(S) ==
    {q \in [1..Cardinality(S) -> S] :
        /\ \A s \in S : \E i \in DOMAIN q : q[i] = s
        /\ \A i, j \in DOMAIN q : i < j => Before(q[i], q[j])}

Dependents(s) == {t \in Step : s \in deps[t]}

Top == stack[Len(stack)]

Colored(s, c) == color' = [color EXCEPT ![s] = c]

CheckDependencies ==
    /\ pc = "dependencies"
    /\ errors' = IF \E s \in Step : deps[s] \cap Foreign # {}
                 THEN Append(errors, "missing") ELSE errors
    /\ pc' = "search"
    /\ UNCHANGED <<deps, color, stack, cycle, queue, reachable>>

-----------------------------------------------------------------------------
(* _detect_cycle                                                           *)

(* The outer loop calls dfs on the next WHITE step.                        *)
Visit(s) ==
    /\ pc = "search"
    /\ stack = <<>>
    /\ IsFirst({t \in Step : color[t] = "white"}, s)
    /\ Colored(s, "gray")
    /\ stack' = <<s>>
    /\ UNCHANGED <<deps, pc, cycle, queue, reachable, errors>>

\* Mutant: neighbours in progress are skipped like finished ones.
OpenUnlessGray(s) == {t \in Dependents(s) : color[t] = "white"}

(* The neighbours dfs(s) has not done with.                                *)
Open(s) == {t \in Dependents(s) : color[t] # "black"}

Descend(n) ==
    /\ pc = "search"
    /\ stack # <<>>
    /\ IsFirst(Open(Top), n)
    /\ color[n] = "white"
    /\ Colored(n, "gray")
    /\ stack' = Append(stack, n)
    /\ UNCHANGED <<deps, pc, cycle, queue, reachable, errors>>

\* Mutant: the walk up the parents starts below the node in hand.
PathWithoutTop(n) ==
    LET k == CHOOSE i \in DOMAIN stack : stack[i] = n
    IN  Append(SubSeq(stack, k, Len(stack) - 1), n)

(* The reported path, with n GRAY and Top -> n the edge that closes the    *)
(* cycle.  The walk up the parents starts at Top and stops before n or at  *)
(* the root of the search; for n = Top it can only stop at the root.       *)
Path(n) ==
    LET k == CHOOSE i \in DOMAIN stack : stack[i] = n
    IN  IF n = Top THEN Append(stack, n)
                   ELSE Append(SubSeq(stack, k + 1, Len(stack)), n)

CloseCycle(n) ==
    /\ pc = "search"
    /\ stack # <<>>
    /\ IsFirst(Open(Top), n)
    /\ color[n] = "gray"
    /\ cycle' = Path(n)
    /\ errors' = Append(errors, "cycle")
    /\ pc' = "roots"
    /\ UNCHANGED <<deps, color, stack, queue, reachable>>

(* dfs(Top) returns None.                                                  *)
Finish ==
    /\ pc = "search"
    /\ stack # <<>>
    /\ Open(Top) = {}
    /\ Colored(Top, "black")
    /\ stack' = Front(stack)
    /\ UNCHANGED <<deps, pc, cycle, queue, reachable, errors>>

SearchEnds ==
    /\ pc = "search"
    /\ stack = <<>>
    /\ \A s \in Step : color[s] # "white"
    /\ pc' = "roots"
    /\ UNCHANGED <<deps, color, stack, cycle, queue, reachable, errors>>

-----------------------------------------------------------------------------
(* _find_unreachable                                                       *)

RootSteps == {s \in Step : deps[s] = {}}

NotEmpty(S, kind) == IF S = {} THEN errors ELSE Append(errors, kind)

Roots ==
    /\ pc = "roots"
    /\ \E q \in Listings(RootSteps) : queue' = q
    /\ IF RootSteps # {}
       THEN /\ pc' = "sweep"
            /\ UNCHANGED errors
       ELSE /\ pc' = "done"
            /\ errors' = NotEmpty(Step, "unreachable")
    /\ UNCHANGED <<deps, color, stack, cycle, reachable>>

(* One step leaves the queue.  If it is new its dependents follow, those   *)
(* that were not reached before.                                           *)
Sweep ==
    /\ pc = "sweep"
    /\ queue # <<>>
    /\ reachable' = reachable \cup {Head(queue)}
    /\ IF Head(queue) \in reachable
       THEN queue' = Tail(queue)
       ELSE \E q \in Listings(Dependents(Head(queue)) \ reachable') :
              queue' = Tail(queue) \o q
    /\ UNCHANGED <<deps, pc, color, stack, cycle, errors>>

SweepEnds ==
    /\ pc = "sweep"
    /\ queue = <<>>
    /\ errors' = NotEmpty(Step \ reachable, "unreachable")
    /\ pc' = "done"
    /\ UNCHANGED <<deps, color, stack, cycle, queue, reachable>>

Next ==
    \/ CheckDependencies
    \/ \E s \in Step : Visit(s) \/ Descend(s) \/ CloseCycle(s)
    \/ Finish \/ SearchEnds
    \/ Roots \/ Sweep \/ SweepEnds

(* validate is one synchronous call: it runs to its end.                   *)
Spec == Init /\ [][Next]_vars
-----------------------------------------------------------------------------
(* What a plan has to be: dependencies are steps of the plan, and every    *)
(* set of steps has one that depends on none of them, so that an executor  *)
(* that waits for dependencies always finds a next step.                   *)
Closed == \A s \in Step : deps[s] \cap Foreign = {}

Acyclic ==
    \A S \in SUBSET Step : S # {} => \E s \in S : deps[s] \cap S = {}

(* validate_dag accepts exactly the closed acyclic plans, and raises the   *)
(* error that applies (dag.py:82, 100-110): three-coloured search and      *)
(* sweep agree with the definition, and the sweep alone rejects nothing.   *)
VerdictExact ==
    pc = "done" =>
        /\ errors = <<>> <=> Closed /\ Acyclic
        /\ errors # <<>> =>
             Head(errors) = IF Closed THEN "cycle" ELSE "missing"

(* A reported path follows the dependencies from step to step, and its     *)
(* last step closes a cycle: it is a dependency of the first step of the   *)
(* path, or of itself (dag.py:103-109).                                    *)
CyclePathIsReal ==
    cycle # <<>> =>
        /\ \A i \in 1..Len(cycle)-1 : cycle[i] \in deps[cycle[i + 1]]
        /\ Last(cycle) \in deps[Head(cycle)] \cup deps[Last(cycle)]
=============================================================================
