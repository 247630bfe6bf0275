----------------------- MODULE TaskOrchestrator_proofs -----------------------
(***************************************************************************)
(* Proofs about TaskOrchestrator, for any plans, dependencies, limits and  *)
(* user operations: type correctness, the invariants of the dispatch loop, *)
(* and that the orchestrator implements StepDataflow.                      *)
(***************************************************************************)
EXTENDS TaskOrchestrator, QueueOps_proofs

-----------------------------------------------------------------------------
(* Lemmas about the helpers.                                               *)

LEMMA StepsOfType ==
    ASSUME NEW p \in Plan
    PROVE  /\ StepsOf(p) \subseteq Step
           /\ Steps[p] \in Seq(Step)
           /\ DOMAIN Steps[p] = 1..Len(Steps[p]) /\ Len(Steps[p]) \in Nat
  <1>1. Steps[p] \in Seq(Step)
    BY StepsAssumption
  <1>2. \A i \in DOMAIN Steps[p] : Steps[p][i] \in Step
    BY <1>1
  <1> QED BY <1>1, <1>2, LenProperties DEF StepsOf

LEMMA PlanOfOwner ==
    ASSUME NEW p \in Plan, NEW s \in StepsOf(p)
    PROVE  PlanOf(s) = p /\ s \in Owned
  <1>1. \A q \in Plan : s \in StepsOf(q) => q = p
    BY StepsAssumption
  <1> QED BY <1>1 DEF PlanOf, Owned

LEMMA OwnerOf ==
    ASSUME NEW s \in Owned
    PROVE  PlanOf(s) \in Plan /\ s \in StepsOf(PlanOf(s)) /\ s \in Step
  <1>1. PICK p \in Plan : s \in StepsOf(p)
    BY DEF Owned
  <1> QED BY <1>1, PlanOfOwner, StepsOfType

LEMMA InsertAtType ==
    ASSUME NEW S, NEW q \in Seq(S), NEW e \in S, NEW k \in 0..Len(q)
    PROVE  InsertAt(q, k + 1, e) \in Seq(S)
  <1>1. SubSeq(q, 1, k + 1 - 1) \in Seq(S) /\ SubSeq(q, k + 1, Len(q)) \in Seq(S)
    BY SubSeqProperties, LenProperties
  <1>2. <<e>> \in Seq(S)
    OBVIOUS
  <1> HIDE DEF InsertAt
  <1> QED BY <1>1, <1>2, ConcatProperties DEF InsertAt

LEMMA ComputedStatusType ==
    ASSUME NEW p, NEW st
    PROVE  ComputedStatus(p, st) \in {"succeeded", "failed", "cancelled"}
  BY DEF ComputedStatus

(* What a pass of the executor's loop does to the steps of plan p: it      *)
(* starts a batch, keeps polling, or ends the plan.                        *)
PassEffect(p, ids) ==
    /\ UNCHANGED <<running, executing, cpVars, histVars>>
    /\ \/ /\ loop' = "gather" /\ current' = p
          /\ unstarted' = {s \in StepsOf(p) : IsReady(p, ids, s)}
          /\ step' = [s \in Step |-> IF IsReady(p, ids, s) THEN "ready" ELSE step[s]]
       \/ /\ loop' = "polling" /\ current' = p
          /\ UNCHANGED <<step, unstarted>>
       \/ /\ loop' = "trying" /\ current' = NoPlan
          /\ \/ step' = step
             \/ step' = BlockedSkipped(p) /\ NoneReady(p, ids) /\ ~HasInFlight(p)
          /\ UNCHANGED unstarted

LEMMA OnePassEffect ==
    ASSUME NEW p, NEW ids, NEW act, NEW ev, NEW exs, NEW inFl,
           OnePass(p, ids, act, ev, exs, inFl)
    PROVE  PassEffect(p, ids)
  BY DEF OnePass, DispatchBatch, KeepPolling, Suspend, EndOfPlan, FinishPlan,
         PassEffect

(* The same pass, for the plan's own bookkeeping.                          *)
LEMMA OnePassPlan ==
    ASSUME NEW p \in Plan, NEW ids, NEW act, NEW ev, NEW exs, NEW inFl,
           OnePass(p, ids, act, ev, exs, inFl)
    PROVE  \/ /\ active' = act /\ lastEvent' = ev /\ executors' = exs /\ inFlight' = inFl
              /\ current' = p
           \/ \E status \in {"succeeded", "failed", "cancelled"} :
                /\ active' = [act EXCEPT ![p] = status]
                /\ lastEvent' = [ev EXCEPT ![p] = CASE status = "succeeded" -> "completed"
                                                    [] status = "failed"    -> "failed"
                                                    [] status = "cancelled" -> @]
                /\ executors' = exs \ {p}
                /\ inFlight' = SlotReleased(inFl, p)
                /\ current' = NoPlan
  <1>1. CASE \E st : FinishPlan(p, st, act, ev, exs, inFl)
    BY <1>1, ComputedStatusType DEF FinishPlan
  <1>2. CASE Suspend(p, act, ev, exs, inFl)
    BY <1>2 DEF Suspend
  <1> QED BY <1>1, <1>2 DEF OnePass, EndOfPlan

-----------------------------------------------------------------------------
(* Type correctness.                                                       *)

Topics == {"none", "queued", "started", "completed", "failed", "cancelled",
           "paused", "resumed"}

LEMMA TypeInit == Init => TypeOK
  <1> SUFFICES ASSUME Init PROVE TypeOK
    OBVIOUS
  <1>1. /\ active \in [Plan -> PlanStatus] /\ step \in [Step -> StepStatus]
        /\ lastEvent \in [Plan -> Topics]
    BY DEF Init, PlanStatus, StepStatus, Topics
  <1>2. /\ queues \in [Level -> Seq(QueueItem)]
        /\ inFlight \in [Level -> SUBSET Plan]
        /\ checkpoints \in [Plan -> Seq([step : Step, sequence : Nat])]
    BY DEF Init
  <1>3. /\ cancelledIds \in [Plan -> SUBSET Plan]
        /\ cpSequence \in [Plan -> Nat]
        /\ runs \in [Step -> Nat]
        /\ rollbacks \in [Plan -> Nat]
    BY DEF Init
  <1> QED BY <1>1, <1>2, <1>3 DEF Init, TypeOK, Topics

LEMMA EnqueuePlanType ==
    ASSUME TypeOK, NEW p \in Plan, EnqueuePlan(p)
    PROVE  /\ queues' \in [Level -> Seq(QueueItem)]
           /\ inFlight' = inFlight
           /\ loop' = IF loop = "waiting" THEN "trying" ELSE loop
  <1>1. PriorityOf[p] \in Level
    BY OrchestratorAssumption
  <1> QED BY <1>1, EnqueuedType DEF EnqueuePlan, TypeOK

LEMMA PassEffectType ==
    ASSUME TypeOK, NEW p \in Plan, NEW ids, PassEffect(p, ids)
    PROVE  /\ step' \in [Step -> StepStatus]
           /\ loop' \in {"none", "trying", "waiting", "gather", "polling"}
           /\ current' \in Plan \cup {NoPlan}
           /\ unstarted' \in SUBSET Step
  <1>1. step' \in [Step -> StepStatus]
    <2>1. CASE step' = [s \in Step |-> IF IsReady(p, ids, s) THEN "ready" ELSE step[s]]
      BY <2>1 DEF TypeOK, StepStatus
    <2>2. CASE step' = step
      BY <2>2 DEF TypeOK
    <2>3. CASE step' = BlockedSkipped(p)
      BY <2>3 DEF TypeOK, BlockedSkipped, StepStatus
    <2> QED BY <2>1, <2>2, <2>3 DEF PassEffect
  <1>2. unstarted' \in SUBSET Step
    BY StepsOfType DEF PassEffect, TypeOK
  <1>3. /\ loop' \in {"none", "trying", "waiting", "gather", "polling"}
        /\ current' \in Plan \cup {NoPlan}
    BY DEF PassEffect
  <1> QED BY <1>1, <1>2, <1>3

LEMMA OnePassType ==
    ASSUME TypeOK, NEW p \in Plan, NEW ids, NEW act \in [Plan -> PlanStatus],
           NEW ev \in [Plan -> Topics], NEW exs \in SUBSET Plan,
           NEW inFl \in [Level -> SUBSET Plan],
           OnePass(p, ids, act, ev, exs, inFl),
           queues' \in [Level -> Seq(QueueItem)],
           cancelledIds' \in [Plan -> SUBSET Plan]
    PROVE  TypeOK'
  <1>1. PassEffect(p, ids)
    BY OnePassEffect
  <1>2. /\ active' \in [Plan -> PlanStatus]
        /\ lastEvent' \in [Plan -> Topics]
        /\ executors' \in SUBSET Plan
        /\ inFlight' \in [Level -> SUBSET Plan]
    <2>1. CASE active' = act /\ lastEvent' = ev /\ executors' = exs /\ inFlight' = inFl
      BY <2>1
    <2>2. ASSUME NEW status \in {"succeeded", "failed", "cancelled"},
                 active' = [act EXCEPT ![p] = status],
                 lastEvent' = [ev EXCEPT ![p] = CASE status = "succeeded" -> "completed"
                                                  [] status = "failed"    -> "failed"
                                                  [] status = "cancelled" -> @],
                 executors' = exs \ {p},
                 inFlight' = SlotReleased(inFl, p)
          PROVE  /\ active' \in [Plan -> PlanStatus]
                 /\ lastEvent' \in [Plan -> Topics]
                 /\ executors' \in SUBSET Plan
                 /\ inFlight' \in [Level -> SUBSET Plan]
      <3>1. active' \in [Plan -> PlanStatus]
        BY <2>2 DEF PlanStatus
      <3>2. lastEvent' \in [Plan -> Topics]
        BY <2>2 DEF Topics
      <3> QED BY <2>2, <3>1, <3>2, SlotReleasedProperties
    <2> QED BY <2>1, <2>2, OnePassPlan
  <1>3. /\ running' \in BOOLEAN /\ executing' \in SUBSET Step
        /\ checkpoints' = checkpoints /\ cpSequence' = cpSequence
        /\ runs' = runs /\ rollbacks' = rollbacks
        /\ disturbed' = disturbed /\ interrupted' = interrupted
    BY <1>1 DEF PassEffect, cpVars, histVars, TypeOK
  <1> QED BY <1>1, <1>2, <1>3, PassEffectType DEF TypeOK, Topics

(* Where the dispatch loop is suspended, and what is in flight there.      *)
LoopInv ==
    /\ running <=> loop # "none"
    /\ current \in Plan <=> loop \in {"gather", "polling"}
    /\ loop # "gather" => InFlightSteps = {}
    /\ loop = "gather" => InFlightSteps \subseteq StepsOf(current)
    /\ unstarted \cap executing = {}
    /\ \A s \in InFlightSteps : step[s] \notin {"succeeded", "failed", "skipped"}

LEMMA TypeNext == TypeOK /\ LoopInv /\ [Next]_vars => TypeOK'
  <1> SUFFICES ASSUME TypeOK, LoopInv, [Next]_vars PROVE TypeOK'
    OBVIOUS
  <1> USE DEF planVars, queueVars, loopVars, execVars, cpVars, histVars
  <1>1. ASSUME NEW p \in Plan, Submit(p) PROVE TypeOK'
    BY <1>1, EnqueuePlanType DEF Submit, SetStatus, TypeOK, PlanStatus
  <1>2. ASSUME NEW p \in Plan, Cancel(p) PROVE TypeOK'
    <2>1. /\ queues' \in [Level -> Seq(QueueItem)]
          /\ inFlight' \in [Level -> SUBSET Plan]
      BY <1>2, RemovedFromType DEF Cancel, TypeOK
    <2>2. cancelledIds' \in [Plan -> SUBSET Plan]
      BY <1>2 DEF Cancel, TypeOK
    <2>3. step' \in [Step -> StepStatus]
      BY <1>2 DEF Cancel, TypeOK, StepStatus
    <2> QED BY <1>2, <2>1, <2>2, <2>3 DEF Cancel, SetStatus, TypeOK, PlanStatus
  <1>3. ASSUME NEW p \in Plan, Pause(p) PROVE TypeOK'
    BY <1>3 DEF Pause, SetStatus, TypeOK, PlanStatus
  <1>4. ASSUME NEW p \in Plan, Resume(p) PROVE TypeOK'
    BY <1>4, EnqueuePlanType DEF Resume, SetStatus, TypeOK, PlanStatus
  <1>5. ASSUME NEW p \in Plan, NEW n \in 1..MaxCheckpoints, Rollback(p, n)
        PROVE  TypeOK'
    <2>1. step' \in [Step -> StepStatus]
      BY <1>5 DEF Rollback, TypeOK, StepStatus
    <2>2. /\ cpSequence' \in [Plan -> Nat]
          /\ active' \in [Plan -> PlanStatus]
          /\ rollbacks' \in [Plan -> Nat]
          /\ disturbed' \in SUBSET Plan
      <3>1. /\ cpSequence' = [cpSequence EXCEPT ![p] = n]
            /\ active' = [active EXCEPT ![p] = "running"]
            /\ rollbacks' = [rollbacks EXCEPT ![p] = @ + 1]
            /\ disturbed' \in {disturbed, disturbed \cup {p}}
        BY <1>5 DEF Rollback
      <3>2. /\ cpSequence \in [Plan -> Nat]
            /\ active \in [Plan -> PlanStatus]
            /\ rollbacks \in [Plan -> Nat]
            /\ disturbed \in SUBSET Plan
        BY DEF TypeOK
      <3>3. n \in Nat /\ "running" \in PlanStatus
        BY DEF PlanStatus
      <3>4. cpSequence' \in [Plan -> Nat] /\ disturbed' \in SUBSET Plan
        BY <3>1, <3>2, <3>3
      <3>5. active' \in [Plan -> PlanStatus]
        BY <3>1, <3>2, <3>3
      <3>6. rollbacks' \in [Plan -> Nat]
        BY <3>1, <3>2
      <3> QED BY <3>4, <3>5, <3>6
    <2>3. EnqueuePlan(p)
      BY <1>5 DEF Rollback
    <2>4. UNCHANGED <<lastEvent, running, current, unstarted, executing, execVars,
                      checkpoints, runs, interrupted>>
      BY <1>5 DEF Rollback
    <2> QED BY <2>1, <2>2, <2>3, <2>4, EnqueuePlanType DEF TypeOK
  <1>6. ASSUME NEW p \in Plan, NEW s \in Step, CheckpointStep(p, s) PROVE TypeOK'
    <2>1. cpSequence' \in [Plan -> Nat] /\ cpSequence'[p] \in Nat
      BY <1>6 DEF CheckpointStep, TypeOK
    <2>2. PICK k \in 0..Len(checkpoints[p]) :
            checkpoints' = [checkpoints EXCEPT ![p] =
              InsertAt(@, k + 1, [step |-> s, sequence |-> cpSequence'[p]])]
      BY <1>6 DEF CheckpointStep
    <2> DEFINE cp == [step |-> s, sequence |-> cpSequence'[p]]
    <2>3. /\ cp \in [step : Step, sequence : Nat]
          /\ checkpoints[p] \in Seq([step : Step, sequence : Nat])
      BY <2>1 DEF TypeOK
    <2>4. checkpoints' = [checkpoints EXCEPT ![p] = InsertAt(@, k + 1, cp)]
      BY <2>2
    <2> HIDE DEF cp
    <2>5. InsertAt(checkpoints[p], k + 1, cp) \in Seq([step : Step, sequence : Nat])
      BY <2>3, InsertAtType
    <2>6. checkpoints' \in [Plan -> Seq([step : Step, sequence : Nat])]
      BY <2>4, <2>5 DEF TypeOK
    <2> QED BY <1>6, <2>1, <2>6 DEF CheckpointStep, TypeOK
  <1>7. ASSUME Start PROVE TypeOK'
    BY <1>7 DEF Start, TypeOK
  <1>8. ASSUME Stop PROVE TypeOK'
    BY <1>8 DEF Stop, TypeOK
  <1>9. ASSUME Dispatch PROVE TypeOK'
    <2>1. PICK l \in Level :
            /\ IsChosen(queues, inFlight, l)
            /\ queues' = Popped(queues, l)
            /\ cancelledIds' = [cancelledIds EXCEPT ![Head(queues[l]).plan] = {}]
            /\ OnePass(Head(queues[l]).plan, {},
                       [active EXCEPT ![Head(queues[l]).plan] = "running"],
                       [lastEvent EXCEPT ![Head(queues[l]).plan] = "started"],
                       executors \cup {Head(queues[l]).plan},
                       TakesSlot(inFlight, EffectiveLevel(Head(queues[l])),
                                 Head(queues[l]).plan))
      BY <1>9 DEF Dispatch
    <2> DEFINE p == Head(queues[l]).plan
               e == EffectiveLevel(Head(queues[l]))
    <2>2. p \in Plan /\ e \in Level /\ queues' \in [Level -> Seq(QueueItem)]
      BY <2>1, ChosenHeadProperties DEF TypeOK
    <2>3. /\ cancelledIds' = [cancelledIds EXCEPT ![p] = {}]
          /\ OnePass(p, {}, [active EXCEPT ![p] = "running"],
                     [lastEvent EXCEPT ![p] = "started"], executors \cup {p},
                     TakesSlot(inFlight, e, p))
      BY <2>1
    <2> HIDE DEF p, e
    <2>4. /\ [active EXCEPT ![p] = "running"] \in [Plan -> PlanStatus]
          /\ [lastEvent EXCEPT ![p] = "started"] \in [Plan -> Topics]
          /\ executors \cup {p} \in SUBSET Plan
          /\ TakesSlot(inFlight, e, p) \in [Level -> SUBSET Plan]
          /\ cancelledIds' \in [Plan -> SUBSET Plan]
      BY <2>2, <2>3 DEF TypeOK, PlanStatus, Topics, TakesSlot
    <2> QED BY <2>2, <2>3, <2>4, OnePassType
  <1>10. ASSUME DropPaused PROVE TypeOK'
    <2>1. PICK l \in Level :
            /\ IsChosen(queues, inFlight, l)
            /\ queues' = Popped(queues, l)
            /\ inFlight' = SlotReleased(
                 TakesSlot(inFlight, EffectiveLevel(Head(queues[l])),
                           Head(queues[l]).plan), Head(queues[l]).plan)
      BY <1>10 DEF DropPaused
    <2>2. /\ queues' \in [Level -> Seq(QueueItem)]
          /\ Head(queues[l]).plan \in Plan
          /\ EffectiveLevel(Head(queues[l])) \in Level
      BY <2>1, ChosenHeadProperties DEF TypeOK
    <2>3. TakesSlot(inFlight, EffectiveLevel(Head(queues[l])), Head(queues[l]).plan)
            \in [Level -> SUBSET Plan]
      BY <2>2 DEF TypeOK, TakesSlot
    <2>4. inFlight' \in [Level -> SUBSET Plan]
      BY <2>1, <2>3, SlotReleasedProperties
    <2> QED BY <1>10, <2>2, <2>4 DEF DropPaused, TypeOK
  <1>11. ASSUME WaitForItem PROVE TypeOK'
    BY <1>11 DEF WaitForItem, TypeOK
  <1>12. ASSUME StartStep PROVE TypeOK'
    <2>1. PICK i \in DOMAIN Steps[current] :
            LET s == Steps[current][i]
                told == s \in cancelledIds[current]
            IN  /\ s \in unstarted
                /\ unstarted' = unstarted \ {s}
                /\ step' = [step EXCEPT ![s] = IF told THEN "cancelled" ELSE "running"]
                /\ executing' = IF told THEN executing ELSE executing \cup {s}
                /\ runs' = IF told THEN runs ELSE [runs EXCEPT ![s] = @ + 1]
      BY <1>12 DEF StartStep
    <2> QED BY <1>12, <2>1 DEF StartStep, TypeOK, StepStatus
  <1>13. ASSUME NEW s \in Step, StepSucceeds(s) \/ StepFails(s) \/ StepCut(s) PROVE TypeOK'
    BY <1>13 DEF StepSucceeds, StepFails, StepCut, EndStep, TypeOK, StepStatus
  <1>14. ASSUME current \in Plan,
                OnePass(current, cancelledIds[current], active, lastEvent,
                        executors, inFlight),
                UNCHANGED <<queues, cancelledIds>>
         PROVE  TypeOK'
    BY <1>14, OnePassType DEF TypeOK, Topics
  <1>t. ASSUME BatchDone \/ Poll PROVE TypeOK'
    BY <1>14, <1>t DEF BatchDone, Poll, LoopInv
  <1>15. ASSUME Tick PROVE TypeOK'
    <2>1. queues' \in [Level -> Seq(QueueItem)]
      BY <1>15, OlderQueuesProperties DEF Tick, TypeOK
    <2> QED BY <1>15, <2>1 DEF Tick, TypeOK
  <1>16. ASSUME UNCHANGED vars PROVE TypeOK'
    BY <1>16 DEF vars, TypeOK
  <1> QED BY <1>1, <1>2, <1>3, <1>4, <1>5, <1>6, <1>7, <1>8, <1>9, <1>10,
             <1>11, <1>12, <1>13, <1>t, <1>15, <1>16
          DEF Next, UserStep, LoopStep

-----------------------------------------------------------------------------
(* The steps of the system as the proofs below see them: what each does to *)
(* the steps' statuses, to the loop and to the histories.                  *)

(* Nothing happens to any step.                                            *)
QuietStep ==
    /\ UNCHANGED <<step, current, unstarted, executing, runs, rollbacks,
                   disturbed, interrupted>>
    /\ \/ loop' = loop /\ running' = running
       \/ /\ loop \notin {"gather", "polling"}
          /\ loop' \in {"trying", "waiting"}
          /\ running' = TRUE

LEMMA QuietSteps ==
    ASSUME LoopInv,
           \/ \E p \in Plan : Submit(p) \/ Pause(p) \/ Resume(p)
           \/ \E p \in Plan, s \in Step : CheckpointStep(p, s)
           \/ Start \/ DropPaused \/ WaitForItem \/ Tick
           \/ UNCHANGED vars
    PROVE  QuietStep
  <1> USE DEF planVars, queueVars, loopVars, execVars, cpVars, histVars,
              QuietStep, LoopInv
  <1>1. ASSUME NEW p \in Plan, Submit(p) \/ Pause(p) \/ Resume(p)
        PROVE  QuietStep
    BY <1>1 DEF Submit, Pause, Resume, EnqueuePlan, SetStatus
  <1>2. ASSUME NEW p \in Plan, NEW s \in Step, CheckpointStep(p, s)
        PROVE  QuietStep
    BY <1>2 DEF CheckpointStep
  <1>3. CASE Start
    BY <1>3 DEF Start
  <1>4. CASE DropPaused
    BY <1>4 DEF DropPaused
  <1>5. CASE WaitForItem
    BY <1>5 DEF WaitForItem
  <1>6. CASE Tick
    BY <1>6 DEF Tick
  <1>7. CASE UNCHANGED vars
    BY <1>7 DEF vars
  <1> QED BY <1>1, <1>2, <1>3, <1>4, <1>5, <1>6, <1>7

(* A pass of the executor's loop over plan p, with nothing in flight.      *)
PassStep(p, ids) ==
    /\ PassEffect(p, ids)
    /\ ids \cap Step = {}
    /\ InFlightSteps = {}
    /\ running

LEMMA PassSteps ==
    ASSUME TypeOK, LoopInv, Dispatch \/ BatchDone \/ Poll
    PROVE  \E p \in Plan : \E ids : PassStep(p, ids)
  <1>1. ASSUME Dispatch PROVE \E p \in Plan : \E ids : PassStep(p, ids)
    <2>1. PICK l \in Level :
            /\ IsChosen(queues, inFlight, l)
            /\ OnePass(Head(queues[l]).plan, {},
                       [active EXCEPT ![Head(queues[l]).plan] = "running"],
                       [lastEvent EXCEPT ![Head(queues[l]).plan] = "started"],
                       executors \cup {Head(queues[l]).plan},
                       TakesSlot(inFlight, EffectiveLevel(Head(queues[l])),
                                 Head(queues[l]).plan))
      BY <1>1 DEF Dispatch
    <2>2. Head(queues[l]).plan \in Plan
      BY <2>1, ChosenHeadProperties DEF TypeOK
    <2>3. PassEffect(Head(queues[l]).plan, {})
      BY <2>1, OnePassEffect
    <2> QED BY <1>1, <2>2, <2>3 DEF Dispatch, LoopInv, PassStep
  <1>2. ASSUME BatchDone \/ Poll PROVE \E p \in Plan : \E ids : PassStep(p, ids)
    <2>1. current \in Plan /\ InFlightSteps = {} /\ running
      BY <1>2 DEF BatchDone, Poll, LoopInv, InFlightSteps
    <2>2. PassEffect(current, cancelledIds[current])
      BY <1>2, OnePassEffect DEF BatchDone, Poll
    <2>3. cancelledIds[current] \cap Step = {}
      BY <2>1, IdsAssumption DEF TypeOK
    <2> QED BY <2>1, <2>2, <2>3 DEF PassStep
  <1> QED BY <1>1, <1>2

(* A step task of the batch reaches step_executor.  (Its id is never in    *)
(* the executor's set of cancelled ids, which holds ids of plans.)         *)
StepStarts(s) ==
    /\ loop = "gather"
    /\ s \in unstarted
    /\ unstarted' = unstarted \ {s}
    /\ step' = [step EXCEPT ![s] = "running"]
    /\ executing' = executing \cup {s}
    /\ runs' = [runs EXCEPT ![s] = @ + 1]
    /\ UNCHANGED <<loop, running, current, rollbacks, disturbed, interrupted>>

LEMMA StartSteps ==
    ASSUME TypeOK, LoopInv, StartStep
    PROVE  \E s \in Step : StepStarts(s)
  <1>1. PICK i \in DOMAIN Steps[current] :
          LET s == Steps[current][i]
              told == s \in cancelledIds[current]
          IN  /\ s \in unstarted
              /\ unstarted' = unstarted \ {s}
              /\ step' = [step EXCEPT ![s] = IF told THEN "cancelled" ELSE "running"]
              /\ executing' = IF told THEN executing ELSE executing \cup {s}
              /\ runs' = IF told THEN runs ELSE [runs EXCEPT ![s] = @ + 1]
    BY DEF StartStep
  <1>2. current \in Plan /\ cancelledIds[current] \subseteq Plan
    BY DEF StartStep, LoopInv, TypeOK
  <1>3. Steps[current][i] \in Step /\ Steps[current][i] \notin cancelledIds[current]
    BY <1>1, <1>2, IdsAssumption DEF TypeOK
  <1>4. StepStarts(Steps[current][i])
    BY <1>1, <1>3 DEF StartStep, StepStarts
  <1> QED BY <1>3, <1>4

StepEnds(s, status) ==
    /\ s \in executing
    /\ step' = [step EXCEPT ![s] = status]
    /\ executing' = executing \ {s}
    /\ UNCHANGED <<running, loop, current, unstarted, runs, rollbacks,
                   disturbed, interrupted>>

LEMMA EndSteps ==
    ASSUME NEW s \in Step, StepSucceeds(s) \/ StepFails(s) \/ StepCut(s)
    PROVE  StepEnds(s, "succeeded") \/ StepEnds(s, "failed") \/ StepEnds(s, step[s])
  BY DEF StepSucceeds, StepFails, StepCut, EndStep, StepEnds, histVars

(* rollback: the steps listed after the i-th are pending again.            *)
RolledBack(p, i) ==
    /\ i \in DOMAIN Steps[p]
    /\ step' = [s \in Step |-> IF \E j \in DOMAIN Steps[p] :
                                    i < j /\ Steps[p][j] = s
                               THEN "pending" ELSE step[s]]
    /\ rollbacks' = [rollbacks EXCEPT ![p] = @ + 1]
    /\ disturbed' = IF p = current \/ ~Topological(p)
                    THEN disturbed \cup {p} ELSE disturbed
    /\ loop' = IF loop = "waiting" THEN "trying" ELSE loop
    /\ UNCHANGED <<running, current, unstarted, executing, runs, interrupted>>

LEMMA RollbackSteps ==
    ASSUME NEW p \in Plan, NEW n, Rollback(p, n)
    PROVE  \E i \in DOMAIN Steps[p] : RolledBack(p, i)
  <1>1. PICK k \in DOMAIN checkpoints[p] :
          \E i \in DOMAIN Steps[p] :
            step' = [s \in Step |-> IF \E j \in DOMAIN Steps[p] :
                                       i < j /\ Steps[p][j] = s
                                  THEN "pending" ELSE step[s]]
    BY DEF Rollback
  <1>2. PICK i \in DOMAIN Steps[p] :
          step' = [s \in Step |-> IF \E j \in DOMAIN Steps[p] :
                                     i < j /\ Steps[p][j] = s
                                THEN "pending" ELSE step[s]]
    BY <1>1
  <1>3. RolledBack(p, i)
    BY <1>2 DEF Rollback, EnqueuePlan, RolledBack
  <1> QED BY <1>3

Cancelled(p) ==
    /\ step' = [s \in Step |-> IF s \in StepsOf(p) /\ step[s] \notin Terminal
                               THEN "cancelled" ELSE step[s]]
    /\ UNCHANGED <<running, loop, current, unstarted, executing, runs,
                   rollbacks, disturbed, interrupted>>

LEMMA CancelSteps ==
    ASSUME NEW p \in Plan, Cancel(p)
    PROVE  Cancelled(p)
  BY DEF Cancel, Cancelled, loopVars, histVars

Stopped ==
    /\ running' = FALSE /\ loop' = "none" /\ current' = NoPlan
    /\ unstarted' = {} /\ executing' = {}
    /\ interrupted' = interrupted \cup ({current} \cap Plan)
    /\ UNCHANGED <<step, runs, rollbacks, disturbed>>

LEMMA StopSteps ==
    ASSUME Stop
    PROVE  Stopped
  BY DEF Stop, Stopped, planVars

(* Every step is one of these seven.                                       *)
LEMMA StepCases ==
    ASSUME TypeOK, LoopInv, [Next]_vars
    PROVE  \/ QuietStep
           \/ \E p \in Plan : Cancelled(p)
           \/ \E p \in Plan : \E i \in DOMAIN Steps[p] : RolledBack(p, i)
           \/ Stopped
           \/ \E p \in Plan : \E ids : PassStep(p, ids)
           \/ \E s \in Step : StepStarts(s)
           \/ \E s \in Step : \/ StepEnds(s, "succeeded") \/ StepEnds(s, "failed")
                              \/ StepEnds(s, step[s])
  BY QuietSteps, CancelSteps, RollbackSteps, StopSteps, PassSteps, StartSteps,
     EndSteps
  DEF Next, UserStep, LoopStep

-----------------------------------------------------------------------------
(* The invariant of the dispatch loop.                                     *)

LEMMA LoopInit == Init => LoopInv
  BY IdsAssumption DEF Init, LoopInv, InFlightSteps

LEMMA LoopNext == TypeOK /\ LoopInv /\ [Next]_vars => LoopInv'
  <1> SUFFICES ASSUME TypeOK, LoopInv, [Next]_vars PROVE LoopInv'
    OBVIOUS
  <1>0. step \in [Step -> StepStatus] /\ unstarted \subseteq Step /\ executing \subseteq Step
    BY DEF TypeOK
  <1> USE DEF LoopInv, InFlightSteps
  <1>1. CASE QuietStep
    BY <1>1 DEF QuietStep
  <1>2. ASSUME NEW p \in Plan, Cancelled(p) PROVE LoopInv'
    BY <1>0, <1>2 DEF Cancelled
  <1>3. ASSUME NEW p \in Plan, NEW i \in DOMAIN Steps[p], RolledBack(p, i)
        PROVE  LoopInv'
    <2>1. \A s \in InFlightSteps' : step'[s] \notin {"succeeded", "failed", "skipped"}
      BY <1>0, <1>3 DEF RolledBack
    <2> QED BY <1>3, <2>1 DEF RolledBack
  <1>4. CASE Stopped
    BY <1>4, IdsAssumption DEF Stopped
  <1>5. ASSUME NEW p \in Plan, NEW ids, PassStep(p, ids) PROVE LoopInv'
    <2>1. CASE /\ loop' = "gather" /\ current' = p
               /\ unstarted' = {s \in StepsOf(p) : IsReady(p, ids, s)}
               /\ step' = [s \in Step |-> IF IsReady(p, ids, s) THEN "ready" ELSE step[s]]
      <3>1. executing' = {} /\ running'
        BY <1>5 DEF PassStep, PassEffect
      <3>2. \A s \in unstarted' : step'[s] = "ready"
        BY <2>1, StepsOfType
      <3> QED BY <2>1, <3>1, <3>2
    <2>2. CASE unstarted' = {} /\ executing' = {}
      BY <1>5, <2>2, IdsAssumption DEF PassStep, PassEffect
    <2> QED BY <1>5, <2>1, <2>2 DEF PassStep, PassEffect
  <1>6. ASSUME NEW s \in Step, StepStarts(s) PROVE LoopInv'
    BY <1>0, <1>6 DEF StepStarts
  <1>7. ASSUME NEW s \in Step,
               \/ StepEnds(s, "succeeded") \/ StepEnds(s, "failed") \/ StepEnds(s, step[s])
        PROVE  LoopInv'
    BY <1>0, <1>7 DEF StepEnds
  <1> QED BY <1>1, <1>2, <1>3, <1>4, <1>5, <1>6, <1>7, StepCases

Inv == TypeOK /\ LoopInv

LEMMA InvInit == Init => Inv
  BY TypeInit, LoopInit DEF Inv

LEMMA InvNext == Inv /\ [Next]_vars => Inv'
  BY TypeNext, LoopNext DEF Inv

(* The state stays within its types; while the loop is in a plan, that     *)
(* plan is the current one.                                                *)
THEOREM TypeCorrect == Spec => []TypeOK
  <1>1. Inv => TypeOK
    BY DEF Inv
  <1> QED BY <1>1, InvInit, InvNext, PTL DEF Spec

-----------------------------------------------------------------------------
(* Ended steps are frozen.                                                 *)

LEMMA FrozenStep ==
    ASSUME Inv, [Next]_vars, NEW s \in Owned,
           step[s] \in Terminal, s \notin InFlightSteps,
           rollbacks'[PlanOf(s)] = rollbacks[PlanOf(s)]
    PROVE  step'[s] = step[s]
  <1>0. /\ s \in Step /\ PlanOf(s) \in Plan /\ s \in StepsOf(PlanOf(s))
        /\ step \in [Step -> StepStatus]
        /\ rollbacks \in [Plan -> Nat]
    BY OwnerOf DEF Inv, TypeOK
  <1>1. CASE QuietStep \/ Stopped
    BY <1>1 DEF QuietStep, Stopped
  <1>2. ASSUME NEW p \in Plan, Cancelled(p) PROVE step'[s] = step[s]
    BY <1>0, <1>2 DEF Cancelled
  <1>3. ASSUME NEW p \in Plan, NEW i \in DOMAIN Steps[p], RolledBack(p, i)
        PROVE  step'[s] = step[s]
    <2>1. p # PlanOf(s)
      BY <1>0, <1>3 DEF RolledBack
    <2>2. s \notin StepsOf(p)
      BY <2>1, PlanOfOwner
    <2> QED BY <1>0, <1>3, <2>2 DEF RolledBack, StepsOf
  <1>4. ASSUME NEW p \in Plan, NEW ids, PassStep(p, ids) PROVE step'[s] = step[s]
    BY <1>0, <1>4 DEF PassStep, PassEffect, IsReady, BlockedSkipped, Terminal
  <1>5. ASSUME NEW r \in Step, StepStarts(r) PROVE step'[s] = step[s]
    BY <1>0, <1>5 DEF StepStarts, InFlightSteps
  <1>6. ASSUME NEW r \in Step,
               \/ StepEnds(r, "succeeded") \/ StepEnds(r, "failed") \/ StepEnds(r, step[r])
        PROVE  step'[s] = step[s]
    BY <1>0, <1>6 DEF StepEnds, InFlightSteps
  <1> QED BY <1>1, <1>2, <1>3, <1>4, <1>5, <1>6, StepCases DEF Inv

(* Once a step has ended and its result is in, only a rollback changes it. *)
THEOREM EndedStepsCorrect == Spec => EndedStepsFrozen
  <1> DEFINE Frozen == \A s \in Owned :
                step[s] \in Terminal /\ s \notin InFlightSteps
                /\ rollbacks'[PlanOf(s)] = rollbacks[PlanOf(s)]
                => step'[s] = step[s]
  <1>1. Inv /\ [Next]_vars => [Frozen]_vars
    BY FrozenStep
  <1> HIDE DEF Frozen
  <1>2. Spec => [][Frozen]_vars
    BY <1>1, InvInit, InvNext, PTL DEF Spec
  <1> QED BY <1>2 DEF EndedStepsFrozen, Frozen

-----------------------------------------------------------------------------
(* Executions.  A step that is pending, or whose task has not passed the   *)
(* semaphore, still has one execution ahead of it; counting that one makes *)
(* the bound inductive.                                                    *)

Owes(s) == IF step[s] = "pending" \/ s \in unstarted THEN 1 ELSE 0

Budget == \A s \in Owned : runs[s] + Owes(s) <= 1 + rollbacks[PlanOf(s)]

LEMMA BudgetNext == Inv /\ Budget /\ [Next]_vars => Budget'
  <1> SUFFICES ASSUME Inv, Budget, [Next]_vars, NEW s \in Owned
               PROVE  runs'[s] + Owes(s)' <= 1 + rollbacks'[PlanOf(s)]
    BY DEF Budget
  <1> DEFINE o == PlanOf(s)
  <1>0. /\ s \in Step /\ o \in Plan /\ s \in StepsOf(o)
        /\ step \in [Step -> StepStatus]
        /\ rollbacks \in [Plan -> Nat] /\ runs \in [Step -> Nat]
    BY OwnerOf DEF Inv, TypeOK
  <1>b. runs[s] + Owes(s) <= 1 + rollbacks[o] /\ runs[s] \in Nat /\ rollbacks[o] \in Nat
    BY <1>0 DEF Budget
  <1> HIDE DEF o
  <1>g. SUFFICES runs'[s] + Owes(s)' <= 1 + rollbacks'[o]
    BY DEF o
  <1>k. ASSUME runs' = runs, rollbacks' = rollbacks, Owes(s)' <= Owes(s)
        PROVE  runs'[s] + Owes(s)' <= 1 + rollbacks'[o]
    <2>1. Owes(s) \in Nat /\ Owes(s)' \in Nat
      BY DEF Owes
    <2> QED BY <1>b, <1>k, <2>1
  <1>1. CASE QuietStep
    BY <1>1, <1>k DEF QuietStep, Owes
  <1>2. ASSUME NEW p \in Plan, Cancelled(p)
        PROVE  runs'[s] + Owes(s)' <= 1 + rollbacks'[o]
    BY <1>0, <1>2, <1>k DEF Cancelled, Owes
  <1>3. ASSUME NEW p \in Plan, NEW i \in DOMAIN Steps[p], RolledBack(p, i)
        PROVE  runs'[s] + Owes(s)' <= 1 + rollbacks'[o]
    <2>1. CASE p = o
      <3>1. rollbacks'[o] = rollbacks[o] + 1 /\ runs' = runs
        BY <1>0, <1>3, <2>1 DEF RolledBack
      <3>2. Owes(s) \in Nat /\ Owes(s)' \in 0..1
        BY DEF Owes
      <3> QED BY <1>b, <3>1, <3>2
    <2>2. CASE p # o
      <3>1. s \notin StepsOf(p)
        BY <2>2, PlanOfOwner DEF o
      <3>2. step'[s] = step[s] /\ unstarted' = unstarted /\ runs' = runs
        BY <1>0, <1>3, <3>1 DEF RolledBack, StepsOf
      <3>3. rollbacks'[o] = rollbacks[o]
        BY <1>0, <1>3, <2>2 DEF RolledBack
      <3>4. Owes(s)' = Owes(s)
        BY <3>2 DEF Owes
      <3> QED BY <1>b, <3>2, <3>3, <3>4
    <2> QED BY <2>1, <2>2
  <1>4. CASE Stopped
    BY <1>4, <1>k DEF Stopped, Owes
  <1>5. ASSUME NEW p \in Plan, NEW ids, PassStep(p, ids)
        PROVE  runs'[s] + Owes(s)' <= 1 + rollbacks'[o]
    <2>1. Owes(s)' <= Owes(s)
      BY <1>0, <1>5 DEF PassStep, PassEffect, InFlightSteps, IsReady,
                        BlockedSkipped, Owes
    <2> QED BY <1>5, <1>k, <2>1 DEF PassStep, PassEffect, histVars
  <1>6. ASSUME NEW r \in Step, StepStarts(r)
        PROVE  runs'[s] + Owes(s)' <= 1 + rollbacks'[o]
    <2>1. CASE r = s
      <3>1. runs'[s] = runs[s] + 1 /\ rollbacks' = rollbacks
        BY <1>0, <1>6, <2>1 DEF StepStarts
      <3>2. Owes(s) = 1 /\ Owes(s)' = 0
        BY <1>0, <1>6, <2>1 DEF StepStarts, Owes
      <3> QED BY <1>b, <3>1, <3>2
    <2>2. CASE r # s
      <3>1. runs'[s] = runs[s] /\ rollbacks' = rollbacks
        BY <1>0, <1>6, <2>2 DEF StepStarts
      <3>2. Owes(s)' = Owes(s)
        BY <1>0, <1>6, <2>2 DEF StepStarts, Owes
      <3> QED BY <1>b, <3>1, <3>2
    <2> QED BY <2>1, <2>2
  <1>7. ASSUME NEW r \in Step,
               \/ StepEnds(r, "succeeded") \/ StepEnds(r, "failed") \/ StepEnds(r, step[r])
        PROVE  runs'[s] + Owes(s)' <= 1 + rollbacks'[o]
    BY <1>0, <1>7, <1>k DEF StepEnds, Owes
  <1> QED BY <1>1, <1>2, <1>3, <1>4, <1>5, <1>6, <1>7, StepCases DEF Inv

(* However often a plan is queued and executed again, none of its steps is *)
(* executed more than once, plus once per rollback of the plan.            *)
THEOREM ExecutionsCorrect == Spec => []ExecutedAtMostOnce
  <1>1. Init => Budget
    <2> SUFFICES ASSUME Init, NEW s \in Owned
                 PROVE  runs[s] + Owes(s) <= 1 + rollbacks[PlanOf(s)]
      BY DEF Budget
    <2> QED BY OwnerOf DEF Init, Owes
  <1>2. Inv /\ Budget => ExecutedAtMostOnce
    <2> SUFFICES ASSUME Inv, Budget, NEW s \in Owned
                 PROVE  runs[s] <= 1 + rollbacks[PlanOf(s)]
      BY DEF ExecutedAtMostOnce
    <2>1. s \in Step /\ PlanOf(s) \in Plan
      BY OwnerOf
    <2>2. runs[s] \in Nat /\ rollbacks[PlanOf(s)] \in Nat /\ Owes(s) \in Nat
      BY <2>1 DEF Inv, TypeOK, Owes
    <2>3. runs[s] + Owes(s) <= 1 + rollbacks[PlanOf(s)]
      BY DEF Budget
    <2> QED BY <2>2, <2>3
  <1> QED BY <1>1, <1>2, InvInit, InvNext, BudgetNext, PTL DEF Spec

-----------------------------------------------------------------------------
(* Dependencies.                                                           *)

Dispatched(s) == step[s] \in {"ready", "running", "succeeded"} \/ s \in InFlightSteps

LEMMA DependencyOf ==
    ASSUME NEW s \in Owned, NEW d \in DependsOn[s]
    PROVE  d \in Owned /\ PlanOf(d) = PlanOf(s) /\ d \in StepsOf(PlanOf(s)) /\ d \in Step
  <1>1. PlanOf(s) \in Plan /\ s \in StepsOf(PlanOf(s))
    BY OwnerOf
  <1>2. d \in StepsOf(PlanOf(s))
    BY <1>1, DependsOnAssumption
  <1> QED BY <1>1, <1>2, PlanOfOwner, StepsOfType

LEMMA DependenciesNext == Inv /\ DependenciesMet /\ [Next]_vars => DependenciesMet'
  <1> SUFFICES ASSUME Inv, DependenciesMet, [Next]_vars, NEW s \in Owned,
                      Dispatched(s)', PlanOf(s) \notin disturbed',
                      NEW d \in DependsOn[s]
               PROVE  step'[d] = "succeeded"
    BY DEF DependenciesMet, Dispatched
  <1>0. /\ s \in Step /\ PlanOf(s) \in Plan /\ s \in StepsOf(PlanOf(s))
        /\ d \in Step /\ d \in StepsOf(PlanOf(s)) /\ step \in [Step -> StepStatus]
    BY OwnerOf, DependencyOf DEF Inv, TypeOK
  <1>d. Dispatched(s) /\ PlanOf(s) \notin disturbed => step[d] = "succeeded"
    BY DEF DependenciesMet, Dispatched
  <1>f. d \in InFlightSteps => step[d] # "succeeded"
    BY DEF Inv, LoopInv
  <1>1. CASE QuietStep
    BY <1>1, <1>d DEF QuietStep, Dispatched, InFlightSteps
  <1>2. ASSUME NEW p \in Plan, Cancelled(p) PROVE step'[d] = "succeeded"
    <2>1. Dispatched(s) /\ PlanOf(s) \notin disturbed
      BY <1>0, <1>2 DEF Cancelled, Dispatched, InFlightSteps
    <2> QED BY <1>0, <1>2, <1>d, <2>1 DEF Cancelled, Terminal
  <1>3. ASSUME NEW p \in Plan, NEW i \in DOMAIN Steps[p], RolledBack(p, i)
        PROVE  step'[d] = "succeeded"
    <2> DEFINE Later(x) == \E j \in DOMAIN Steps[p] : i < j /\ Steps[p][j] = x
    <2>0. /\ InFlightSteps' = InFlightSteps
          /\ PlanOf(s) \notin disturbed
          /\ \A x \in Step : step'[x] = IF Later(x) THEN "pending" ELSE step[x]
      BY <1>3 DEF RolledBack, InFlightSteps
    <2>1. CASE p # PlanOf(s)
      <3>1. s \notin StepsOf(p) /\ d \notin StepsOf(p)
        BY <1>0, <2>1, PlanOfOwner
      <3>2. ~Later(s) /\ ~Later(d)
        BY <3>1 DEF StepsOf
      <3> QED BY <1>0, <1>d, <2>0, <3>2 DEF Dispatched
    <2>2. CASE p = PlanOf(s)
      <3>1. p # current /\ Topological(p)
        BY <1>3, <2>2 DEF RolledBack
      <3>2. s \notin InFlightSteps
        <4>1. CASE loop = "gather"
          <5>1. current \in Plan /\ InFlightSteps \subseteq StepsOf(current)
            BY <4>1 DEF Inv, LoopInv
          <5>2. s \notin StepsOf(current)
            BY <2>2, <3>1, <5>1, PlanOfOwner
          <5> QED BY <5>1, <5>2
        <4>2. CASE loop # "gather"
          BY <4>2 DEF Inv, LoopInv
        <4> QED BY <4>1, <4>2
      <3>3. ~Later(s) /\ Dispatched(s)
        BY <1>0, <2>0, <3>2 DEF Dispatched
      <3>4. ~Later(d)
        <4>1. PICK k \in DOMAIN Steps[p] : Steps[p][k] = s
          BY <1>0, <2>2 DEF StepsOf
        <4>2. /\ DOMAIN Steps[p] = 1..Len(Steps[p]) /\ Len(Steps[p]) \in Nat
              /\ k <= i
          BY <3>3, <4>1, StepsOfType
        <4>3. \A j \in DOMAIN Steps[p] : Steps[p][j] = d => j < k
          BY <3>1, <4>1 DEF Topological
        <4> QED BY <4>2, <4>3
      <3> QED BY <1>0, <1>d, <2>0, <3>3, <3>4
    <2> QED BY <2>1, <2>2
  <1>4. CASE Stopped
    BY <1>4, <1>d DEF Stopped, Dispatched, InFlightSteps
  <1>5. ASSUME NEW p \in Plan, NEW ids, PassStep(p, ids) PROVE step'[d] = "succeeded"
    <2>0. disturbed' = disturbed /\ InFlightSteps = {} /\ executing' = {}
      BY <1>5 DEF PassStep, PassEffect, InFlightSteps, histVars
    <2>1. CASE IsReady(p, ids, s) /\ unstarted' = {x \in StepsOf(p) : IsReady(p, ids, x)}
               /\ step' = [x \in Step |-> IF IsReady(p, ids, x) THEN "ready" ELSE step[x]]
      <3>1. step[d] = "succeeded"
        BY <2>1 DEF IsReady
      <3>2. ~IsReady(p, ids, d)
        BY <3>1 DEF IsReady
      <3> QED BY <1>0, <2>1, <3>1, <3>2
    <2>2. CASE ~IsReady(p, ids, s) /\ unstarted' = {x \in StepsOf(p) : IsReady(p, ids, x)}
               /\ step' = [x \in Step |-> IF IsReady(p, ids, x) THEN "ready" ELSE step[x]]
      <3>1. Dispatched(s)
        BY <1>0, <2>0, <2>2 DEF Dispatched, InFlightSteps
      <3>2. step[d] = "succeeded"
        BY <1>d, <2>0, <3>1
      <3>3. ~IsReady(p, ids, d)
        BY <3>2 DEF IsReady
      <3> QED BY <1>0, <2>2, <3>2, <3>3
    <2>3. CASE step' = step /\ unstarted' = unstarted
      BY <1>d, <2>0, <2>3 DEF Dispatched, InFlightSteps
    <2>4. CASE step' = BlockedSkipped(p) /\ unstarted' = unstarted
      <3>1. Dispatched(s)
        BY <1>0, <2>0, <2>4 DEF Dispatched, InFlightSteps, BlockedSkipped
      <3> QED BY <1>0, <1>d, <2>0, <2>4, <3>1 DEF BlockedSkipped
    <2> QED BY <1>5, <2>1, <2>2, <2>3, <2>4 DEF PassStep, PassEffect
  <1>6. ASSUME NEW r \in Step, StepStarts(r) PROVE step'[d] = "succeeded"
    <2>1. Dispatched(s) /\ PlanOf(s) \notin disturbed
      BY <1>0, <1>6 DEF StepStarts, Dispatched, InFlightSteps
    <2>2. d # r
      BY <1>6, <1>d, <1>f, <2>1 DEF StepStarts, InFlightSteps
    <2> QED BY <1>0, <1>6, <1>d, <2>1, <2>2 DEF StepStarts
  <1>7. ASSUME NEW r \in Step,
               \/ StepEnds(r, "succeeded") \/ StepEnds(r, "failed") \/ StepEnds(r, step[r])
        PROVE  step'[d] = "succeeded"
    <2>1. Dispatched(s) /\ PlanOf(s) \notin disturbed
      BY <1>0, <1>7 DEF StepEnds, Dispatched, InFlightSteps
    <2>2. d # r
      BY <1>7, <1>d, <1>f, <2>1 DEF StepEnds, InFlightSteps
    <2> QED BY <1>0, <1>7, <1>d, <2>1, <2>2 DEF StepEnds
  <1> QED BY <1>1, <1>2, <1>3, <1>4, <1>5, <1>6, <1>7, StepCases DEF Inv

(* A step that is dispatched or done has its dependencies done, in every   *)
(* plan that no rollback disturbed.                                        *)
THEOREM DependenciesCorrect == Spec => []DependenciesMet
  <1>1. Init => DependenciesMet
    <2> SUFFICES ASSUME Init, NEW s \in Owned
                 PROVE  ~(step[s] \in {"ready", "running", "succeeded"} \/ s \in InFlightSteps)
      BY DEF DependenciesMet
    <2> QED BY OwnerOf DEF Init, InFlightSteps
  <1> QED BY <1>1, InvInit, InvNext, DependenciesNext, PTL DEF Spec

-----------------------------------------------------------------------------
(* The orchestrator implements StepDataflow.                               *)

(* What an observer sees of a step with status st; Seen(s) is Progress[s]. *)
Outcome(st) ==
    CASE st = "pending"                    -> "idle"
      [] st \in {"ready", "running"}       -> "lost"
      [] st = "succeeded"                  -> "done"
      [] st = "failed"                     -> "failed"
      [] st \in {"skipped", "cancelled"}   -> "dropped"

Seen(s) == IF s \in InFlightSteps THEN "busy" ELSE Outcome(step[s])

LEMMA OutcomeValues ==
    /\ Outcome("pending") = "idle"
    /\ Outcome("ready") = "lost" /\ Outcome("running") = "lost"
    /\ Outcome("succeeded") = "done"
    /\ Outcome("failed") = "failed"
    /\ Outcome("skipped") = "dropped" /\ Outcome("cancelled") = "dropped"
  BY DEF Outcome

LEMMA ProgressSeen ==
    /\ Progress = [s \in Step |-> Seen(s)]
    /\ Progress' = [s \in Step |-> Seen(s)']
  BY DEF Progress, Seen, Outcome

LEMMA MovedBy ==
    ASSUME NEW S, NEW to,
           \A s \in Step : Seen(s)' = IF s \in S THEN to ELSE Seen(s)
    PROVE  Dataflow!Moved(S, to)
  <1>1. Progress' = [s \in Step |-> IF s \in S THEN to ELSE Progress[s]]
    BY ProgressSeen
  <1> QED BY <1>1 DEF Dataflow!Moved

LEMMA InSeen ==
    ASSUME NEW from
    PROVE  Dataflow!In(from) = {s \in Step : Seen(s) \in from}
  BY ProgressSeen DEF Dataflow!In

LEMMA RefinementInit == Init => Dataflow!Init
  BY ProgressSeen, OutcomeValues DEF Init, Seen, InFlightSteps, Dataflow!Init

LEMMA RefinementNext == Inv /\ [Next]_vars => [Dataflow!Next]_Progress
  <1> SUFFICES ASSUME Inv, [Next]_vars
               PROVE  Dataflow!Next \/ Progress' = Progress
    OBVIOUS
  <1> USE OutcomeValues
  <1>0. /\ step \in [Step -> StepStatus]
        /\ \A s \in InFlightSteps : step[s] \notin {"succeeded", "failed", "skipped"}
        /\ InFlightSteps \subseteq Step
        /\ unstarted \cap executing = {}
    BY DEF Inv, TypeOK, LoopInv, InFlightSteps
  <1>k. ASSUME \A s \in Step : Seen(s)' = Seen(s) PROVE Progress' = Progress
    BY <1>k, ProgressSeen
  <1>1. ASSUME QuietStep PROVE Progress' = Progress
    BY <1>1, <1>k DEF QuietStep, Seen, InFlightSteps
  <1>2. ASSUME NEW p \in Plan, Cancelled(p) PROVE Dataflow!Next
    <2> DEFINE S == {s \in StepsOf(p) : s \notin InFlightSteps /\ step[s] \notin Terminal}
    <2>1. S \subseteq Step /\ InFlightSteps' = InFlightSteps
      BY <1>2, StepsOfType DEF Cancelled, InFlightSteps
    <2>2. \A s \in S : Seen(s) \in {"idle", "lost"}
      BY <1>0, <2>1 DEF Seen, StepStatus, Terminal
    <2>3. \A s \in Step : Seen(s)' = IF s \in S THEN "dropped" ELSE Seen(s)
      BY <1>0, <1>2, <2>1 DEF Cancelled, Seen
    <2> HIDE DEF S
    <2>4. Dataflow!Moved(S, "dropped")
      BY <2>3, MovedBy
    <2>5. S \in SUBSET Dataflow!In({"idle", "lost"})
      BY <2>1, <2>2, InSeen
    <2>6. Dataflow!GiveUp
      BY <2>4, <2>5 DEF Dataflow!GiveUp
    <2> QED BY <2>6 DEF Dataflow!Next
  <1>3. ASSUME NEW p \in Plan, NEW i \in DOMAIN Steps[p], RolledBack(p, i)
        PROVE  Dataflow!Next
    <2> DEFINE S == {s \in Step : /\ \E j \in DOMAIN Steps[p] : i < j /\ Steps[p][j] = s
                                  /\ s \notin InFlightSteps}
    <2>1. \A s \in Step : Seen(s)' = IF s \in S THEN "idle" ELSE Seen(s)
      BY <1>0, <1>3 DEF RolledBack, Seen, InFlightSteps
    <2>2. \A s \in S : Seen(s) # "busy"
      BY <1>0 DEF Seen, StepStatus
    <2>3. S \subseteq Step
      OBVIOUS
    <2> HIDE DEF S
    <2>4. Dataflow!Moved(S, "idle")
      BY <2>1, MovedBy
    <2>5. S \in SUBSET (Step \ Dataflow!In({"busy"}))
      BY <2>2, <2>3, InSeen
    <2>6. Dataflow!Reset
      BY <2>4, <2>5 DEF Dataflow!Reset
    <2> QED BY <2>6 DEF Dataflow!Next
  <1>b. Dataflow!In({"busy"}) = InFlightSteps
    <2>1. \A s \in Step : Seen(s) = "busy" <=> s \in InFlightSteps
      BY <1>0 DEF Seen, StepStatus
    <2> QED BY <1>0, <2>1, InSeen
  <1>l. ASSUME NEW B \in SUBSET InFlightSteps, step' = step, InFlightSteps' = InFlightSteps \ B
        PROVE  Dataflow!Next
    <2> DEFINE f == [s \in B |-> Outcome(step[s])]
    <2>1. f \in [B -> {"lost", "dropped", "idle"}]
      BY <1>0 DEF StepStatus
    <2>2. \A s \in Step : Seen(s)' = IF s \in B THEN f[s] ELSE Seen(s)
      BY <1>l DEF Seen
    <2>3. Progress' = [s \in Step |-> IF s \in B THEN f[s] ELSE Progress[s]]
      BY <2>2, ProgressSeen
    <2>4. Dataflow!Lose
      BY <1>b, <2>1, <2>3 DEF Dataflow!Lose
    <2> QED BY <2>4 DEF Dataflow!Next
  <1>4. ASSUME Stopped PROVE Dataflow!Next
    <2>1. step' = step /\ InFlightSteps' = InFlightSteps \ InFlightSteps
      BY <1>4 DEF Stopped, InFlightSteps
    <2> QED BY <1>l, <2>1
  <1>5. ASSUME NEW p \in Plan, NEW ids, PassStep(p, ids)
        PROVE  Dataflow!Next \/ Progress' = Progress
    <2>0. InFlightSteps = {} /\ InFlightSteps' = unstarted'
      BY <1>5 DEF PassStep, PassEffect, InFlightSteps
    <2>1. ASSUME unstarted' = {s \in StepsOf(p) : IsReady(p, ids, s)},
                 step' = [s \in Step |-> IF IsReady(p, ids, s) THEN "ready" ELSE step[s]]
          PROVE  Dataflow!Next
      <3> DEFINE S == {s \in StepsOf(p) : IsReady(p, ids, s)}
      <3>1. S \subseteq Step
        BY StepsOfType
      <3>2. \A s \in S : /\ Seen(s) = "idle"
                          /\ \A d \in DependsOn[s] : d \in Step /\ Seen(d) = "done"
        <4> SUFFICES ASSUME NEW s \in S
                     PROVE  /\ Seen(s) = "idle"
                            /\ \A d \in DependsOn[s] : d \in Step /\ Seen(d) = "done"
          OBVIOUS
        <4>1. step[s] = "pending" /\ \A d \in DependsOn[s] : step[d] = "succeeded"
          BY DEF IsReady
        <4>2. \A d \in DependsOn[s] : d \in Step
          BY DependsOnAssumption, StepsOfType
        <4> QED BY <2>0, <4>1, <4>2 DEF Seen
      <3>3. \A s \in Step : s \in S <=> IsReady(p, ids, s)
        BY DEF IsReady
      <3>4. \A s \in Step : Seen(s)' = IF s \in S THEN "busy" ELSE Seen(s)
        BY <1>0, <2>0, <2>1, <3>3 DEF Seen
      <3> HIDE DEF S
      <3>5. Dataflow!Moved(S, "busy")
        BY <3>4, MovedBy
      <3>6. S \in SUBSET Dataflow!In({"idle"})
        BY <3>1, <3>2, InSeen
      <3>7. \A s \in S : \A d \in DependsOn[s] : Progress[d] = "done"
        BY <3>2, ProgressSeen
      <3>8. Dataflow!Begin
        BY <3>5, <3>6, <3>7 DEF Dataflow!Begin
      <3> QED BY <3>8 DEF Dataflow!Next
    <2>2. ASSUME step' = step, unstarted' = unstarted PROVE Progress' = Progress
      BY <1>k, <2>0, <2>2 DEF Seen, InFlightSteps
    <2>3. ASSUME step' = BlockedSkipped(p), unstarted' = unstarted PROVE Dataflow!Next
      <3> DEFINE S == {s \in StepsOf(p) : step[s] = "pending"}
      <3>1. S \subseteq Step
        BY StepsOfType
      <3>2. \A s \in S : Seen(s) = "idle"
        BY <2>0 DEF Seen
      <3>3. \A s \in Step : Seen(s)' = IF s \in S THEN "dropped" ELSE Seen(s)
        BY <1>0, <2>0, <2>3 DEF Seen, BlockedSkipped, InFlightSteps
      <3> HIDE DEF S
      <3>4. Dataflow!Moved(S, "dropped")
        BY <3>3, MovedBy
      <3>5. S \in SUBSET Dataflow!In({"idle", "lost"})
        BY <3>1, <3>2, InSeen
      <3>6. Dataflow!GiveUp
        BY <3>4, <3>5 DEF Dataflow!GiveUp
      <3> QED BY <3>6 DEF Dataflow!Next
    <2> QED BY <1>5, <2>1, <2>2, <2>3 DEF PassStep, PassEffect
  <1>6. ASSUME NEW r \in Step, StepStarts(r) PROVE Progress' = Progress
    <2>1. InFlightSteps' = InFlightSteps /\ r \in InFlightSteps
      BY <1>6 DEF StepStarts, InFlightSteps
    <2>2. \A s \in Step : s # r => step'[s] = step[s]
      BY <1>0, <1>6 DEF StepStarts
    <2>3. \A s \in Step : Seen(s)' = Seen(s)
      BY <2>1, <2>2 DEF Seen
    <2> QED BY <1>k, <2>3
  <1>7. ASSUME NEW r \in Step,
               \/ StepEnds(r, "succeeded") \/ StepEnds(r, "failed") \/ StepEnds(r, step[r])
        PROVE  Dataflow!Next
    <2>1. r \in InFlightSteps /\ InFlightSteps' = InFlightSteps \ {r}
      BY <1>0, <1>7 DEF StepEnds, InFlightSteps
    <2>2. {r} \in SUBSET Dataflow!In({"busy"}) /\ r \in Dataflow!In({"busy"})
      BY <2>1, InSeen DEF Seen
    <2>3. \A s \in Step : s # r => Seen(s)' = Seen(s)
      BY <1>0, <1>7, <2>1 DEF StepEnds, Seen
    <2>4. CASE StepEnds(r, "succeeded")
      <3>1. Seen(r)' = "done"
        BY <1>0, <2>1, <2>4 DEF StepEnds, Seen
      <3>2. Dataflow!Moved({r}, "done")
        BY <2>3, <3>1, MovedBy
      <3>3. Dataflow!Succeed
        BY <2>2, <3>2 DEF Dataflow!Succeed
      <3> QED BY <3>3 DEF Dataflow!Next
    <2>5. CASE StepEnds(r, "failed")
      <3>1. Seen(r)' = "failed"
        BY <1>0, <2>1, <2>5 DEF StepEnds, Seen
      <3>2. Dataflow!Moved({r}, "failed")
        BY <2>3, <3>1, MovedBy
      <3>3. Dataflow!Fail
        BY <2>2, <3>2 DEF Dataflow!Fail
      <3> QED BY <3>3 DEF Dataflow!Next
    <2>6. CASE StepEnds(r, step[r])
      <3>1. step' = step
        BY <1>0, <2>6 DEF StepEnds
      <3> QED BY <1>l, <2>1, <3>1
    <2> QED BY <1>7, <2>4, <2>5, <2>6
  <1> QED BY <1>1, <1>2, <1>3, <1>4, <1>5, <1>6, <1>7, StepCases DEF Inv

(* The detailed orchestrator implements the dataflow of its plans.         *)
THEOREM DataflowCorrect == Spec => ImplementsDataflow
  BY InvInit, InvNext, RefinementInit, RefinementNext, PTL
  DEF Spec, ImplementsDataflow, Dataflow!Spec

-----------------------------------------------------------------------------
(* Slots and executors are given back.  That the plan in execution holds   *)
(* one slot only is what makes complete's "first slot found" the right one.*)

OneSlot(inFl, p) == \A l, m \in Level : p \in inFl[l] /\ p \in inFl[m] => l = m

ResourceInv ==
    /\ ResourcesReleased
    /\ current \in Plan \ interrupted => OneSlot(inFlight, current)

LEMMA OneSlotReleased ==
    ASSUME NEW inFl \in [Level -> SUBSET Plan], NEW p, OneSlot(inFl, p)
    PROVE  \A l \in Level : p \notin SlotReleased(inFl, p)[l]
  <1> SUFFICES ASSUME NEW l \in Level, p \in SlotReleased(inFl, p)[l] PROVE FALSE
    OBVIOUS
  <1>1. p \in inFl[l] /\ ~FirstSlot(inFl, p, l)
    BY DEF SlotReleased
  <1>2. PICK m \in Level : p \in inFl[m] /\ ~(l <= m)
    BY <1>1 DEF FirstSlot
  <1>3. l = m
    BY <1>1, <1>2 DEF OneSlot
  <1> QED BY <1>2, <1>3, MaxLevelAssumption DEF Level

(* A pass over plan p that begins with p as the only holder that was not   *)
(* interrupted, and with one slot.                                         *)
LEMMA PassReleases ==
    ASSUME NEW p \in Plan, NEW ids, NEW act, NEW ev, NEW exs,
           NEW inFl \in [Level -> SUBSET Plan],
           OnePass(p, ids, act, ev, exs, inFl),
           \A l \in Level : inFl[l] \subseteq interrupted \cup {p},
           exs \subseteq interrupted \cup {p},
           p \notin interrupted => OneSlot(inFl, p)
    PROVE  ResourceInv'
  <1>0. interrupted' = interrupted
    BY OnePassEffect DEF PassEffect, histVars
  <1>1. CASE inFlight' = inFl /\ executors' = exs /\ current' = p
    BY <1>0, <1>1 DEF ResourceInv, ResourcesReleased
  <1>2. CASE /\ inFlight' = SlotReleased(inFl, p) /\ executors' = exs \ {p}
             /\ current' = NoPlan
    <2>1. \A l \in Level : inFlight'[l] \subseteq inFl[l]
      BY <1>2, SlotReleasedProperties
    <2>2. p \notin interrupted => \A l \in Level : p \notin inFlight'[l]
      BY <1>2, OneSlotReleased
    <2>3. \A l \in Level : inFlight'[l] \subseteq interrupted
      BY <2>1, <2>2
    <2> QED BY <1>0, <1>2, <2>3, IdsAssumption DEF ResourceInv, ResourcesReleased
  <1> QED BY <1>1, <1>2, OnePassPlan

LEMMA ResourceNext == Inv /\ ResourceInv /\ [Next]_vars => ResourceInv'
  <1> SUFFICES ASSUME Inv, ResourceInv, [Next]_vars PROVE ResourceInv'
    OBVIOUS
  <1> USE DEF planVars, queueVars, loopVars, execVars, cpVars, histVars
  <1>0. /\ inFlight \in [Level -> SUBSET Plan] /\ executors \subseteq Plan
        /\ TypeOK /\ LoopInv
        /\ \A l \in Level : inFlight[l] \subseteq interrupted \cup {current}
        /\ executors \subseteq interrupted \cup {current}
        /\ current \in Plan \cup {NoPlan}
    BY DEF Inv, TypeOK, ResourceInv, ResourcesReleased
  <1>k. ASSUME UNCHANGED <<inFlight, executors, current, interrupted>>
        PROVE  ResourceInv'
    BY <1>k DEF ResourceInv, ResourcesReleased, OneSlot
  <1>1. ASSUME NEW p \in Plan, Submit(p) \/ Pause(p) \/ Resume(p)
        PROVE  ResourceInv'
    BY <1>1, <1>k DEF Submit, Pause, Resume, EnqueuePlan, SetStatus
  <1>2. ASSUME NEW p \in Plan, NEW n, Rollback(p, n) PROVE ResourceInv'
    BY <1>2, <1>k DEF Rollback, EnqueuePlan
  <1>3. ASSUME NEW p \in Plan, NEW s \in Step, CheckpointStep(p, s)
        PROVE  ResourceInv'
    BY <1>3, <1>k DEF CheckpointStep
  <1>4. ASSUME NEW p \in Plan, Cancel(p) PROVE ResourceInv'
    <2>1. \A l \in Level : inFlight'[l] \subseteq inFlight[l]
      BY <1>0, <1>4, RemovedFromType DEF Cancel, TypeOK
    <2>2. UNCHANGED <<executors, current, interrupted>>
      BY <1>4 DEF Cancel
    <2> QED BY <1>0, <2>1, <2>2 DEF ResourceInv, ResourcesReleased, OneSlot
  <1>5. ASSUME Start \/ WaitForItem \/ Tick \/ StartStep \/ UNCHANGED vars
        PROVE  ResourceInv'
    BY <1>5, <1>k DEF Start, WaitForItem, Tick, StartStep, vars
  <1>6. ASSUME NEW s \in Step, StepSucceeds(s) \/ StepFails(s) \/ StepCut(s)
        PROVE  ResourceInv'
    BY <1>6, <1>k DEF StepSucceeds, StepFails, StepCut, EndStep
  <1>7. ASSUME Stop PROVE ResourceInv'
    <2>1. /\ UNCHANGED <<inFlight, executors>>
          /\ current' = NoPlan /\ interrupted' = interrupted \cup ({current} \cap Plan)
      BY <1>7 DEF Stop
    <2>2. /\ \A l \in Level : inFlight[l] \subseteq interrupted \cup ({current} \cap Plan)
          /\ executors \subseteq interrupted \cup ({current} \cap Plan)
      BY <1>0
    <2> QED BY <2>1, <2>2, IdsAssumption DEF ResourceInv, ResourcesReleased
  <1>8. ASSUME loop = "trying"
        PROVE  /\ current = NoPlan
               /\ \A l \in Level : inFlight[l] \subseteq interrupted
               /\ executors \subseteq interrupted
    <2>1. current = NoPlan
      BY <1>0, <1>8 DEF LoopInv
    <2> QED BY <1>0, <2>1, IdsAssumption
  <1>9. ASSUME NEW p \in Plan, NEW e \in Level, loop = "trying"
        PROVE  /\ TakesSlot(inFlight, e, p) \in [Level -> SUBSET Plan]
               /\ \A l \in Level : TakesSlot(inFlight, e, p)[l] \subseteq interrupted \cup {p}
               /\ p \notin interrupted => OneSlot(TakesSlot(inFlight, e, p), p)
    BY <1>0, <1>8, <1>9 DEF TakesSlot, OneSlot
  <1>10. ASSUME Dispatch PROVE ResourceInv'
    <2>1. PICK l \in Level :
            /\ IsChosen(queues, inFlight, l)
            /\ OnePass(Head(queues[l]).plan, {},
                       [active EXCEPT ![Head(queues[l]).plan] = "running"],
                       [lastEvent EXCEPT ![Head(queues[l]).plan] = "started"],
                       executors \cup {Head(queues[l]).plan},
                       TakesSlot(inFlight, EffectiveLevel(Head(queues[l])),
                                 Head(queues[l]).plan))
      BY <1>10 DEF Dispatch
    <2>2. Head(queues[l]).plan \in Plan /\ EffectiveLevel(Head(queues[l])) \in Level
      BY <1>0, <2>1, ChosenHeadProperties DEF TypeOK
    <2>3. loop = "trying"
      BY <1>10 DEF Dispatch
    <2> DEFINE p == Head(queues[l]).plan
               inFl == TakesSlot(inFlight, EffectiveLevel(Head(queues[l])), p)
    <2>4. /\ inFl \in [Level -> SUBSET Plan]
          /\ \A m \in Level : inFl[m] \subseteq interrupted \cup {p}
          /\ p \notin interrupted => OneSlot(inFl, p)
          /\ executors \cup {p} \subseteq interrupted \cup {p}
      BY <1>8, <1>9, <2>2, <2>3
    <2>5. OnePass(p, {}, [active EXCEPT ![p] = "running"],
                  [lastEvent EXCEPT ![p] = "started"], executors \cup {p}, inFl)
      BY <2>1
    <2>6. p \in Plan
      BY <2>2
    <2> HIDE DEF p, inFl
    <2> QED BY <2>4, <2>5, <2>6, PassReleases
  <1>11. ASSUME DropPaused PROVE ResourceInv'
    <2>1. PICK l \in Level :
            /\ IsChosen(queues, inFlight, l)
            /\ inFlight' = SlotReleased(
                 TakesSlot(inFlight, EffectiveLevel(Head(queues[l])),
                           Head(queues[l]).plan), Head(queues[l]).plan)
      BY <1>11 DEF DropPaused
    <2>2. Head(queues[l]).plan \in Plan /\ EffectiveLevel(Head(queues[l])) \in Level
      BY <1>0, <2>1, ChosenHeadProperties DEF TypeOK
    <2>3. loop = "trying" /\ UNCHANGED <<executors, current, interrupted>>
      BY <1>11 DEF DropPaused
    <2> DEFINE p == Head(queues[l]).plan
               inFl == TakesSlot(inFlight, EffectiveLevel(Head(queues[l])), p)
    <2>4. /\ inFl \in [Level -> SUBSET Plan]
          /\ \A m \in Level : inFl[m] \subseteq interrupted \cup {p}
          /\ p \notin interrupted => OneSlot(inFl, p)
      BY <1>9, <2>2, <2>3
    <2>5. inFlight' = SlotReleased(inFl, p)
      BY <2>1
    <2> HIDE DEF p, inFl
    <2>6. \A m \in Level : inFlight'[m] \subseteq interrupted
      BY <2>4, <2>5, SlotReleasedProperties, OneSlotReleased
    <2> QED BY <1>8, <2>3, <2>6, IdsAssumption DEF ResourceInv, ResourcesReleased
  <1>12. ASSUME BatchDone \/ Poll PROVE ResourceInv'
    <2>1. current \in Plan
      BY <1>0, <1>12 DEF BatchDone, Poll, LoopInv
    <2>2. OnePass(current, cancelledIds[current], active, lastEvent, executors, inFlight)
      BY <1>12 DEF BatchDone, Poll
    <2>3. current \notin interrupted => OneSlot(inFlight, current)
      BY <2>1 DEF ResourceInv
    <2> QED BY <1>0, <2>1, <2>2, <2>3, PassReleases
  <1> QED BY <1>1, <1>2, <1>3, <1>4, <1>5, <1>6, <1>7, <1>10, <1>11, <1>12
          DEF Next, UserStep, LoopStep

(* Slots and executors belong to the plan in execution, or to plans whose  *)
(* execution stop() cut off.                                               *)
THEOREM ResourcesCorrect == Spec => []ResourcesReleased
  <1>1. Init => ResourceInv
    BY IdsAssumption DEF Init, ResourceInv, ResourcesReleased
  <1>2. ResourceInv => ResourcesReleased
    BY DEF ResourceInv
  <1> QED BY <1>1, <1>2, InvInit, InvNext, ResourceNext, PTL DEF Spec

-----------------------------------------------------------------------------
(* Observers.                                                              *)

Agrees(act, ev, p) ==
    /\ act[p] = "succeeded" => ev[p] = "completed"
    /\ act[p] = "failed" => ev[p] = "failed"
    /\ act[p] = "paused" => ev[p] = "paused"

LEMMA PassAgrees ==
    ASSUME NEW p \in Plan, NEW ids, NEW act \in [Plan -> PlanStatus],
           NEW ev \in [Plan -> Topics], NEW exs, NEW inFl,
           OnePass(p, ids, act, ev, exs, inFl),
           \A q \in Plan : Agrees(act, ev, q)
    PROVE  \A q \in Plan : Agrees(active', lastEvent', q)
  <1>1. CASE active' = act /\ lastEvent' = ev
    BY <1>1
  <1>2. ASSUME NEW status \in {"succeeded", "failed", "cancelled"},
               active' = [act EXCEPT ![p] = status],
               lastEvent' = [ev EXCEPT ![p] = CASE status = "succeeded" -> "completed"
                                                [] status = "failed"    -> "failed"
                                                [] status = "cancelled" -> @]
        PROVE  \A q \in Plan : Agrees(active', lastEvent', q)
    BY <1>2 DEF Agrees
  <1> QED BY <1>1, <1>2, OnePassPlan

LEMMA ObserversNext == Inv /\ ObserversAgree /\ [Next]_vars => ObserversAgree'
  <1> SUFFICES ASSUME Inv, \A q \in Plan : Agrees(active, lastEvent, q), [Next]_vars
               PROVE  \A q \in Plan : Agrees(active', lastEvent', q)
    BY DEF ObserversAgree, Agrees
  <1> USE DEF planVars, queueVars, loopVars, execVars, cpVars, histVars
  <1>0. /\ active \in [Plan -> PlanStatus] /\ lastEvent \in [Plan -> Topics]
        /\ TypeOK /\ LoopInv
    BY DEF Inv, TypeOK, Topics
  <1>k. ASSUME UNCHANGED <<active, lastEvent>>
        PROVE  \A q \in Plan : Agrees(active', lastEvent', q)
    BY <1>k
  <1>1. ASSUME NEW p \in Plan, Submit(p) \/ Cancel(p) \/ Pause(p) \/ Resume(p)
        PROVE  \A q \in Plan : Agrees(active', lastEvent', q)
    BY <1>0, <1>1 DEF Submit, Cancel, Pause, Resume, SetStatus, Agrees
  <1>2. ASSUME NEW p \in Plan, NEW n, Rollback(p, n)
        PROVE  \A q \in Plan : Agrees(active', lastEvent', q)
    BY <1>0, <1>2 DEF Rollback, Agrees
  <1>3. ASSUME NEW p \in Plan, NEW s \in Step, CheckpointStep(p, s)
        PROVE  \A q \in Plan : Agrees(active', lastEvent', q)
    BY <1>3, <1>k DEF CheckpointStep
  <1>4. ASSUME Start \/ Stop \/ WaitForItem \/ DropPaused \/ Tick \/ StartStep \/ UNCHANGED vars
        PROVE  \A q \in Plan : Agrees(active', lastEvent', q)
    BY <1>4, <1>k DEF Start, Stop, WaitForItem, DropPaused, Tick, StartStep, vars
  <1>5. ASSUME NEW s \in Step, StepSucceeds(s) \/ StepFails(s) \/ StepCut(s)
        PROVE  \A q \in Plan : Agrees(active', lastEvent', q)
    BY <1>5, <1>k DEF StepSucceeds, StepFails, StepCut, EndStep
  <1>6. ASSUME Dispatch PROVE \A q \in Plan : Agrees(active', lastEvent', q)
    <2>1. PICK l \in Level :
            /\ IsChosen(queues, inFlight, l)
            /\ OnePass(Head(queues[l]).plan, {},
                       [active EXCEPT ![Head(queues[l]).plan] = "running"],
                       [lastEvent EXCEPT ![Head(queues[l]).plan] = "started"],
                       executors \cup {Head(queues[l]).plan},
                       TakesSlot(inFlight, EffectiveLevel(Head(queues[l])),
                                 Head(queues[l]).plan))
      BY <1>6 DEF Dispatch
    <2> DEFINE p == Head(queues[l]).plan
               act == [active EXCEPT ![p] = "running"]
               ev == [lastEvent EXCEPT ![p] = "started"]
               exs == executors \cup {p}
               inFl == TakesSlot(inFlight, EffectiveLevel(Head(queues[l])), p)
    <2>2. p \in Plan /\ OnePass(p, {}, act, ev, exs, inFl)
      BY <1>0, <2>1, ChosenHeadProperties DEF TypeOK
    <2> HIDE DEF p, exs, inFl
    <2>3. /\ act \in [Plan -> PlanStatus] /\ ev \in [Plan -> Topics]
          /\ \A q \in Plan : Agrees(act, ev, q)
      BY <1>0, <2>2 DEF PlanStatus, Topics, Agrees
    <2> HIDE DEF act, ev
    <2> QED BY <2>2, <2>3, PassAgrees
  <1>7. ASSUME BatchDone \/ Poll
        PROVE  \A q \in Plan : Agrees(active', lastEvent', q)
    <2>1. /\ current \in Plan
          /\ OnePass(current, cancelledIds[current], active, lastEvent, executors, inFlight)
      BY <1>0, <1>7 DEF BatchDone, Poll, LoopInv
    <2> QED BY <1>0, <2>1, PassAgrees
  <1> QED BY <1>1, <1>2, <1>3, <1>4, <1>5, <1>6, <1>7 DEF Next, UserStep, LoopStep

(* The bus's last word about a plan that succeeded, failed or is paused is *)
(* its status.                                                             *)
THEOREM ObserversCorrect == Spec => []ObserversAgree
  <1>1. Init => ObserversAgree
    BY DEF Init, ObserversAgree
  <1> QED BY <1>1, InvInit, InvNext, ObserversNext, PTL DEF Spec

-----------------------------------------------------------------------------
(* Complete success.  A plan that ends with neither a failed nor a         *)
(* cancelled step has skipped none: what blocks a skipped step is itself   *)
(* failed, cancelled or skipped, for good, and dependencies have no cycle. *)

(* A step left READY without a task was left so by stop().                 *)
ReadyInv ==
    \A s \in Owned :
        /\ step[s] = "ready" /\ s \notin InFlightSteps => PlanOf(s) \in interrupted
        /\ s \in executing => step[s] # "ready"

Blocker(d) == step[d] \in {"failed", "cancelled", "skipped"} /\ d \notin InFlightSteps

SkipInv ==
    \A s \in Owned :
        step[s] = "skipped" /\ PlanOf(s) \notin disturbed \cup interrupted
        => \E d \in DependsOn[s] : Blocker(d)

LEMMA ReadyNext == Inv /\ ReadyInv /\ [Next]_vars => ReadyInv'
  <1> SUFFICES ASSUME Inv, ReadyInv, [Next]_vars, NEW s \in Owned,
                      step'[s] = "ready"
               PROVE  /\ s \notin InFlightSteps' => PlanOf(s) \in interrupted'
                      /\ s \notin executing'
    BY DEF ReadyInv
  <1> DEFINE Left == /\ s \notin InFlightSteps' => PlanOf(s) \in interrupted'
                     /\ s \notin executing'
  <1>g. SUFFICES Left
    OBVIOUS
  <1>0. /\ s \in Step /\ PlanOf(s) \in Plan /\ s \in StepsOf(PlanOf(s))
        /\ step \in [Step -> StepStatus] /\ TypeOK /\ LoopInv
    BY OwnerOf DEF Inv, TypeOK
  <1>r. step[s] = "ready" => /\ s \notin InFlightSteps => PlanOf(s) \in interrupted
                             /\ s \notin executing
    BY DEF ReadyInv
  <1>1. CASE QuietStep
    BY <1>1, <1>r DEF QuietStep, InFlightSteps
  <1>2. ASSUME NEW p \in Plan, Cancelled(p) PROVE Left
    BY <1>0, <1>2, <1>r DEF Cancelled, InFlightSteps
  <1>3. ASSUME NEW p \in Plan, NEW i \in DOMAIN Steps[p], RolledBack(p, i)
        PROVE  Left
    BY <1>0, <1>3, <1>r DEF RolledBack, InFlightSteps
  <1>4. CASE Stopped
    <2>1. CASE s \in InFlightSteps
      <3>1. current \in Plan /\ s \in StepsOf(current)
        BY <1>0, <2>1 DEF LoopInv
      <3> QED BY <1>4, <3>1, PlanOfOwner DEF Stopped
    <2> QED BY <1>4, <1>r, <2>1 DEF Stopped
  <1>5. ASSUME NEW p \in Plan, NEW ids, PassStep(p, ids)
        PROVE  Left
    <2>0. InFlightSteps = {} /\ interrupted' = interrupted /\ executing' = {}
      BY <1>5 DEF PassStep, PassEffect, histVars, InFlightSteps
    <2>1. CASE /\ unstarted' = {x \in StepsOf(p) : IsReady(p, ids, x)}
               /\ step' = [x \in Step |-> IF IsReady(p, ids, x) THEN "ready" ELSE step[x]]
      <3>1. CASE IsReady(p, ids, s)
        BY <2>0, <2>1, <3>1 DEF InFlightSteps, IsReady
      <3>2. CASE ~IsReady(p, ids, s)
        BY <1>0, <1>r, <2>0, <2>1, <3>2 DEF InFlightSteps
      <3> QED BY <3>1, <3>2
    <2>2. CASE step' = step \/ step' = BlockedSkipped(p)
      BY <1>0, <1>r, <2>0, <2>2 DEF BlockedSkipped
    <2> QED BY <1>5, <2>1, <2>2 DEF PassStep, PassEffect
  <1>6. ASSUME NEW r \in Step, StepStarts(r) PROVE Left
    BY <1>0, <1>6, <1>r DEF StepStarts, InFlightSteps
  <1>7. ASSUME NEW r \in Step,
               \/ StepEnds(r, "succeeded") \/ StepEnds(r, "failed") \/ StepEnds(r, step[r])
        PROVE  Left
    BY <1>0, <1>7, <1>r DEF StepEnds, InFlightSteps
  <1> QED BY <1>0, <1>1, <1>2, <1>3, <1>4, <1>5, <1>6, <1>7, StepCases

(* A blocker stays one; only a rollback of its plan can lift it.           *)
LEMMA BlockerStays ==
    ASSUME Inv, [Next]_vars, NEW d \in Owned, Blocker(d), step'[d] = step[d]
    PROVE  Blocker(d)'
  <1>0. d \in Step /\ step \in [Step -> StepStatus] /\ TypeOK /\ LoopInv
    BY OwnerOf DEF Inv, TypeOK
  <1> USE DEF Blocker, InFlightSteps
  <1>1. CASE QuietStep \/ Stopped
    BY <1>1 DEF QuietStep, Stopped
  <1>2. ASSUME NEW p \in Plan, Cancelled(p) PROVE Blocker(d)'
    BY <1>2 DEF Cancelled
  <1>3. ASSUME NEW p \in Plan, NEW i \in DOMAIN Steps[p], RolledBack(p, i)
        PROVE  Blocker(d)'
    BY <1>3 DEF RolledBack
  <1>4. ASSUME NEW p \in Plan, NEW ids, PassStep(p, ids) PROVE Blocker(d)'
    BY <1>4 DEF PassStep, PassEffect, IsReady
  <1>5. ASSUME NEW r \in Step, StepStarts(r) PROVE Blocker(d)'
    BY <1>0, <1>5 DEF StepStarts
  <1>6. ASSUME NEW r \in Step,
               \/ StepEnds(r, "succeeded") \/ StepEnds(r, "failed") \/ StepEnds(r, step[r])
        PROVE  Blocker(d)'
    BY <1>6 DEF StepEnds
  <1> QED BY <1>0, <1>1, <1>2, <1>3, <1>4, <1>5, <1>6, StepCases

LEMMA SkipNext == Inv /\ ReadyInv /\ SkipInv /\ [Next]_vars => SkipInv'
  <1> SUFFICES ASSUME Inv, ReadyInv, SkipInv, [Next]_vars, NEW s \in Owned,
                      step'[s] = "skipped",
                      PlanOf(s) \notin disturbed' \cup interrupted'
               PROVE  \E d \in DependsOn[s] : Blocker(d)'
    BY DEF SkipInv
  <1>0. /\ s \in Step /\ PlanOf(s) \in Plan /\ s \in StepsOf(PlanOf(s))
        /\ step \in [Step -> StepStatus] /\ TypeOK /\ LoopInv
        /\ \A d \in DependsOn[s] : /\ d \in Owned /\ d \in Step /\ PlanOf(d) = PlanOf(s)
                                   /\ d \in StepsOf(PlanOf(s))
    BY OwnerOf, DependencyOf DEF Inv, TypeOK
  <1>k. ASSUME step[s] = "skipped",
               PlanOf(s) \notin disturbed \cup interrupted,
               \A d \in DependsOn[s] : Blocker(d) => step'[d] = step[d]
        PROVE  \E d \in DependsOn[s] : Blocker(d)'
    BY <1>0, <1>k, BlockerStays DEF SkipInv
  <1>f. \A d \in DependsOn[s] :
          Blocker(d) /\ rollbacks'[PlanOf(s)] = rollbacks[PlanOf(s)]
          => step'[d] = step[d]
    BY <1>0, FrozenStep DEF Blocker, Terminal
  <1>1. CASE QuietStep
    BY <1>1, <1>k DEF QuietStep
  <1>2. ASSUME NEW p \in Plan, Cancelled(p)
        PROVE  \E d \in DependsOn[s] : Blocker(d)'
    BY <1>0, <1>2, <1>f, <1>k DEF Cancelled
  <1>3. ASSUME NEW p \in Plan, NEW i \in DOMAIN Steps[p], RolledBack(p, i)
        PROVE  \E d \in DependsOn[s] : Blocker(d)'
    <2> DEFINE Later(x) == \E j \in DOMAIN Steps[p] : i < j /\ Steps[p][j] = x
    <2>0. /\ PlanOf(s) \notin disturbed \cup interrupted
          /\ \A x \in Step : step'[x] = IF Later(x) THEN "pending" ELSE step[x]
      BY <1>3 DEF RolledBack
    <2>1. ~Later(s) /\ step[s] = "skipped"
      BY <1>0, <2>0
    <2>2. CASE p # PlanOf(s)
      <3>1. \A d \in DependsOn[s] : d \notin StepsOf(p)
        BY <1>0, <2>2, PlanOfOwner
      <3>2. \A d \in DependsOn[s] : ~Later(d)
        BY <3>1 DEF StepsOf
      <3> QED BY <1>0, <1>k, <2>0, <2>1, <3>2
    <2>3. CASE p = PlanOf(s)
      <3>1. Topological(p)
        BY <1>3, <2>3 DEF RolledBack
      <3>2. PICK k \in DOMAIN Steps[p] : Steps[p][k] = s
        BY <1>0, <2>3 DEF StepsOf
      <3>3. /\ DOMAIN Steps[p] = 1..Len(Steps[p]) /\ Len(Steps[p]) \in Nat
            /\ k <= i
        BY <2>1, <3>2, StepsOfType
      <3>4. \A d \in DependsOn[s] : \A j \in DOMAIN Steps[p] : Steps[p][j] = d => j < k
        BY <3>1, <3>2 DEF Topological
      <3>5. \A d \in DependsOn[s] : ~Later(d)
        BY <3>3, <3>4
      <3> QED BY <1>0, <1>k, <2>0, <2>1, <3>5
    <2> QED BY <2>2, <2>3
  <1>4. CASE Stopped
    BY <1>4, <1>k DEF Stopped
  <1>5. ASSUME NEW p \in Plan, NEW ids, PassStep(p, ids)
        PROVE  \E d \in DependsOn[s] : Blocker(d)'
    <2>0. /\ InFlightSteps = {} /\ ids \cap Step = {}
          /\ rollbacks' = rollbacks
          /\ PlanOf(s) \notin disturbed \cup interrupted
      BY <1>5 DEF PassStep, PassEffect, histVars
    <2>1. CASE step[s] = "skipped"
      BY <1>f, <1>k, <2>0, <2>1
    <2>2. CASE step[s] # "skipped"
      <3>1. /\ step' = BlockedSkipped(p) /\ NoneReady(p, ids) /\ ~HasInFlight(p)
            /\ unstarted' = {} /\ executing' = {}
        BY <1>0, <1>5, <2>0, <2>2 DEF PassStep, PassEffect, InFlightSteps
      <3>2. s \in StepsOf(p) /\ step[s] = "pending" /\ p = PlanOf(s)
        BY <1>0, <2>2, <3>1, PlanOfOwner DEF BlockedSkipped
      <3>3. PICK d \in DependsOn[s] : step[d] # "succeeded"
        BY <1>0, <2>0, <3>1, <3>2 DEF NoneReady, IsReady
      <3>4. step[d] \notin {"ready", "running"}
        BY <1>0, <2>0, <3>1, <3>2 DEF ReadyInv, HasInFlight
      <3>5. step'[d] \in {"failed", "cancelled", "skipped"}
        BY <1>0, <3>1, <3>2, <3>3, <3>4 DEF BlockedSkipped, StepStatus
      <3> QED BY <3>1, <3>3, <3>5 DEF Blocker, InFlightSteps
    <2> QED BY <2>1, <2>2
  <1>6. ASSUME NEW r \in Step, StepStarts(r)
        PROVE  \E d \in DependsOn[s] : Blocker(d)'
    BY <1>0, <1>6, <1>f, <1>k DEF StepStarts
  <1>7. ASSUME NEW r \in Step,
               \/ StepEnds(r, "succeeded") \/ StepEnds(r, "failed") \/ StepEnds(r, step[r])
        PROVE  \E d \in DependsOn[s] : Blocker(d)'
    BY <1>0, <1>7, <1>f, <1>k DEF StepEnds
  <1> QED BY <1>0, <1>1, <1>2, <1>3, <1>4, <1>5, <1>6, <1>7, StepCases

(* How a pass of the loop over plan q ends: the plan is left as it was, or *)
(* has ended with the status computed from its steps.                      *)
EndsPlan(q, act) ==
    /\ active' = [act EXCEPT ![q] = ComputedStatus(q, step')]
    /\ \/ step' = step /\ IsComplete(q)
       \/ step' = BlockedSkipped(q) /\ ~HasInFlight(q)

LEMMA PassOutcome ==
    ASSUME NEW q, NEW ids, NEW act, NEW ev, NEW exs, NEW inFl,
           OnePass(q, ids, act, ev, exs, inFl)
    PROVE  active' = act \/ EndsPlan(q, act)
  <1>1. CASE Suspend(q, act, ev, exs, inFl)
    BY <1>1 DEF Suspend
  <1>2. CASE IsComplete(q) /\ FinishPlan(q, step, act, ev, exs, inFl)
    BY <1>2 DEF FinishPlan, EndsPlan
  <1>3. CASE ~HasInFlight(q) /\ FinishPlan(q, BlockedSkipped(q), act, ev, exs, inFl)
    BY <1>3 DEF FinishPlan, EndsPlan
  <1> QED BY <1>1, <1>2, <1>3 DEF OnePass, EndOfPlan

(* A plan that becomes SUCCEEDED has just ended; no step of any plan that  *)
(* stays so is rolled back.                                                *)
LEMMA SuccessSteps ==
    ASSUME Inv, [Next]_vars, NEW p \in Plan, active'[p] = "succeeded"
    PROVE  \/ active[p] = "succeeded" /\ rollbacks'[p] = rollbacks[p]
           \/ /\ InFlightSteps = {} /\ ComputedStatus(p, step') = "succeeded"
              /\ \/ step' = step /\ IsComplete(p)
                 \/ step' = BlockedSkipped(p) /\ ~HasInFlight(p)
  <1> DEFINE Stays == active[p] = "succeeded" /\ rollbacks'[p] = rollbacks[p]
             Ends == /\ InFlightSteps = {} /\ ComputedStatus(p, step') = "succeeded"
                     /\ \/ step' = step /\ IsComplete(p)
                        \/ step' = BlockedSkipped(p) /\ ~HasInFlight(p)
  <1> SUFFICES Stays \/ Ends
    OBVIOUS
  <1>0. /\ active \in [Plan -> PlanStatus] /\ rollbacks \in [Plan -> Nat]
        /\ TypeOK /\ LoopInv
    BY DEF Inv, TypeOK
  <1> USE DEF planVars, queueVars, loopVars, execVars, cpVars, histVars
  <1>1. ASSUME NEW q \in Plan, Submit(q) \/ Cancel(q) \/ Pause(q) \/ Resume(q)
        PROVE  Stays
    BY <1>0, <1>1 DEF Submit, Cancel, Pause, Resume, SetStatus
  <1>2. ASSUME NEW q \in Plan, NEW n, Rollback(q, n)
        PROVE  Stays
    BY <1>0, <1>2 DEF Rollback
  <1>3. ASSUME NEW q \in Plan, NEW s \in Step, CheckpointStep(q, s)
        PROVE  Stays
    BY <1>3 DEF CheckpointStep
  <1>4. ASSUME Start \/ Stop \/ WaitForItem \/ DropPaused \/ Tick \/ StartStep \/ UNCHANGED vars
        PROVE  Stays
    BY <1>4 DEF Start, Stop, WaitForItem, DropPaused, Tick, StartStep, vars
  <1>5. ASSUME NEW s \in Step, StepSucceeds(s) \/ StepFails(s) \/ StepCut(s)
        PROVE  Stays
    BY <1>5 DEF StepSucceeds, StepFails, StepCut, EndStep
  <1>6. ASSUME NEW q \in Plan, NEW act \in [Plan -> PlanStatus],
               \A x \in Plan : act[x] = active[x] \/ act[x] = "running",
               active' = act \/ EndsPlan(q, act),
               InFlightSteps = {}, rollbacks' = rollbacks
        PROVE  Stays \/ Ends
    <2>1. CASE active' = act
      BY <1>6, <2>1
    <2>2. CASE EndsPlan(q, act) /\ q # p
      BY <1>6, <2>2 DEF EndsPlan
    <2>3. CASE EndsPlan(q, act) /\ q = p
      BY <1>6, <2>3 DEF EndsPlan
    <2> QED BY <1>6, <2>1, <2>2, <2>3
  <1>7. ASSUME Dispatch PROVE Stays \/ Ends
    <2>1. PICK l \in Level :
            /\ IsChosen(queues, inFlight, l)
            /\ OnePass(Head(queues[l]).plan, {},
                       [active EXCEPT ![Head(queues[l]).plan] = "running"],
                       [lastEvent EXCEPT ![Head(queues[l]).plan] = "started"],
                       executors \cup {Head(queues[l]).plan},
                       TakesSlot(inFlight, EffectiveLevel(Head(queues[l])),
                                 Head(queues[l]).plan))
      BY <1>7 DEF Dispatch
    <2> DEFINE q == Head(queues[l]).plan
               act == [active EXCEPT ![q] = "running"]
    <2>2. q \in Plan
      BY <1>0, <2>1, ChosenHeadProperties DEF TypeOK
    <2>3. active' = act \/ EndsPlan(q, act)
      BY <2>1, PassOutcome
    <2>4. InFlightSteps = {} /\ rollbacks' = rollbacks
      BY <1>0, <1>7, <2>1 DEF Dispatch, LoopInv, OnePass
    <2> HIDE DEF q
    <2>5. /\ act \in [Plan -> PlanStatus]
          /\ \A x \in Plan : act[x] = active[x] \/ act[x] = "running"
      BY <1>0, <2>2 DEF PlanStatus
    <2> HIDE DEF act
    <2> QED BY <1>6, <2>2, <2>3, <2>4, <2>5
  <1>8. ASSUME BatchDone \/ Poll PROVE Stays \/ Ends
    <2>1. current \in Plan /\ InFlightSteps = {}
      BY <1>0, <1>8 DEF BatchDone, Poll, LoopInv, InFlightSteps
    <2>2. OnePass(current, cancelledIds[current], active, lastEvent, executors, inFlight)
      BY <1>8 DEF BatchDone, Poll
    <2>3. active' = active \/ EndsPlan(current, active)
      BY <2>2, PassOutcome
    <2>4. rollbacks' = rollbacks
      BY <2>2 DEF OnePass
    <2> QED BY <1>0, <1>6, <2>1, <2>3, <2>4
  <1> QED BY <1>1, <1>2, <1>3, <1>4, <1>5, <1>7, <1>8 DEF Next, UserStep, LoopStep

(* Where no step has failed or been cancelled, none is skipped either.     *)
LEMMA NothingSkipped ==
    ASSUME NEW p \in Plan, SkipInv', p \notin disturbed' \cup interrupted',
           \A s \in StepsOf(p) : step'[s] \notin {"failed", "cancelled"}
    PROVE  \A s \in StepsOf(p) : step'[s] # "skipped"
  <1> DEFINE S == {s \in StepsOf(p) : step'[s] = "skipped"}
  <1> SUFFICES ASSUME S # {} PROVE FALSE
    OBVIOUS
  <1>1. PICK s \in S : DependsOn[s] \cap S = {}
    BY AcyclicAssumption
  <1>2. s \in Owned /\ PlanOf(s) = p /\ s \in StepsOf(p)
    BY PlanOfOwner
  <1>3. PICK d \in DependsOn[s] : Blocker(d)'
    BY <1>2 DEF SkipInv
  <1>4. d \in StepsOf(p)
    BY <1>2, DependsOnAssumption
  <1> QED BY <1>1, <1>3, <1>4 DEF Blocker

LEMMA SuccessNext ==
    Inv /\ ReadyInv /\ SkipInv /\ SkipInv' /\ SuccessIsComplete /\ [Next]_vars
    => SuccessIsComplete'
  <1> SUFFICES ASSUME Inv, ReadyInv, SkipInv, SkipInv', SuccessIsComplete, [Next]_vars,
                      NEW p \in Plan, active'[p] = "succeeded",
                      p \notin disturbed' \cup interrupted',
                      NEW s \in StepsOf(p)
               PROVE  step'[s] = "succeeded"
    BY DEF SuccessIsComplete
  <1>0. /\ \A x \in StepsOf(p) : x \in Owned /\ PlanOf(x) = p /\ x \in Step
        /\ step \in [Step -> StepStatus] /\ step' \in [Step -> StepStatus]
        /\ TypeOK /\ LoopInv
    BY PlanOfOwner, StepsOfType, InvNext DEF Inv, TypeOK
  <1>h. p \notin disturbed \cup interrupted
    <2>1. disturbed \subseteq disturbed' /\ interrupted \subseteq interrupted'
      BY <1>0, StepCases DEF QuietStep, Cancelled, RolledBack, Stopped, PassStep,
                             PassEffect, StepStarts, StepEnds, histVars
    <2> QED BY <2>1
  <1>1. CASE active[p] = "succeeded" /\ rollbacks'[p] = rollbacks[p]
    <2>1. step[s] = "succeeded"
      BY <1>1, <1>h DEF SuccessIsComplete
    <2>2. s \notin InFlightSteps
      BY <1>0, <2>1 DEF LoopInv
    <2> QED BY <1>0, <1>1, <2>1, <2>2, FrozenStep DEF Terminal
  <1>2. CASE /\ InFlightSteps = {} /\ ComputedStatus(p, step') = "succeeded"
             /\ \/ step' = step /\ IsComplete(p)
                \/ step' = BlockedSkipped(p) /\ ~HasInFlight(p)
    <2>1. \A x \in StepsOf(p) : step'[x] \in Terminal
      <3> SUFFICES ASSUME NEW x \in StepsOf(p) PROVE step'[x] \in Terminal
        OBVIOUS
      <3>1. step[x] \notin {"ready", "running"}
        BY <1>0, <1>2, <1>h DEF ReadyInv, IsComplete, HasInFlight, Terminal
      <3> QED BY <1>0, <1>2, <3>1 DEF IsComplete, BlockedSkipped, Terminal, StepStatus
    <2>2. \/ \A x \in StepsOf(p) : step'[x] = "succeeded"
          \/ \A x \in StepsOf(p) : step'[x] \notin {"failed", "cancelled"}
      BY <1>2 DEF ComputedStatus
    <2>3. CASE \A x \in StepsOf(p) : step'[x] \notin {"failed", "cancelled"}
      <3>1. \A x \in StepsOf(p) : step'[x] # "skipped"
        BY <2>3, NothingSkipped
      <3> QED BY <2>1, <2>3, <3>1 DEF Terminal
    <2> QED BY <2>2, <2>3
  <1> QED BY <1>1, <1>2, SuccessSteps

(* A plan reported SUCCEEDED has no step that failed, was skipped or never *)
(* ran, for any plans, dependencies without cycle and interleaving.        *)
THEOREM SuccessCorrect == Spec => []SuccessIsComplete
  <1>1. Init => ReadyInv /\ SkipInv /\ SuccessIsComplete
    <2> SUFFICES ASSUME Init PROVE ReadyInv /\ SkipInv /\ SuccessIsComplete
      OBVIOUS
    <2>1. \A s \in Owned : step[s] = "pending"
      BY OwnerOf DEF Init
    <2>2. \A p \in Plan : active[p] = "none"
      BY DEF Init
    <2> QED BY <2>1, <2>2 DEF ReadyInv, SkipInv, SuccessIsComplete
  <1> QED BY <1>1, InvInit, InvNext, ReadyNext, SkipNext, SuccessNext, PTL DEF Spec
=============================================================================
