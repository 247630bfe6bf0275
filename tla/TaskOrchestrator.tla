-------------------------- MODULE TaskOrchestrator --------------------------
(***************************************************************************)
(* orchestrator/core.py with the DAGExecutor of orchestrator/dag.py and    *)
(* the queue of orchestrator/queue.py: one dispatch loop takes one plan at *)
(* a time and runs its steps in batches, while users submit, cancel,       *)
(* pause, resume and roll back plans and stop and restart the loop.        *)
(*                                                                         *)
(* Atomicity.  Every lock in these files guards code that never suspends   *)
(* while holding it, and publish on the in-memory bus, save and            *)
(* get_at_sequence on the in-memory store (the only implementations)       *)
(* return without suspending.  So each user operation is one step, and so  *)
(* is the dispatch loop from one real suspension to the next: the wait in  *)
(* dequeue, asyncio.gather over a batch, asyncio.sleep(0.05).              *)
(***************************************************************************)
EXTENDS QueueOps

CONSTANTS Step,           \* step ids
          Steps,          \* plan -> its steps, in list order
          DependsOn,      \* step -> the steps it depends on
          PriorityOf,     \* plan -> the priority it is submitted with
          MaxConcurrent,  \* the executor's semaphore (16 in the code)
          MaxCopies,      \* bound: queued items of one plan
          MaxRollbacks,   \* bound: rollbacks of one plan
          MaxCheckpoints, \* bound: checkpoints of one plan
          UserOps,        \* the user operations that may be called
          CutSteps,       \* the steps whose executor may raise CancelledError
          NoPlan

StepsOf(p) == {Steps[p][i] : i \in DOMAIN Steps[p]}

(* Step ids are unique and belong to one plan.                             *)
ASSUME StepsAssumption ==
    /\ Steps \in [Plan -> Seq(Step)]
    /\ \A p \in Plan : \A i, j \in DOMAIN Steps[p] :
         Steps[p][i] = Steps[p][j] => i = j
    /\ \A p, q \in Plan : p # q => StepsOf(p) \cap StepsOf(q) = {}

(* What validate_dag guarantees here: dependencies are steps of the plan.  *)
ASSUME DependsOnAssumption ==
    /\ DependsOn \in [Step -> SUBSET Step]
    /\ \A p \in Plan : \A s \in StepsOf(p) : DependsOn[s] \subseteq StepsOf(p)

(* And that they have no cycle: in every set of steps some step depends on *)
(* none of the others.                                                     *)
ASSUME AcyclicAssumption ==
    \A p \in Plan : \A S \in (SUBSET StepsOf(p)) \ {{}} :
        \E s \in S : DependsOn[s] \cap S = {}

(* Plans and steps are identified by distinct UUIDs.                       *)
ASSUME IdsAssumption == Plan \cap Step = {} /\ NoPlan \notin Plan

ASSUME OrchestratorAssumption ==
    /\ PriorityOf \in [Plan -> Level]
    /\ MaxConcurrent \in Nat \ {0}
    /\ MaxRollbacks \in Nat

VARIABLES active,       \* _active_plans[p].status, "none" before submit
          step,         \* status of every step
          queues,       \* PriorityQueue._queues
          inFlight,     \* PriorityQueue._in_flight
          running,      \* _running
          loop,         \* where the dispatch task is suspended
          current,      \* the plan in _execute_plan
          unstarted,    \* step tasks of the batch not yet past the semaphore
          executing,    \* steps whose step_executor call is in progress
          executors,    \* plans with an entry in _executors
          cancelledIds, \* DAGExecutor._cancelled of the plan's executor
          checkpoints,  \* the task's checkpoints, sorted by sequence
          cpSequence,   \* _active_plans[p].checkpoint_sequence
          lastEvent,    \* the plan's latest event on the bus
          runs,         \* history: executions of each step
          rollbacks,    \* history: rollbacks of each plan
          disturbed,    \* history: plans a rollback left inconsistent
          interrupted   \* history: plans whose execution stop() cut off

planVars == <<active, step, lastEvent>>
queueVars == <<queues, inFlight>>
loopVars == <<running, loop, current, unstarted, executing>>
execVars == <<executors, cancelledIds>>
cpVars == <<checkpoints, cpSequence>>
histVars == <<runs, rollbacks, disturbed, interrupted>>
vars == <<planVars, queueVars, loopVars, execVars, cpVars, histVars>>

StepStatus == {"pending", "ready", "running", "succeeded", "failed",
               "skipped", "cancelled"}
PlanStatus == {"none", "pending", "running", "paused", "succeeded", "failed",
               "cancelled"}
Terminal == {"succeeded", "failed", "skipped", "cancelled"}

InFlightSteps == executing \cup unstarted

TypeOK ==
    /\ active \in [Plan -> PlanStatus]
    /\ step \in [Step -> StepStatus]
    /\ queues \in [Level -> Seq(QueueItem)]
    /\ inFlight \in [Level -> SUBSET Plan]
    /\ running \in BOOLEAN
    /\ loop \in {"none", "trying", "waiting", "gather", "polling"}
    /\ current \in Plan \cup {NoPlan}
    /\ unstarted \in SUBSET Step
    /\ executing \in SUBSET Step
    /\ executors \in SUBSET Plan
    /\ cancelledIds \in [Plan -> SUBSET Plan]
    /\ checkpoints \in [Plan -> Seq([step : Step, sequence : Nat])]
    /\ cpSequence \in [Plan -> Nat]
    /\ lastEvent \in [Plan -> {"none", "queued", "started", "completed",
                               "failed", "cancelled", "paused", "resumed"}]
    /\ runs \in [Step -> Nat]
    /\ rollbacks \in [Plan -> Nat]
    /\ disturbed \in SUBSET Plan
    /\ interrupted \in SUBSET Plan

Init ==
    /\ active = [p \in Plan |-> "none"]
    /\ step = [s \in Step |-> "pending"]
    /\ queues = [l \in Level |-> <<>>]
    /\ inFlight = [l \in Level |-> {}]
    /\ running = FALSE
    /\ loop = "none"
    /\ current = NoPlan
    /\ unstarted = {}
    /\ executing = {}
    /\ executors = {}
    /\ cancelledIds = [p \in Plan |-> {}]
    /\ checkpoints = [p \in Plan |-> <<>>]
    /\ cpSequence = [p \in Plan |-> 0]
    /\ lastEvent = [p \in Plan |-> "none"]
    /\ runs = [s \in Step |-> 0]
    /\ rollbacks = [p \in Plan |-> 0]
    /\ disturbed = {}
    /\ interrupted = {}

-----------------------------------------------------------------------------
(* The user's operations.                                                  *)

Copies(p) == Cardinality({i \in DOMAIN queues[PriorityOf[p]] :
                            queues[PriorityOf[p]][i].plan = p})

\* Mutant: enqueue does not wake the loop.
EnqueuePlanSilently(p) ==
    /\ Copies(p) < MaxCopies
    /\ queues' = Enqueued(queues, NewItem(p, PriorityOf[p]))
    /\ UNCHANGED <<loop, inFlight>>

(* PriorityQueue.enqueue: append and wake the loop if it waits.            *)
EnqueuePlan(p) ==
    /\ Copies(p) < MaxCopies
    /\ queues' = Enqueued(queues, NewItem(p, PriorityOf[p]))
    /\ loop' = IF loop = "waiting" THEN "trying" ELSE loop
    /\ UNCHANGED inFlight

SetStatus(p, status, topic) ==
    /\ active' = [active EXCEPT ![p] = status]
    /\ lastEvent' = [lastEvent EXCEPT ![p] = topic]

Submit(p) ==
    /\ "submit" \in UserOps
    /\ active[p] = "none"
    /\ SetStatus(p, "pending", "queued")
    /\ EnqueuePlan(p)
    /\ UNCHANGED <<step, running, current, unstarted, executing, execVars,
                   cpVars, histVars>>

(* cancel: the executor is told the plan's id, one queue entry is removed, *)
(* every step that is not terminal is marked.                              *)
Cancel(p) ==
    /\ "cancel" \in UserOps
    /\ active[p] # "none"
    /\ cancelledIds' = IF p \in executors
                       THEN [cancelledIds EXCEPT ![p] = @ \cup {p}]
                       ELSE cancelledIds
    /\ RemovedFrom(queues, inFlight, p, queues', inFlight')
    /\ step' = [s \in Step |->
                  IF s \in StepsOf(p) /\ step[s] \notin Terminal
                  THEN "cancelled" ELSE step[s]]
    /\ SetStatus(p, "cancelled", "cancelled")
    /\ UNCHANGED <<loopVars, executors, cpVars, histVars>>

\* Mutant: pause publishes nothing.
PauseSilently(p) ==
    /\ "pause" \in UserOps
    /\ active[p] # "none"
    /\ active' = [active EXCEPT ![p] = "paused"]
    /\ UNCHANGED <<lastEvent, step, queueVars, loopVars, execVars, cpVars,
                   histVars>>

(* pause: whatever the plan's status.                                      *)
Pause(p) ==
    /\ "pause" \in UserOps
    /\ active[p] # "none"
    /\ SetStatus(p, "paused", "paused")
    /\ UNCHANGED <<step, queueVars, loopVars, execVars, cpVars, histVars>>

Resume(p) ==
    /\ "resume" \in UserOps
    /\ active[p] = "paused"
    /\ SetStatus(p, "running", "resumed")
    /\ EnqueuePlan(p)
    /\ UNCHANGED <<step, running, current, unstarted, executing, execVars,
                   cpVars, histVars>>

(* The plan lists every step after its dependencies; nothing enforces it.  *)
Topological(p) ==
    \A i, j \in DOMAIN Steps[p] : Steps[p][j] \in DependsOn[Steps[p][i]] => j < i

(* rollback to the first checkpoint with the sequence number n: the steps  *)
(* after the checkpoint's step in LIST order start over.  A checkpoint's   *)
(* step is always found in the plan's list.                                *)
Rollback(p, n) ==
    /\ "rollback" \in UserOps
    /\ active[p] # "none"
    /\ rollbacks[p] < MaxRollbacks
    /\ \E k \in DOMAIN checkpoints[p] :
         /\ checkpoints[p][k].sequence = n
         /\ \A j \in DOMAIN checkpoints[p] :
              checkpoints[p][j].sequence = n => k <= j
         /\ \E i \in DOMAIN Steps[p] :
              /\ Steps[p][i] = checkpoints[p][k].step
              /\ step' = [s \in Step |->
                            IF \E j \in DOMAIN Steps[p] :
                                 i < j /\ Steps[p][j] = s
                            THEN "pending" ELSE step[s]]
    /\ cpSequence' = [cpSequence EXCEPT ![p] = n]
    /\ active' = [active EXCEPT ![p] = "running"]
    /\ EnqueuePlan(p)
    /\ rollbacks' = [rollbacks EXCEPT ![p] = @ + 1]
    /\ disturbed' = IF p = current \/ ~Topological(p)
                    THEN disturbed \cup {p} ELSE disturbed
    /\ UNCHANGED <<lastEvent, running, current, unstarted, executing, execVars,
                   checkpoints, runs, interrupted>>

(* checkpoint_step, for a step of the plan at any time.  save appends and  *)
(* sorts by sequence; the sort is stable.                                  *)
CheckpointStep(p, s) ==
    /\ "checkpoint" \in UserOps
    /\ active[p] # "none" /\ s \in StepsOf(p)
    /\ Len(checkpoints[p]) < MaxCheckpoints
    /\ cpSequence' = [cpSequence EXCEPT ![p] = @ + 1]
    /\ \E k \in 0..Len(checkpoints[p]) :
         /\ \A j \in DOMAIN checkpoints[p] :
              j <= k <=> checkpoints[p][j].sequence <= cpSequence'[p]
         /\ checkpoints' = [checkpoints EXCEPT ![p] =
              InsertAt(@, k + 1, [step |-> s, sequence |-> cpSequence'[p]])]
    /\ UNCHANGED <<planVars, queueVars, loopVars, execVars, histVars>>

Start ==
    /\ ~running
    /\ running' = TRUE
    /\ loop' = "trying"
    /\ UNCHANGED <<planVars, queueVars, current, unstarted, executing, execVars,
                   cpVars, histVars>>

(* stop cancels the dispatch task; a gather passes the cancellation on to  *)
(* the batch.  CancelledError is no Exception, so neither _execute_step    *)
(* nor _execute_plan records anything, and complete is not reached.        *)
Stop ==
    /\ "stop" \in UserOps
    /\ running
    /\ running' = FALSE
    /\ loop' = "none"
    /\ current' = NoPlan
    /\ unstarted' = {}
    /\ executing' = {}
    /\ interrupted' = interrupted \cup ({current} \cap Plan)
    /\ UNCHANGED <<planVars, queueVars, execVars, cpVars, runs, rollbacks,
                   disturbed>>

-----------------------------------------------------------------------------
(* The dispatch loop.                                                      *)

IsComplete(p) == \A s \in StepsOf(p) : step[s] \in Terminal

\* Mutant: dependencies need only have ended, not succeeded.
IsReadyAfterEnd(p, ids, s) ==
    /\ s \in StepsOf(p)
    /\ step[s] = "pending"
    /\ s \notin ids
    /\ \A d \in DependsOn[s] : step[d] \in Terminal

\* Mutant: a step found running is taken for interrupted and run again.
IsReadyAgain(p, ids, s) ==
    /\ s \in StepsOf(p)
    /\ step[s] \in {"pending", "running"}
    /\ s \notin ids
    /\ \A d \in DependsOn[s] : step[d] = "succeeded"

(* _find_ready_steps.  ids is the executor's _cancelled.                   *)
IsReady(p, ids, s) ==
    /\ s \in StepsOf(p)
    /\ step[s] = "pending"
    /\ s \notin ids
    /\ \A d \in DependsOn[s] : step[d] = "succeeded"

NoneReady(p, ids) == \A s \in StepsOf(p) : ~IsReady(p, ids, s)

HasInFlight(p) == \E s \in StepsOf(p) : step[s] = "running"

(* _skip_blocked_steps                                                     *)
BlockedSkipped(p) ==
    [s \in Step |-> IF s \in StepsOf(p) /\ step[s] = "pending"
                    THEN "skipped" ELSE step[s]]

\* Mutant: a plan with a success and no failure counts as succeeded.
ComputedStatusAny(p, st) ==
    LET has(status) == \E s \in StepsOf(p) : st[s] = status
    IN  IF has("failed") THEN "failed"
        ELSE IF has("cancelled") /\ ~has("succeeded") THEN "cancelled"
        ELSE "succeeded"

(* _compute_plan_status                                                    *)
ComputedStatus(p, st) ==
    LET has(status) == \E s \in StepsOf(p) : st[s] = status
    IN  CASE has("failed")                                    -> "failed"
          [] \A s \in StepsOf(p) : st[s] = "succeeded"        -> "succeeded"
          [] ~has("failed") /\ has("cancelled")               -> "cancelled"
          [] ~has("failed") /\ ~has("cancelled")              -> "succeeded"

(* One pass of the while loop of DAGExecutor.execute, up to where it       *)
(* suspends or ends.  act, ev, exs and inFl are the plan's status, the     *)
(* latest events, the executors and the in-flight table when it begins.    *)

DispatchBatch(p, ids) ==
    /\ ~NoneReady(p, ids)
    /\ step' = [s \in Step |-> IF IsReady(p, ids, s) THEN "ready" ELSE step[s]]
    /\ unstarted' = {s \in StepsOf(p) : IsReady(p, ids, s)}
    /\ loop' = "gather"

KeepPolling(p, ids) ==
    /\ ~IsComplete(p)
    /\ NoneReady(p, ids)
    /\ HasInFlight(p)
    /\ loop' = "polling"
    /\ UNCHANGED <<step, unstarted>>

Suspend(p, act, ev, exs, inFl) ==
    /\ active' = act
    /\ lastEvent' = ev
    /\ executors' = exs
    /\ inFlight' = inFl
    /\ current' = p

\* Mutant: the executor's entry is not popped at the end.
FinishPlanKeepsExecutor(p, st, act, ev, exs, inFl) ==
    LET status == ComputedStatus(p, st)
    IN  /\ step' = st
        /\ active' = [act EXCEPT ![p] = status]
        /\ lastEvent' = [ev EXCEPT ![p] = CASE status = "succeeded" -> "completed"
                                            [] status = "failed"    -> "failed"
                                            [] status = "cancelled" -> @]
        /\ executors' = exs
        /\ inFlight' = SlotReleased(inFl, p)
        /\ current' = NoPlan
        /\ loop' = "trying"
        /\ UNCHANGED unstarted

(* The end of execute and of _execute_plan, then complete: the plan takes  *)
(* the computed status, whatever status it was given in the meantime.      *)
FinishPlan(p, st, act, ev, exs, inFl) ==
    LET status == ComputedStatus(p, st)
    IN  /\ step' = st
        /\ active' = [act EXCEPT ![p] = status]
        /\ lastEvent' = [ev EXCEPT ![p] = CASE status = "succeeded" -> "completed"
                                            [] status = "failed"    -> "failed"
                                            [] status = "cancelled" -> @]
        /\ executors' = exs \ {p}
        /\ inFlight' = SlotReleased(inFl, p)
        /\ current' = NoPlan
        /\ loop' = "trying"
        /\ UNCHANGED unstarted

EndOfPlan(p, ids, act, ev, exs, inFl) ==
    \/ IsComplete(p) /\ FinishPlan(p, step, act, ev, exs, inFl)
    \/ /\ ~IsComplete(p)
       /\ NoneReady(p, ids)
       /\ ~HasInFlight(p)
       /\ FinishPlan(p, BlockedSkipped(p), act, ev, exs, inFl)

OnePass(p, ids, act, ev, exs, inFl) ==
    /\ \/ DispatchBatch(p, ids) /\ Suspend(p, act, ev, exs, inFl)
       \/ KeepPolling(p, ids) /\ Suspend(p, act, ev, exs, inFl)
       \/ EndOfPlan(p, ids, act, ev, exs, inFl)
    /\ UNCHANGED <<running, executing, cpVars, histVars>>

(* dequeue finds a plan that is not paused: _execute_plan and the first    *)
(* pass of its new executor, in one go.  A plan whose status is already    *)
(* terminal is executed like any other.                                    *)
Dispatch ==
    /\ loop = "trying"
    /\ \E l \in Level :
         LET p == Head(queues[l]).plan
         IN  /\ IsChosen(queues, inFlight, l)
             /\ active[p] # "paused"
             /\ queues' = Popped(queues, l)
             /\ cancelledIds' = [cancelledIds EXCEPT ![p] = {}]
             /\ OnePass(p, {},
                        [active EXCEPT ![p] = "running"],
                        [lastEvent EXCEPT ![p] = "started"],
                        executors \cup {p},
                        TakesSlot(inFlight, EffectiveLevel(Head(queues[l])), p))

(* dequeue finds a paused plan: _execute_plan returns at once, complete    *)
(* gives a slot back, and the queue entry is gone.  (Between the end of a  *)
(* plan and the next dequeue the code does not suspend; the model lets     *)
(* other tasks in, which only adds behaviours.)                            *)
DropPaused ==
    /\ loop = "trying"
    /\ \E l \in Level :
         LET p == Head(queues[l]).plan
         IN  /\ IsChosen(queues, inFlight, l)
             /\ active[p] = "paused"
             /\ queues' = Popped(queues, l)
             /\ inFlight' = SlotReleased(
                    TakesSlot(inFlight, EffectiveLevel(Head(queues[l])), p), p)
    /\ UNCHANGED <<planVars, loopVars, execVars, cpVars, histVars>>

WaitForItem ==
    /\ loop = "trying"
    /\ \A l \in Level : ~IsCandidate(queues, inFlight, l)
    /\ loop' = "waiting"
    /\ UNCHANGED <<planVars, queueVars, running, current, unstarted, executing,
                   execVars, cpVars, histVars>>

(* A task of the batch passes the semaphore, in the order of creation, and *)
(* calls step_executor.                                                    *)
StartStep ==
    /\ loop = "gather"
    /\ Cardinality(executing) < MaxConcurrent
    /\ \E i \in DOMAIN Steps[current] :
         LET s == Steps[current][i]
             told == s \in cancelledIds[current]
         IN  /\ s \in unstarted
             /\ \A j \in 1..i-1 : Steps[current][j] \notin unstarted
             /\ unstarted' = unstarted \ {s}
             /\ step' = [step EXCEPT ![s] = IF told THEN "cancelled" ELSE "running"]
             /\ executing' = IF told THEN executing ELSE executing \cup {s}
             /\ runs' = IF told THEN runs ELSE [runs EXCEPT ![s] = @ + 1]
    /\ UNCHANGED <<active, lastEvent, queueVars, running, loop, current,
                   execVars, cpVars, rollbacks, disturbed, interrupted>>

(* step_executor returns or raises; the status is overwritten.             *)
EndStep(s, status) ==
    /\ s \in executing
    /\ step' = [step EXCEPT ![s] = status]
    /\ executing' = executing \ {s}
    /\ UNCHANGED <<active, lastEvent, queueVars, running, loop, current,
                   unstarted, execVars, cpVars, histVars>>

StepSucceeds(s) == EndStep(s, "succeeded")

StepFails(s) == EndStep(s, "failed")

(* step_executor raises CancelledError, which is no Exception: nothing is  *)
(* written, and gather takes it for a result.                              *)
StepCut(s) == s \in CutSteps /\ EndStep(s, step[s])

(* gather returns, and the loop makes its next pass.                       *)
BatchDone ==
    /\ loop = "gather"
    /\ unstarted = {}
    /\ executing = {}
    /\ OnePass(current, cancelledIds[current], active, lastEvent, executors,
               inFlight)
    /\ UNCHANGED <<queues, cancelledIds>>

(* The sleep of 0.05 s is over.                                            *)
Poll ==
    /\ loop = "polling"
    /\ OnePass(current, cancelledIds[current], active, lastEvent, executors,
               inFlight)
    /\ UNCHANGED <<queues, cancelledIds>>

(* Time passes: queued plans age.                                          *)
Tick ==
    /\ queues' = OlderQueues(queues)
    /\ queues' # queues
    /\ UNCHANGED <<planVars, inFlight, loopVars, execVars, cpVars, histVars>>

UserStep ==
    \/ \E p \in Plan : Submit(p) \/ Cancel(p) \/ Pause(p) \/ Resume(p)
    \/ \E p \in Plan : \E n \in 1..MaxCheckpoints : Rollback(p, n)
    \/ \E p \in Plan : \E s \in Step : CheckpointStep(p, s)
    \/ Start \/ Stop

LoopStep == Dispatch \/ DropPaused \/ WaitForItem \/ BatchDone \/ Poll

Next ==
    \/ UserStep
    \/ LoopStep
    \/ StartStep
    \/ \E s \in Step : StepSucceeds(s) \/ StepFails(s) \/ StepCut(s)
    \/ Tick

Spec == Init /\ [][Next]_vars

(* asyncio runs every task that is ready, and the application starts the   *)
(* orchestrator.  That an execution of a step ends is owed by the step     *)
(* executor; nothing here bounds it.  Users owe nothing else.              *)
Fairness ==
    /\ WF_vars(LoopStep) /\ WF_vars(StartStep) /\ WF_vars(Start)
    /\ \A s \in Step : WF_vars(StepSucceeds(s) \/ StepFails(s) \/ StepCut(s))

FairSpec == Spec /\ Fairness
-----------------------------------------------------------------------------
(* Properties.                                                             *)

PlanOf(s) == CHOOSE p \in Plan : s \in StepsOf(p)

Owned == UNION {StepsOf(p) : p \in Plan}

(* A step that was dispatched, runs or has succeeded has all its           *)
(* dependencies succeeded, through cancellations, pauses, duplicated queue *)
(* entries, restarts of the loop and rollbacks (dag.py:230) - unless its   *)
(* plan was rolled back while it was executing or is listed out of order   *)
(* (core.py:302).                                                          *)
DependenciesMet ==
    \A s \in Owned :
        (step[s] \in {"ready", "running", "succeeded"} \/ s \in InFlightSteps)
        /\ PlanOf(s) \notin disturbed
        => \A d \in DependsOn[s] : step[d] = "succeeded"

(* A step is executed at most once, and once more per rollback, although   *)
(* plans are queued twice by pause and resume and executed again after the *)
(* end (core.py:417 does not look at the status).                          *)
ExecutedAtMostOnce ==
    \A s \in Owned : runs[s] <= 1 + rollbacks[PlanOf(s)]

(* A plan reported SUCCEEDED has no step that failed, was skipped or never *)
(* ran, unless stop() cut its execution off or a rollback disturbed it.    *)
SuccessIsComplete ==
    \A p \in Plan :
        active[p] = "succeeded" /\ p \notin disturbed \cup interrupted
        => \A s \in StepsOf(p) : step[s] = "succeeded"

(* Slots of the queue and entries of _executors are held by the plan in    *)
(* execution only, or were leaked by stop() (core.py:475 and 411).         *)
ResourcesReleased ==
    /\ \A l \in Level : inFlight[l] \subseteq interrupted \cup {current}
    /\ executors \subseteq interrupted \cup {current}

(* What an observer of the bus saw last of a plan that succeeded, failed   *)
(* or is paused is just that, whoever published meanwhile (core.py:452).   *)
ObserversAgree ==
    \A p \in Plan :
        /\ active[p] = "succeeded" => lastEvent[p] = "completed"
        /\ active[p] = "failed" => lastEvent[p] = "failed"
        /\ active[p] = "paused" => lastEvent[p] = "paused"

(* The status of a step that has ended and is not in flight is changed by  *)
(* nothing but a rollback: neither a second execution of its plan nor a    *)
(* late result touches it.                                                 *)
EndedStepsFrozen ==
    [][\A s \in Owned :
         step[s] \in Terminal /\ s \notin InFlightSteps
         /\ rollbacks'[PlanOf(s)] = rollbacks[PlanOf(s)]
         => step'[s] = step[s]]_vars

(* The steps as an observer of results sees them: a step is busy from its  *)
(* dispatch to its own end, whatever status cancel writes over it.         *)
Progress ==
    [s \in Step |->
       IF s \in InFlightSteps THEN "busy"
       ELSE CASE step[s] = "pending"                    -> "idle"
              [] step[s] \in {"ready", "running"}       -> "lost"
              [] step[s] = "succeeded"                  -> "done"
              [] step[s] = "failed"                     -> "failed"
              [] step[s] \in {"skipped", "cancelled"}   -> "dropped"]

Dataflow == INSTANCE StepDataflow WITH state <- Progress

(* The orchestrator implements the dataflow of its plans: no step is ever  *)
(* dispatched before its dependencies are done, dispatched while busy, or  *)
(* ended by anything but its own result.                                   *)
ImplementsDataflow == Dataflow!Spec

(* Steps that say RUNNING and that nobody executes.                        *)
Orphans == {s \in Step : step[s] = "running" /\ s \notin executing}

(* A plan that was submitted or resumed ends or is paused, whatever else   *)
(* is queued, cancelled, paused and resumed, if the loop is left running,  *)
(* was never stopped in the middle of a plan (core.py:405), and no step    *)
(* was left RUNNING by an executor that raised CancelledError.             *)
PlansEnd ==
    <>[]running /\ [](interrupted = {}) /\ [](Orphans = {})
    => \A p \in Plan :
         active[p] \in {"pending", "running"}
         ~> active[p] \in {"succeeded", "failed", "cancelled", "paused"}
=============================================================================
