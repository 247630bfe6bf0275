# Formal model of AAiOS

TLA+ specifications of the parts of AAiOS that carry its own protocol logic,
the TLC instances that check them, and TLAPS proofs of their main properties.
Everything is written from the Python code; where a docstring or a document
says something else, the model follows the code and the difference is listed
under *Divergences*.

To check: `tlc -config X.cfg MCY.tla` for a run below, `tlapm Y_proofs.tla` for
a module of proofs.

## 1. The system

AAiOS is a single asyncio process (plus the processes of the tools it calls).
A user layer hands goals to a supervisor, which plans them and submits the plan
to the task orchestrator; steps are executed by agents through the model router,
and operations on the machine go through the execution platform.

| component | state | operations | talks to | what is hard |
|---|---|---|---|---|
| priority queue (`orchestrator/queue.py`) | five queues, in-flight sets per level, wake-up event | enqueue, dequeue, complete, remove | dispatch loop, cancel | aging moves items between levels; slots are looked up, not remembered; one event for all waiters |
| task orchestrator, DAG executor (`core.py`, `dag.py`) | plans and their status, step statuses, executors, checkpoints | submit, cancel, pause, resume, rollback, checkpoint_step, start, stop | queue, bus, checkpoint store, step executor | user operations land between the dispatch of a batch and its results; late results; restarts |
| plan validation (`dag.py`) | none between calls | validate_dag | submit | a verdict that must be exact for the executor to end |
| scheduler (`scheduler.py`) | tasks with next_run_at, run_count, enabled | schedule, unschedule, start, stop | callbacks | a task stays due while its callback runs |
| approval gates, workers | pending futures, jobs | request, respond, timeout; submit, cancel | (tests only) | timeouts racing answers |
| execution manager (`services/execution/manager.py`) | requests, results, queue, audit log | execute, submit, replay, cancel, rollback, start, stop | policy, approvals, handlers | cancellation and results overwrite one record; rollback plans are written in one file and interpreted in another |
| approval engine (`approval_engine.py`) | pending requests, futures, history | request, await, approve, reject, cancel, get_pending | executions, operators | six ways to end an approval race; `wait_for` cancels a shared future |
| cluster (`services/distributed`) | nodes with status, heartbeat age and load; dispatches | register, deregister, heartbeat, set_status, periodic check; dispatch, await_result, cancel | remote nodes, local executor | late results and cancellations of one handle; a status written by three parties |
| mission service (`services/organization`) | missions in memory, indices, the store's files, snapshots | create, edit, start, pause, resume, cancel, complete, fail, replan, delete, boot | disk, bus | three copies of a mission, written one after the other |
| model router (`services/model_router`) | providers, configurations, health, rate windows, cost ledger | register, unregister, complete, stream, shutdown | providers | all of it is read before a provider's call and written after it |
| agent registry (`services/agent_registry`) | entries, capability index, heartbeat round | register, unregister, enable, disable, reload, heartbeat | agents | a lock held while agents are waited for, and readers that do not take it |
| event bus, state manager (`core/event_bus`, `core/state`) | event log, subscribers, scheduled deliveries; aggregates, counts, snapshots | publish, subscribe, unsubscribe, replay; reduce, snapshot | everything | one task per subscriber and event; replays |
| supervisor | active tasks, step executor | submit_goal, correction loop | orchestrator, agents | one executor for all goals |
| engines, plugins, MCP, memory, security, update, backup, desktop, analytics | dictionaries of records | see `PROJECT.json` | external programs | mostly I/O or sequential |

What makes each component correct: a queue respects its limits, order and
slots; the orchestrator runs a step only after its dependencies, once, and ends
every plan with a status its steps and its events agree with; validation accepts
exactly the plans the executor can finish; a schedule fires within its limits
and is not lost; an approval ends once and everyone who waits learns how; an
execution runs once, keeps its outcome and is audited as what it became; a
dispatch ends, and ends as its awaiters were told; what a mission operation
acknowledged survives every crash; completions end and overrun a provider's window
by no more than their number; agents never depend on themselves, and the index
finds the right ones; the state folded from events is that of the event log.

`PROJECT.json` lists every component with its sources, the hazards at the lines
where they bite, and for each modelled definition the lines it stands for.

### Atomicity

asyncio switches tasks at suspensions only, so a step of a model is the code
between two awaits that can suspend. Many `await`s cannot: the in-memory bus,
event store and checkpoint store return without suspending, and every
`asyncio.Lock` in the modelled files but two guards code that awaits nothing that
suspends, so no such lock is ever contended. One is the agent registry's,
held while an agent is waited for; `AgentRegistry` has it as a variable. The other is
the node registry's, held while a status callback is awaited
(`node_registry.py:165-171`); nothing in the repository sets that callback and `Cluster`
has neither. File
writes are synchronous: nothing interleaves with them, but a crash or an error
may cut them anywhere, and `Mission` lets it. What does suspend is `Event.wait`,
`gather`, `sleep`, `wait_for`, callbacks, step executors and subprocesses, and
there the models let anything else happen. Subscribers of the bus run in tasks
of their own and are not part of the publisher's step.

## 2. Modules

| module | models | uses |
|---|---|---|
| `QueueOps` | the data of `queue.py`: levels, aging, candidates, slots | - |
| `PriorityQueue` | the queue with several consumers, its event, the clock | `QueueOps` |
| `StepDataflow` | abstract: what the orchestrator promises about steps | - |
| `TaskOrchestrator` | `core.py` and the executor of `dag.py`, one dispatch loop | `QueueOps`; `INSTANCE StepDataflow` |
| `PlanValidation` | `validate_dag` | - |
| `Scheduler` | `scheduler.py` | - |
| `ApprovalEngine` | `approval_engine.py` | - |
| `ExecutionManager` | `manager.py` with the filesystem handler of `handlers.py` | - |
| `Mission` | `manager.py`, `store.py`, `persistence.py`, `state_machine.py` of the organization service, with the disk | - |
| `Cluster` | `cluster_manager.py` and `node_registry.py` | - |
| `ModelRouter` | `router.py`, `rate_limiter.py`, `cost_ledger.py`, the health of `provider.py` | - |
| `AgentRegistry` | `registry.py` | - |
| `EventBus` | `bus.py` over `memory.py`, without the handlers | - |
| `StateManager` | `state/manager.py`, `reducers.py`, composed with the bus | `EventBus` |
| `*_proofs` | the theorems about the module named | that module, `TLAPS` |
| `Execution_proofs` | the theorems about `ApprovalEngine` and `ExecutionManager` | both, `TLAPS` |
| `Services_proofs` | the theorems about `Cluster`, `AgentRegistry`, `ModelRouter` and `StateManager` | all four, `TLAPS` |
| `MC*` | values of the constants for TLC | the module named |

The modules that share a module of proofs have names of their own for what each
has: `ClusterTypeOK`, `RouterSpec`, `StateInit` and so on.

### Correspondence

**PriorityQueue.** `queues`, `inFlight` are `_queues`, `_in_flight`; `consumer`
says where a task running "dequeue, execute, complete" stands and `held` what it
executes. `Enqueue`, `Complete` and `RemovePlan` are the methods; `Dequeue` is a
successful `dequeue` and `DequeueSlip` one where the clock moves between its two
readings (`queue.py:181`, `153`), after which the slot is taken at another level
than the one checked. The event needs no variable: it is cleared just before the
wait and set only by `enqueue`, so a waiter leaves exactly when something is
enqueued. Ages are counted in ticks up to `MaxAge`, beyond which every
priority is at level 0. `slips` and `leaked` are history.

**TaskOrchestrator.** `active`, `step` are the statuses of plans and steps;
`loop` is where the dispatch task is suspended (dequeue, gather, poll) and
`current` the plan in `_execute_plan`. `Dispatch` is dequeue, `_execute_plan`
and the first pass of the executor; `BatchDone` and `Poll` are the later passes
of `DAGExecutor.execute`, each of which dispatches a batch, goes on polling, or
ends the plan (skip what is blocked, compute the status, publish, release).
`StartStep` is a task passing the semaphore, `StepSucceeds` and `StepFails` its
end, and `StepCut` the end of one whose executor raises `CancelledError`, which
`except Exception` does not catch: the step stays RUNNING (for the steps of
`CutSteps`). `Cancel`, `Pause`, `Resume`, `Rollback`, `CheckpointStep`, `Start` and
`Stop` are the public methods, with all they write; a checkpoint may be taken of any
step of an accepted plan at any time. `runs`, `rollbacks`,
`disturbed` and `interrupted` are history: a plan is *disturbed* when it was
rolled back while executing or is listed against its dependencies, and
*interrupted* when `stop()` cut its execution off.

**StepDataflow** knows of a step only whether it is idle, busy, done, failed,
dropped or lost. `TaskOrchestrator!Progress` is the refinement mapping: a step is
busy from its dispatch to its own end, whatever status `cancel` writes meanwhile.

**PlanValidation.** `deps` is the input; `stack` is the call stack of the
recursive `dfs`, whose entries are the GRAY steps, each the parent of the next.
`Visit`, `Descend`, `CloseCycle` and `Finish` are the moves of the search, `Roots`
and `Sweep` the breadth-first pass. A dependency on a foreign id, self-loops and
every listing of roots are included.

**Scheduler.** Times are ticks from now. `Pass` is one wake-up of the loop,
`StartFire` a fire up to its callback, `EndFire` the rest of it. Fires of a task
are counted, being alike. `overlapped` and `late` are history: tasks found due
with a fire not ended, and one-time tasks whose time passed inside `schedule`.

**ApprovalEngine.** `await_decision` is `AwaitDecision`, `Timeout`
(the timer of `wait_for` cancels the future), and the task going on, by `Resume`
after a decision and by `Expire` or `FindDecision` after the timer; other tasks
run in between. `Interrupt` is the cancellation of the waiter's task from outside,
which cancels the shared future with it. `future` holds the record the future was
resolved with.

**ExecutionManager.** `request`, `result` are `_requests` and `_results`, `last`
is the newest audit entry about an execution, `dispatched` counts its dispatches.
`Pipeline` is `_execute_internal` up to the handler's wait (`running`) or to its
end: only a command suspends, the filesystem handler does not. The policy engine
may refuse anything, sandbox setup may raise, a handler may fail. `CallerCancelled`
cancels the task that waits in `execute` or `replay`. `files` maps
paths to contents, `before` keeps what the handler saw when it made the rollback
plan, and `Undone` is what `rollback` makes of that plan; `RollbackFails` is a step
of it that raises, which may leave a file emptied. An approval is
requested and given by `"auto"` in the same step, so none is ever pending.

**Mission.** `mem`, `file` and `snap` are the three copies of a mission: the
store's dictionary, its file (only with a storage directory, `storeDir`) and the
snapshot; `filed` is the mission as the indices have it, its `content` standing for
everything else an edit may change, owner and tags included. `UpdateMission` edits
priority and content; `DeleteMission` raises after any change of what the indices file
a mission by, and may after an edit of its content. `Die` and `Crash` are the process's
end, no method's. Every other operation is the method's own change followed by
`Write`, which is acknowledged, or fails or dies at one of its writes (`Interrupted`;
the file may then be `Torn`, the snapshot is renamed into place and may not). `Boot` is `MissionStore.__init__`;
`RecoverMission` is one mission's turn in `recover_all` and in `start()`, which
`RecoveryCut` ends half way. `may` is history: the last acknowledged state and
all that was attempted since.

**Cluster.** `node` holds status, age of the last heartbeat and load; `Checked` is
what a round of the loop makes of a node. `status` is a dispatch handle's, `task`
where its `_execute` stands, so that a late `Settle` may follow `Cancel`; `CallCut`
is a call that raises `CancelledError`, after which nobody writes the handle. `Tick`
ages every node; the loop wakes on time. `unchecked` and `answer` are history.

**ModelRouter.** `held` is `_providers`, `offered` is `_configs` and `_health`
(`health` is the status in the latter):
they differ while, or after, an unregistration waits for `shutdown()`. `closing` counts
the unregistrations of a name that wait, of which a registration in between makes
several; registering a name that is there replaces everything in place. `Shutdown`,
`ShutdownDone` and `ShutdownFailed` are the router's, which waits for one provider after
another while the dictionary it iterates over may change size. `call` is a
request's provider and the selected names it has left; `detached` says that the
health object it holds has been replaced. A name keeps its priority and limits when it is
registered again; costs are whole numbers, where the code adds and subtracts floats
(`cost_ledger.py:79-86`) and so drifts; the totals by task and by user, kept in the
same way, are left out. `Try` is the loop up to its next wait,
with the names it skips and the `KeyError` it dies of. `recent` is the rate window,
whose oldest entry `Expire` drops at any time.

**AgentRegistry.** `op` is the operation that holds the lock with the agent it
waits for; `beat` is the heartbeat round, which takes no lock. `NoCycle` states
what the depth-first search of `_check_no_cycle` decides. `reloaded` is history.

**EventBus, StateManager.** `log` is the store; `ready` holds, for each subscriber,
the events whose `_dispatch` tasks are scheduled, in the loop's order. The order
between subscribers is left open: a handler touches only what is its own. A handler
begins when its turn comes; the state manager's never suspends, so it ends there
too. Numbers of events are those the store gives within a stream (`SequenceOf`).
An event is in the stream of its correlation id (`task`) and is folded into the aggregate
that the payload's `aggregate_id` names, or else the correlation id (`about`); what names
no UUID (`NoId`) is dropped uncounted. Topics `task.*` without a status of their own
("noted") are counted. `task_reducer` is the only reducer that the program registers
(`core/bootstrap.py`); a reducer that raises (`manager.py:114-123`) or deletes an aggregate
(`127-129`) is not modelled, and it does neither. `begun`, `from` and `to` are history.

## 3. Runs

| run | instance | shows |
|---|---|---|
| `queue_safety` | two consumers, one stoppable, three plans on two levels, limit 1 | `LimitRespected`, `NoLeakedSlot`, `NoOvertakingStep` |
| `orch_safety` | one plan with a fork, all user operations, semaphore 1, steps that may be cut | `DependenciesMet`, `ExecutedAtMostOnce`, `SuccessIsComplete`, `ResourcesReleased`, `ImplementsDataflow` |
| `orch_two_plans` | two plans of one priority, fair | `ObserversAgree`, `PlansEnd` |
| `plan_validation` | every relation over three steps and a foreign id | `VerdictExact`, `CyclePathIsReal` |
| `scheduler` | one-time, endless and limited task, the last with interval 0 and an end | `RunsWithinLimit`, `DisabledForGood`, `KeepsFiring` |
| `approvals` | three approvals, two waiters | `FutureFollowsDecision`, `VerdictReachesWaiter`, `VerdictFinal`, `DecisionReturns` |
| `execution` | two executions, eight kinds of request | `AuditAgrees`, `OutcomeKept`, `QueueDrains` |
| `mission` | one mission, two values of each field, up to two attempts in doubt, with and without a directory | `Durable`, `EndedForGood`, `BootPauses` |
| `cluster` | two nodes, one the manager's own, one dispatch, ages up to 3 | `FreshOnline`, `AnswersStand`, `DispatchesEnd` |
| `model_router` | two providers, both registered again in place, one removable, two callers, window and ledger of one entry, the router's own shutdown | `OverrunBounded`, `LedgerBalances`, `RequestsEnd` |
| `agent_registry` | three agents, one of them also initialized and reloaded, one capability | `Acyclic`, `IndexExact` |
| `state_manager` | three events in two streams: a task is created and started in its own, paused from another's, one names no UUID; a snapshot every two, one other subscriber | `StateFollowsLog`, `SnapshotRecovers`, `EventsArrive` |

The runs of the last four modules also check the type invariants (`ClusterTypeOK`,
`RouterTypeOK`, `RegistryTypeOK`, `StateTypeOK`); for the other modules the type
invariant is only a theorem (section 4), and so are `AgeOrdered`, `EndedStepsFrozen`,
`LimitStopsSchedule` and `DispatchedOnce`.

**Bounds.** Ages, run counts and times stop at the value beyond which the code
no longer tells them apart. `MaxCopies` (queued items of one plan) is 2 where
pause and resume may queue a plan while it executes: the second copy is the one
that meets a finished or half-finished plan. `MaxRollbacks` 1 and
`MaxCheckpoints` 2 give a rollback to the earlier of two checkpoints. A plan
needs three steps for a batch of two behind a semaphore of one. `MaxOpen` 2
gives overlapping fires; `MaxRuns` is 3, one run more than the limit of a task,
where a count that passes the limit shows. Validation is run for three steps, where a cycle may be
a self-loop, a pair or a triangle, entered from a root or not. Two waiters are
enough to share a future or not, three approvals to expire two in one call with
one of another kind beside them. Two executions are one in the dispatcher and
one beside it. Missions share nothing but the boot, so one is enough beside the
proof; `MaxDoubt` 3 is the acknowledged state and two attempts after it. One
dispatch is enough, since dispatches share only the registry; two nodes are a
local and a remote one, or a loaded and an idle one; ages up to 3 are fresh,
unhealthy and offline. With two callers one can be in flight while the other is
selected, fails over or ends, and a ledger and a window of one entry are full at
once; two and five failures to DEGRADED and UNHEALTHY are one and two, two
unregistrations of a name (`MaxClosing`) and one shutdown of the router wait at once.
`CutSteps` is every step in `orch_safety` and none in `orch_two_plans`, whose
liveness excludes them. A circle through an agent that left
needs three agents. Three events are enough for one that is
not counted, created and started: to be replayed, and to have a snapshot whose
sequence is behind the store's. Only from four events in one stream on does it matter
that a task is created before a status is set (section 4); longer streams, and "noted"
and `step.*` topics, are left to the proof, and `MaxEvents` ends the publishing. What
the runs show for these instances the proofs show for all, where section 4 has
them.

**Fairness.** Weak fairness only, and only of what the event loop does by
itself: a task that is ready runs, time passes, a scheduled delivery begins, and what is
called comes back. The last is the code's own doing for a command, which has a timeout
(`handlers.py:340`), and for a call of the cluster (`wait_for`). It is an assumption
for step executors and scheduled callbacks, which `dag.py` and `scheduler.py` await
without a timeout, and for a provider's completion, whose HTTP client gives up on
silence only (`openai_compatible.py:86`). Of a stream nothing is assumed: it waits for
its reader (`router.py:254`), so `RequestsEnd` is about completions. Nothing is assumed
of users, producers, operators or approval timers either. `PlansEnd` and
`DispatchesEnd` exclude the steps and calls that end by `CancelledError`, which nobody
records. `TaskOrchestrator` assumes that a stopped loop is started by the application, and
`PlansEnd` speaks of loops that are left running from some time on. It is
checked for plans of one priority: with two, repeated pause and resume of the
more urgent plan keeps the other waiting for ever, and that is how a priority
queue works.

**Deadlock** is checked except for `PlanValidation` (a call that ends),
`ApprovalEngine` and `Scheduler` (every approval may be decided, every schedule
over) and `StateManager` (publishing is bounded).

## 4. Proofs

All theorems hold for every value of the constants under the named `ASSUME`s:
finite sets of plans, consumers and steps, limits and thresholds in the natural
numbers, distinct ids, listings without repetition, dependencies without cycle.

- **PriorityQueue.** `TypeCorrect`; `AgeOrderCorrect`, inductive as it stands
  with the types (an item enters at the tail with age 0, and all age together);
  from it `NoOvertakingCorrect`: the head is the most urgent item of its queue
  because the effective level is antitone in the age. `LimitCorrect` counts: a
  slot is taken after a check of the same level, or in a slip. `SlotsReleasedCorrect`
  compares the cardinality of the levels a plan occupies with that of the consumers
  that execute it, action by action.
- **TaskOrchestrator.** `Inv` is types and `LoopInv` (which plan the loop is
  in, that steps in flight belong to it, that no step in flight has
  succeeded, failed or been skipped). `EndedStepsCorrect` and `DataflowCorrect` (refinement of
  `StepDataflow`, one step of the abstract specification for each step that
  changes `Progress`) follow from it. `ExecutionsCorrect` strengthens to a
  `Budget`: a step that is pending or dispatched and not begun *owes* one run, and runs made
  plus owed never exceed one per rollback. `DependenciesCorrect` and
  `ObserversCorrect` are inductive with `Inv`. `SuccessCorrect` adds that a READY step nobody
  executes was left by `stop()` (`ReadyInv`) and that a skipped step depends on one
  that failed, was cancelled or skipped for good (`SkipInv`); as dependencies have no
  cycle (`AcyclicAssumption`, what `validate_dag` guarantees), a plan in which nothing
  failed or was cancelled skipped nothing. A step left RUNNING, by `stop()` or by
  `StepCut`, needs no such part: the executor polls while there is one. `ResourcesCorrect`
  needs `OneSlot`: the current plan occupies one level only, so the first slot that `complete`
  meets is the right one, unless `stop()` leaked another.
- **PlanValidation.** `VerdictCorrect`: BLACK steps are closed under *dependents*
  and every set of BLACK steps has one without dependency inside
  (`BlackOK`), so an all-BLACK graph is acyclic; GRAY steps form a chain
  (`StackOK`), so a GRAY neighbour is a cycle. The sweep reaches every step of an
  acyclic plan (`SweepOK`), so it rejects nothing. `PathCorrect` follows the stack.
- **ApprovalEngine.** `ApprovalInv` says that pending is the status pending
  (`FutureFollowsDecision`), that a future holds a decided record (`FutureOK`), that a waiter
  whose timer went off finds its approval pending or in the history
  (`WaiterOK`), and that an approval is in the history once exactly when decided
  (`HistoryOK`); `VerdictFinal` is an action property of it.
- **ExecutionManager.** `PlaceOK` says in which statuses an execution may be in
  the queue, have its handler waiting or hold a rollback plan, and a queue
  holds an id `Once`. Every operation is shown to be a `Step` on one execution.
  `OutcomeCorrect` is an action property.
- **Scheduler.** What disables a task is over for good (`DisabledOK`: the run
  count only grows, until stays over), so a fire that ends late disables it
  again rather than making it due: `StopCorrect`, `DisabledCorrect`. `LimitCorrect`
  needs that a task whose fires never overlapped has one fire, created with runs left
  (`FireOK`), and that a one-time task has no next run after its fire (`OneTimeOK`).

- **Mission.** `IInv` is the types with three parts: every file and snapshot is a
  state the mission may be in (`DiskInv`), and so is every copy in memory once the
  manager is started (`MemoryInv`), while during a boot the memory is what the files
  held and every snapshot not yet seen is still to come (`BootInv`); without the last
  the recovery would not know that it has missed nothing. The lemmas show that one
  `Write`, acknowledged or interrupted, keeps them, and each operation is a `Write`.
  `DurableCorrect` follows; `EndedCorrect` and `BootCorrect` are action properties
  of the same invariant.

- **Cluster.** `AnswersCorrect` rests on `DispatchInv`: a handle with an outcome has no
  task left that could settle it again, and one that nobody dispatched has neither.
  `FreshCorrect` needs, beside the types, that while the loop is stopped every node
  counts as unchecked (`IdleInv`), so that a round that starts has promised nothing;
  a round then bounds the age of all that it leaves online, and a tick adds as much
  to the age as to the time since.
- **AgentRegistry.** `RegistryInv` says what the waiting holder of the lock has found
  (`LockInv`: the agent it registers is not registered yet and closes no cycle with its
  dependencies, and the agent it reloads is still registered) and that the agents
  which the heartbeat round, taking no lock, has yet to visit are registered
  (`BeatInv`). `AcyclicCorrect`: a set of agents with a
  dependency each inside, and the new agent among them, would meet the closed set
  that `NoCycle` found without it; the members in that set would be such a set already.
  `IndexCorrect` follows the entry and the index through the same operations.
- **ModelRouter.** `LedgerCorrect` needs that a sum is the sum without its last element
  and that element, and without its first and that element (`SumLonger`,
  `SumShorter`). `OverrunCorrect` counts: a request is admitted while the window has
  room and all the others are at most in flight (`TryAdmits`), and recording it
  trades one in flight for one in the window (`OverrunTraded`).
- **StateManager.** `StateInv` is the types with three parts. What is scheduled for the
  manager was heard by it (`HeardInv`). What is scheduled about a task, once delivered,
  brings its status to the fold of the events about it, if they are all in one stream
  (`OneStream`) and the task is created first
  (`CaughtUpInv`): a replay keeps that because events of such a stream applied
  again, from any of them on, to what they made change nothing (`AppliedAgain`: up
  to the first status that is set again the value stays, from there on it is the
  fold). Of a task whose streams were never replayed (`NotReplayed`), however many feed
  it, the events up to some position are
  delivered and those past it are scheduled in order, so the status is the fold; if it is
  one stream, the snapshot is the state at
  an earlier position and its sequence, the manager's own count, is never ahead of
  the store's there (`ReachedInv`). So the recovery starts from some event before
  the snapshot, and `AppliedAgain` gives `SnapshotCorrect`. That a task must be
  created before a status is set is needed: of the stream step, step, started,
  created with a snapshot every two, the manager makes "pending", and the snapshot
  (sequence 2) with the events past it "running". So is the one stream: of two that feed
  an aggregate, replaying one puts the status back to what that one says, and there is no
  one sequence to cut at.

Sums and folds are recursive functions. What they are is shown by `StepsExist` (any
steps have a history) and `UpTo` (induction up to a bound), both stated of sets and
functions rather than of predicates, and derived from the well-foundedness of `<`.

Only model-checked: all liveness (`PlansEnd`, `KeepsFiring`, `DecisionReturns`,
`QueueDrains`, `DispatchesEnd`, `RequestsEnd`, `EventsArrive`), which the prover does
not reach. Every invariant and action property that a run checks is also a theorem, as it
is stated: of the histories that section 5 does not exclude.

## 5. Divergences

`PROJECT.json` "findings" quotes each. They were met while modelling, and the
models behave as the code does:

- orchestrator: aging does not prevent starvation; cancel does not stop the
  dispatch of a batch; late results over CANCELLED; pause that does not pause; stop
  that does not wait; sequence numbers issued twice; SUCCEEDED with skipped steps;
- scheduler: a one-time task fires again while its callback runs;
- approvals: `get_pending` gives waiters another approval's record, approvers are
  counted by calls, escalation and callbacks are never used;
- executions: approvals given automatically; rollback of write, delete_directory, an
  overwriting copy, an existing directory or an empty file undoes nothing or the
  wrong thing;
- missions: the indices keep the status and priority of creation (owner and tags too);
  `delete` then raises after the mission left the memory, and the mission comes back at the next
  boot; an interrupted mission is paused only where the store has no file of its own;
- cluster: no failover; late results over CANCELLED; scatter to one node;
- router: a stream fails over in the middle of an answer; a failed or overlapping
  unregistration poisons the selection; no backoff, no budget; the rate limit is checked
  before a call and recorded after it, so callers in flight overrun it, and streams are
  never recorded at all;
- agents: unhealthy ones are found; a reload leaves stale capabilities in the index;
- bus: no retry of a failed subscriber; live events carry sequence 0; a snapshot is
  numbered by the manager's count, not the stream's; a replay takes streams where the
  manager folds by aggregate, so replaying one of several streams that feed an aggregate
  puts its state back.

The properties above are stated
so that they hold of the code with these behaviours: `disturbed`, `interrupted`,
`overlapped`, `late`, `slips`, `leaked`, `unchecked`, `reloaded`, `Orphans`, `Abandoned`,
`NotReplayed`, `OneStream` and `CreatedFirst` name exactly the histories excluded. What
goes wrong in those no property catches (most of it is in the findings): `SuccessIsComplete` says
nothing of a plan that `stop()` interrupted, `DependenciesMet` nothing of one that was
rolled back while it executed, `RunsWithinLimit` nothing of overlapping fires, `BootPauses`
nothing of a mission whose own file wins, `IndexExact` nothing of reloaded ids,
`OutcomeKept` and `AnswersStand` nothing of CANCELLED. The hazards say so one by one.

## 6. Not modelled

- Approval gates and the worker pool: only their tests use them.
- The agents, plugins, MCP servers, desktop and Windows integration, gateways,
  memory, knowledge, research and analytics services, surfaces and scripts: external
  programs, I/O, or data computed by one caller, without a protocol between parts.
  They are most of the repository's lines, which is why the map covers a small share.
- Of the execution platform: effects of commands, the sandbox's temporary directory
  (no handler uses it); I/O errors of the filesystem handler fail without effect; only
  the terminal's command suspends, the waits of the other handlers' processes are not
  told from it.
- Of the missions: the resource pool, history and events; `stop()` and `start()` of a live
  manager, operations before `start()`, and a `start()` that raises without the process
  ending (here every interrupted recovery ends it): a manager is used as its module's
  docstring uses it, started once and before anything else. (The HTTP API at
  `surfaces/api/app.py:1086` never starts its manager, so nothing is recovered
  there.) Of the cluster: the status
  callback, awaited under the registry's lock, and the strategies dispatch does not use. Of
  the router: `RateLimiter.acquire`, which nothing calls, and the totals by task and user.
  Of the bus: other stores than the in-memory one (there is none) and what subscribers
  other than the state manager do.
- Python's recursion limit in `validate_dag`.

## 7. Plan

Done in this order: queue; orchestrator over it; its abstract dataflow; validation;
scheduler; approvals; execution manager; missions; cluster; model router; agent
registry; event bus and state manager. Next:

1. The mission service's resource pool, with the missions that release it.
2. The external execution engines, in the shape of the router.
3. The crash safety of an update (`services/update`), in the shape of `Mission`.
