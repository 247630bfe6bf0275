------------------------------ MODULE Scheduler ------------------------------
(***************************************************************************)
(* orchestrator/scheduler.py: a loop wakes up now and then and starts one  *)
(* asyncio task (_fire) for every scheduled task that is due.  A fire      *)
(* counts the run, awaits the callback, and only then disables the task or *)
(* computes its next run: a task stays due while its callback runs.        *)
(*                                                                         *)
(* Steps are the code between two suspensions: a pass of the loop, a fire  *)
(* up to its callback, a fire from its callback to its end.  Times are     *)
(* ticks from now; 0 is due or over, NoTime is None.  How long the loop    *)
(* sleeps and a callback takes is left open.  Fires of one task differ in  *)
(* nothing but how far they are, so they are counted.                      *)
(***************************************************************************)
EXTENDS Integers

CONSTANTS Task,
          OneTime, \* the tasks of type ONE_TIME; the others repeat
          Delay,   \* ticks to run_at, or the interval
          Until,   \* ticks to until, or NoTime
          Limit,   \* max_runs, or NoLimit
          MaxTime, \* no time is further away
          MaxOpen, \* bound: callbacks of a task in progress
          MaxRuns, \* bound: run_count is not told apart beyond
          NoTime, NoLimit

ASSUME TimeAssumption ==
    /\ MaxTime \in Nat /\ NoTime \notin Nat
    /\ Delay \in [Task -> 0..MaxTime]
    /\ Until \in [Task -> 0..MaxTime \cup {NoTime}]

ASSUME LimitAssumption ==
    /\ MaxRuns \in Nat /\ MaxOpen \in Nat \ {0} /\ NoLimit \notin Nat
    /\ Limit \in [Task -> 1..MaxRuns \cup {NoLimit}]

ASSUME TaskAssumption == OneTime \subseteq Task

VARIABLES running,   \* the loop runs
          status,    \* membership of _tasks, in time
          nextRun,   \* next_run_at
          until,     \* the time left to schedule.until
          enabled,
          runCount,  \* run_count
          created,   \* fires created that have not run yet
          executing, \* fires in their callback
          overlapped, \* history: tasks found due with a fire not ended
          late       \* history: one-time tasks whose run_at passed in schedule

taskVars == <<nextRun, until, enabled, runCount>>
histVars == <<overlapped, late>>
vars == <<running, status, taskVars, created, executing, histVars>>

Times == 0..MaxTime \cup {NoTime}

TypeOK ==
    /\ running \in BOOLEAN
    /\ status \in [Task -> {"new", "scheduled", "removed"}]
    /\ nextRun \in [Task -> Times]
    /\ until \in [Task -> Times]
    /\ enabled \in [Task -> BOOLEAN]
    /\ runCount \in [Task -> 0..MaxRuns]
    /\ created \in [Task -> 0..1]
    /\ executing \in [Task -> Nat]
    /\ overlapped \in SUBSET Task
    /\ late \in SUBSET Task

Init ==
    /\ running = FALSE
    /\ status = [t \in Task |-> "new"]
    /\ nextRun = [t \in Task |-> NoTime]
    /\ until = Until
    /\ enabled = [t \in Task |-> TRUE]
    /\ runCount = [t \in Task |-> 0]
    /\ created = [t \in Task |-> 0]
    /\ executing = [t \in Task |-> 0]
    /\ overlapped = {}
    /\ late = {}

Due(t) == status[t] = "scheduled" /\ enabled[t] /\ nextRun[t] = 0

Start ==
    /\ ~running
    /\ running' = TRUE
    /\ UNCHANGED <<status, taskVars, created, executing, histVars>>

(* stop cancels the loop; the fires it created go on.                      *)
Stop ==
    /\ running
    /\ running' = FALSE
    /\ UNCHANGED <<status, taskVars, created, executing, histVars>>

(* schedule, on a valid schedule.  run_at may be now already.              *)
Schedule(t) ==
    /\ status[t] = "new"
    /\ status' = [status EXCEPT ![t] = "scheduled"]
    /\ nextRun' = [nextRun EXCEPT ![t] =
                     IF t \in OneTime /\ Delay[t] = 0 THEN NoTime ELSE Delay[t]]
    /\ late' = IF nextRun'[t] = NoTime THEN late \cup {t} ELSE late
    /\ UNCHANGED <<running, until, enabled, runCount, created, executing,
                   overlapped>>

(* The clock passes run_at between validate_spec and _compute_next_run.    *)
ScheduleLate(t) ==
    /\ status[t] = "new"
    /\ t \in OneTime
    /\ status' = [status EXCEPT ![t] = "scheduled"]
    /\ late' = late \cup {t}
    /\ UNCHANGED <<running, taskVars, created, executing, overlapped>>

Unschedule(t) ==
    /\ status[t] = "scheduled"
    /\ status' = [status EXCEPT ![t] = "removed"]
    /\ UNCHANGED <<running, taskVars, created, executing, histVars>>

(* One pass of _loop: a fire for every task that is due, whether or not    *)
(* earlier fires of the task have ended.  The fires of the last pass have  *)
(* all begun: asyncio starts tasks in the order of their creation, and the *)
(* loop slept in between.                                                  *)
Pass ==
    /\ running
    /\ \A t \in Task : created[t] = 0
    /\ \E t \in Task : Due(t)
    /\ \A t \in Task : Due(t) => executing[t] < MaxOpen
    /\ created' = [t \in Task |-> IF Due(t) THEN 1 ELSE 0]
    /\ overlapped' = overlapped \cup {t \in Task : Due(t) /\ executing[t] > 0}
    /\ UNCHANGED <<running, status, taskVars, executing, late>>

Counted(n) == IF n < MaxRuns THEN n + 1 ELSE n

(* _fire, up to the callback.                                              *)
StartFire(t) ==
    /\ created[t] > 0
    /\ created' = [created EXCEPT ![t] = @ - 1]
    /\ executing' = [executing EXCEPT ![t] = @ + 1]
    /\ runCount' = [runCount EXCEPT ![t] = Counted(@)]
    /\ UNCHANGED <<running, status, nextRun, until, enabled, histVars>>

\* Mutant: the number of runs is compared for equality.
AtLimitExactly(t) == Limit[t] # NoLimit /\ runCount[t] = Limit[t]

\* Mutant: one run too many is allowed.
AtLimitOffByOne(t) == Limit[t] # NoLimit /\ runCount[t] > Limit[t]

AtLimit(t) == Limit[t] # NoLimit /\ runCount[t] >= Limit[t]

\* Mutant: an interval of zero counts as not set.
NextRunFalsy(t) == IF t \in OneTime \/ Delay[t] = 0 THEN NoTime ELSE Delay[t]

(* _compute_next_run once run_at is over.                                  *)
NextRun(t) == IF t \in OneTime THEN NoTime ELSE Delay[t]

(* The callback returns or raises; the rest of _fire.                      *)
EndFire(t) ==
    /\ executing[t] > 0
    /\ executing' = [executing EXCEPT ![t] = @ - 1]
    /\ IF AtLimit(t) \/ until[t] = 0
       THEN /\ enabled' = [enabled EXCEPT ![t] = FALSE]
            /\ nextRun' = [nextRun EXCEPT ![t] = NoTime]
       ELSE /\ nextRun' = [nextRun EXCEPT ![t] = NextRun(t)]
            /\ UNCHANGED enabled
    /\ UNCHANGED <<running, status, until, runCount, created, histVars>>

Earlier(n) == IF n \in 1..MaxTime THEN n - 1 ELSE n

Tick ==
    /\ nextRun' = [t \in Task |-> Earlier(nextRun[t])]
    /\ until' = [t \in Task |-> Earlier(until[t])]
    /\ <<nextRun', until'>> # <<nextRun, until>>
    /\ UNCHANGED <<running, status, enabled, runCount, created, executing,
                   histVars>>

Next ==
    \/ Start \/ Stop \/ Pass \/ Tick
    \/ \E t \in Task : \/ Schedule(t) \/ ScheduleLate(t) \/ Unschedule(t)
                       \/ StartFire(t) \/ EndFire(t)

Spec == Init /\ [][Next]_vars

(* The event loop runs its tasks, callbacks return, time passes.           *)
Fairness ==
    /\ WF_vars(Pass) /\ WF_vars(Tick)
    /\ \A t \in Task : WF_vars(StartFire(t)) /\ WF_vars(EndFire(t))

FairSpec == Spec /\ Fairness
-----------------------------------------------------------------------------
(* A task runs no more often than max_runs, and a one-time task once, as   *)
(* long as no pass found it due with a fire not ended (scheduler.py:171).  *)
RunsWithinLimit ==
    \A t \in Task \ overlapped :
        /\ Limit[t] # NoLimit => runCount[t] <= Limit[t]
        /\ t \in OneTime => runCount[t] <= 1

(* Whatever overlaps: when a task has had its runs and its fires are over, *)
(* it is disabled and not due again (scheduler.py:171-175).                *)
LimitStopsSchedule ==
    \A t \in Task :
        Limit[t] # NoLimit /\ runCount[t] >= Limit[t] /\ executing[t] = 0
        => ~enabled[t] /\ nextRun[t] = NoTime

(* A fire that ends late never makes a disabled task due again, although   *)
(* it writes next_run_at (scheduler.py:181).                               *)
DisabledForGood ==
    [][\A t \in Task : ~enabled[t] => ~enabled'[t] /\ nextRun'[t] = NoTime]_vars

(* While the loop runs, a task that repeats fires again and again, and a   *)
(* one-time task fires, unless schedule accepted it when its time was over *)
(* already: no schedule is lost by fires that overlap or end in any order, *)
(* by until or by restarts of the loop (scheduler.py:152, 181).            *)
KeepsFiring ==
    \A t \in Task :
        /\ running /\ status[t] = "scheduled" /\ enabled[t]
        /\ t \in OneTime => runCount[t] = 0 /\ t \notin late
        ~> created[t] > 0 \/ ~running \/ status[t] = "removed" \/ ~enabled[t]
=============================================================================
