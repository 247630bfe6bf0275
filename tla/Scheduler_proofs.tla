-------------------------- MODULE Scheduler_proofs ---------------------------
(***************************************************************************)
(* Proofs about Scheduler, for any tasks, limits and times and any number  *)
(* of overlapping fires.  What disables a task is over for good: run_count *)
(* only grows and until stays over.  A task whose fires did not overlap    *)
(* has one fire at most, created when the task had runs left.              *)
(***************************************************************************)
EXTENDS Scheduler, TLAPS

(* Before schedule, a task has no fires.                                   *)
NewOK ==
    \A t \in Task : status[t] = "new" =>
        enabled[t] /\ runCount[t] = 0 /\ created[t] = 0 /\ executing[t] = 0

(* A disabled task is at its limit or its time is over, and it is not due. *)
DisabledOK ==
    \A t \in Task : ~enabled[t] =>
        /\ AtLimit(t) \/ until[t] = 0
        /\ nextRun[t] = NoTime

(* A one-time task whose fires are over is not due.                        *)
OneTimeOK ==
    \A t \in OneTime : runCount[t] >= 1 /\ executing[t] = 0
                       => nextRun[t] = NoTime

(* Without overlap a task has one fire, which counts a run within the      *)
(* limit, and the one of a one-time task.                                  *)
FireOK ==
    \A t \in Task \ overlapped :
        /\ created[t] + executing[t] <= 1
        /\ created[t] = 1 => /\ ~AtLimit(t)
                             /\ t \in OneTime => runCount[t] = 0

Inv ==
    /\ TypeOK
    /\ NewOK
    /\ DisabledOK
    /\ LimitStopsSchedule
    /\ OneTimeOK
    /\ FireOK
    /\ RunsWithinLimit

-----------------------------------------------------------------------------
LEMMA Constants ==
    /\ 0 \in Times /\ NoTime \in Times /\ NoTime # 0
    /\ \A t \in Task : Delay[t] \in Times /\ Until[t] \in Times
    /\ \A t \in Task : NextRun(t) \in Times
    /\ \A t \in Task : Limit[t] = NoLimit \/ Limit[t] \in 1..MaxRuns
    /\ MaxRuns \in Nat
    /\ OneTime \subseteq Task
  BY TimeAssumption, LimitAssumption, TaskAssumption DEF Times, NextRun

(* Time only gets nearer; what is over and what is not set stay so.        *)
LEMMA EarlierProperties ==
    ASSUME NEW n \in Times
    PROVE  /\ Earlier(n) \in Times
           /\ n = 0 => Earlier(n) = 0
           /\ n = NoTime => Earlier(n) = NoTime
  BY TimeAssumption DEF Times, Earlier

LEMMA InitInv ==
    ASSUME Init
    PROVE  Inv
  <1>1. \A t \in Task : /\ status[t] = "new" /\ enabled[t]
                       /\ nextRun[t] = NoTime
                       /\ runCount[t] = 0 /\ created[t] = 0 /\ executing[t] = 0
    BY DEF Init
  <1>2. \A t \in Task : ~AtLimit(t)
    <2>1. ASSUME NEW t \in Task
          PROVE  Limit[t] = NoLimit \/ ~(0 >= Limit[t])
      BY Constants
    <2> QED BY <1>1, <2>1 DEF AtLimit
  <1>3. TypeOK
    <2>1. until \in [Task -> Times]
      BY TimeAssumption DEF Init, Times
    <2>2. nextRun \in [Task -> Times]
      BY Constants DEF Init
    <2>3. runCount \in [Task -> 0..MaxRuns]
      BY Constants DEF Init
    <2>4. /\ created \in [Task -> 0..1]
          /\ executing \in [Task -> Nat]
      BY DEF Init
    <2>5. /\ status \in [Task -> {"new", "scheduled", "removed"}]
          /\ enabled \in [Task -> BOOLEAN]
      BY DEF Init
    <2> QED BY <2>1, <2>2, <2>3, <2>4, <2>5 DEF Init, TypeOK
  <1>4. NewOK /\ DisabledOK
    BY <1>1 DEF NewOK, DisabledOK
  <1>5. OneTimeOK /\ FireOK
    BY <1>1, Constants DEF OneTimeOK, FireOK
  <1>6. LimitStopsSchedule
    BY <1>2 DEF LimitStopsSchedule, AtLimit
  <1>7. RunsWithinLimit
    <2>1. ASSUME NEW t \in Task, Limit[t] # NoLimit
          PROVE  runCount[t] <= Limit[t]
      BY <1>1, <2>1, Constants
    <2>2. ASSUME NEW t \in Task
          PROVE  runCount[t] <= 1
      BY <1>1
    <2> QED BY <2>1, <2>2 DEF RunsWithinLimit
  <1> QED BY <1>3, <1>4, <1>5, <1>6, <1>7 DEF Inv

(* Every step keeps the invariant.                                         *)
LEMMA StepInv ==
    ASSUME Inv, [Next]_vars
    PROVE  Inv'
  <1> USE DEF Inv
  <1>1. CASE UNCHANGED vars \/ Start \/ Stop
    <2>1. /\ running' \in BOOLEAN
          /\ UNCHANGED <<status, taskVars, created, executing, histVars>>
      BY <1>1 DEF vars, Start, Stop, TypeOK
    <2>2. UNCHANGED <<status, nextRun, until, enabled, runCount, created,
                      executing, overlapped, late>>
      BY <2>1 DEF taskVars, histVars
    <2>3. TypeOK' /\ NewOK'
      BY <2>1, <2>2 DEF TypeOK, NewOK
    <2>4. DisabledOK' /\ LimitStopsSchedule' /\ OneTimeOK'
      BY <2>2 DEF DisabledOK, LimitStopsSchedule, OneTimeOK, AtLimit
    <2>5. FireOK' /\ RunsWithinLimit'
      BY <2>2 DEF FireOK, RunsWithinLimit, AtLimit
    <2> QED BY <2>3, <2>4, <2>5
  <1>2. CASE Pass
    <2> USE <1>2 DEF Pass, taskVars
    <2>1. TypeOK'
      BY DEF TypeOK
    <2>2. NewOK'
      BY DEF NewOK, Due
    <2>3. DisabledOK' /\ LimitStopsSchedule' /\ OneTimeOK'
      BY DEF DisabledOK, LimitStopsSchedule, OneTimeOK, AtLimit
    <2>4. ASSUME NEW t \in Task \ overlapped'
          PROVE  /\ created'[t] + executing'[t] <= 1
                 /\ created'[t] = 1 => /\ ~AtLimit(t)'
                                       /\ t \in OneTime => runCount'[t] = 0
      <3>1. CASE Due(t)
        <4>1. executing[t] = 0 /\ created'[t] = 1
          BY <3>1, <2>4 DEF TypeOK
        <4>2. enabled[t] /\ nextRun[t] # NoTime
          BY <3>1, Constants DEF Due
        <4>3. ~AtLimit(t)
          BY <4>1, <4>2, <2>4 DEF LimitStopsSchedule, AtLimit
        <4>4. t \in OneTime => runCount[t] = 0
          BY <4>1, <4>2, <2>4, Constants DEF OneTimeOK, TypeOK
        <4> QED BY <4>1, <4>3, <4>4 DEF AtLimit, TypeOK
      <3>2. CASE ~Due(t)
        BY <3>2, <2>4 DEF FireOK, TypeOK
      <3> QED BY <3>1, <3>2
    <2>5. FireOK'
      BY <2>4 DEF FireOK
    <2>6. RunsWithinLimit'
      BY DEF RunsWithinLimit
    <2> QED BY <2>1, <2>2, <2>3, <2>5, <2>6
  <1>3. CASE Tick
    <2> USE <1>3 DEF Tick, histVars
    <2>1. \A t \in Task :
            /\ nextRun'[t] \in Times /\ until'[t] \in Times
            /\ nextRun[t] = NoTime => nextRun'[t] = NoTime
            /\ until[t] = 0 => until'[t] = 0
      BY EarlierProperties DEF TypeOK
    <2>2. TypeOK'
      BY <2>1 DEF TypeOK
    <2>3. NewOK' /\ RunsWithinLimit'
      BY DEF NewOK, RunsWithinLimit
    <2>4. DisabledOK' /\ LimitStopsSchedule'
      BY <2>1 DEF DisabledOK, LimitStopsSchedule, AtLimit
    <2>5. OneTimeOK' /\ FireOK'
      BY <2>1, Constants DEF OneTimeOK, FireOK, AtLimit
    <2> QED BY <2>2, <2>3, <2>4, <2>5
  <1>4. ASSUME NEW t \in Task, Schedule(t) \/ ScheduleLate(t)
        PROVE  Inv'
    <2>1. /\ status[t] = "new"
          /\ enabled[t] /\ runCount[t] = 0 /\ created[t] = 0
          /\ status' = [status EXCEPT ![t] = "scheduled"]
          /\ UNCHANGED <<running, until, enabled, runCount, created, executing,
                         overlapped>>
      BY <1>4 DEF Schedule, ScheduleLate, NewOK, taskVars
    <2>2. /\ nextRun' \in [Task -> Times]
          /\ \A u \in Task \ {t} : nextRun'[u] = nextRun[u]
      BY <1>4, Constants DEF Schedule, ScheduleLate, taskVars, TypeOK
    <2>3. late' \in SUBSET Task
      BY <1>4 DEF Schedule, ScheduleLate, TypeOK
    <2>4. TypeOK'
      BY <2>1, <2>2, <2>3 DEF TypeOK
    <2>5. NewOK' /\ RunsWithinLimit'
      BY <2>1 DEF NewOK, RunsWithinLimit, TypeOK
    <2>6. DisabledOK' /\ LimitStopsSchedule'
      BY <2>1, <2>2, Constants DEF DisabledOK, LimitStopsSchedule, AtLimit
    <2>7. OneTimeOK' /\ FireOK'
      BY <2>1, <2>2, Constants DEF OneTimeOK, FireOK, AtLimit
    <2> QED BY <2>4, <2>5, <2>6, <2>7
  <1>5. ASSUME NEW t \in Task, Unschedule(t)
        PROVE  Inv'
    <2> USE <1>5 DEF Unschedule, taskVars, histVars
    <2>1. TypeOK' /\ NewOK'
      BY DEF TypeOK, NewOK
    <2>2. DisabledOK' /\ LimitStopsSchedule' /\ RunsWithinLimit'
      BY DEF DisabledOK, LimitStopsSchedule, RunsWithinLimit, AtLimit
    <2>3. OneTimeOK' /\ FireOK'
      BY DEF OneTimeOK, FireOK, AtLimit
    <2> QED BY <2>1, <2>2, <2>3
  <1>6. ASSUME NEW t \in Task, StartFire(t)
        PROVE  Inv'
    <2> USE <1>6 DEF StartFire, histVars
    <2>1. /\ created[t] = 1 /\ created'[t] = 0
          /\ executing'[t] = executing[t] + 1
          /\ runCount[t] \in 0..MaxRuns /\ runCount'[t] \in 0..MaxRuns
          /\ runCount'[t] = Counted(runCount[t])
          /\ runCount[t] <= runCount'[t] /\ runCount'[t] <= runCount[t] + 1
          /\ executing[t] \in Nat
      BY Constants DEF TypeOK, Counted
    <2>2. \A u \in Task \ {t} : /\ created'[u] = created[u]
                                /\ executing'[u] = executing[u]
                                /\ runCount'[u] = runCount[u]
      BY DEF TypeOK
    <2>3. TypeOK'
      BY <2>1 DEF TypeOK
    <2>4. NewOK'
      BY <2>1, <2>2 DEF NewOK
    <2>5. DisabledOK'
      BY <2>1, <2>2, Constants DEF DisabledOK, AtLimit
    <2>6. LimitStopsSchedule' /\ OneTimeOK'
      BY <2>1, <2>2, Constants DEF LimitStopsSchedule, OneTimeOK
    <2>7. FireOK'
      BY <2>1, <2>2 DEF FireOK, AtLimit
    <2>8. t \notin overlapped =>
            /\ Limit[t] # NoLimit => runCount'[t] <= Limit[t]
            /\ t \in OneTime => runCount'[t] <= 1
      BY <2>1, Constants DEF FireOK, AtLimit
    <2>9. RunsWithinLimit'
      BY <2>2, <2>8 DEF RunsWithinLimit
    <2> QED BY <2>3, <2>4, <2>5, <2>6, <2>7, <2>9
  <1>7. ASSUME NEW t \in Task, EndFire(t)
        PROVE  Inv'
    <2> USE <1>7 DEF EndFire, histVars
    <2>1. /\ executing[t] \in Nat \ {0}
          /\ executing' \in [Task -> Nat]
          /\ executing'[t] = executing[t] - 1
      BY DEF TypeOK
    <2>2. \A u \in Task \ {t} : /\ executing'[u] = executing[u]
                                /\ enabled'[u] = enabled[u]
                                /\ nextRun'[u] = nextRun[u]
      BY DEF TypeOK
    <2>3. AtLimit(t) \/ until[t] = 0 => ~enabled'[t] /\ nextRun'[t] = NoTime
      BY DEF TypeOK
    <2>4. ~AtLimit(t) /\ until[t] # 0 =>
            enabled'[t] = enabled[t] /\ nextRun'[t] = NextRun(t)
      BY DEF TypeOK
    <2>5. /\ enabled' \in [Task -> BOOLEAN]
          /\ nextRun' \in [Task -> Times]
      BY Constants DEF TypeOK
    <2>6. TypeOK'
      BY <2>1, <2>5 DEF TypeOK
    <2>7. NewOK' /\ RunsWithinLimit'
      BY <2>1, <2>2 DEF NewOK, RunsWithinLimit
    <2>8. DisabledOK'
      BY <2>2, <2>3, <2>4 DEF DisabledOK, AtLimit
    <2>9. LimitStopsSchedule'
      BY <2>2, <2>3 DEF LimitStopsSchedule, AtLimit
    <2>10. OneTimeOK'
      BY <2>2, <2>3, <2>4, Constants DEF OneTimeOK, NextRun
    <2>11. FireOK'
      BY <2>1, <2>2 DEF FireOK, AtLimit, TypeOK
    <2> QED BY <2>6, <2>7, <2>8, <2>9, <2>10, <2>11
  <1> QED BY <1>1, <1>2, <1>3, <1>4, <1>5, <1>6, <1>7 DEF Next

LEMMA InvCorrect == Spec => []Inv
  <1>1. Init => Inv
    BY InitInv
  <1>2. Inv /\ [Next]_vars => Inv'
    BY StepInv
  <1> QED BY <1>1, <1>2, PTL DEF Spec

(* The types of the scheduler's state.                                     *)
THEOREM TypeCorrect == Spec => []TypeOK
  <1>1. Inv => TypeOK
    BY DEF Inv
  <1> QED BY <1>1, InvCorrect, PTL

(* Without overlap, max_runs bounds the runs and a one-time task runs once *)
(* (scheduler.py:171, 187).                                                *)
THEOREM LimitCorrect == Spec => []RunsWithinLimit
  <1>1. Inv => RunsWithinLimit
    BY DEF Inv
  <1> QED BY <1>1, InvCorrect, PTL

(* With any overlap, a task that has had its runs ends disabled and not    *)
(* due (scheduler.py:171-175).                                             *)
THEOREM StopCorrect == Spec => []LimitStopsSchedule
  <1>1. Inv => LimitStopsSchedule
    BY DEF Inv
  <1> QED BY <1>1, InvCorrect, PTL

(* No fire that ends late makes a disabled task due: it finds the limit    *)
(* reached or the time over, too (scheduler.py:171-181).                   *)
THEOREM DisabledCorrect == Spec => DisabledForGood
  <1> DEFINE Still(t) == ~enabled[t] => ~enabled'[t] /\ nextRun'[t] = NoTime
  <1>1. ASSUME Inv, [Next]_vars, NEW t \in Task, ~enabled[t]
        PROVE  ~enabled'[t] /\ nextRun'[t] = NoTime
    <2> USE DEF Inv
    <2>1. Inv'
      BY <1>1, StepInv
    <2>2. AtLimit(t) \/ until[t] = 0
      BY <1>1 DEF DisabledOK
    <2>3. ~enabled'[t]
      <3>1. ASSUME NEW u \in Task, EndFire(u)
            PROVE  ~enabled'[t]
        BY <1>1, <3>1 DEF EndFire, TypeOK
      <3>2. ASSUME ~\E u \in Task : EndFire(u)
            PROVE  UNCHANGED enabled
        BY <1>1, <3>2 DEF Next, vars, taskVars, Start, Stop, Pass, Tick,
           Schedule, ScheduleLate, Unschedule, StartFire
      <3> QED BY <1>1, <3>1, <3>2
    <2>4. nextRun'[t] = NoTime
      BY <2>1, <2>3 DEF DisabledOK
    <2> QED BY <2>3, <2>4
  <1>2. Inv /\ [Next]_vars => [\A t \in Task : Still(t)]_vars
    BY <1>1
  <1> QED BY <1>2, InvCorrect, PTL DEF Spec, DisabledForGood
=============================================================================
