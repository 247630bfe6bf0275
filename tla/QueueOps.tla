------------------------------ MODULE QueueOps ------------------------------
(***************************************************************************)
(* The data of orchestrator/queue.py as operators: five FIFO queues with   *)
(* aging and one in-flight set per level.  Each operator is the body of    *)
(* one "async with self._lock" block.  No such block awaits anything, so   *)
(* under asyncio it runs to its end without another task in between:       *)
(* PriorityQueue (several consumers) and TaskOrchestrator (one dispatch    *)
(* loop) both build their atomic steps from these operators.               *)
(*                                                                         *)
(* Level 0 is CRITICAL and MaxLevel is BACKGROUND (4 in the code).  Time   *)
(* is measured in ticks; Threshold ticks are one aging_threshold_s.  An    *)
(* item's age saturates at MaxLevel * Threshold: it then has effective     *)
(* level 0 whatever its priority, and getting older changes nothing.       *)
(***************************************************************************)
EXTENDS Integers, FiniteSets, SequencesExt

CONSTANTS Plan,        \* plan ids
          MaxLevel,    \* the lowest priority's level
          Threshold,   \* aging_threshold_s, in ticks
          Concurrency  \* the limit of in-flight plans of each level

Level == 0..MaxLevel

ASSUME MaxLevelAssumption == MaxLevel \in Nat
ASSUME ThresholdAssumption == Threshold \in Nat \ {0}
ASSUME ConcurrencyAssumption == Concurrency \in [Level -> Nat]

MaxAge == MaxLevel * Threshold

(* QueueItem: task_id follows from plan_id and is left out; enqueued_at is *)
(* represented by the age.                                                 *)
QueueItem == [plan : Plan, priority : Level, age : 0..MaxAge]

NewItem(p, l) == [plan |-> p, priority |-> l, age |-> 0]

(* get_effective_priority: one level up per whole threshold period spent   *)
(* in the queue, up to CRITICAL.                                           *)
EffectiveLevel(item) ==
    LET promoted == item.priority - (item.age \div Threshold)
    IN  IF promoted < 0 THEN 0 ELSE promoted

(* One tick of the clock, as seen by an item.                              *)
Older(item) ==
    [item EXCEPT !.age = IF @ < MaxAge THEN @ + 1 ELSE @]

OlderQueues(qs) ==
    [l \in Level |-> [i \in 1..Len(qs[l]) |-> Older(qs[l][i])]]

\* Mutant: the limit is off by one.
HasCapacityOffByOne(inFl, l) == Cardinality(inFl[l]) <= Concurrency[l]

HasCapacity(inFl, l) == Cardinality(inFl[l]) < Concurrency[l]

(* _try_dequeue looks at the head of each queue only, and skips a head     *)
(* whose effective level is full.                                          *)
IsCandidate(qs, inFl, l) ==
    /\ qs[l] # <<>>
    /\ HasCapacity(inFl, EffectiveLevel(Head(qs[l])))

(* The stable sort by effective level: ties go to the queue of the higher  *)
(* priority, whichever item has waited longer.                             *)
IsChosen(qs, inFl, l) ==
    /\ IsCandidate(qs, inFl, l)
    /\ \A m \in Level :
         IsCandidate(qs, inFl, m) =>
            \/ EffectiveLevel(Head(qs[l])) < EffectiveLevel(Head(qs[m]))
            \/ /\ EffectiveLevel(Head(qs[l])) = EffectiveLevel(Head(qs[m]))
               /\ l <= m

Popped(qs, l) == [qs EXCEPT ![l] = Tail(@)]

\* Mutant: appendleft instead of append.
EnqueuedFirst(qs, item) == [qs EXCEPT ![item.priority] = <<item>> \o @]

Enqueued(qs, item) == [qs EXCEPT ![item.priority] = Append(@, item)]

TakesSlot(inFl, l, p) == [inFl EXCEPT ![l] = @ \cup {p}]

(* complete and the second half of remove: the slot is given back at the   *)
(* first level, in priority order, whose set holds the plan, and only      *)
(* there.                                                                  *)
FirstSlot(inFl, p, l) ==
    p \in inFl[l] /\ \A m \in Level : p \in inFl[m] => l <= m

\* Mutant: complete looks at one level only.
SlotReleasedLowest(inFl, p) == [inFl EXCEPT ![MaxLevel] = @ \ {p}]

SlotReleased(inFl, p) ==
    [l \in Level |-> IF FirstSlot(inFl, p, l) THEN inFl[l] \ {p}
                                             ELSE inFl[l]]

IsQueued(qs, p) == \E l \in Level : \E i \in DOMAIN qs[l] : qs[l][i].plan = p

IsInFlight(inFl, p) == \E l \in Level : p \in inFl[l]

(* The first copy of p that remove meets: first queue in priority order,   *)
(* first item of that queue.                                               *)
IsFirstCopy(qs, p, l, i) ==
    /\ i \in DOMAIN qs[l]
    /\ qs[l][i].plan = p
    /\ \A m \in Level : \A j \in DOMAIN qs[m] :
         qs[m][j].plan = p => l < m \/ (l = m /\ i <= j)

(* remove: one queued copy if there is one, otherwise one in-flight slot.  *)
RemovedFrom(qs, inFl, p, newQs, newInFl) ==
    IF IsQueued(qs, p)
    THEN /\ newInFl = inFl
         /\ \E l \in Level : \E i \in DOMAIN qs[l] :
              /\ IsFirstCopy(qs, p, l, i)
              /\ newQs = [qs EXCEPT ![l] = RemoveAt(@, i)]
    ELSE /\ newQs = qs
         /\ newInFl = SlotReleased(inFl, p)
=============================================================================
