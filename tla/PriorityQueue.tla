---------------------------- MODULE PriorityQueue ----------------------------
(***************************************************************************)
(* The priority queue of orchestrator/queue.py with its callers: producers *)
(* that enqueue (TaskOrchestrator.submit, resume and rollback), consumers  *)
(* that run "dequeue, execute, complete" for ever (_dispatch_loop), the    *)
(* caller of remove (cancel), the cancellation of a consumer's task (stop) *)
(* and the clock.  A step is the code between two awaits that can suspend. *)
(*                                                                         *)
(* _not_empty needs no variable.  dequeue clears the event and waits on it *)
(* without an await in between, so a waiter always blocks, and the only    *)
(* set() is in enqueue: a consumer leaves Event.wait exactly when an item  *)
(* is enqueued.  That is the state "waiting" and its exit in Enqueue.      *)
(***************************************************************************)
EXTENDS QueueOps

CONSTANTS Consumer,    \* tasks that run the dispatch loop
          PriorityOf,  \* the priority a plan is submitted with
          Stoppable,   \* consumers whose task stop() may cancel
          MaxCopies,   \* bound: queued items of one plan
          MaxSlips     \* bound: dequeues during which the clock moves on

ASSUME PriorityAssumption == PriorityOf \in [Plan -> Level]
ASSUME ConsumerAssumption == IsFiniteSet(Consumer) /\ Stoppable \subseteq Consumer

VARIABLES queues,      \* _queues: a sequence of items per level
          inFlight,    \* _in_flight: a set of plans per level
          consumer,    \* where each consumer's task is
          held,        \* the item a consumer is executing
          slips,       \* history: dequeues that straddled a tick
          leaked       \* history: plans whose consumer was stopped

vars == <<queues, inFlight, consumer, held, slips, leaked>>

NoItem == [plan |-> "none"]

TypeOK ==
    /\ queues \in [Level -> Seq(QueueItem)]
    /\ inFlight \in [Level -> SUBSET Plan]
    /\ consumer \in [Consumer -> {"stopped", "trying", "waiting", "holding"}]
    /\ held \in [Consumer -> QueueItem \cup {NoItem}]
    /\ \A c \in Consumer : consumer[c] = "holding" => held[c] \in QueueItem
    /\ slips \in Nat
    /\ leaked \in SUBSET Plan

Init ==
    /\ queues = [l \in Level |-> <<>>]
    /\ inFlight = [l \in Level |-> {}]
    /\ consumer = [c \in Consumer |-> "trying"]
    /\ held = [c \in Consumer |-> NoItem]
    /\ slips = 0
    /\ leaked = {}

Copies(p) == Cardinality({i \in DOMAIN queues[PriorityOf[p]] :
                            queues[PriorityOf[p]][i].plan = p})

(* enqueue: append at the item's own priority and set the event, which     *)
(* wakes every waiter.                                                     *)
Enqueue(p) ==
    /\ Copies(p) < MaxCopies
    /\ queues' = Enqueued(queues, NewItem(p, PriorityOf[p]))
    /\ consumer' = [c \in Consumer |->
                      IF consumer[c] = "waiting" THEN "trying" ELSE consumer[c]]
    /\ UNCHANGED <<inFlight, held, slips, leaked>>

Take(c, l) ==
    /\ consumer' = [consumer EXCEPT ![c] = "holding"]
    /\ held' = [held EXCEPT ![c] = Head(queues[l])]

(* dequeue, when _try_dequeue finds an item.                               *)
Dequeue(c) ==
    /\ consumer[c] = "trying"
    /\ \E l \in Level :
         /\ IsChosen(queues, inFlight, l)
         /\ Take(c, l)
         /\ queues' = Popped(queues, l)
         /\ inFlight' = TakesSlot(inFlight, EffectiveLevel(Head(queues[l])),
                                  Head(queues[l]).plan)
    /\ UNCHANGED <<slips, leaked>>

(* The same call when the clock crosses a tick between the two reads of    *)
(* utc_now(): capacity was checked at one level and the slot is taken at   *)
(* the level computed again afterwards.                                    *)
DequeueSlip(c) ==
    /\ consumer[c] = "trying"
    /\ slips < MaxSlips
    /\ \E l \in Level :
         /\ IsChosen(queues, inFlight, l)
         /\ Take(c, l)
         /\ queues' = OlderQueues(Popped(queues, l))
         /\ inFlight' = TakesSlot(inFlight,
                                  EffectiveLevel(Older(Head(queues[l]))),
                                  Head(queues[l]).plan)
    /\ slips' = slips + 1
    /\ UNCHANGED leaked

(* dequeue, when there is nothing to take or every head is blocked.        *)
Wait(c) ==
    /\ consumer[c] = "trying"
    /\ \A l \in Level : ~IsCandidate(queues, inFlight, l)
    /\ consumer' = [consumer EXCEPT ![c] = "waiting"]
    /\ UNCHANGED <<queues, inFlight, held, slips, leaked>>

(* complete, then the next iteration of the loop.                          *)
Complete(c) ==
    /\ consumer[c] = "holding"
    /\ inFlight' = SlotReleased(inFlight, held[c].plan)
    /\ consumer' = [consumer EXCEPT ![c] = "trying"]
    /\ held' = [held EXCEPT ![c] = NoItem]
    /\ UNCHANGED <<queues, slips, leaked>>

RemovePlan(p) ==
    /\ IsQueued(queues, p) \/ IsInFlight(inFlight, p)
    /\ RemovedFrom(queues, inFlight, p, queues', inFlight')
    /\ UNCHANGED <<consumer, held, slips, leaked>>

(* The consumer's task is cancelled wherever it is suspended; complete is  *)
(* not reached, so the slot of the item in hand stays taken.               *)
StopConsumer(c) ==
    /\ c \in Stoppable
    /\ consumer[c] # "stopped"
    /\ consumer' = [consumer EXCEPT ![c] = "stopped"]
    /\ held' = [held EXCEPT ![c] = NoItem]
    /\ leaked' = IF consumer[c] = "holding" THEN leaked \cup {held[c].plan}
                                           ELSE leaked
    /\ UNCHANGED <<queues, inFlight, slips>>

StartConsumer(c) ==
    /\ consumer[c] = "stopped"
    /\ consumer' = [consumer EXCEPT ![c] = "trying"]
    /\ UNCHANGED <<queues, inFlight, held, slips, leaked>>

(* Time passes; nobody is woken by it.                                     *)
Tick ==
    /\ queues' = OlderQueues(queues)
    /\ queues' # queues
    /\ UNCHANGED <<inFlight, consumer, held, slips, leaked>>

Next ==
    \/ \E p \in Plan : Enqueue(p) \/ RemovePlan(p)
    \/ \E c \in Consumer :
         \/ Dequeue(c) \/ DequeueSlip(c) \/ Wait(c) \/ Complete(c)
         \/ StopConsumer(c) \/ StartConsumer(c)
    \/ Tick

Spec == Init /\ [][Next]_vars
-----------------------------------------------------------------------------
(* A level never has more plans in flight than its limit, except by one    *)
(* plan for every dequeue that straddled a tick (queue.py:181 checks one   *)
(* level, queue.py:153 may take a slot at the next).                       *)
LimitRespected ==
    \A l \in Level : Cardinality(inFlight[l]) <= Concurrency[l] + slips

(* Within a level an item never stands behind a younger one, and holds the *)
(* priority of its queue: what looking only at the heads relies on.        *)
AgeOrdered ==
    \A l \in Level : \A i, j \in DOMAIN queues[l] :
        /\ queues[l][i].priority = l
        /\ i < j => queues[l][i].age >= queues[l][j].age

(* A slot is never left taken after its plan's executions have ended: a    *)
(* plan occupies at most as many levels as consumers are executing it,     *)
(* although complete (queue.py:196) gives back the first slot it meets and *)
(* not the one that dequeue took.  Only a consumer stopped in the middle   *)
(* of an execution leaks.                                                  *)
Slots(p) == {l \in Level : p \in inFlight[l]}

Holders(p) == {c \in Consumer : consumer[c] = "holding" /\ held[c].plan = p}

NoLeakedSlot ==
    \A p \in Plan \ leaked : Cardinality(Slots(p)) <= Cardinality(Holders(p))

Queued(p) == IsQueued(queues, p)

(* _try_dequeue examines heads only, yet no item anywhere in the queues is *)
(* overtaken by a less urgent one unless the head of its own queue is held *)
(* back by a full level.                                                   *)
NoOvertaking ==
    \A c \in Consumer : consumer[c] = "trying" /\ consumer'[c] = "holding" =>
        \A m \in Level : \A j \in DOMAIN queues[m] :
            EffectiveLevel(queues[m][j]) < EffectiveLevel(held'[c])
            => ~HasCapacity(inFlight, EffectiveLevel(Head(queues[m])))

NoOvertakingStep == [][NoOvertaking]_vars
=============================================================================
