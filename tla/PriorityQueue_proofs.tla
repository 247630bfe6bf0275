------------------------ MODULE PriorityQueue_proofs ------------------------
(***************************************************************************)
(* Proofs about PriorityQueue, for any number of plans, consumers, levels  *)
(* and limits: type correctness, the concurrency limit, the order within a *)
(* level, and that examining heads only overtakes nobody.                  *)
(***************************************************************************)
EXTENDS PriorityQueue, QueueOps_proofs

-----------------------------------------------------------------------------
(* The state predicates hold their types.                                  *)

LEMMA ChosenHead ==
    ASSUME NEW l \in Level, TypeOK, IsChosen(queues, inFlight, l)
    PROVE  /\ queues[l] \in Seq(QueueItem)
           /\ queues[l] # <<>>
           /\ Head(queues[l]) \in QueueItem
           /\ Head(queues[l]).plan \in Plan
           /\ EffectiveLevel(Head(queues[l])) \in Level
           /\ HasCapacity(inFlight, EffectiveLevel(Head(queues[l])))
           /\ Popped(queues, l) \in [Level -> Seq(QueueItem)]
  BY ChosenHeadProperties DEF TypeOK

LEMMA TypeInit == Init => TypeOK
  BY DEF Init, TypeOK

LEMMA TypeNext == TypeOK /\ [Next]_vars => TypeOK'
  <1> SUFFICES ASSUME TypeOK, [Next]_vars PROVE TypeOK'
    OBVIOUS
  <1>1. ASSUME NEW p \in Plan, Enqueue(p) PROVE TypeOK'
    <2>1. PriorityOf[p] \in Level
      BY PriorityAssumption
    <2>3. Enqueued(queues, NewItem(p, PriorityOf[p])) \in [Level -> Seq(QueueItem)]
      BY <2>1, EnqueuedType DEF TypeOK
    <2> QED BY <1>1, <2>3 DEF Enqueue, TypeOK
  <1>2. ASSUME NEW p \in Plan, RemovePlan(p) PROVE TypeOK'
    BY <1>2, RemovedFromType DEF RemovePlan, TypeOK
  <1>3. ASSUME NEW c \in Consumer, Dequeue(c) PROVE TypeOK'
    <2>1. PICK l \in Level :
            /\ IsChosen(queues, inFlight, l)
            /\ Take(c, l)
            /\ queues' = Popped(queues, l)
            /\ inFlight' = TakesSlot(inFlight, EffectiveLevel(Head(queues[l])),
                                     Head(queues[l]).plan)
      BY <1>3 DEF Dequeue
    <2>2. slips' = slips /\ leaked' = leaked
      BY <1>3 DEF Dequeue
    <2>3. inFlight' \in [Level -> SUBSET Plan]
      BY <2>1, ChosenHead DEF TakesSlot, TypeOK
    <2> QED BY <2>1, <2>2, <2>3, ChosenHead DEF Take, TypeOK
  <1>4. ASSUME NEW c \in Consumer, DequeueSlip(c) PROVE TypeOK'
    <2>1. PICK l \in Level :
            /\ IsChosen(queues, inFlight, l)
            /\ Take(c, l)
            /\ queues' = OlderQueues(Popped(queues, l))
            /\ inFlight' = TakesSlot(inFlight,
                                     EffectiveLevel(Older(Head(queues[l]))),
                                     Head(queues[l]).plan)
      BY <1>4 DEF DequeueSlip
    <2>2. queues' \in [Level -> Seq(QueueItem)]
      BY <2>1, ChosenHead, OlderQueuesProperties
    <2>3. slips' \in Nat /\ leaked' = leaked
      BY <1>4 DEF DequeueSlip, TypeOK
    <2>4. inFlight' \in [Level -> SUBSET Plan]
      BY <2>1, ChosenHead DEF TakesSlot, TypeOK
    <2> QED BY <2>1, <2>2, <2>3, <2>4, ChosenHead DEF Take, TypeOK
  <1>5. ASSUME NEW c \in Consumer, Wait(c) PROVE TypeOK'
    BY <1>5 DEF Wait, TypeOK
  <1>6. ASSUME NEW c \in Consumer, Complete(c) PROVE TypeOK'
    BY <1>6, SlotReleasedProperties DEF Complete, TypeOK
  <1>7. ASSUME NEW c \in Consumer, StopConsumer(c) PROVE TypeOK'
    <2>1. leaked' \in SUBSET Plan
      BY <1>7 DEF StopConsumer, TypeOK, QueueItem
    <2> QED BY <1>7, <2>1 DEF StopConsumer, TypeOK
  <1>8. ASSUME NEW c \in Consumer, StartConsumer(c) PROVE TypeOK'
    BY <1>8 DEF StartConsumer, TypeOK
  <1>9. ASSUME Tick PROVE TypeOK'
    <2>1. queues' \in [Level -> Seq(QueueItem)]
      BY <1>9, OlderQueuesProperties DEF Tick, TypeOK
    <2> QED BY <1>9, <2>1 DEF Tick, TypeOK
  <1>10. ASSUME UNCHANGED vars PROVE TypeOK'
    BY <1>10 DEF vars, TypeOK
  <1> QED BY <1>1, <1>2, <1>3, <1>4, <1>5, <1>6, <1>7, <1>8, <1>9, <1>10 DEF Next

(* The state of the queue stays within its types.                          *)
THEOREM TypeCorrect == Spec => []TypeOK
  BY TypeInit, TypeNext, PTL DEF Spec

-----------------------------------------------------------------------------
(* The concurrency limit.  Cardinalities mean something only for finite    *)
(* sets, so finiteness is the strengthening that makes it inductive.       *)

SlotsFinite == \A l \in Level : IsFiniteSet(inFlight[l])

LimitInv == TypeOK /\ SlotsFinite /\ LimitRespected

LEMMA LimitKept ==
    ASSUME LimitInv, slips' = slips,
           inFlight' \in [Level -> SUBSET Plan],
           \A l \in Level : inFlight'[l] \subseteq inFlight[l]
    PROVE  SlotsFinite' /\ LimitRespected'
  <1>1. ASSUME NEW l \in Level
        PROVE  /\ IsFiniteSet(inFlight'[l])
               /\ Cardinality(inFlight'[l]) <= Concurrency[l] + slips
    <2>1. IsFiniteSet(inFlight[l]) /\ Cardinality(inFlight[l]) <= Concurrency[l] + slips
      BY DEF LimitInv, SlotsFinite, LimitRespected
    <2>2. IsFiniteSet(inFlight'[l]) /\ Cardinality(inFlight'[l]) <= Cardinality(inFlight[l])
      BY <2>1, FS_Subset
    <2>3. Cardinality(inFlight[l]) \in Nat /\ Cardinality(inFlight'[l]) \in Nat
      BY <2>1, <2>2, FS_CardinalityType
    <2> QED BY <2>1, <2>2, <2>3, ConcurrencyAssumption DEF LimitInv, TypeOK
  <1> QED BY <1>1 DEF SlotsFinite, LimitRespected

(* One slot is taken at level e: allowed if e was below its limit, or if   *)
(* the step is counted as a slip.                                          *)
LEMMA SlotTaken ==
    ASSUME LimitInv, NEW e \in Level, NEW p,
           inFlight' = TakesSlot(inFlight, e, p),
           \/ HasCapacity(inFlight, e) /\ slips' = slips
           \/ slips' = slips + 1
    PROVE  SlotsFinite' /\ LimitRespected'
  <1>1. ASSUME NEW l \in Level
        PROVE  /\ IsFiniteSet(inFlight'[l])
               /\ Cardinality(inFlight'[l]) <= Concurrency[l] + slips'
    <2>1. /\ IsFiniteSet(inFlight[l])
          /\ Cardinality(inFlight[l]) <= Concurrency[l] + slips
          /\ Cardinality(inFlight[l]) \in Nat
          /\ Concurrency[l] \in Nat /\ slips \in Nat
      BY FS_CardinalityType, ConcurrencyAssumption
      DEF LimitInv, SlotsFinite, LimitRespected, TypeOK
    <2>2. CASE l = e
      <3>1. inFlight'[l] = inFlight[l] \cup {p}
        BY <2>2 DEF TakesSlot, LimitInv, TypeOK
      <3>2. /\ IsFiniteSet(inFlight'[l])
            /\ \/ Cardinality(inFlight'[l]) = Cardinality(inFlight[l])
               \/ Cardinality(inFlight'[l]) = Cardinality(inFlight[l]) + 1
        <4> DEFINE S == inFlight[l]
        <4>1. IsFiniteSet(S)
          BY <2>1
        <4> HIDE DEF S
        <4>2. /\ IsFiniteSet(S \cup {p})
              /\ Cardinality(S \cup {p}) =
                   IF p \in S THEN Cardinality(S) ELSE Cardinality(S) + 1
          BY <4>1, FS_AddElement
        <4> QED BY <3>1, <4>2 DEF S
      <3> QED BY <2>1, <2>2, <3>2 DEF HasCapacity
    <2>3. CASE l # e
      <3>1. inFlight'[l] = inFlight[l]
        BY <2>3 DEF TakesSlot, LimitInv, TypeOK
      <3> QED BY <2>1, <3>1
    <2> QED BY <2>2, <2>3
  <1> QED BY <1>1 DEF SlotsFinite, LimitRespected

LEMMA LimitNext == LimitInv /\ [Next]_vars => LimitInv'
  <1> SUFFICES ASSUME LimitInv, [Next]_vars PROVE LimitInv'
    OBVIOUS
  <1>0. TypeOK /\ TypeOK'
    BY TypeNext DEF LimitInv
  <1>k. ASSUME slips' = slips, \A l \in Level : inFlight'[l] \subseteq inFlight[l]
        PROVE  LimitInv'
    BY <1>0, <1>k, LimitKept DEF LimitInv, TypeOK
  <1>1. ASSUME NEW p \in Plan, Enqueue(p) PROVE LimitInv'
    BY <1>1, <1>k DEF Enqueue
  <1>2. ASSUME NEW p \in Plan, RemovePlan(p) PROVE LimitInv'
    <2>1. \A l \in Level : inFlight'[l] \subseteq inFlight[l]
      BY <1>0, <1>2, SlotReleasedProperties DEF RemovePlan, RemovedFrom, TypeOK
    <2> QED BY <1>2, <1>k, <2>1 DEF RemovePlan
  <1>3. ASSUME NEW c \in Consumer, Dequeue(c) PROVE LimitInv'
    <2>1. PICK l \in Level :
            /\ IsChosen(queues, inFlight, l)
            /\ inFlight' = TakesSlot(inFlight, EffectiveLevel(Head(queues[l])),
                                     Head(queues[l]).plan)
      BY <1>3 DEF Dequeue
    <2>2. /\ EffectiveLevel(Head(queues[l])) \in Level
          /\ HasCapacity(inFlight, EffectiveLevel(Head(queues[l])))
      BY <1>0, <2>1, ChosenHead
    <2>3. slips' = slips
      BY <1>3 DEF Dequeue
    <2> QED BY <1>0, <2>1, <2>2, <2>3, SlotTaken DEF LimitInv
  <1>4. ASSUME NEW c \in Consumer, DequeueSlip(c) PROVE LimitInv'
    <2>1. PICK l \in Level :
            /\ IsChosen(queues, inFlight, l)
            /\ inFlight' = TakesSlot(inFlight,
                                     EffectiveLevel(Older(Head(queues[l]))),
                                     Head(queues[l]).plan)
      BY <1>4 DEF DequeueSlip
    <2>2. EffectiveLevel(Older(Head(queues[l]))) \in Level
      BY <1>0, <2>1, ChosenHead, OlderProperties, EffectiveLevelType
    <2>3. slips' = slips + 1
      BY <1>4 DEF DequeueSlip
    <2> QED BY <1>0, <2>1, <2>2, <2>3, SlotTaken DEF LimitInv
  <1>5. ASSUME NEW c \in Consumer, Wait(c) PROVE LimitInv'
    BY <1>5, <1>k DEF Wait
  <1>6. ASSUME NEW c \in Consumer, Complete(c) PROVE LimitInv'
    <2>1. \A l \in Level : inFlight'[l] \subseteq inFlight[l]
      BY <1>0, <1>6, SlotReleasedProperties DEF Complete, TypeOK
    <2> QED BY <1>6, <1>k, <2>1 DEF Complete
  <1>7. ASSUME NEW c \in Consumer, StopConsumer(c) PROVE LimitInv'
    BY <1>7, <1>k DEF StopConsumer
  <1>8. ASSUME NEW c \in Consumer, StartConsumer(c) PROVE LimitInv'
    BY <1>8, <1>k DEF StartConsumer
  <1>9. ASSUME Tick PROVE LimitInv'
    BY <1>9, <1>k DEF Tick
  <1>10. ASSUME UNCHANGED vars PROVE LimitInv'
    BY <1>10, <1>k DEF vars
  <1> QED BY <1>1, <1>2, <1>3, <1>4, <1>5, <1>6, <1>7, <1>8, <1>9, <1>10 DEF Next

(* No level ever has more plans in flight than its limit, but for one plan *)
(* per dequeue during which the clock crossed an aging threshold.          *)
THEOREM LimitCorrect == Spec => []LimitRespected
  <1>1. Init => LimitInv
    <2>1. Init => SlotsFinite /\ LimitRespected
      BY FS_EmptySet, ConcurrencyAssumption DEF Init, SlotsFinite, LimitRespected
    <2> QED BY <2>1, TypeInit DEF LimitInv
  <1>2. LimitInv => LimitRespected
    BY DEF LimitInv
  <1> QED BY <1>1, <1>2, LimitNext, PTL DEF Spec

-----------------------------------------------------------------------------
(* Slots are given back.  For one plan, compare the levels it occupies with*)
(* the consumers that execute it, action by action.                        *)

LEMMA SlotsFiniteType ==
    ASSUME TypeOK, NEW p
    PROVE  /\ IsFiniteSet(Slots(p)) /\ IsFiniteSet(Holders(p))
           /\ Cardinality(Slots(p)) \in Nat /\ Cardinality(Holders(p)) \in Nat
  <1>1. IsFiniteSet(Level)
    BY FS_Interval, MaxLevelAssumption DEF Level
  <1>2. Slots(p) \subseteq Level /\ Holders(p) \subseteq Consumer
    BY DEF Slots, Holders
  <1> QED BY <1>1, <1>2, FS_Subset, FS_CardinalityType, ConsumerAssumption

(* A plan that occupies fewer levels than before, and is executed by the   *)
(* same consumers.                                                         *)
LEMMA SlotsShrink ==
    ASSUME TypeOK, NEW p, Cardinality(Slots(p)) <= Cardinality(Holders(p)),
           Slots(p)' \subseteq Slots(p), Holders(p)' = Holders(p)
    PROVE  Cardinality(Slots(p)') <= Cardinality(Holders(p)')
  <1>1. /\ IsFiniteSet(Slots(p))
        /\ Cardinality(Slots(p)) \in Nat /\ Cardinality(Holders(p)) \in Nat
    BY SlotsFiniteType
  <1>2. /\ IsFiniteSet(Slots(p)')
        /\ Cardinality(Slots(p)') <= Cardinality(Slots(p))
    BY <1>1, FS_Subset
  <1>3. Cardinality(Slots(p)') \in Nat
    BY <1>2, FS_CardinalityType
  <1> QED BY <1>1, <1>2, <1>3

(* complete releases a level if the plan occupies any.                     *)
LEMMA SlotsReleased ==
    ASSUME TypeOK, NEW p, Slots(p) # {}, inFlight' = SlotReleased(inFlight, p)
    PROVE  \E l \in Slots(p) : Slots(p)' = Slots(p) \ {l}
  <1>1. Slots(p) \in SUBSET Level
    BY DEF Slots
  <1>2. PICK l \in Slots(p) : \A m \in Slots(p) : l <= m
    BY <1>1, LeastLevel
  <1>3. \A m \in Level : FirstSlot(inFlight, p, m) <=> m = l
    BY <1>2, MaxLevelAssumption DEF FirstSlot, Slots, Level
  <1>4. \A m \in Level : inFlight'[m] = IF m = l THEN inFlight[m] \ {p}
                                                ELSE inFlight[m]
    BY <1>3 DEF SlotReleased
  <1> QED BY <1>2, <1>4 DEF Slots

LEMMA SlotNext ==
    ASSUME TypeOK, TypeOK', [Next]_vars, NEW p \in Plan,
           p \notin leaked', Cardinality(Slots(p)) <= Cardinality(Holders(p))
    PROVE  Cardinality(Slots(p)') <= Cardinality(Holders(p)')
  <1> DEFINE Kept == Slots(p)' \subseteq Slots(p) /\ Holders(p)' = Holders(p)
  <1>0. /\ IsFiniteSet(Slots(p)) /\ IsFiniteSet(Holders(p))
        /\ Cardinality(Slots(p)) \in Nat /\ Cardinality(Holders(p)) \in Nat
    BY SlotsFiniteType
  <1>t. /\ consumer \in [Consumer -> {"stopped", "trying", "waiting", "holding"}]
        /\ held \in [Consumer -> QueueItem \cup {NoItem}]
        /\ inFlight \in [Level -> SUBSET Plan]
    BY DEF TypeOK
  <1>k. ASSUME Kept PROVE Cardinality(Slots(p)') <= Cardinality(Holders(p)')
    BY <1>k, SlotsShrink
  <1>1. ASSUME NEW q \in Plan, Enqueue(q) PROVE Kept
    BY <1>1, <1>t DEF Enqueue, Slots, Holders
  <1>2. ASSUME NEW q \in Plan, RemovePlan(q) PROVE Kept
    <2>1. \A l \in Level : inFlight'[l] \subseteq inFlight[l]
      BY <1>2, <1>t, SlotReleasedProperties DEF RemovePlan, RemovedFrom
    <2> QED BY <1>2, <2>1 DEF RemovePlan, Slots, Holders
  <1>3. ASSUME NEW c \in Consumer, NEW e \in Level, NEW item,
               consumer[c] = "trying",
               consumer' = [consumer EXCEPT ![c] = "holding"],
               held' = [held EXCEPT ![c] = item],
               inFlight' = TakesSlot(inFlight, e, item.plan)
        PROVE  Cardinality(Slots(p)') <= Cardinality(Holders(p)')
    <2>1. CASE item.plan # p
      <3>1. Kept
        BY <1>3, <1>t, <2>1 DEF TakesSlot, Slots, Holders
      <3> QED BY <1>k, <3>1
    <2>2. CASE item.plan = p
      <3>1. Slots(p)' = Slots(p) \cup {e}
        BY <1>3, <1>t, <2>2 DEF TakesSlot, Slots
      <3>2. Holders(p)' = Holders(p) \cup {c} /\ c \notin Holders(p)
        BY <1>3, <1>t, <2>2 DEF Holders
      <3>3. Cardinality(Slots(p)') <= Cardinality(Slots(p)) + 1
        <4> DEFINE S == Slots(p)
        <4>1. IsFiniteSet(S) /\ Cardinality(S) \in Nat
          BY <1>0
        <4> HIDE DEF S
        <4>2. Cardinality(S \cup {e}) <= Cardinality(S) + 1
          <5>1. Cardinality(S \cup {e}) =
                  IF e \in S THEN Cardinality(S) ELSE Cardinality(S) + 1
            BY <4>1, FS_AddElement
          <5> QED BY <4>1, <5>1
        <4> QED BY <3>1, <4>2 DEF S
      <3>4. Cardinality(Holders(p)') = Cardinality(Holders(p)) + 1
        BY <1>0, <3>2, FS_AddElement
      <3>5. Cardinality(Slots(p)') \in Nat
        BY <1>0, <3>1, FS_AddElement, FS_CardinalityType
      <3> QED BY <1>0, <3>3, <3>4, <3>5
    <2> QED BY <2>1, <2>2
  <1>4. ASSUME NEW c \in Consumer, Dequeue(c)
        PROVE  Cardinality(Slots(p)') <= Cardinality(Holders(p)')
    <2>1. PICK l \in Level :
            /\ IsChosen(queues, inFlight, l)
            /\ Take(c, l)
            /\ inFlight' = TakesSlot(inFlight, EffectiveLevel(Head(queues[l])),
                                     Head(queues[l]).plan)
      BY <1>4 DEF Dequeue
    <2>2. EffectiveLevel(Head(queues[l])) \in Level
      BY <2>1, ChosenHead
    <2> QED BY <1>3, <1>4, <2>1, <2>2 DEF Dequeue, Take
  <1>5. ASSUME NEW c \in Consumer, DequeueSlip(c)
        PROVE  Cardinality(Slots(p)') <= Cardinality(Holders(p)')
    <2>1. PICK l \in Level :
            /\ IsChosen(queues, inFlight, l)
            /\ Take(c, l)
            /\ inFlight' = TakesSlot(inFlight,
                                     EffectiveLevel(Older(Head(queues[l]))),
                                     Head(queues[l]).plan)
      BY <1>5 DEF DequeueSlip
    <2>2. EffectiveLevel(Older(Head(queues[l]))) \in Level
      BY <2>1, ChosenHead, OlderProperties, EffectiveLevelType
    <2> QED BY <1>3, <1>5, <2>1, <2>2 DEF DequeueSlip, Take
  <1>6. ASSUME NEW c \in Consumer, Complete(c)
        PROVE  Cardinality(Slots(p)') <= Cardinality(Holders(p)')
    <2>1. CASE held[c].plan # p
      <3>1. Kept
        BY <1>6, <1>t, <2>1, SlotReleasedProperties DEF Complete, Slots, Holders
      <3> QED BY <1>k, <3>1
    <2>2. CASE held[c].plan = p
      <3>1. Holders(p)' = Holders(p) \ {c} /\ c \in Holders(p)
        BY <1>6, <1>t, <2>2 DEF Complete, Holders
      <3>2. /\ Cardinality(Holders(p)') = Cardinality(Holders(p)) - 1
            /\ Cardinality(Holders(p)') \in Nat
        BY <1>0, <3>1, FS_RemoveElement, FS_CardinalityType
      <3>3. CASE Slots(p) = {}
        <4>1. Slots(p)' = {}
          BY <1>6, <1>t, <3>3, SlotReleasedProperties DEF Complete, Slots
        <4> QED BY <3>2, <4>1, FS_EmptySet
      <3>4. CASE Slots(p) # {}
        <4>1. PICK l \in Slots(p) : Slots(p)' = Slots(p) \ {l}
          BY <1>6, <2>2, <3>4, SlotsReleased DEF Complete
        <4>2. Cardinality(Slots(p)') = Cardinality(Slots(p)) - 1
          BY <1>0, <4>1, FS_RemoveElement
        <4> QED BY <1>0, <3>2, <4>2
      <3> QED BY <3>3, <3>4
    <2> QED BY <2>1, <2>2
  <1>7. ASSUME NEW c \in Consumer, StopConsumer(c) PROVE Kept
    <2>1. c \notin Holders(p)
      BY <1>7 DEF StopConsumer, Holders
    <2> QED BY <1>7, <1>t, <2>1 DEF StopConsumer, Slots, Holders
  <1>8. ASSUME NEW c \in Consumer, Wait(c) \/ StartConsumer(c) PROVE Kept
    BY <1>8, <1>t DEF Wait, StartConsumer, Slots, Holders
  <1>9. ASSUME Tick \/ UNCHANGED vars PROVE Kept
    BY <1>9 DEF Tick, vars, Slots, Holders
  <1> HIDE DEF Kept
  <1> QED BY <1>k, <1>1, <1>2, <1>4, <1>5, <1>6, <1>7, <1>8, <1>9 DEF Next

SlotInv == TypeOK /\ NoLeakedSlot

LEMMA LeakedGrows == TypeOK /\ [Next]_vars => leaked \subseteq leaked'
  BY DEF Next, vars, Enqueue, RemovePlan, Dequeue, DequeueSlip, Wait, Complete,
         StopConsumer, StartConsumer, Tick

(* A plan whose consumers were not stopped occupies no more levels than it *)
(* has executions, for any number of consumers and duplicated queue items. *)
THEOREM SlotsReleasedCorrect == Spec => []NoLeakedSlot
  <1>1. Init => SlotInv
    <2>1. ASSUME Init, NEW p \in Plan
          PROVE  Cardinality(Slots(p)) <= Cardinality(Holders(p))
      <3>1. Slots(p) = {}
        BY <2>1 DEF Init, Slots
      <3>2. Cardinality(Holders(p)) \in Nat
        BY <2>1, TypeInit, SlotsFiniteType
      <3> QED BY <3>1, <3>2, FS_EmptySet
    <2> QED BY <2>1, TypeInit DEF SlotInv, NoLeakedSlot
  <1>2. SlotInv /\ [Next]_vars => SlotInv'
    <2> SUFFICES ASSUME SlotInv, [Next]_vars, NEW p \in Plan, p \notin leaked'
                 PROVE  TypeOK' /\ Cardinality(Slots(p)') <= Cardinality(Holders(p)')
      BY TypeNext DEF SlotInv, NoLeakedSlot
    <2>1. TypeOK /\ TypeOK' /\ p \notin leaked
      BY TypeNext, LeakedGrows DEF SlotInv
    <2>2. Cardinality(Slots(p)) <= Cardinality(Holders(p))
      BY <2>1 DEF SlotInv, NoLeakedSlot
    <2> QED BY <2>1, <2>2, SlotNext
  <1>3. SlotInv => NoLeakedSlot
    BY DEF SlotInv
  <1> QED BY <1>1, <1>2, <1>3, PTL DEF Spec

-----------------------------------------------------------------------------
(* The order within a level.                                               *)

Ordered(q, l) ==
    \A i, j \in DOMAIN q : q[i].priority = l /\ (i < j => q[i].age >= q[j].age)

LEMMA OrderedTail ==
    ASSUME NEW q \in Seq(QueueItem), NEW l \in Level, q # <<>>, Ordered(q, l)
    PROVE  Ordered(Tail(q), l)
  <1>1. /\ Len(Tail(q)) = Len(q) - 1 /\ Len(q) \in Nat
        /\ DOMAIN q = 1..Len(q) /\ DOMAIN Tail(q) = 1..Len(q) - 1
        /\ \A i \in 1..Len(q) - 1 : Tail(q)[i] = q[i + 1]
    BY HeadTailProperties, LenProperties
  <1>2. ASSUME NEW i \in 1..Len(q) - 1, NEW j \in 1..Len(q) - 1
        PROVE  /\ Tail(q)[i].priority = l
               /\ i < j => Tail(q)[i].age >= Tail(q)[j].age
    <2>1. /\ i + 1 \in DOMAIN q /\ j + 1 \in DOMAIN q
          /\ i < j => i + 1 < j + 1
      BY <1>1
    <2> QED BY <1>1, <2>1 DEF Ordered
  <1> QED BY <1>1, <1>2 DEF Ordered

LEMMA OrderedAppend ==
    ASSUME NEW q \in Seq(QueueItem), NEW l \in Level, Ordered(q, l),
           NEW item \in QueueItem, item.priority = l, item.age = 0
    PROVE  Ordered(Append(q, item), l)
  <1>1. /\ Len(q) \in Nat /\ DOMAIN q = 1..Len(q)
        /\ DOMAIN Append(q, item) = 1..Len(q) + 1
        /\ \A i \in 1..Len(q) : Append(q, item)[i] = q[i] /\ q[i] \in QueueItem
        /\ Append(q, item)[Len(q) + 1] = item
    BY LenProperties
  <1>2. \A i \in 1..Len(q) : q[i].age \in Nat
    BY <1>1, MaxAgeNat DEF QueueItem
  <1>3. ASSUME NEW i \in 1..Len(q) + 1, NEW j \in 1..Len(q) + 1
        PROVE  /\ Append(q, item)[i].priority = l
               /\ i < j => Append(q, item)[i].age >= Append(q, item)[j].age
    <2>1. CASE i \in 1..Len(q) /\ j \in 1..Len(q)
      BY <1>1, <2>1 DEF Ordered
    <2>2. CASE i \in 1..Len(q) /\ j = Len(q) + 1
      BY <1>1, <1>2, <2>2 DEF Ordered
    <2>3. CASE i = Len(q) + 1
      BY <1>1, <2>3
    <2> QED BY <1>1, <2>1, <2>2, <2>3
  <1> QED BY <1>1, <1>3 DEF Ordered

LEMMA OrderedRemove ==
    ASSUME NEW q \in Seq(QueueItem), NEW l \in Level, Ordered(q, l),
           NEW n \in DOMAIN q
    PROVE  Ordered(RemoveAt(q, n), l)
  <1>1. /\ Len(q) \in Nat /\ DOMAIN q = 1..Len(q) /\ n \in 1..Len(q)
    BY LenProperties
  <1>2. /\ DOMAIN RemoveAt(q, n) = 1..Len(q) - 1
        /\ \A j \in 1..Len(q) - 1 :
             RemoveAt(q, n)[j] = IF j < n THEN q[j] ELSE q[j + 1]
    BY <1>1, RemoveAtProperties, LenProperties
  <1>3. ASSUME NEW i \in 1..Len(q) - 1, NEW j \in 1..Len(q) - 1
        PROVE  /\ RemoveAt(q, n)[i].priority = l
               /\ i < j => RemoveAt(q, n)[i].age >= RemoveAt(q, n)[j].age
    <2> DEFINE k(x) == IF x < n THEN x ELSE x + 1
    <2>1. /\ k(i) \in DOMAIN q /\ k(j) \in DOMAIN q
          /\ i < j => k(i) < k(j)
      BY <1>1
    <2>2. /\ RemoveAt(q, n)[i] = q[k(i)]
          /\ RemoveAt(q, n)[j] = q[k(j)]
      BY <1>2
    <2> HIDE DEF k
    <2> QED BY <2>1, <2>2 DEF Ordered
  <1> QED BY <1>2, <1>3 DEF Ordered

LEMMA OrderedOlder ==
    ASSUME NEW qs \in [Level -> Seq(QueueItem)], NEW l \in Level, Ordered(qs[l], l)
    PROVE  Ordered(OlderQueues(qs)[l], l)
  <1>1. /\ DOMAIN OlderQueues(qs)[l] = DOMAIN qs[l]
        /\ \A i \in DOMAIN qs[l] :
             /\ OlderQueues(qs)[l][i] = Older(qs[l][i])
             /\ qs[l][i] \in QueueItem
    BY OlderQueuesProperties, LenProperties
  <1>2. ASSUME NEW i \in DOMAIN qs[l], NEW j \in DOMAIN qs[l]
        PROVE  /\ Older(qs[l][i]).priority = l
               /\ i < j => Older(qs[l][i]).age >= Older(qs[l][j]).age
    <2>1. /\ qs[l][i].age \in Nat /\ qs[l][j].age \in Nat
          /\ qs[l][i].priority = l
          /\ i < j => qs[l][i].age >= qs[l][j].age
      BY <1>1, MaxAgeNat DEF Ordered, QueueItem
    <2> QED BY <1>1, <2>1, OlderProperties, MaxAgeNat
  <1> QED BY <1>1, <1>2 DEF Ordered

FifoInv == TypeOK /\ AgeOrdered

LEMMA AgeOrderedIsOrdered == AgeOrdered <=> \A l \in Level : Ordered(queues[l], l)
  BY DEF AgeOrdered, Ordered

LEMMA FifoNext == FifoInv /\ [Next]_vars => FifoInv'
  <1> SUFFICES ASSUME FifoInv, [Next]_vars
               PROVE  \A l \in Level : Ordered(queues'[l], l)
    BY TypeNext DEF FifoInv, AgeOrdered, Ordered
  <1>0. /\ TypeOK
        /\ queues \in [Level -> Seq(QueueItem)]
        /\ \A l \in Level : Ordered(queues[l], l) /\ queues[l] \in Seq(QueueItem)
    BY AgeOrderedIsOrdered DEF FifoInv, TypeOK
  <1> USE DEF Level
  <1>1. ASSUME NEW p \in Plan, Enqueue(p)
        PROVE  \A l \in Level : Ordered(queues'[l], l)
    <2> DEFINE item == NewItem(p, PriorityOf[p])
    <2>1. /\ item \in QueueItem /\ item.priority \in Level /\ item.age = 0
      BY PriorityAssumption, MaxAgeNat DEF NewItem, QueueItem
    <2>2. queues' = [queues EXCEPT ![item.priority] = Append(@, item)]
      BY <1>1 DEF Enqueue, Enqueued
    <2> HIDE DEF item
    <2>3. Ordered(Append(queues[item.priority], item), item.priority)
      BY <1>0, <2>1, OrderedAppend
    <2> QED BY <1>0, <2>1, <2>2, <2>3
  <1>2. ASSUME NEW p \in Plan, RemovePlan(p)
        PROVE  \A l \in Level : Ordered(queues'[l], l)
    <2>1. CASE IsQueued(queues, p)
      <3>1. PICK l \in Level : \E i \in DOMAIN queues[l] :
              queues' = [queues EXCEPT ![l] = RemoveAt(@, i)]
        BY <1>2, <2>1 DEF RemovePlan, RemovedFrom
      <3>2. PICK i \in DOMAIN queues[l] :
              queues' = [queues EXCEPT ![l] = RemoveAt(@, i)]
        BY <3>1
      <3>3. Ordered(RemoveAt(queues[l], i), l)
        BY <1>0, OrderedRemove
      <3> QED BY <1>0, <3>2, <3>3
    <2>2. CASE ~IsQueued(queues, p)
      BY <1>0, <1>2, <2>2 DEF RemovePlan, RemovedFrom
    <2> QED BY <2>1, <2>2
  <1>p. ASSUME NEW l \in Level, IsChosen(queues, inFlight, l)
        PROVE  /\ Popped(queues, l) \in [Level -> Seq(QueueItem)]
               /\ \A m \in Level : Ordered(Popped(queues, l)[m], m)
    <2>1. /\ queues[l] # <<>>
          /\ Popped(queues, l) \in [Level -> Seq(QueueItem)]
      BY <1>0, <1>p, ChosenHead
    <2>2. Ordered(Tail(queues[l]), l)
      BY <1>0, <2>1, OrderedTail
    <2> QED BY <1>0, <2>1, <2>2 DEF Popped
  <1>3. ASSUME NEW c \in Consumer, Dequeue(c)
        PROVE  \A l \in Level : Ordered(queues'[l], l)
    BY <1>3, <1>p DEF Dequeue
  <1>4. ASSUME NEW c \in Consumer, DequeueSlip(c)
        PROVE  \A l \in Level : Ordered(queues'[l], l)
    <2>1. PICK l \in Level : /\ IsChosen(queues, inFlight, l)
                             /\ queues' = OlderQueues(Popped(queues, l))
      BY <1>4 DEF DequeueSlip
    <2> QED BY <1>p, <2>1, OrderedOlder
  <1>5. ASSUME Tick PROVE \A l \in Level : Ordered(queues'[l], l)
    BY <1>0, <1>5, OrderedOlder DEF Tick
  <1>6. ASSUME queues' = queues PROVE \A l \in Level : Ordered(queues'[l], l)
    BY <1>0, <1>6
  <1> QED BY <1>1, <1>2, <1>3, <1>4, <1>5, <1>6
          DEF Next, vars, Wait, Complete, StopConsumer, StartConsumer

(* Nobody in a level stands behind a younger item of that level.           *)
THEOREM AgeOrderCorrect == Spec => []AgeOrdered
  <1>1. Init => FifoInv
    BY TypeInit DEF Init, FifoInv, AgeOrdered
  <1>2. FifoInv => AgeOrdered
    BY DEF FifoInv
  <1> QED BY <1>1, <1>2, FifoNext, PTL DEF Spec

-----------------------------------------------------------------------------
(* Looking at heads only is enough: by the order within a level, the head  *)
(* of a queue is at least as urgent as anything behind it, so an item that *)
(* is more urgent than the one dispatched has a head that was examined and *)
(* refused.                                                                *)

LEMMA ChosenOvertakesNobody ==
    ASSUME FifoInv, NEW l \in Level, IsChosen(queues, inFlight, l),
           NEW m \in Level, NEW j \in DOMAIN queues[m],
           EffectiveLevel(queues[m][j]) < EffectiveLevel(Head(queues[l]))
    PROVE  ~HasCapacity(inFlight, EffectiveLevel(Head(queues[m])))
  <1>1. /\ TypeOK /\ queues[m] \in Seq(QueueItem)
        /\ DOMAIN queues[m] = 1..Len(queues[m]) /\ Len(queues[m]) \in Nat
    BY LenProperties DEF FifoInv, TypeOK
  <1>2. /\ queues[m] # <<>> /\ Head(queues[m]) = queues[m][1]
        /\ queues[m][1] \in QueueItem /\ queues[m][j] \in QueueItem
        /\ 1 \in DOMAIN queues[m] /\ 1 <= j
    BY <1>1
  <1>3. /\ queues[m][1].priority = queues[m][j].priority
        /\ queues[m][j].age <= queues[m][1].age
    <2>1. CASE j = 1
      BY <1>2, <2>1, MaxAgeNat DEF QueueItem
    <2>2. CASE j # 1
      BY <1>1, <1>2, <2>2 DEF FifoInv, AgeOrdered
    <2> QED BY <2>1, <2>2
  <1>4. EffectiveLevel(Head(queues[m])) <= EffectiveLevel(queues[m][j])
    BY <1>2, <1>3, EffectiveLevelAntitone
  <1>5. /\ EffectiveLevel(Head(queues[m])) \in Int
        /\ EffectiveLevel(queues[m][j]) \in Int
        /\ EffectiveLevel(Head(queues[l])) \in Int
    <2>1. /\ EffectiveLevel(queues[m][1]) \in Level
          /\ EffectiveLevel(queues[m][j]) \in Level
      BY <1>2, EffectiveLevelType
    <2>2. EffectiveLevel(Head(queues[l])) \in Level
      BY <1>1, ChosenHead
    <2>3. \A x \in Level : x \in Int
      BY DEF Level
    <2> QED BY <1>2, <2>1, <2>2, <2>3
  <1>6. EffectiveLevel(Head(queues[m])) < EffectiveLevel(Head(queues[l]))
    BY <1>4, <1>5
  <1>7. ~IsCandidate(queues, inFlight, m)
    BY <1>5, <1>6 DEF IsChosen
  <1> QED BY <1>2, <1>7 DEF IsCandidate

LEMMA NoOvertakingNext == FifoInv /\ [Next]_vars => [NoOvertaking]_vars
  <1> SUFFICES ASSUME FifoInv, Next, NEW c \in Consumer,
                      consumer[c] = "trying", consumer'[c] = "holding",
                      NEW m \in Level, NEW j \in DOMAIN queues[m],
                      EffectiveLevel(queues[m][j]) < EffectiveLevel(held'[c])
               PROVE  ~HasCapacity(inFlight, EffectiveLevel(Head(queues[m])))
    BY DEF NoOvertaking
  <1>0. consumer \in [Consumer -> {"stopped", "trying", "waiting", "holding"}]
        /\ held \in [Consumer -> QueueItem \cup {NoItem}]
    BY DEF FifoInv, TypeOK
  <1>1. \E d \in Consumer : Dequeue(d) \/ DequeueSlip(d)
    BY <1>0 DEF Next, Enqueue, RemovePlan, Wait, Complete, StopConsumer,
                StartConsumer, Tick
  <1>2. PICK d \in Consumer, l \in Level :
          IsChosen(queues, inFlight, l) /\ Take(d, l)
    BY <1>1 DEF Dequeue, DequeueSlip
  <1>3. c = d /\ held'[c] = Head(queues[l])
    BY <1>0, <1>2 DEF Take
  <1> QED BY <1>2, <1>3, ChosenOvertakesNobody

(* No dispatch overtakes a more urgent item whose queue is not held back.  *)
THEOREM NoOvertakingCorrect == Spec => NoOvertakingStep
  <1>1. Init => FifoInv
    BY TypeInit DEF Init, FifoInv, AgeOrdered
  <1> QED BY <1>1, FifoNext, NoOvertakingNext, PTL DEF Spec, NoOvertakingStep
=============================================================================
