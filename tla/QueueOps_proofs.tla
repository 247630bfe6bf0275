-------------------------- MODULE QueueOps_proofs --------------------------
(***************************************************************************)
(* What the operators of QueueOps return and preserve: the facts that the  *)
(* proofs about PriorityQueue and TaskOrchestrator share.                  *)
(***************************************************************************)
EXTENDS QueueOps, FiniteSetTheorems, SequenceTheorems, WellFoundedInduction,
        TLAPS

-----------------------------------------------------------------------------
(* Division by the threshold: what aging needs of arithmetic.              *)

LEMMA DivNat ==
    ASSUME NEW a \in Nat, NEW t \in Nat \ {0}
    PROVE  a \div t \in Nat
  BY SMT

LEMMA DivMonotonic ==
    ASSUME NEW a \in Nat, NEW b \in Nat, NEW t \in Nat \ {0}, a <= b
    PROVE  a \div t <= b \div t
  <1> DEFINE qa == a \div t
             qb == b \div t
  <1>1. qa \in Nat /\ qb \in Nat
    BY DivNat
  <1>2. t * qa <= a /\ b < t * (qb + 1)
    BY SMT
  <1>3. t * qa < t * (qb + 1)
    BY <1>1, <1>2
  <1> HIDE DEF qa, qb
  <1>4. qa < qb + 1
    BY <1>1, <1>3, SMT
  <1>5. qa <= qb
    BY <1>1, <1>4
  <1> QED BY <1>5 DEF qa, qb

-----------------------------------------------------------------------------
(* The operators of QueueOps.                                              *)

LEMMA MaxAgeNat == MaxAge \in Nat
  <1>1. MaxLevel \in Nat /\ Threshold \in Nat
    BY MaxLevelAssumption, ThresholdAssumption
  <1> QED BY <1>1, SMT DEF MaxAge

LEMMA EffectiveLevelType ==
    ASSUME NEW item \in QueueItem
    PROVE  EffectiveLevel(item) \in Level
  <1>1. item.age \in Nat /\ item.priority \in Level
    BY MaxAgeNat DEF QueueItem
  <1>2. item.age \div Threshold \in Nat
    BY <1>1, DivNat, ThresholdAssumption
  <1> QED BY <1>1, <1>2, MaxLevelAssumption DEF EffectiveLevel, Level

(* Of two items of one priority the older is at least as urgent.           *)
LEMMA EffectiveLevelAntitone ==
    ASSUME NEW i \in QueueItem, NEW j \in QueueItem,
           i.priority = j.priority, j.age <= i.age
    PROVE  EffectiveLevel(i) <= EffectiveLevel(j)
  <1> DEFINE qi == i.age \div Threshold
             qj == j.age \div Threshold
  <1>1. i.age \in Nat /\ j.age \in Nat /\ i.priority \in Int
    BY MaxAgeNat, MaxLevelAssumption DEF QueueItem, Level
  <1>2. qi \in Nat /\ qj \in Nat /\ qj <= qi
    BY <1>1, DivNat, DivMonotonic, ThresholdAssumption
  <1>3. /\ EffectiveLevel(i) = IF i.priority - qi < 0 THEN 0 ELSE i.priority - qi
        /\ EffectiveLevel(j) = IF j.priority - qj < 0 THEN 0 ELSE j.priority - qj
    BY DEF EffectiveLevel
  <1> HIDE DEF qi, qj
  <1> QED BY <1>1, <1>2, <1>3

LEMMA OlderProperties ==
    ASSUME NEW item \in QueueItem
    PROVE  /\ Older(item) \in QueueItem
           /\ Older(item).priority = item.priority
           /\ Older(item).plan = item.plan
           /\ Older(item).age =
                IF item.age < MaxAge THEN item.age + 1 ELSE item.age
  BY MaxAgeNat DEF QueueItem, Older

LEMMA OlderQueuesProperties ==
    ASSUME NEW qs \in [Level -> Seq(QueueItem)]
    PROVE  /\ OlderQueues(qs) \in [Level -> Seq(QueueItem)]
           /\ \A l \in Level :
                /\ DOMAIN OlderQueues(qs)[l] = DOMAIN qs[l]
                /\ \A i \in DOMAIN qs[l] : OlderQueues(qs)[l][i] = Older(qs[l][i])
  <1>1. ASSUME NEW l \in Level
        PROVE  /\ OlderQueues(qs)[l] \in Seq(QueueItem)
               /\ DOMAIN OlderQueues(qs)[l] = DOMAIN qs[l]
               /\ \A i \in DOMAIN qs[l] : OlderQueues(qs)[l][i] = Older(qs[l][i])
    <2> DEFINE e(i) == Older(qs[l][i])
    <2>1. qs[l] \in Seq(QueueItem)
      BY <1>1
    <2>2. Len(qs[l]) \in Nat /\ DOMAIN qs[l] = 1..Len(qs[l])
      BY <2>1
    <2>3. \A i \in 1..Len(qs[l]) : e(i) \in QueueItem
      BY <2>1, <2>2, OlderProperties
    <2>4. OlderQueues(qs)[l] = [i \in 1..Len(qs[l]) |-> e(i)]
      BY <1>1 DEF OlderQueues
    <2> HIDE DEF e
    <2>5. OlderQueues(qs)[l] \in Seq(QueueItem)
      BY <2>2, <2>3, <2>4, IsASeq
    <2> QED BY <2>2, <2>4, <2>5 DEF e
  <1> QED BY <1>1 DEF OlderQueues

LEMMA RemoveAtProperties ==
    ASSUME NEW S, NEW s \in Seq(S), NEW i \in 1..Len(s)
    PROVE  /\ RemoveAt(s, i) \in Seq(S)
           /\ Len(RemoveAt(s, i)) = Len(s) - 1
           /\ \A j \in 1..Len(s) - 1 :
                RemoveAt(s, i)[j] = IF j < i THEN s[j] ELSE s[j + 1]
  <1> DEFINE front == SubSeq(s, 1, i - 1)
             back  == SubSeq(s, i + 1, Len(s))
  <1>1. /\ front \in Seq(S)
        /\ Len(front) = i - 1
        /\ \A j \in 1..i - 1 : front[j] = s[j]
    BY SubSeqProperties, LenProperties
  <1>2. /\ back \in Seq(S)
        /\ Len(back) = Len(s) - i
        /\ \A j \in 1..Len(s) - i : back[j] = s[i + j]
    BY SubSeqProperties, LenProperties
  <1>3. RemoveAt(s, i) = front \o back
    BY DEF RemoveAt
  <1> HIDE DEF front, back
  <1>4. Len(s) \in Nat /\ i \in Nat /\ 1 <= i /\ i <= Len(s)
    BY LenProperties
  <1>5. /\ front \o back \in Seq(S)
        /\ Len(front \o back) = Len(front) + Len(back)
        /\ \A j \in 1..Len(front) + Len(back) :
             (front \o back)[j] = IF j <= Len(front) THEN front[j]
                                                   ELSE back[j - Len(front)]
    BY <1>1, <1>2, ConcatProperties
  <1>6. ASSUME NEW j \in 1..Len(s) - 1
        PROVE  (front \o back)[j] = IF j < i THEN s[j] ELSE s[j + 1]
    <2>1. CASE j < i
      BY <1>1, <1>2, <1>4, <1>5, <2>1
    <2>2. CASE ~(j < i)
      <3>1. j - (i - 1) \in 1..Len(s) - i /\ i + (j - (i - 1)) = j + 1
        BY <1>4, <2>2
      <3>2. back[j - (i - 1)] = s[i + (j - (i - 1))]
        BY <1>2, <3>1
      <3> QED BY <1>1, <1>2, <1>4, <1>5, <2>2, <3>1, <3>2
    <2> QED BY <2>1, <2>2
  <1> QED BY <1>1, <1>2, <1>3, <1>4, <1>5, <1>6

LEMMA SlotReleasedProperties ==
    ASSUME NEW inFl \in [Level -> SUBSET Plan], NEW p
    PROVE  /\ SlotReleased(inFl, p) \in [Level -> SUBSET Plan]
           /\ \A l \in Level : SlotReleased(inFl, p)[l] \subseteq inFl[l]
  BY DEF SlotReleased

LEMMA EnqueuedType ==
    ASSUME NEW qs \in [Level -> Seq(QueueItem)], NEW p \in Plan, NEW l \in Level
    PROVE  Enqueued(qs, NewItem(p, l)) \in [Level -> Seq(QueueItem)]
  <1> DEFINE item == NewItem(p, l)
  <1>1. item \in QueueItem /\ item.priority \in Level
    BY MaxAgeNat DEF NewItem, QueueItem
  <1> HIDE DEF item
  <1>2. Append(qs[item.priority], item) \in Seq(QueueItem)
    BY <1>1
  <1> QED BY <1>1, <1>2 DEF Enqueued, item

LEMMA ChosenHeadProperties ==
    ASSUME NEW qs \in [Level -> Seq(QueueItem)], NEW inFl, NEW l \in Level,
           IsChosen(qs, inFl, l)
    PROVE  /\ qs[l] \in Seq(QueueItem)
           /\ qs[l] # <<>>
           /\ Head(qs[l]) \in QueueItem
           /\ Head(qs[l]).plan \in Plan
           /\ EffectiveLevel(Head(qs[l])) \in Level
           /\ HasCapacity(inFl, EffectiveLevel(Head(qs[l])))
           /\ Popped(qs, l) \in [Level -> Seq(QueueItem)]
  <1>1. qs[l] \in Seq(QueueItem) /\ qs[l] # <<>>
    BY DEF IsChosen, IsCandidate
  <1>2. Head(qs[l]) \in QueueItem /\ Tail(qs[l]) \in Seq(QueueItem)
    BY <1>1
  <1>3. EffectiveLevel(Head(qs[l])) \in Level
    BY <1>2, EffectiveLevelType
  <1>4. Popped(qs, l) \in [Level -> Seq(QueueItem)]
    BY <1>2 DEF Popped
  <1> QED BY <1>1, <1>2, <1>3, <1>4 DEF QueueItem, IsChosen, IsCandidate

LEMMA RemovedFromType ==
    ASSUME NEW qs \in [Level -> Seq(QueueItem)], NEW inFl \in [Level -> SUBSET Plan],
           NEW p, NEW newQs, NEW newInFl, RemovedFrom(qs, inFl, p, newQs, newInFl)
    PROVE  /\ newQs \in [Level -> Seq(QueueItem)]
           /\ newInFl \in [Level -> SUBSET Plan]
           /\ \A l \in Level : newInFl[l] \subseteq inFl[l]
  <1>1. CASE IsQueued(qs, p)
    <2>1. PICK l \in Level : \E i \in DOMAIN qs[l] :
            newQs = [qs EXCEPT ![l] = RemoveAt(@, i)]
      BY <1>1 DEF RemovedFrom
    <2>2. PICK i \in DOMAIN qs[l] : newQs = [qs EXCEPT ![l] = RemoveAt(@, i)]
      BY <2>1
    <2>3. RemoveAt(qs[l], i) \in Seq(QueueItem)
      BY RemoveAtProperties, LenProperties
    <2>4. newInFl = inFl
      BY <1>1 DEF RemovedFrom
    <2> QED BY <2>2, <2>3, <2>4
  <1>2. CASE ~IsQueued(qs, p)
    BY <1>2, SlotReleasedProperties DEF RemovedFrom
  <1> QED BY <1>1, <1>2

(* A set of levels that is not empty has a least one.                      *)
LEMMA LeastLevel ==
    ASSUME NEW S \in SUBSET Level, S # {}
    PROVE  \E l \in S : \A m \in S : l <= m
  <1>1. S \subseteq Nat
    BY MaxLevelAssumption DEF Level
  <1>2. PICK l \in S : \A m \in S : ~(<<m, l>> \in OpToRel(<, Nat))
    BY <1>1, NatLessThanWellFounded, WFMin
  <1>3. \A m \in S : ~(m < l)
    BY <1>1, <1>2 DEF OpToRel
  <1> QED BY <1>1, <1>3
=============================================================================
