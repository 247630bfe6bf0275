------------------------ MODULE PlanValidation_proofs ------------------------
(***************************************************************************)
(* The verdict of the plan validator is exact, for plans of any size.      *)
(*                                                                         *)
(* The heart is BlackOK: the finished steps are closed under dependents    *)
(* and acyclic.  A step is finished when all its dependents are; none of   *)
(* its own dependencies can then be finished already, so it is a step of   *)
(* every set it joins that depends on no other of the set.                 *)
(***************************************************************************)
EXTENDS PlanValidation, FiniteSetTheorems, SequenceTheorems, TLAPS

Black == {s \in Step : color[s] = "black"}

(* stack is the path of the GRAY steps.                                    *)
StackOK ==
    /\ \A s \in Step : color[s] = "gray" <=> \E i \in 1..Len(stack) : stack[i] = s
    /\ \A i, j \in 1..Len(stack) : stack[i] = stack[j] => i = j
    /\ \A i \in 1..Len(stack)-1 : stack[i] \in deps[stack[i + 1]]

BlackOK ==
    /\ \A s \in Black : Dependents(s) \subseteq Black
    /\ \A S \in SUBSET Black : S # {} => \E s \in S : deps[s] \cap S = {}

MissingErrors == IF Closed THEN <<>> ELSE <<"missing">>

ErrorsOK ==
    /\ pc = "dependencies" => errors = <<>> /\ cycle = <<>>
    /\ pc = "search" => errors = MissingErrors /\ cycle = <<>>
    /\ pc \in {"roots", "sweep"} =>
         \/ errors = MissingErrors /\ Black = Step
         \/ errors = Append(MissingErrors, "cycle") /\ ~Acyclic

InQueue(s) == \E i \in 1..Len(queue) : queue[i] = s

SweepOK ==
    /\ pc \in {"dependencies", "search", "roots"} => reachable = {}
    /\ pc = "sweep" =>
         /\ \A s \in RootSteps : s \in reachable \/ InQueue(s)
         /\ \A r \in reachable : \A t \in Dependents(r) :
              t \in reachable \/ InQueue(t)

Inv == TypeOK /\ StackOK /\ BlackOK /\ ErrorsOK /\ SweepOK
       /\ VerdictExact /\ CyclePathIsReal

-----------------------------------------------------------------------------
(* Helpers.                                                                *)

LEMMA ListingProperties ==
    ASSUME NEW S \in SUBSET Step, NEW q \in Listings(S)
    PROVE  /\ q \in Seq(Step)
           /\ \A s \in S : \E i \in 1..Len(q) : q[i] = s
  <1>1. IsFiniteSet(S)
    BY OrderAssumption, FS_Subset
  <1>2. Cardinality(S) \in Nat
    BY <1>1, FS_CardinalityType
  <1>3. q \in [1..Cardinality(S) -> S]
    BY DEF Listings
  <1>4. q \in Seq(S)
    BY <1>2, <1>3, SMT
  <1>5. DOMAIN q = 1..Len(q)
    BY <1>4, LenProperties
  <1> QED BY <1>4, <1>5, SeqMonotonic DEF Listings

LEMMA TopProperties ==
    ASSUME TypeOK, stack # <<>>
    PROVE  /\ Len(stack) \in Nat \ {0}
           /\ Top \in Step
           /\ Front(stack) \in Seq(Step)
           /\ Len(Front(stack)) = Len(stack) - 1
           /\ \A i \in 1..Len(stack)-1 : Front(stack)[i] = stack[i]
  <1>1. stack \in Seq(Step)
    BY DEF TypeOK
  <1>2. Len(stack) \in Nat \ {0}
    BY <1>1, EmptySeq
  <1>3. \A i \in 1..Len(stack) : stack[i] \in Step
    BY <1>1, ElementOfSeq
  <1>4. \A i \in 1..Len(stack)-1 : stack[i] \in Step
    BY <1>2, <1>3
  <1>5. Len(stack)-1 \in Int /\ 1 \in Int
    BY <1>2
  <1>6. /\ SubSeq(stack, 1, Len(stack)-1) \in Seq(Step)
        /\ Len(SubSeq(stack, 1, Len(stack)-1))
             = IF 1 <= Len(stack)-1 THEN Len(stack)-1-1+1 ELSE 0
        /\ \A i \in 1..(Len(stack)-1)-1+1 :
             SubSeq(stack, 1, Len(stack)-1)[i] = stack[1+i-1]
    BY <1>4, <1>5, SubSeqProperties
  <1>7. Len(Front(stack)) = Len(stack) - 1
    <2>1. CASE 1 <= Len(stack)-1
      BY <1>2, <1>6, <2>1 DEF Front
    <2>2. CASE ~(1 <= Len(stack)-1)
      <3> DEFINE L == Len(stack)
      <3>0. L \in Nat \ {0} /\ ~(1 <= L - 1)
        BY <1>2, <2>2
      <3> HIDE DEF L
      <3>1. L = 1
        BY <3>0
      <3> USE DEF L
      <3> QED BY <1>6, <2>2, <3>1 DEF Front
    <2> QED BY <2>1, <2>2
  <1>8. \A i \in 1..Len(stack)-1 : Front(stack)[i] = stack[i]
    BY <1>2, <1>6 DEF Front
  <1>9. Top \in Step
    BY <1>2, <1>3 DEF Top
  <1> QED BY <1>2, <1>6, <1>7, <1>8, <1>9 DEF Front

LEMMA AppendedStack ==
    ASSUME TypeOK, NEW n \in Step
    PROVE  /\ Append(stack, n) \in Seq(Step)
           /\ Len(Append(stack, n)) = Len(stack) + 1
           /\ \A i \in 1..Len(stack) : Append(stack, n)[i] = stack[i]
           /\ Append(stack, n)[Len(stack) + 1] = n
           /\ Len(stack) \in Nat
  <1>1. stack \in Seq(Step)
    BY DEF TypeOK
  <1>2. Len(stack) \in Nat
    BY <1>1, LenProperties
  <1> QED BY <1>1, <1>2, AppendProperties

LEMMA MissingErrorsType ==
    MissingErrors \in Seq({"missing", "cycle", "unreachable"})
  <1>1. <<>> \in Seq({"missing", "cycle", "unreachable"})
    BY EmptySeq
  <1>2. <<"missing">> \in Seq({"missing", "cycle", "unreachable"})
    BY SMT
  <1> QED BY <1>1, <1>2 DEF MissingErrors

(* The path CloseCycle reports.                                            *)
LEMMA PathProperties ==
    ASSUME TypeOK, StackOK, stack # <<>>,
           NEW n \in Dependents(Top), color[n] = "gray"
    PROVE  /\ Path(n) \in Seq(Step)
           /\ Path(n) # <<>>
           /\ \A i \in 1..Len(Path(n))-1 : Path(n)[i] \in deps[Path(n)[i + 1]]
           /\ Last(Path(n)) \in deps[Head(Path(n))] \cup deps[Last(Path(n))]
           /\ ~Acyclic
  <1> DEFINE k == CHOOSE i \in DOMAIN stack : stack[i] = n
             L == Len(stack)
  <1>1. n \in Step /\ Top \in deps[n]
    BY DEF Dependents
  <1>2. stack \in Seq(Step)
    BY DEF TypeOK
  <1>3. L \in Nat \ {0} /\ DOMAIN stack = 1..L
    BY <1>2, LenProperties, TopProperties
  <1>4. \E i \in 1..L : stack[i] = n
    BY <1>1 DEF StackOK
  <1>5. k \in 1..L /\ stack[k] = n
    BY <1>3, <1>4
  <1>k. k \in Nat /\ L \in Nat /\ 1 <= k /\ k <= L
    BY <1>3, <1>5
  <1>6. \A i \in 1..L : stack[i] \in Step
    BY <1>2, ElementOfSeq
  <1>7. Top = stack[L]
    BY DEF Top
  <1>a. \A i \in 1..L : Append(stack, n)[i] = stack[i]
    BY <1>1, AppendedStack
  <1>b. Len(Append(stack, n)) = L + 1 /\ Append(stack, n)[L + 1] = n
    BY <1>1, AppendedStack
  <1>c. \A i \in 1..L-1 : stack[i] \in deps[stack[i + 1]]
    BY DEF StackOK
  <1> HIDE DEF k, L
  <1>8. ~Acyclic
    <2> DEFINE S == {stack[i] : i \in k..L}
    <2>1. S \in SUBSET Step /\ S # {}
      BY <1>3, <1>5, <1>6
    <2>2. ASSUME NEW s \in S PROVE deps[s] \cap S # {}
      <3>1. PICK i \in k..L : s = stack[i]
        OBVIOUS
      <3>2. CASE i = k
        BY <1>1, <1>3, <1>5, <1>7, <3>1, <3>2
      <3>3. CASE i # k
        <4>1. i - 1 \in 1..L-1 /\ i - 1 \in k..L /\ (i - 1) + 1 = i
          BY <1>k, <3>3
        <4>2. stack[i - 1] \in deps[stack[(i - 1) + 1]]
          BY <1>c, <4>1
        <4> QED BY <3>1, <4>1, <4>2
      <3> QED BY <3>2, <3>3
    <2> QED BY <2>1, <2>2 DEF Acyclic
  <1>9. CASE n = Top
    <2>1. Path(n) = Append(stack, n)
      BY <1>9 DEF Path
    <2>2. ASSUME NEW i \in 1..Len(Path(n))-1
          PROVE  Path(n)[i] \in deps[Path(n)[i + 1]]
      <3>0. i \in Nat /\ 1 <= i /\ i <= L
        BY <1>b, <1>k, <2>1
      <3>1. CASE i = L
        BY <1>1, <1>a, <1>b, <1>k, <1>7, <2>1, <3>1
      <3>2. CASE i # L
        <4>1. i \in 1..L-1 /\ i \in 1..L /\ i + 1 \in 1..L
          BY <1>k, <3>0, <3>2
        <4> QED BY <1>a, <1>c, <2>1, <4>1
      <3> QED BY <3>1, <3>2
    <2>3. Last(Path(n)) = n
      BY <1>1, <2>1, AppendedStack DEF Last
    <2>4. Path(n) # <<>>
      BY <1>1, <1>3, <2>1, AppendedStack, EmptySeq
    <2> QED BY <1>1, <1>8, <1>9, <2>1, <2>2, <2>3, <2>4, AppendedStack
  <1>10. CASE n # Top
    <2> DEFINE T == SubSeq(stack, k + 1, L)
    <2>1. Path(n) = Append(T, n)
      BY <1>10 DEF Path, k, L
    <2>2. k < L
      BY <1>3, <1>5, <1>7, <1>10
    <2>3. \A i \in k+1..L : stack[i] \in Step
      BY <1>3, <1>5, <1>6
    <2>4. k + 1 \in Int /\ L \in Int
      BY <1>3, <1>5
    <2>5. /\ T \in Seq(Step)
          /\ Len(T) = IF k + 1 <= L THEN L - (k + 1) + 1 ELSE 0
          /\ \A i \in 1..L-(k+1)+1 : T[i] = stack[(k+1)+i-1]
      BY <2>3, <2>4, SubSeqProperties
    <2>6. Len(T) = L - k
      BY <1>k, <2>2, <2>5
    <2>7. \A i \in 1..L-k : T[i] = stack[k + i]
      <3>1. ASSUME NEW i \in 1..L-k PROVE T[i] = stack[k + i]
        <4>1. i \in 1..L-(k+1)+1 /\ (k+1)+i-1 = k + i
          BY <1>k
        <4> QED BY <2>5, <4>1
      <3> QED BY <3>1
    <2> HIDE DEF T
    <2>8. /\ Append(T, n) \in Seq(Step)
          /\ Len(Append(T, n)) = (L - k) + 1
          /\ \A i \in 1..L-k : Append(T, n)[i] = T[i]
          /\ Append(T, n)[(L - k) + 1] = n
      BY <1>1, <2>5, <2>6, AppendProperties
    <2>9. ASSUME NEW i \in 1..Len(Path(n))-1
          PROVE  Path(n)[i] \in deps[Path(n)[i + 1]]
      <3>1. i \in 1..L-k
        BY <1>k, <2>1, <2>8
      <3>0. i \in Nat /\ 1 <= i /\ i <= L - k
        BY <1>k, <3>1
      <3>2. Path(n)[i] = stack[k + i]
        BY <2>1, <2>7, <2>8, <3>1
      <3>3. CASE i = L - k
        <4>1. k + i = L /\ i + 1 = (L - k) + 1
          BY <1>k, <3>0, <3>3
        <4>2. Path(n)[i] = Top /\ Path(n)[i + 1] = n
          BY <1>7, <2>1, <2>8, <3>2, <4>1
        <4> QED BY <1>1, <4>2
      <3>4. CASE i # L - k
        <4>1. i + 1 \in 1..L-k /\ k + i \in 1..L-1 /\ (k + i) + 1 = k + (i + 1)
          BY <1>k, <3>0, <3>4
        <4>2. Path(n)[i + 1] = stack[(k + i) + 1]
          BY <2>1, <2>7, <2>8, <4>1
        <4> QED BY <1>c, <3>2, <4>1, <4>2
      <3> QED BY <3>3, <3>4
    <2>10. Path(n) # <<>>
      BY <1>3, <1>5, <2>1, <2>8, EmptySeq
    <2>11. Last(Path(n)) = n
      BY <2>1, <2>8 DEF Last
    <2>12. Head(Path(n)) = stack[k + 1]
      <3>1. 1 \in 1..L-k
        BY <1>k, <2>2
      <3>2. Path(n)[1] = stack[k + 1]
        BY <2>1, <2>7, <2>8, <3>1
      <3> QED BY <2>1, <2>8, <2>10, <3>2
    <2>13. stack[k] \in deps[stack[k + 1]]
      <3>1. k \in 1..L-1
        BY <1>k, <2>2
      <3> QED BY <1>c, <3>1
    <2> QED BY <1>5, <1>8, <2>1, <2>8, <2>9, <2>10, <2>11, <2>12, <2>13
  <1> QED BY <1>9, <1>10

-----------------------------------------------------------------------------
(* Each part of the invariant is preserved by every step.                  *)

LEMMA InitInv == Init => Inv
  <1> SUFFICES ASSUME Init PROVE Inv
    OBVIOUS
  <1>1. TypeOK
    BY EmptySeq DEF Init, TypeOK
  <1>2. StackOK
    BY DEF Init, StackOK
  <1>3. BlackOK
    BY DEF Init, BlackOK, Black
  <1>4. ErrorsOK /\ SweepOK /\ VerdictExact /\ CyclePathIsReal
    BY DEF Init, ErrorsOK, SweepOK, VerdictExact, CyclePathIsReal
  <1> QED BY <1>1, <1>2, <1>3, <1>4 DEF Inv

LEMMA TypeStep ==
    ASSUME TypeOK, StackOK, [Next]_vars
    PROVE  TypeOK'
  <1> USE DEF TypeOK
  <1>0. /\ Append(errors, "missing") \in Seq({"missing", "cycle", "unreachable"})
        /\ Append(errors, "cycle") \in Seq({"missing", "cycle", "unreachable"})
        /\ Append(errors, "unreachable") \in Seq({"missing", "cycle", "unreachable"})
    BY AppendProperties
  <1>1. CASE CheckDependencies
    BY <1>0, <1>1 DEF CheckDependencies
  <1>2. ASSUME NEW s \in Step, Visit(s) PROVE TypeOK'
    <2>1. <<s>> \in Seq(Step)
      BY SMT
    <2> QED BY <1>2, <2>1 DEF Visit, Colored
  <1>3. ASSUME NEW s \in Step, Descend(s) PROVE TypeOK'
    <2>1. Append(stack, s) \in Seq(Step)
      BY AppendedStack
    <2> QED BY <1>3, <2>1 DEF Descend, Colored
  <1>4. ASSUME NEW s \in Step, CloseCycle(s) PROVE TypeOK'
    <2>1. s \in Dependents(Top) /\ color[s] = "gray" /\ stack # <<>>
      BY <1>4 DEF CloseCycle, IsFirst, Open
    <2>2. Path(s) \in Seq(Step)
      BY <2>1, PathProperties
    <2> QED BY <1>0, <1>4, <2>2 DEF CloseCycle
  <1>5. CASE Finish
    <2>1. Front(stack) \in Seq(Step) /\ Top \in Step
      BY <1>5, TopProperties DEF Finish
    <2> QED BY <1>5, <2>1 DEF Finish, Colored
  <1>6. CASE SearchEnds
    BY <1>6 DEF SearchEnds
  <1>7. CASE Roots
    <2>1. RootSteps \in SUBSET Step
      BY DEF RootSteps
    <2>2. queue' \in Seq(Step)
      BY <1>7, <2>1, ListingProperties DEF Roots
    <2> QED BY <1>0, <1>7, <2>2 DEF Roots, NotEmpty
  <1>8. CASE Sweep
    <2>1. Head(queue) \in Step /\ Tail(queue) \in Seq(Step)
      BY <1>8, HeadTailProperties DEF Sweep
    <2>2. reachable' \in SUBSET Step
      BY <1>8, <2>1 DEF Sweep
    <2>3. queue' \in Seq(Step)
      <3>1. CASE Head(queue) \in reachable
        BY <1>8, <2>1, <3>1 DEF Sweep
      <3>2. CASE Head(queue) \notin reachable
        <4>1. PICK q \in Listings(Dependents(Head(queue)) \ reachable') :
                queue' = Tail(queue) \o q
          BY <1>8, <3>2 DEF Sweep
        <4>2. Dependents(Head(queue)) \ reachable' \in SUBSET Step
          BY DEF Dependents
        <4>3. q \in Seq(Step)
          BY <4>2, ListingProperties
        <4> QED BY <2>1, <4>1, <4>3, ConcatProperties
      <3> QED BY <3>1, <3>2
    <2> QED BY <1>8, <2>2, <2>3 DEF Sweep
  <1>9. CASE SweepEnds
    BY <1>0, <1>9 DEF SweepEnds, NotEmpty
  <1>10. CASE UNCHANGED vars
    BY <1>10 DEF vars
  <1> QED BY <1>1, <1>2, <1>3, <1>4, <1>5, <1>6, <1>7, <1>8, <1>9, <1>10
          DEF Next

LEMMA StackStep ==
    ASSUME TypeOK, StackOK, [Next]_vars
    PROVE  StackOK'
  <1>1. CASE UNCHANGED <<deps, color, stack>>
    BY <1>1 DEF StackOK
  <1>2. ASSUME NEW s \in Step, Visit(s) PROVE StackOK'
    <2>1. /\ stack = <<>> /\ stack' = <<s>> /\ deps' = deps
          /\ color' = [color EXCEPT ![s] = "gray"]
      BY <1>2 DEF Visit, Colored
    <2>2. \A t \in Step : color[t] # "gray"
      BY <2>1 DEF StackOK
    <2>3. Len(stack') = 1 /\ stack'[1] = s
      BY <2>1
    <2>4. \A t \in Step : color'[t] = "gray" <=> t = s
      BY <2>1, <2>2 DEF TypeOK
    <2> QED BY <2>3, <2>4 DEF StackOK
  <1>3. ASSUME NEW s \in Step, Descend(s) PROVE StackOK'
    <2> DEFINE L == Len(stack)
    <2>1. /\ stack # <<>> /\ stack' = Append(stack, s) /\ deps' = deps
          /\ color' = [color EXCEPT ![s] = "gray"] /\ color[s] = "white"
          /\ s \in Dependents(Top)
      BY <1>3 DEF Descend, Colored, IsFirst, Open
    <2>2. L \in Nat /\ 1 <= L
      BY <2>1, TopProperties
    <2>3. Len(stack') = L + 1 /\ stack'[L + 1] = s
      BY <2>1, AppendedStack
    <2>4. \A i \in 1..L : stack'[i] = stack[i]
      BY <2>1, AppendedStack
    <2>5. \A t \in Step : color[t] = "gray" <=> \E i \in 1..L : stack[i] = t
      BY DEF StackOK
    <2>6. \A i, j \in 1..L : stack[i] = stack[j] => i = j
      BY DEF StackOK
    <2>7. \A i \in 1..L-1 : stack[i] \in deps[stack[i + 1]]
      BY DEF StackOK
    <2>8. stack[L] \in deps[s]
      BY <2>1 DEF Top, Dependents
    <2> HIDE DEF L
    <2>9. \A i \in 1..L : stack[i] # s
      BY <2>1, <2>5
    <2>10. \A t \in Step : color'[t] = "gray" <=> \E i \in 1..L+1 : stack'[i] = t
      <3>1. \A t \in Step : color'[t] = "gray" <=> color[t] = "gray" \/ t = s
        BY <2>1 DEF TypeOK
      <3>2. \A i \in 1..L+1 : i \in 1..L \/ i = L + 1
        BY <2>2
      <3>3. 1..L \subseteq 1..L+1 /\ L + 1 \in 1..L+1
        BY <2>2
      <3> QED BY <2>3, <2>4, <2>5, <3>1, <3>2, <3>3
    <2>11. \A i, j \in 1..L+1 : stack'[i] = stack'[j] => i = j
      <3>1. \A i \in 1..L+1 : i \in 1..L \/ i = L + 1
        BY <2>2
      <3> QED BY <2>3, <2>4, <2>6, <2>9, <3>1
    <2>12. \A i \in 1..(L+1)-1 : stack'[i] \in deps'[stack'[i + 1]]
      <3>1. ASSUME NEW i \in 1..L PROVE stack'[i] \in deps[stack'[i + 1]]
        <4>1. CASE i = L
          BY <2>2, <2>3, <2>4, <2>8, <4>1
        <4>2. CASE i # L
          <5>1. i \in 1..L-1 /\ i + 1 \in 1..L
            BY <2>2, <4>2
          <5> QED BY <2>4, <2>7, <5>1
        <4> QED BY <4>1, <4>2
      <3>2. (L + 1) - 1 = L
        BY <2>2
      <3> QED BY <2>1, <3>1, <3>2
    <2> QED BY <2>3, <2>10, <2>11, <2>12 DEF StackOK
  <1>4. CASE Finish
    <2> DEFINE L == Len(stack)
    <2>1. /\ stack # <<>> /\ stack' = Front(stack) /\ deps' = deps
          /\ color' = [color EXCEPT ![Top] = "black"]
      BY <1>4 DEF Finish, Colored
    <2>2. L \in Nat /\ 1 <= L /\ Top \in Step /\ Top = stack[L]
      BY <2>1, TopProperties DEF Top
    <2>3. Len(stack') = L - 1 /\ \A i \in 1..L-1 : stack'[i] = stack[i]
      BY <2>1, TopProperties
    <2>4. \A t \in Step : color[t] = "gray" <=> \E i \in 1..L : stack[i] = t
      BY DEF StackOK
    <2>5. \A i, j \in 1..L : stack[i] = stack[j] => i = j
      BY DEF StackOK
    <2>6. \A i \in 1..L-1 : stack[i] \in deps[stack[i + 1]]
      BY DEF StackOK
    <2> HIDE DEF L
    <2>7. \A i \in 1..L-1 : i \in 1..L /\ i # L
      BY <2>2
    <2>8. \A i \in 1..L : i = L \/ i \in 1..L-1
      BY <2>2
    <2>9. L \in 1..L
      BY <2>2
    <2>10. \A t \in Step : color'[t] = "gray" <=> \E i \in 1..L-1 : stack'[i] = t
      <3>1. \A t \in Step : color'[t] = "gray" <=> color[t] = "gray" /\ t # Top
        BY <2>1, <2>2 DEF TypeOK
      <3> QED BY <2>2, <2>3, <2>4, <2>5, <2>7, <2>8, <2>9, <3>1
    <2>11. \A i, j \in 1..L-1 : stack'[i] = stack'[j] => i = j
      BY <2>3, <2>5, <2>7
    <2>12. \A i \in 1..(L-1)-1 : stack'[i] \in deps'[stack'[i + 1]]
      <3>1. \A i \in 1..(L-1)-1 : i \in 1..L-1 /\ i + 1 \in 1..L-1
        BY <2>2
      <3> QED BY <2>1, <2>3, <2>6, <3>1
    <2> QED BY <2>3, <2>10, <2>11, <2>12 DEF StackOK
  <1> QED BY <1>1, <1>2, <1>3, <1>4
          DEF Next, vars, CheckDependencies, CloseCycle, SearchEnds, Roots,
              Sweep, SweepEnds

LEMMA BlackStep ==
    ASSUME TypeOK, StackOK, BlackOK, [Next]_vars
    PROVE  BlackOK'
  <1>1. CASE UNCHANGED <<deps, color>>
    BY <1>1 DEF BlackOK, Black, Dependents
  <1>2. ASSUME NEW s \in Step, Visit(s) \/ Descend(s) PROVE BlackOK'
    <2>1. deps' = deps /\ color' = [color EXCEPT ![s] = "gray"] /\ color[s] = "white"
      <3>1. CASE Visit(s)
        BY <3>1 DEF Visit, Colored, IsFirst
      <3>2. CASE Descend(s)
        BY <3>2 DEF Descend, Colored
      <3> QED BY <1>2, <3>1, <3>2
    <2>2. Black' = Black
      BY <2>1 DEF Black, TypeOK
    <2> QED BY <2>1, <2>2 DEF BlackOK, Dependents
  <1>3. CASE Finish
    <2>1. /\ stack # <<>> /\ Open(Top) = {} /\ deps' = deps
          /\ color' = [color EXCEPT ![Top] = "black"]
      BY <1>3 DEF Finish, Colored
    <2>2. Top \in Step /\ color[Top] = "gray"
      <3>1. Len(stack) \in 1..Len(stack) /\ Top \in Step
        BY <2>1, TopProperties
      <3> QED BY <3>1 DEF StackOK, Top
    <2>3. Black' = Black \cup {Top} /\ Top \notin Black
      BY <2>1, <2>2 DEF Black, TypeOK
    <2>4. Dependents(Top) \subseteq Black
      BY <2>1 DEF Open, Black, Dependents
    <2>5. \A s \in Black' : Dependents(s)' \subseteq Black'
      BY <2>1, <2>3, <2>4 DEF BlackOK, Dependents
    <2>6. ASSUME NEW S \in SUBSET Black', S # {}
          PROVE  \E s \in S : deps[s] \cap S = {}
      <3>1. CASE Top \in S
        <4>1. ASSUME NEW t \in deps[Top] \cap S PROVE FALSE
          <5>1. t \in Step /\ Top \in Dependents(t)
            BY <2>2, <2>3, <4>1 DEF Dependents, Black
          <5>2. CASE t = Top
            BY <2>3, <2>4, <5>1, <5>2
          <5>3. CASE t # Top
            BY <2>3, <4>1, <5>1, <5>3 DEF BlackOK
          <5> QED BY <5>2, <5>3
        <4> QED BY <3>1, <4>1
      <3>2. CASE Top \notin S
        BY <2>3, <2>6, <3>2 DEF BlackOK
      <3> QED BY <3>1, <3>2
    <2> QED BY <2>1, <2>5, <2>6 DEF BlackOK
  <1> QED BY <1>1, <1>2, <1>3
          DEF Next, vars, CheckDependencies, CloseCycle, SearchEnds, Roots,
              Sweep, SweepEnds

LEMMA ErrorsStep ==
    ASSUME TypeOK, StackOK, ErrorsOK, [Next]_vars
    PROVE  ErrorsOK'
  <1>1. CASE CheckDependencies
    <2>1. Append(<<>>, "missing") = <<"missing">>
      BY SMT
    <2>2. errors' = MissingErrors' /\ cycle' = <<>> /\ pc' = "search"
      BY <1>1, <2>1 DEF CheckDependencies, ErrorsOK, MissingErrors, Closed
    <2> QED BY <2>2 DEF ErrorsOK
  <1>2. ASSUME NEW s \in Step, Visit(s) \/ Descend(s) PROVE ErrorsOK'
    BY <1>2 DEF Visit, Descend, ErrorsOK, MissingErrors, Closed
  <1>3. ASSUME NEW s \in Step, CloseCycle(s) PROVE ErrorsOK'
    <2>1. s \in Dependents(Top) /\ color[s] = "gray" /\ stack # <<>>
      BY <1>3 DEF CloseCycle, IsFirst, Open
    <2>2. ~Acyclic
      BY <2>1, PathProperties
    <2>3. ~Acyclic'
      BY <1>3, <2>2 DEF CloseCycle, Acyclic
    <2> QED BY <1>3, <2>3 DEF CloseCycle, ErrorsOK, MissingErrors, Closed
  <1>4. CASE Finish
    BY <1>4 DEF Finish, ErrorsOK, MissingErrors, Closed
  <1>5. CASE SearchEnds
    <2>1. \A s \in Step : color[s] # "gray"
      BY <1>5 DEF SearchEnds, StackOK
    <2>2. Black' = Step
      BY <1>5, <2>1 DEF SearchEnds, Black, TypeOK
    <2> QED BY <1>5, <2>2 DEF SearchEnds, ErrorsOK, MissingErrors, Closed
  <1>6. CASE Roots
    BY <1>6 DEF Roots, ErrorsOK, MissingErrors, Closed, Black, Acyclic
  <1>7. CASE Sweep
    BY <1>7 DEF Sweep, ErrorsOK, MissingErrors, Closed, Black, Acyclic
  <1>8. CASE SweepEnds
    BY <1>8 DEF SweepEnds, ErrorsOK
  <1>9. CASE UNCHANGED vars
    BY <1>9 DEF vars, ErrorsOK, MissingErrors, Closed, Black, Acyclic
  <1> QED BY <1>1, <1>2, <1>3, <1>4, <1>5, <1>6, <1>7, <1>8, <1>9 DEF Next

LEMMA SweepStep ==
    ASSUME TypeOK, SweepOK, [Next]_vars
    PROVE  SweepOK'
  <1>1. CASE pc' \in {"dependencies", "search", "roots"}
    <2>1. reachable' = reachable /\ pc \in {"dependencies", "search", "roots"}
      BY <1>1 DEF Next, vars, CheckDependencies, Visit, Descend, CloseCycle,
                  Finish, SearchEnds, Roots, Sweep, SweepEnds, TypeOK
    <2> QED BY <1>1, <2>1 DEF SweepOK
  <1>2. CASE Roots
    <2>1. PICK q \in Listings(RootSteps) : queue' = q
      BY <1>2 DEF Roots
    <2>2. RootSteps \in SUBSET Step
      BY DEF RootSteps
    <2>3. \A s \in RootSteps : \E i \in 1..Len(queue') : queue'[i] = s
      BY <2>1, <2>2, ListingProperties
    <2>4. RootSteps' = RootSteps /\ reachable' = {} /\ pc' # "roots"
      BY <1>2 DEF Roots, RootSteps, SweepOK
    <2> QED BY <1>2, <2>3, <2>4 DEF SweepOK, InQueue, Roots
  <1>3. CASE Sweep
    <2> DEFINE node == Head(queue)
               rest == Tail(queue)
    <2>1. /\ pc = "sweep" /\ pc' = "sweep" /\ queue # <<>> /\ deps' = deps
          /\ reachable' = reachable \cup {node}
      BY <1>3 DEF Sweep
    <2>2. /\ rest \in Seq(Step) /\ Len(rest) = Len(queue) - 1 /\ node \in Step
          /\ \A i \in 1..Len(rest) : rest[i] = queue[i + 1]
      BY <2>1, HeadTailProperties DEF TypeOK
    <2>3. Len(queue) \in Nat /\ node = queue[1]
      BY <2>1, LenProperties DEF TypeOK
    <2>4. ASSUME NEW t, InQueue(t), t # node
          PROVE  \E i \in 1..Len(rest) : rest[i] = t
      <3>1. PICK i \in 1..Len(queue) : queue[i] = t
        BY <2>4 DEF InQueue
      <3>2. i # 1
        BY <2>3, <2>4, <3>1
      <3>3. i - 1 \in 1..Len(rest) /\ (i - 1) + 1 = i
        BY <2>2, <2>3, <3>2
      <3> QED BY <2>2, <3>1, <3>3
    <2>5. \A t : (\E i \in 1..Len(rest) : rest[i] = t) => InQueue(t)'
      <3>1. CASE node \in reachable
        BY <1>3, <3>1 DEF Sweep, InQueue
      <3>2. CASE node \notin reachable
        <4>1. PICK q \in Listings(Dependents(node) \ reachable') : queue' = rest \o q
          BY <1>3, <3>2 DEF Sweep
        <4>2. Dependents(node) \ reachable' \in SUBSET Step
          BY DEF Dependents
        <4>3. q \in Seq(Step)
          BY <4>2, ListingProperties
        <4>4. /\ Len(queue') = Len(rest) + Len(q)
              /\ \A i \in 1..Len(rest) + Len(q) :
                   queue'[i] = IF i <= Len(rest) THEN rest[i] ELSE q[i - Len(rest)]
              /\ Len(rest) \in Nat /\ Len(q) \in Nat
          BY <2>2, <4>1, <4>3, ConcatProperties, LenProperties
        <4>5. \A i \in 1..Len(rest) : i \in 1..Len(rest) + Len(q) /\ i <= Len(rest)
          BY <4>4
        <4> QED BY <4>4, <4>5 DEF InQueue
      <3> QED BY <3>1, <3>2
    <2>6. ASSUME node \notin reachable, NEW t \in Dependents(node)
          PROVE  t \in reachable' \/ InQueue(t)'
      <3>1. PICK q \in Listings(Dependents(node) \ reachable') : queue' = rest \o q
        BY <1>3, <2>6 DEF Sweep
      <3>2. Dependents(node) \ reachable' \in SUBSET Step
        BY DEF Dependents
      <3>3. q \in Seq(Step)
            /\ \A s \in Dependents(node) \ reachable' :
                 \E i \in 1..Len(q) : q[i] = s
        BY <3>1, <3>2, ListingProperties
      <3>4. /\ Len(queue') = Len(rest) + Len(q)
            /\ \A i \in 1..Len(rest) + Len(q) :
                 queue'[i] = IF i <= Len(rest) THEN rest[i] ELSE q[i - Len(rest)]
            /\ Len(rest) \in Nat /\ Len(q) \in Nat
        BY <2>2, <3>1, <3>3, ConcatProperties, LenProperties
      <3>5. ASSUME t \notin reachable' PROVE InQueue(t)'
        <4>1. PICK i \in 1..Len(q) : q[i] = t
          BY <2>6, <3>3, <3>5
        <4> DEFINE j == Len(rest) + i
        <4>2. /\ j \in 1..Len(rest) + Len(q) /\ ~(j <= Len(rest))
              /\ j - Len(rest) = i
          BY <3>4
        <4>3. queue'[j] = t
          BY <3>4, <4>1, <4>2
        <4> QED BY <3>4, <4>2, <4>3 DEF InQueue
      <3> QED BY <3>5
    <2>7. ASSUME NEW s \in RootSteps' PROVE s \in reachable' \/ InQueue(s)'
      <3>1. s \in reachable \/ InQueue(s)
        BY <2>1, <2>7 DEF SweepOK, RootSteps
      <3> QED BY <2>1, <2>4, <2>5, <3>1
    <2>8. ASSUME NEW r \in reachable', NEW t \in Dependents(r)'
          PROVE  t \in reachable' \/ InQueue(t)'
      <3>1. t \in Dependents(r)
        BY <2>1 DEF Dependents
      <3>2. CASE r \in reachable
        <4>1. t \in reachable \/ InQueue(t)
          BY <2>1, <3>1, <3>2 DEF SweepOK
        <4> QED BY <2>1, <2>4, <2>5, <4>1
      <3>3. CASE r \notin reachable
        BY <2>1, <2>6, <3>1, <3>3
      <3> QED BY <3>2, <3>3
    <2> QED BY <2>1, <2>7, <2>8 DEF SweepOK
  <1>4. CASE SweepEnds
    BY <1>4 DEF SweepEnds, SweepOK
  <1>5. CASE UNCHANGED vars
    BY <1>5 DEF vars, SweepOK, RootSteps, InQueue, Dependents
  <1> QED BY <1>1, <1>2, <1>3, <1>4, <1>5
          DEF Next, CheckDependencies, Visit, Descend, CloseCycle, Finish,
              SearchEnds, SweepOK, TypeOK

(* What validate_dag raises once the sweep has added its error or none.    *)
LEMMA VerdictOfErrors ==
    ASSUME TypeOK, BlackOK, ErrorsOK, pc \in {"roots", "sweep"},
           NEW e, e = errors \/ e = Append(errors, "unreachable"),
           Closed /\ Acyclic => e = errors
    PROVE  /\ e = <<>> <=> Closed /\ Acyclic
           /\ e # <<>> => Head(e) = IF Closed THEN "cycle" ELSE "missing"
  <1>1. CASE errors = MissingErrors /\ Black = Step
    <2>1. Acyclic
      BY <1>1 DEF BlackOK, Acyclic
    <2>2. CASE Closed
      BY <1>1, <2>1, <2>2 DEF MissingErrors
    <2>3. CASE ~Closed
      <3>1. e = <<"missing">> \/ e = Append(<<"missing">>, "unreachable")
        BY <1>1, <2>3 DEF MissingErrors
      <3>2. e # <<>> /\ Head(e) = "missing"
        BY <3>1
      <3> QED BY <2>3, <3>2
    <2> QED BY <2>2, <2>3
  <1>2. CASE errors = Append(MissingErrors, "cycle") /\ ~Acyclic
    <2>1. CASE Closed
      <3>1. errors = <<"cycle">>
        BY <1>2, <2>1 DEF MissingErrors
      <3>2. e # <<>> /\ Head(e) = "cycle"
        BY <3>1
      <3> QED BY <1>2, <2>1, <3>2
    <2>2. CASE ~Closed
      <3>0. MissingErrors = <<"missing">>
        BY <2>2 DEF MissingErrors
      <3>1. errors = Append(<<"missing">>, "cycle")
        BY <1>2, <3>0
      <3>2. e # <<>> /\ Head(e) = "missing"
        BY <3>1
      <3> QED BY <2>2, <3>2
    <2> QED BY <2>1, <2>2
  <1> QED BY <1>1, <1>2 DEF ErrorsOK

LEMMA VerdictStep ==
    ASSUME TypeOK, BlackOK, ErrorsOK, SweepOK, VerdictExact, [Next]_vars
    PROVE  VerdictExact'
  <1>1. CASE Roots
    <2>1. SUFFICES ASSUME pc' = "done" PROVE VerdictExact'
      BY DEF VerdictExact
    <2>2. RootSteps = {} /\ errors' = NotEmpty(Step, "unreachable") /\ deps' = deps
      BY <1>1, <2>1 DEF Roots
    <2>3. Closed /\ Acyclic => Step = {}
      <3>1. SUFFICES ASSUME Closed, Acyclic, Step # {} PROVE FALSE
        OBVIOUS
      <3>2. PICK s \in Step : deps[s] \cap Step = {}
        BY <3>1 DEF Acyclic
      <3>3. deps[s] = {}
        BY <3>1, <3>2 DEF Closed, TypeOK
      <3> QED BY <2>2, <3>3 DEF RootSteps
    <2>4. /\ errors' = <<>> <=> Closed /\ Acyclic
          /\ errors' # <<>> => Head(errors') = IF Closed THEN "cycle" ELSE "missing"
      <3>1. errors' = errors \/ errors' = Append(errors, "unreachable")
        BY <2>2 DEF NotEmpty
      <3>2. Closed /\ Acyclic => errors' = errors
        BY <2>2, <2>3 DEF NotEmpty
      <3>3. pc \in {"roots", "sweep"}
        BY <1>1 DEF Roots
      <3> QED BY <3>1, <3>2, <3>3, VerdictOfErrors
    <2> QED BY <2>2, <2>4 DEF VerdictExact, Closed, Acyclic
  <1>2. CASE SweepEnds
    <2>1. /\ pc = "sweep" /\ queue = <<>> /\ deps' = deps
          /\ errors' = NotEmpty(Step \ reachable, "unreachable")
      BY <1>2 DEF SweepEnds
    <2>2. Closed /\ Acyclic => Step \ reachable = {}
      <3> DEFINE U == Step \ reachable
      <3>1. SUFFICES ASSUME Closed, Acyclic, U # {} PROVE FALSE
        OBVIOUS
      <3>2. PICK s \in U : deps[s] \cap U = {}
        BY <3>1 DEF Acyclic
      <3>3. \A t : ~InQueue(t)
        BY <2>1 DEF InQueue
      <3>4. deps[s] # {}
        BY <2>1, <3>2, <3>3 DEF SweepOK, RootSteps
      <3>5. PICK d \in deps[s] : TRUE
        BY <3>4
      <3>6. d \in reachable
        BY <3>1, <3>2, <3>5 DEF Closed, TypeOK
      <3>7. s \in Dependents(d)
        BY <3>2, <3>5 DEF Dependents
      <3> QED BY <2>1, <3>2, <3>3, <3>6, <3>7 DEF SweepOK
    <2>3. /\ errors' = <<>> <=> Closed /\ Acyclic
          /\ errors' # <<>> => Head(errors') = IF Closed THEN "cycle" ELSE "missing"
      <3>1. errors' = errors \/ errors' = Append(errors, "unreachable")
        BY <2>1 DEF NotEmpty
      <3>2. Closed /\ Acyclic => errors' = errors
        BY <2>1, <2>2 DEF NotEmpty
      <3>3. pc \in {"roots", "sweep"}
        BY <2>1
      <3> QED BY <3>1, <3>2, <3>3, VerdictOfErrors
    <2> QED BY <2>1, <2>3 DEF VerdictExact, Closed, Acyclic
  <1>3. CASE UNCHANGED vars
    BY <1>3 DEF vars, VerdictExact, Closed, Acyclic
  <1>4. CASE pc' # "done"
    BY <1>4 DEF VerdictExact
  <1> QED BY <1>1, <1>2, <1>3, <1>4
          DEF Next, CheckDependencies, Visit, Descend, CloseCycle, Finish,
              SearchEnds, Sweep

LEMMA PathStep ==
    ASSUME TypeOK, StackOK, CyclePathIsReal, [Next]_vars
    PROVE  CyclePathIsReal'
  <1>1. ASSUME NEW s \in Step, CloseCycle(s) PROVE CyclePathIsReal'
    <2>1. s \in Dependents(Top) /\ color[s] = "gray" /\ stack # <<>>
      BY <1>1 DEF CloseCycle, IsFirst, Open
    <2>2. cycle' = Path(s) /\ deps' = deps
      BY <1>1 DEF CloseCycle
    <2>3. /\ \A i \in 1..Len(Path(s))-1 : Path(s)[i] \in deps[Path(s)[i + 1]]
          /\ Last(Path(s)) \in deps[Head(Path(s))] \cup deps[Last(Path(s))]
      BY <2>1, PathProperties
    <2> QED BY <2>2, <2>3 DEF CyclePathIsReal, Last
  <1>2. CASE UNCHANGED <<cycle, deps>>
    BY <1>2 DEF CyclePathIsReal, Last
  <1> QED BY <1>1, <1>2
          DEF Next, vars, CheckDependencies, Visit, Descend, Finish, SearchEnds,
              Roots, Sweep, SweepEnds

-----------------------------------------------------------------------------
(* The theorems.                                                           *)

LEMMA InvStep == Inv /\ [Next]_vars => Inv'
  BY TypeStep, StackStep, BlackStep, ErrorsStep, SweepStep, VerdictStep, PathStep
     DEF Inv

LEMMA Invariance == Spec => []Inv
  BY InitInv, InvStep, PTL DEF Spec

(* The validator's state is well typed (dag.py:36).                        *)
THEOREM TypeCorrect == Spec => []TypeOK
  <1>1. Inv => TypeOK
    BY DEF Inv
  <1> QED BY <1>1, Invariance, PTL

(* validate_dag accepts exactly the plans whose dependencies exist and     *)
(* whose steps form no cycle, whatever their number (dag.py:78).           *)
THEOREM VerdictCorrect == Spec => []VerdictExact
  <1>1. Inv => VerdictExact
    BY DEF Inv
  <1> QED BY <1>1, Invariance, PTL

(* A reported path follows dependencies and closes a cycle (dag.py:102).   *)
THEOREM PathCorrect == Spec => []CyclePathIsReal
  <1>1. Inv => CyclePathIsReal
    BY DEF Inv
  <1> QED BY <1>1, Invariance, PTL
=============================================================================
