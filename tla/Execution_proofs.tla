--------------------------- MODULE Execution_proofs ---------------------------
(***************************************************************************)
(* Proofs about the two components of services/execution: ApprovalEngine,  *)
(* for any requests, approver counts and number of waiting executions, and *)
(* ExecutionManager, for any executions, requests, paths and contents.     *)
(*                                                                         *)
(* The invariant of the engine relates the four places a decision is kept  *)
(* in: the status, _pending, the history and the future.  That of the      *)
(* manager says in which statuses an execution may wait in the queue, have *)
(* its handler waiting, or hold a rollback plan.                           *)
(***************************************************************************)
EXTENDS ApprovalEngine, ExecutionManager, FiniteSetTheorems, SequenceTheorems, TLAPS

-----------------------------------------------------------------------------
(* The approval engine.                                                    *)

(* A decided approval is in the history and nowhere else.                  *)
HistoryOK ==
    \A a \in Approval : status[a] \in Decided <=> \E i \in DOMAIN history :
                                                     history[i] = a

(* A future is open before the request; a record it holds is decided, like *)
(* its own approval.                                                       *)
FutureOK ==
    \A a \in Approval :
        /\ status[a] = "none" => future[a] = "open"
        /\ future[a] \in Approval =>
             /\ status[a] \in Decided
             /\ status[future[a]] = status[a]

(* A waiter knows its approval; when its timer has gone off, the future    *)
(* is closed.                                                              *)
WaiterOK ==
    \A w \in Waiter :
        /\ at[w] # "idle" => on[w] \in Approval /\ status[on[w]] # "none"
        /\ at[w] = "timing out" => future[on[w]] # "open"

ApprovalInv ==
    /\ ApprovalTypeOK
    /\ HistoryOK
    /\ FutureOK
    /\ WaiterOK
    /\ FutureFollowsDecision
    /\ VerdictReachesWaiter

-----------------------------------------------------------------------------
(* Sequences.                                                              *)

LEMMA ToSetMember ==
    ASSUME NEW h \in Seq(Approval), NEW a
    PROVE  a \in ToSet(h) <=> \E i \in DOMAIN h : h[i] = a
  BY DEF ToSet

(* The members of r are those of h and S, and it keeps h's entries.        *)
Adds(r, h, S) ==
    /\ \A a : (\E i \in DOMAIN r : r[i] = a)
              <=> a \in S \/ \E i \in DOMAIN h : h[i] = a
    /\ \A a : a \notin S => Entries(r, a) = Entries(h, a)

LEMMA AppendedHistory ==
    ASSUME NEW h \in Seq(Approval), NEW b \in Approval
    PROVE  /\ Append(h, b) \in Seq(Approval)
           /\ Adds(Append(h, b), h, {b})
  <1>1. /\ Append(h, b) \in Seq(Approval)
        /\ Len(h) \in Nat
        /\ DOMAIN h = 1..Len(h)
        /\ DOMAIN Append(h, b) = 1..Len(h)+1
        /\ \A i \in 1..Len(h) : Append(h, b)[i] = h[i]
        /\ Append(h, b)[Len(h)+1] = b
    BY AppendProperties, LenProperties
  <1>2. DOMAIN Append(h, b) = DOMAIN h \cup {Len(h) + 1}
    BY <1>1
  <1>3. Len(h) + 1 \notin DOMAIN h
    BY <1>1
  <1> QED BY <1>1, <1>2, <1>3 DEF Adds, Entries

LEMMA ListingProperties ==
    ASSUME NEW S \in SUBSET Approval, NEW q \in Listings(S)
    PROVE  /\ q \in Seq(Approval)
           /\ DOMAIN q = 1..Len(q)
           /\ Len(q) = Cardinality(S)
           /\ \A i \in DOMAIN q : q[i] \in S
           /\ \A a \in S : \E i \in DOMAIN q : q[i] = a
           /\ S # {} => Len(q) > 0
  <1>1. IsFiniteSet(S) /\ Cardinality(S) \in Nat
    BY OrderAssumption, FS_Subset, FS_CardinalityType
  <1>2. q \in [1..Cardinality(S) -> S]
    BY DEF Listings
  <1>3. q \in Seq(S)
    BY <1>1, <1>2, SMT
  <1>4. q \in Seq(Approval)
    BY <1>3, SeqMonotonic
  <1>5. DOMAIN q = 1..Len(q) /\ Len(q) \in Nat
    BY <1>3, LenProperties
  <1>6. Len(q) = Cardinality(S)
    BY <1>1, <1>2, <1>5
  <1>7. S # {} => Cardinality(S) # 0
    BY <1>1, FS_EmptySet
  <1> QED BY <1>1, <1>2, <1>4, <1>5, <1>6, <1>7 DEF Listings

(* r extends h, of length m, by q, of length n, a listing of S.            *)
Extends(r, h, m, q, n, S) ==
    /\ m \in Nat /\ n \in Nat
    /\ DOMAIN h = 1..m /\ DOMAIN q = 1..n /\ DOMAIN r = 1..m + n
    /\ \A i \in 1..m : r[i] = h[i]
    /\ \A i \in 1..n : r[m + i] = q[i]
    /\ \A i \in 1..n : q[i] \in S
    /\ \A a \in S : \E i \in 1..n : q[i] = a

LEMMA Extension ==
    ASSUME NEW r, NEW h, NEW m, NEW q, NEW n, NEW S, Extends(r, h, m, q, n, S)
    PROVE  Adds(r, h, S)
  <1> USE DEF Extends
  <1>1. ASSUME NEW i \in 1..m + n, i \notin 1..m
        PROVE  \E j \in 1..n : i = m + j
    <2>1. i - m \in 1..n /\ i = m + (i - m)
      BY <1>1
    <2> QED BY <2>1
  <1>2. \A j \in 1..n : m + j \in 1..m + n
    OBVIOUS
  <1>3. 1..m \subseteq 1..m + n
    OBVIOUS
  <1>4. \A i \in 1..m + n : i \notin 1..m => r[i] \in S
    BY <1>1
  <1>5. ASSUME NEW a
        PROVE  (\E i \in DOMAIN r : r[i] = a)
                 <=> a \in S \/ \E i \in DOMAIN h : h[i] = a
    <2>1. ASSUME NEW i \in 1..m + n, r[i] = a
          PROVE  a \in S \/ \E k \in 1..m : h[k] = a
      BY <1>4, <2>1
    <2>2. ASSUME a \in S
          PROVE  \E i \in 1..m + n : r[i] = a
      <3>1. PICK j \in 1..n : q[j] = a
        BY <2>2
      <3>2. m + j \in 1..m + n /\ r[m + j] = a
        BY <1>2, <3>1
      <3> QED BY <3>2
    <2>3. ASSUME NEW i \in 1..m, h[i] = a
          PROVE  \E k \in 1..m + n : r[k] = a
      BY <1>3, <2>3
    <2> QED BY <2>1, <2>2, <2>3
  <1>6. ASSUME NEW a, a \notin S
        PROVE  Entries(r, a) = Entries(h, a)
    BY <1>3, <1>4, <1>6 DEF Entries
  <1> QED BY <1>5, <1>6 DEF Adds

LEMMA ExtendedHistory ==
    ASSUME NEW h \in Seq(Approval), NEW S \in SUBSET Approval, S # {},
           NEW q \in Listings(S)
    PROVE  /\ h \o q \in Seq(Approval)
           /\ Adds(h \o q, h, S)
           /\ Last(h \o q) \in S
  <1>1. /\ q \in Seq(Approval)
        /\ DOMAIN q = 1..Len(q)
        /\ \A i \in DOMAIN q : q[i] \in S
        /\ \A a \in S : \E i \in DOMAIN q : q[i] = a
        /\ Len(q) \in Nat /\ Len(q) > 0
    BY ListingProperties, LenProperties
  <1>2. /\ h \o q \in Seq(Approval)
        /\ Len(h) \in Nat
        /\ DOMAIN h = 1..Len(h)
        /\ Len(h \o q) = Len(h) + Len(q)
        /\ DOMAIN (h \o q) = 1..Len(h) + Len(q)
        /\ \A i \in 1..Len(h) : (h \o q)[i] = h[i]
        /\ \A i \in 1..Len(q) : (h \o q)[Len(h) + i] = q[i]
    <2>1. /\ h \o q \in Seq(Approval)
          /\ Len(h \o q) = Len(h) + Len(q)
          /\ \A i \in 1..Len(h) + Len(q) :
               (h \o q)[i] = IF i <= Len(h) THEN h[i] ELSE q[i - Len(h)]
      BY <1>1, ConcatProperties
    <2>2. Len(h) \in Nat /\ DOMAIN h = 1..Len(h)
      BY LenProperties
    <2>3. DOMAIN (h \o q) = 1..Len(h) + Len(q)
      BY <2>1, LenProperties
    <2>4. \A i \in 1..Len(h) : (h \o q)[i] = h[i]
      BY <1>1, <2>1, <2>2
    <2>5. ASSUME NEW i \in 1..Len(q) PROVE (h \o q)[Len(h) + i] = q[i]
      <3>1. Len(h) + i \in 1..Len(h) + Len(q) /\ ~(Len(h) + i <= Len(h))
            /\ Len(h) + i - Len(h) = i
        BY <1>1, <2>2
      <3> QED BY <2>1, <3>1
    <2> QED BY <2>1, <2>2, <2>3, <2>4, <2>5
  <1>3. Adds(h \o q, h, S)
    <2> DEFINE r == h \o q
    <2>1. Extends(r, h, Len(h), q, Len(q), S)
      BY <1>1, <1>2 DEF Extends
    <2>2. Adds(r, h, S)
      <3> HIDE DEF r
      <3> QED BY <2>1, Extension
    <2> QED BY <2>2
  <1>4. Last(h \o q) \in S
    <2>1. Len(q) \in 1..Len(q)
      BY <1>1
    <2>2. (h \o q)[Len(h) + Len(q)] = q[Len(q)]
      BY <1>2, <2>1
    <2>3. q[Len(q)] \in S
      BY <1>1, <2>1
    <2> QED BY <1>2, <2>2, <2>3 DEF Last
  <1> QED BY <1>2, <1>3, <1>4

-----------------------------------------------------------------------------
(* Six actions end approvals, and all of them do this: the approvals in S, *)
(* all pending, get the verdict v, and their open futures a record of S.   *)
Ends(S, v) ==
    /\ S \in SUBSET pending /\ S # {} /\ v \in Decided
    /\ status' = [a \in Approval |-> IF a \in S THEN v ELSE status[a]]
    /\ history' \in Seq(Approval)
    /\ Adds(history', history, S)
    /\ pending' = pending \ S
    /\ future' \in [Approval -> Outcome \cup Approval]
    /\ \A a \in Approval : IF a \in S /\ future[a] = "open"
                           THEN future'[a] \in S ELSE future'[a] = future[a]
    /\ received' \in [Approval -> Nat]
    /\ UNCHANGED overdue

(* The end of w's await_decision with the record of its own approval.      *)
ReturnsOwn(w) ==
    /\ at[w] = "timing out"
    /\ at' = [at EXCEPT ![w] = "returned"]
    /\ got' = [got EXCEPT ![w] = on[w]]
    /\ UNCHANGED on

LEMMA DecideEnds ==
    ASSUME ApprovalTypeOK, NEW a \in pending, NEW v \in Decided,
           status' = [status EXCEPT ![a] = v],
           history' = Append(history, a),
           pending' = pending \ {a},
           Resolve(a),
           received' \in [Approval -> Nat],
           UNCHANGED overdue
    PROVE  Ends({a}, v)
  <1>1. a \in Approval /\ history \in Seq(Approval)
    BY DEF ApprovalTypeOK
  <1>2. history' \in Seq(Approval) /\ Adds(history', history, {a})
    BY <1>1, AppendedHistory
  <1>3. status' = [b \in Approval |-> IF b \in {a} THEN v ELSE status[b]]
    BY <1>1 DEF ApprovalTypeOK
  <1>4. /\ future' \in [Approval -> Outcome \cup Approval]
        /\ \A b \in Approval : IF b \in {a} /\ future[b] = "open"
                               THEN future'[b] \in {a} ELSE future'[b] = future[b]
    BY <1>1 DEF ApprovalTypeOK, Resolve, Outcome
  <1> QED BY <1>1, <1>2, <1>3, <1>4 DEF Ends

LEMMA GetPendingEnds ==
    ASSUME ApprovalTypeOK, GetPending
    PROVE  Ends(pending \cap overdue, "expired")
  <1> DEFINE S == pending \cap overdue
  <1>1. S \in SUBSET Approval /\ S # {} /\ history \in Seq(Approval)
    BY DEF ApprovalTypeOK, GetPending
  <1>2. PICK q \in Listings(S) :
          /\ status' = [a \in Approval |->
                          IF a \in S THEN "expired" ELSE status[a]]
          /\ history' = history \o q
          /\ pending' = pending \ S
          /\ received' = [a \in Approval |->
                            IF a \in S THEN 0 ELSE received[a]]
          /\ future' = [a \in Approval |->
                          IF a \in S /\ future[a] = "open"
                          THEN Last(history') ELSE future[a]]
    BY DEF GetPending
  <1>3. /\ history' \in Seq(Approval)
        /\ Adds(history', history, S)
        /\ Last(history') \in S
    BY <1>1, <1>2, ExtendedHistory
  <1>4. received' \in [Approval -> Nat]
    BY <1>2 DEF ApprovalTypeOK
  <1>5. /\ future' \in [Approval -> Outcome \cup Approval]
        /\ \A a \in Approval : IF a \in S /\ future[a] = "open"
                               THEN future'[a] \in S ELSE future'[a] = future[a]
    <2> DEFINE r == Last(history')
    <2>1. r \in S /\ r \in Approval
      BY <1>1, <1>3
    <2>2. future' = [a \in Approval |-> IF a \in S /\ future[a] = "open"
                                        THEN r ELSE future[a]]
      BY <1>2
    <2> HIDE DEF r, S
    <2> QED BY <2>1, <2>2 DEF ApprovalTypeOK
  <1>6. S \in SUBSET pending /\ "expired" \in Decided /\ UNCHANGED overdue
    BY DEF GetPending, Decided
  <1> HIDE DEF S
  <1>7. Ends(S, "expired")
    BY <1>1, <1>2, <1>3, <1>4, <1>5, <1>6 DEF Ends
  <1> QED BY <1>7 DEF S

LEMMA EndsPreserves ==
    ASSUME ApprovalInv, NEW S, NEW v, Ends(S, v),
           \/ UNCHANGED waitVars
           \/ \E w \in Waiter : S = {on[w]} /\ ReturnsOwn(w)
    PROVE  ApprovalInv'
  <1>1. /\ S \subseteq Approval /\ v \in Decided
        /\ \A a \in S : status[a] = "pending"
        /\ "pending" \notin Decided /\ "none" \notin Decided
    BY DEF ApprovalInv, ApprovalTypeOK, Ends, FutureFollowsDecision, Decided
  <1>2. \A a \in Approval : status'[a] = IF a \in S THEN v ELSE status[a]
    BY DEF Ends
  <1>3. \A a \in Approval : status[a] \in Decided => a \notin S
    BY <1>1
  <1>4. ApprovalTypeOK'
    <2>1. status' \in [Approval -> {"none", "pending"} \cup Decided]
      BY <1>1 DEF ApprovalInv, ApprovalTypeOK, Ends
    <2> DEFINE Typed ==
          /\ at' \in [Waiter -> {"idle", "waiting", "timing out", "returned",
                                 "cancelled", "interrupted", "not found"}]
          /\ on' \in [Waiter -> Approval \cup {NoApproval}]
          /\ got' \in [Waiter -> Approval \cup {NoApproval}]
          /\ \A w \in Waiter : at'[w] = "returned" => got'[w] \in Approval
    <2>2. Typed
      <3>1. CASE UNCHANGED waitVars
        BY <3>1 DEF ApprovalInv, ApprovalTypeOK, waitVars
      <3>2. ASSUME NEW w \in Waiter, ReturnsOwn(w) PROVE Typed
        <4>1. on[w] \in Approval
          BY <3>2 DEF ApprovalInv, WaiterOK, ReturnsOwn
        <4> QED BY <3>2, <4>1 DEF ApprovalInv, ApprovalTypeOK, ReturnsOwn
      <3> QED BY <3>1, <3>2
    <2> QED BY <2>1, <2>2 DEF ApprovalInv, ApprovalTypeOK, Ends
  <1>5. HistoryOK'
    <2>1. \A a : (\E i \in DOMAIN history' : history'[i] = a)
                   <=> a \in S \/ \E i \in DOMAIN history : history[i] = a
      BY DEF Ends, Adds
    <2> QED BY <1>1, <1>2, <2>1 DEF ApprovalInv, HistoryOK
  <1>6. FutureOK'
    <2> SUFFICES ASSUME NEW a \in Approval
                 PROVE  /\ status'[a] = "none" => future'[a] = "open"
                        /\ future'[a] \in Approval =>
                             /\ status'[a] \in Decided
                             /\ status'[future'[a]] = status'[a]
      BY DEF FutureOK
    <2>1. CASE a \in S /\ future[a] = "open"
      <3>1. future'[a] \in S
        BY <2>1 DEF Ends
      <3> QED BY <1>1, <1>2, <2>1, <3>1
    <2>2. CASE ~(a \in S /\ future[a] = "open")
      <3>1. future'[a] = future[a]
        BY <2>2 DEF Ends
      <3>2. status'[a] = "none" => future'[a] = "open"
        BY <1>1, <1>2, <3>1 DEF ApprovalInv, FutureOK
      <3>3. ASSUME future[a] \in Approval
            PROVE  status'[a] \in Decided /\ status'[future[a]] = status'[a]
        <4>1. status[a] \in Decided /\ status[future[a]] = status[a]
          BY <3>3 DEF ApprovalInv, FutureOK
        <4> QED BY <1>2, <1>3, <3>3, <4>1
      <3> QED BY <3>1, <3>2, <3>3
    <2> QED BY <2>1, <2>2
  <1>7. \A w \in Waiter : at'[w] = "timing out" =>
          at[w] = "timing out" /\ on'[w] = on[w]
    BY DEF ApprovalInv, ApprovalTypeOK, waitVars, ReturnsOwn
  <1>8. on' = on
    BY DEF waitVars, ReturnsOwn
  <1>9. \A a \in S : a # "open" /\ a # "cancelled"
    BY <1>1, ApprovalAssumption DEF Outcome
  <1>10. WaiterOK'
    <2> SUFFICES ASSUME NEW w \in Waiter
                 PROVE  /\ at'[w] # "idle" =>
                             on'[w] \in Approval /\ status'[on'[w]] # "none"
                        /\ at'[w] = "timing out" => future'[on'[w]] # "open"
      BY DEF WaiterOK
    <2>1. at'[w] # "idle" => at[w] # "idle"
      BY DEF ApprovalInv, ApprovalTypeOK, waitVars, ReturnsOwn
    <2>2. at[w] # "idle" => on[w] \in Approval /\ status[on[w]] # "none"
      BY DEF ApprovalInv, WaiterOK
    <2>3. at'[w] # "idle" => on'[w] \in Approval /\ status'[on'[w]] # "none"
      BY <1>1, <1>2, <1>8, <2>1, <2>2
    <2>4. ASSUME at'[w] = "timing out" PROVE future'[on'[w]] # "open"
      <3>1. at[w] = "timing out" /\ on[w] \in Approval /\ future[on[w]] # "open"
        BY <1>7, <2>2, <2>4 DEF ApprovalInv, WaiterOK
      <3>2. future'[on[w]] = future[on[w]]
        BY <3>1 DEF Ends
      <3> QED BY <1>8, <3>1, <3>2
    <2> QED BY <2>3, <2>4
  <1>11. FutureFollowsDecision'
    <2> SUFFICES ASSUME NEW a \in Approval
                 PROVE  /\ status'[a] \in Decided =>
                             future'[a] # "open" /\ a \in ToSet(history')
                        /\ a \in pending' <=> status'[a] = "pending"
                        /\ a \in pending' /\ future'[a] # "open" =>
                             \E w \in Waiter : Closing(w, a)'
      BY DEF FutureFollowsDecision
    <2>1. status'[a] \in Decided => a \in ToSet(history')
      BY <1>5, ToSetMember DEF HistoryOK, Ends
    <2>2. status'[a] \in Decided => future'[a] # "open"
      <3>1. CASE a \in S /\ future[a] = "open"
        BY <1>9, <3>1 DEF Ends
      <3>2. CASE a \in S /\ future[a] # "open"
        BY <3>2 DEF Ends
      <3>3. CASE a \notin S
        BY <1>2, <3>3 DEF Ends, ApprovalInv, FutureFollowsDecision
      <3> QED BY <3>1, <3>2, <3>3
    <2>3. a \in pending' <=> status'[a] = "pending"
      BY <1>1, <1>2 DEF Ends, ApprovalInv, FutureFollowsDecision
    <2>4. ASSUME a \in pending', future'[a] # "open"
          PROVE  \E w \in Waiter : Closing(w, a)'
      <3>1. a \in pending /\ a \notin S /\ future[a] # "open"
        BY <2>4 DEF Ends
      <3>2. PICK w \in Waiter : Closing(w, a)
        BY <3>1 DEF ApprovalInv, FutureFollowsDecision
      <3>3. at'[w] = at[w]
        BY <3>1, <3>2 DEF ApprovalInv, ApprovalTypeOK, waitVars, ReturnsOwn, Closing
      <3> QED BY <1>8, <3>2, <3>3 DEF Closing
    <2> QED BY <2>1, <2>2, <2>3, <2>4
  <1>12. VerdictReachesWaiter'
    <2> SUFFICES ASSUME NEW x \in Waiter
                 PROVE  /\ at'[x] = "returned" =>
                             /\ status'[on'[x]] \in Decided
                             /\ status'[got'[x]] = status'[on'[x]]
                        /\ at'[x] # "not found"
      BY DEF VerdictReachesWaiter
    <2>1. CASE at'[x] = at[x] /\ got'[x] = got[x]
      <3>1. at[x] # "not found"
        BY DEF ApprovalInv, VerdictReachesWaiter
      <3>2. ASSUME at[x] = "returned"
            PROVE  /\ status'[on[x]] \in Decided
                   /\ status'[got[x]] = status'[on[x]]
        <4>1. on[x] \in Approval /\ got[x] \in Approval
          BY <3>2 DEF ApprovalInv, WaiterOK, ApprovalTypeOK
        <4>2. status[on[x]] \in Decided /\ status[got[x]] = status[on[x]]
          BY <3>2 DEF ApprovalInv, VerdictReachesWaiter
        <4> QED BY <1>2, <1>3, <4>1, <4>2
      <3> QED BY <1>8, <2>1, <3>1, <3>2
    <2>2. CASE ReturnsOwn(x) /\ S = {on[x]}
      <3>1. /\ at'[x] = "returned" /\ got'[x] = on[x]
            /\ on[x] \in Approval
        BY <2>2 DEF ApprovalInv, ApprovalTypeOK, WaiterOK, ReturnsOwn
      <3>2. status'[on[x]] = v
        BY <1>2, <2>2, <3>1
      <3> QED BY <1>1, <1>8, <3>1, <3>2
    <2>3. \/ at'[x] = at[x] /\ got'[x] = got[x]
          \/ ReturnsOwn(x) /\ S = {on[x]}
      BY DEF ApprovalInv, ApprovalTypeOK, waitVars, ReturnsOwn
    <2> QED BY <2>1, <2>2, <2>3
  <1> QED BY <1>4, <1>5, <1>6, <1>10, <1>11, <1>12 DEF ApprovalInv

(* What an ending leaves alone.                                            *)
LEMMA EndsIsFinal ==
    ASSUME ApprovalInv, NEW S, NEW v, Ends(S, v),
           NEW a \in Approval, status[a] \in Decided
    PROVE  status'[a] = status[a] /\ Entries(history', a) = Entries(history, a)
  <1>1. a \notin S
    BY DEF ApprovalInv, Ends, FutureFollowsDecision, Decided
  <1> QED BY <1>1 DEF Ends, Adds

-----------------------------------------------------------------------------
(* Every step that ends approvals is an Ends; the others are few.          *)

Ending ==
    \/ \E a \in Approval : ApproveLate(a) \/ Reject(a) \/ CancelApproval(a)
    \/ \E a \in Approval : Approve(a) /\ received[a] + 1 >= Required[a]
    \/ GetPending
    \/ \E w \in Waiter : Expire(w)

LEMMA EndingEnds ==
    ASSUME ApprovalInv, Ending
    PROVE  \E S, v :
             /\ Ends(S, v)
             /\ \/ UNCHANGED waitVars
                \/ \E w \in Waiter : S = {on[w]} /\ ReturnsOwn(w)
  <1>0. ApprovalTypeOK /\ received \in [Approval -> Nat]
    BY DEF ApprovalInv, ApprovalTypeOK
  <1>1. ASSUME NEW a \in Approval, NEW v \in Decided, a \in pending,
               Decide(a, v), received' \in [Approval -> Nat]
        PROVE  Ends({a}, v) /\ UNCHANGED waitVars
    BY <1>0, <1>1, DecideEnds DEF Decide
  <1>2. \A a \in Approval : [received EXCEPT ![a] = 0] \in [Approval -> Nat]
    BY <1>0
  <1>3. "expired" \in Decided /\ "rejected" \in Decided /\ "approved" \in Decided
    BY DEF Decided
  <1>4. ASSUME NEW a \in Approval, ApproveLate(a)
        PROVE  Ends({a}, "expired") /\ UNCHANGED waitVars
    BY <1>0, <1>1, <1>3, <1>4 DEF ApproveLate
  <1>5. ASSUME NEW a \in Approval, Reject(a)
        PROVE  Ends({a}, "rejected") /\ UNCHANGED waitVars
    BY <1>1, <1>2, <1>3, <1>5 DEF Reject
  <1>6. ASSUME NEW a \in Approval, CancelApproval(a)
        PROVE  Ends({a}, "expired") /\ UNCHANGED waitVars
    BY <1>1, <1>2, <1>3, <1>6 DEF CancelApproval
  <1>7. ASSUME NEW a \in Approval, Approve(a), received[a] + 1 >= Required[a]
        PROVE  Ends({a}, "approved") /\ UNCHANGED waitVars
    BY <1>1, <1>2, <1>3, <1>7 DEF Approve
  <1>8. ASSUME GetPending
        PROVE  Ends(pending \cap overdue, "expired") /\ UNCHANGED waitVars
    BY <1>0, <1>8, GetPendingEnds DEF GetPending
  <1>9. ASSUME NEW w \in Waiter, Expire(w)
        PROVE  Ends({on[w]}, "expired") /\ ReturnsOwn(w)
    <2>1. on[w] \in pending /\ received' \in [Approval -> Nat]
      BY <1>0, <1>9 DEF Expire
    <2>2. Ends({on[w]}, "expired")
      BY <1>0, <1>3, <1>9, <2>1, DecideEnds DEF Expire
    <2>3. ReturnsOwn(w)
      BY <1>9 DEF Expire, Return, At, ReturnsOwn
    <2> QED BY <2>2, <2>3
  <1> QED BY <1>4, <1>5, <1>6, <1>7, <1>8, <1>9 DEF Ending

(* The steps that end nothing, by what they change.                        *)
Quiet ==
    \/ \E a \in Approval : RequestApproval(a) \/ Elapse(a)
    \/ \E a \in Approval : Approve(a) /\ ~(received[a] + 1 >= Required[a])
    \/ \E w \in Waiter : \E a \in Approval : AwaitDecision(w, a)
    \/ \E w \in Waiter : Timeout(w) \/ Interrupt(w) \/ Resume(w) \/ FindDecision(w)

LEMMA NextCases == ApprovalNext => Ending \/ Quiet
  BY DEF ApprovalNext, Ending, Quiet

(* A step that only counts an approver or a clock tick.                    *)
LEMMA SamePreserves ==
    ASSUME ApprovalInv,
           UNCHANGED <<status, pending, future, history, at, on, got>>,
           received' \in [Approval -> Nat], overdue' \in SUBSET Approval
    PROVE  ApprovalInv'
  <1>1. ApprovalTypeOK'
    BY DEF ApprovalInv, ApprovalTypeOK
  <1>2. HistoryOK' /\ FutureOK'
    BY DEF ApprovalInv, HistoryOK, FutureOK
  <1>3. WaiterOK'
    <2>1. WaiterOK
      BY DEF ApprovalInv
    <2> QED BY <2>1 DEF WaiterOK
  <1>4. FutureFollowsDecision'
    <2>1. FutureFollowsDecision
      BY DEF ApprovalInv
    <2>2. ToSet(history') = ToSet(history)
      OBVIOUS
    <2> QED BY <2>1, <2>2 DEF FutureFollowsDecision, Closing
  <1>5. VerdictReachesWaiter'
    <2>1. VerdictReachesWaiter
      BY DEF ApprovalInv
    <2> QED BY <2>1 DEF VerdictReachesWaiter
  <1> QED BY <1>1, <1>2, <1>3, <1>4, <1>5 DEF ApprovalInv

LEMMA RequestPreserves ==
    ASSUME ApprovalInv, NEW a \in Approval, RequestApproval(a)
    PROVE  ApprovalInv'
  <1>1. /\ status[a] = "none" /\ a \notin pending /\ future[a] = "open"
        /\ pending' = pending \cup {a}
        /\ status' = [status EXCEPT ![a] = "pending"]
        /\ UNCHANGED <<received, future, history, overdue, at, on, got>>
    BY DEF ApprovalInv, RequestApproval, FutureFollowsDecision, FutureOK, waitVars
  <1>2. \A b \in Approval : status'[b] = IF b = a THEN "pending" ELSE status[b]
    BY <1>1 DEF ApprovalInv, ApprovalTypeOK
  <1>3. "none" \notin Decided /\ "pending" \notin Decided
    BY DEF Decided
  <1>4. ApprovalTypeOK'
    BY <1>1 DEF ApprovalInv, ApprovalTypeOK
  <1>5. HistoryOK'
    BY <1>1, <1>2, <1>3 DEF ApprovalInv, HistoryOK
  <1>6. FutureOK'
    BY <1>1, <1>2, <1>3 DEF ApprovalInv, FutureOK
  <1>7. WaiterOK'
    BY <1>1, <1>2 DEF ApprovalInv, WaiterOK
  <1>8. FutureFollowsDecision'
    <2> SUFFICES ASSUME NEW b \in Approval
                 PROVE  /\ status'[b] \in Decided =>
                             future'[b] # "open" /\ b \in ToSet(history')
                        /\ b \in pending' <=> status'[b] = "pending"
                        /\ b \in pending' /\ future'[b] # "open" =>
                             \E w \in Waiter : Closing(w, b)'
      BY DEF FutureFollowsDecision
    <2>1. /\ status[b] \in Decided =>
               future[b] # "open" /\ b \in ToSet(history)
          /\ b \in pending <=> status[b] = "pending"
          /\ b \in pending /\ future[b] # "open" =>
               \E w \in Waiter : Closing(w, b)
      BY DEF ApprovalInv, FutureFollowsDecision
    <2>c. \A w \in Waiter : Closing(w, b) => Closing(w, b)'
      BY <1>1 DEF Closing
    <2>2. CASE b = a
      BY <1>1, <1>2, <1>3, <2>2
    <2>3. CASE b # a
      BY <1>1, <1>2, <2>1, <2>3, <2>c
    <2> QED BY <2>2, <2>3
  <1>9. VerdictReachesWaiter'
    <2> SUFFICES ASSUME NEW w \in Waiter
                 PROVE  /\ at[w] = "returned" =>
                             /\ status'[on[w]] \in Decided
                             /\ status'[got[w]] = status'[on[w]]
                        /\ at[w] # "not found"
      BY <1>1 DEF VerdictReachesWaiter
    <2>1. /\ at[w] = "returned" =>
               /\ status[on[w]] \in Decided
               /\ status[got[w]] = status[on[w]]
               /\ on[w] \in Approval /\ got[w] \in Approval
          /\ at[w] # "not found"
      BY DEF ApprovalInv, ApprovalTypeOK, WaiterOK, VerdictReachesWaiter
    <2> QED BY <1>1, <1>2, <1>3, <2>1
  <1> QED BY <1>4, <1>5, <1>6, <1>7, <1>8, <1>9 DEF ApprovalInv

(* The timer of w goes off, or its task is cancelled.                      *)
LEMMA ClosePreserves ==
    ASSUME ApprovalInv, NEW w \in Waiter, Timeout(w) \/ Interrupt(w)
    PROVE  ApprovalInv'
  <1> DEFINE where == at'[w]
  <1>1. /\ at[w] \in {"waiting", "timing out"}
        /\ on[w] \in Approval /\ status[on[w]] # "none"
        /\ where \in {"timing out", "interrupted"}
        /\ at' = [at EXCEPT ![w] = where]
        /\ future' = IF future[on[w]] = "open"
                     THEN [future EXCEPT ![on[w]] = "cancelled"] ELSE future
        /\ UNCHANGED <<status, pending, received, history, overdue, on, got>>
    BY DEF ApprovalInv, ApprovalTypeOK, WaiterOK, Timeout, Interrupt, At
  <1> HIDE DEF where
  <1>2. "cancelled" \notin Approval /\ "cancelled" \in Outcome
    BY ApprovalAssumption DEF Outcome
  <1>3. \A a \in Approval : future'[a] = IF a = on[w] /\ future[a] = "open"
                                         THEN "cancelled" ELSE future[a]
    BY <1>1 DEF ApprovalInv, ApprovalTypeOK
  <1>4. \A x \in Waiter : at'[x] = IF x = w THEN where ELSE at[x]
    BY <1>1 DEF ApprovalInv, ApprovalTypeOK
  <1>5. ApprovalTypeOK'
    BY <1>1, <1>2 DEF ApprovalInv, ApprovalTypeOK
  <1>6. HistoryOK'
    BY <1>1 DEF ApprovalInv, HistoryOK
  <1>7. FutureOK'
    <2> SUFFICES ASSUME NEW a \in Approval
                 PROVE  /\ status[a] = "none" => future'[a] = "open"
                        /\ future'[a] \in Approval =>
                             /\ status[a] \in Decided
                             /\ status[future'[a]] = status[a]
      BY <1>1 DEF FutureOK
    <2>1. /\ status[a] = "none" => future[a] = "open"
          /\ future[a] \in Approval =>
               /\ status[a] \in Decided
               /\ status[future[a]] = status[a]
      BY DEF ApprovalInv, FutureOK
    <2>2. CASE a = on[w] /\ future[a] = "open"
      BY <1>1, <1>2, <1>3, <2>2
    <2>3. CASE ~(a = on[w] /\ future[a] = "open")
      BY <1>3, <2>1, <2>3
    <2> QED BY <2>2, <2>3
  <1>8. WaiterOK'
    <2> SUFFICES ASSUME NEW x \in Waiter
                 PROVE  /\ at'[x] # "idle" =>
                             on[x] \in Approval /\ status[on[x]] # "none"
                        /\ at'[x] = "timing out" => future'[on[x]] # "open"
      BY <1>1 DEF WaiterOK
    <2>1. at'[x] # "idle" => on[x] \in Approval /\ status[on[x]] # "none"
      BY <1>1, <1>4 DEF ApprovalInv, WaiterOK
    <2>2. ASSUME at'[x] = "timing out" PROVE future'[on[x]] # "open"
      <3>1. x = w \/ future[on[x]] # "open"
        BY <1>4, <2>2 DEF ApprovalInv, WaiterOK
      <3> QED BY <1>3, <2>1, <2>2, <3>1
    <2> QED BY <2>1, <2>2
  <1>9. FutureFollowsDecision'
    <2> SUFFICES ASSUME NEW a \in Approval
                 PROVE  /\ status[a] \in Decided =>
                             future'[a] # "open" /\ a \in ToSet(history)
                        /\ a \in pending <=> status[a] = "pending"
                        /\ a \in pending /\ future'[a] # "open" =>
                             \E x \in Waiter : Closing(x, a)'
      <3>1. ToSet(history') = ToSet(history)
        BY <1>1
      <3> QED BY <1>1, <3>1 DEF FutureFollowsDecision
    <2>1. /\ status[a] \in Decided =>
               future[a] # "open" /\ a \in ToSet(history)
          /\ a \in pending <=> status[a] = "pending"
      BY DEF ApprovalInv, FutureFollowsDecision
    <2>2. status[a] \in Decided => future'[a] # "open"
      BY <1>3, <2>1
    <2>3. ASSUME a \in pending, future'[a] # "open"
          PROVE  \E x \in Waiter : Closing(x, a)'
      <3>1. CASE a = on[w]
        BY <1>1, <1>4, <3>1 DEF Closing
      <3>2. CASE a # on[w]
        <4>1. PICK x \in Waiter : Closing(x, a)
          BY <1>3, <2>3, <3>2 DEF ApprovalInv, FutureFollowsDecision
        <4> QED BY <1>1, <1>4, <4>1 DEF Closing
      <3> QED BY <3>1, <3>2
    <2> QED BY <2>1, <2>2, <2>3
  <1>10. VerdictReachesWaiter'
    <2>1. VerdictReachesWaiter
      BY DEF ApprovalInv
    <2> SUFFICES ASSUME NEW x \in Waiter
                 PROVE  /\ at'[x] = "returned" =>
                             /\ status[on[x]] \in Decided
                             /\ status[got[x]] = status[on[x]]
                        /\ at'[x] # "not found"
      BY <1>1 DEF VerdictReachesWaiter
    <2> QED BY <1>1, <1>4, <2>1 DEF VerdictReachesWaiter
  <1> QED BY <1>5, <1>6, <1>7, <1>8, <1>9, <1>10 DEF ApprovalInv

(* The task of w goes on: it returns r, the record of a decided approval   *)
(* with the verdict of its own, or is cancelled.                           *)
LEMMA GoesOnPreserves ==
    ASSUME ApprovalInv, NEW w \in Waiter, at[w] \in {"waiting", "timing out"},
           on[w] \notin pending \/ at[w] = "waiting",
           UNCHANGED <<status, pending, received, future, history, overdue, on>>,
           \/ at' = [at EXCEPT ![w] = "cancelled"] /\ got' = got
           \/ \E r \in Approval :
                /\ at' = [at EXCEPT ![w] = "returned"]
                /\ got' = [got EXCEPT ![w] = r]
                /\ status[on[w]] \in Decided
                /\ status[r] = status[on[w]]
    PROVE  ApprovalInv'
  <1>1. \A x \in Waiter : x # w => at'[x] = at[x] /\ got'[x] = got[x]
    BY DEF ApprovalInv, ApprovalTypeOK
  <1>2. \/ at'[w] = "cancelled"
        \/ /\ at'[w] = "returned"
           /\ status[on[w]] \in Decided
           /\ status[got'[w]] = status[on[w]]
    BY DEF ApprovalInv, ApprovalTypeOK
  <1>3. ApprovalTypeOK'
    <2>1. /\ at' \in [Waiter -> {"idle", "waiting", "timing out", "returned",
                                  "cancelled", "interrupted", "not found"}]
          /\ got' \in [Waiter -> Approval \cup {NoApproval}]
      <3>1. /\ at \in [Waiter -> {"idle", "waiting", "timing out", "returned",
                                   "cancelled", "interrupted", "not found"}]
            /\ got \in [Waiter -> Approval \cup {NoApproval}]
        BY DEF ApprovalInv, ApprovalTypeOK
      <3>2. CASE at' = [at EXCEPT ![w] = "cancelled"] /\ got' = got
        BY <3>1, <3>2
      <3>3. ASSUME NEW r \in Approval,
                   at' = [at EXCEPT ![w] = "returned"],
                   got' = [got EXCEPT ![w] = r]
            PROVE  /\ at' \in [Waiter -> {"idle", "waiting", "timing out",
                                  "returned", "cancelled", "interrupted", "not found"}]
                   /\ got' \in [Waiter -> Approval \cup {NoApproval}]
        BY <3>1, <3>3
      <3> QED BY <3>2, <3>3
    <2>2. ASSUME NEW x \in Waiter, at'[x] = "returned"
          PROVE  got'[x] \in Approval
      <3>1. CASE x = w
        BY <2>2, <3>1 DEF ApprovalInv, ApprovalTypeOK
      <3>2. CASE x # w
        BY <1>1, <2>2, <3>2 DEF ApprovalInv, ApprovalTypeOK
      <3> QED BY <3>1, <3>2
    <2>3. ApprovalTypeOK
      BY DEF ApprovalInv
    <2> QED BY <2>1, <2>2, <2>3 DEF ApprovalTypeOK
  <1>4. HistoryOK' /\ FutureOK'
    BY DEF ApprovalInv, HistoryOK, FutureOK
  <1>5. WaiterOK'
    BY <1>1, <1>2 DEF ApprovalInv, WaiterOK
  <1>6. FutureFollowsDecision'
    <2>1. ASSUME NEW a \in Approval, a \in pending, future[a] # "open"
          PROVE  \E x \in Waiter : Closing(x, a)'
      <3>1. PICK x \in Waiter : Closing(x, a)
        BY <2>1 DEF ApprovalInv, FutureFollowsDecision
      <3>2. x # w
        BY <2>1, <3>1 DEF Closing
      <3> QED BY <1>1, <3>1, <3>2 DEF Closing
    <2> QED BY <2>1 DEF ApprovalInv, FutureFollowsDecision
  <1>7. VerdictReachesWaiter'
    BY <1>1, <1>2 DEF ApprovalInv, VerdictReachesWaiter
  <1> QED BY <1>3, <1>4, <1>5, <1>6, <1>7 DEF ApprovalInv

LEMMA QuietPreserves ==
    ASSUME ApprovalInv, Quiet
    PROVE  ApprovalInv'
  <1>1. ASSUME NEW a \in Approval, RequestApproval(a) PROVE ApprovalInv'
    BY <1>1, RequestPreserves
  <1>2. ASSUME NEW a \in Approval, Elapse(a) PROVE ApprovalInv'
    <2>1. /\ UNCHANGED <<status, pending, received, future, history, at, on, got>>
          /\ overdue' = overdue \cup {a}
      BY <1>2 DEF Elapse, waitVars
    <2>2. received' \in [Approval -> Nat] /\ overdue' \in SUBSET Approval
      BY <2>1 DEF ApprovalInv, ApprovalTypeOK
    <2> QED BY <2>1, <2>2, SamePreserves
  <1>3. ASSUME NEW a \in Approval, Approve(a),
               ~(received[a] + 1 >= Required[a])
        PROVE  ApprovalInv'
    <2>1. /\ UNCHANGED <<status, pending, future, history, overdue, at, on, got>>
          /\ received' = [received EXCEPT ![a] = @ + 1]
      BY <1>3 DEF Approve, waitVars
    <2>2. received' \in [Approval -> Nat] /\ overdue' \in SUBSET Approval
      <3>1. received \in [Approval -> Nat] /\ overdue \in SUBSET Approval
        BY DEF ApprovalInv, ApprovalTypeOK
      <3>2. received[a] + 1 \in Nat
        BY <3>1
      <3> QED BY <2>1, <3>1, <3>2
    <2> QED BY <2>1, <2>2, SamePreserves
  <1>4. ASSUME NEW w \in Waiter, NEW a \in Approval, AwaitDecision(w, a)
        PROVE  ApprovalInv'
    <2>1. /\ at[w] = "idle" /\ status[a] # "none"
          /\ at' = [at EXCEPT ![w] = "waiting"]
          /\ on' = [on EXCEPT ![w] = a]
          /\ UNCHANGED <<status, pending, received, future, history, overdue, got>>
      BY <1>4 DEF AwaitDecision, At
    <2>2. \A x \in Waiter : /\ at'[x] = IF x = w THEN "waiting" ELSE at[x]
                            /\ on'[x] = IF x = w THEN a ELSE on[x]
      BY <2>1 DEF ApprovalInv, ApprovalTypeOK
    <2>3. ApprovalTypeOK'
      BY <2>1 DEF ApprovalInv, ApprovalTypeOK
    <2>4. HistoryOK' /\ FutureOK'
      BY <2>1 DEF ApprovalInv, HistoryOK, FutureOK
    <2>5. WaiterOK'
      <3> SUFFICES ASSUME NEW x \in Waiter
                   PROVE  /\ at'[x] # "idle" =>
                               on'[x] \in Approval /\ status[on'[x]] # "none"
                          /\ at'[x] = "timing out" => future[on'[x]] # "open"
        BY <2>1 DEF WaiterOK
      <3>1. CASE x = w
        <4>1. at'[x] = "waiting" /\ on'[x] = a
          BY <2>2, <3>1
        <4> QED BY <2>1, <4>1
      <3>2. CASE x # w
        BY <2>2, <3>2 DEF ApprovalInv, WaiterOK
      <3> QED BY <3>1, <3>2
    <2>6. FutureFollowsDecision'
      <3>1. ToSet(history') = ToSet(history)
        BY <2>1
      <3>2. ASSUME NEW b \in Approval, b \in pending, future[b] # "open"
            PROVE  \E x \in Waiter : Closing(x, b)'
        <4>1. PICK x \in Waiter : Closing(x, b)
          BY <3>2 DEF ApprovalInv, FutureFollowsDecision
        <4>2. x # w
          BY <2>1, <4>1 DEF Closing
        <4> QED BY <2>2, <4>1, <4>2 DEF Closing
      <3>3. FutureFollowsDecision
        BY DEF ApprovalInv
      <3> QED BY <2>1, <3>1, <3>2, <3>3 DEF FutureFollowsDecision
    <2>7. VerdictReachesWaiter'
      <3> SUFFICES ASSUME NEW x \in Waiter
                   PROVE  /\ at'[x] = "returned" =>
                               /\ status[on'[x]] \in Decided
                               /\ status[got[x]] = status[on'[x]]
                          /\ at'[x] # "not found"
        BY <2>1 DEF VerdictReachesWaiter
      <3>1. CASE x = w
        BY <2>2, <3>1
      <3>2. CASE x # w
        BY <2>2, <3>2 DEF ApprovalInv, VerdictReachesWaiter
      <3> QED BY <3>1, <3>2
    <2> QED BY <2>3, <2>4, <2>5, <2>6, <2>7 DEF ApprovalInv
  <1>5. ASSUME NEW w \in Waiter, Timeout(w) \/ Interrupt(w) PROVE ApprovalInv'
    BY <1>5, ClosePreserves
  <1>6. ASSUME NEW w \in Waiter, Resume(w) PROVE ApprovalInv'
    <2>1. /\ at[w] = "waiting" /\ on[w] \in Approval
          /\ future[on[w]] \in Outcome \cup Approval
          /\ future[on[w]] # "open"
          /\ UNCHANGED <<status, pending, received, future, history, overdue, on>>
      BY <1>6 DEF ApprovalInv, ApprovalTypeOK, WaiterOK, Resume
    <2>2. CASE future[on[w]] = "cancelled"
      <3>1. at' = [at EXCEPT ![w] = "cancelled"] /\ got' = got
        BY <1>6, <2>2 DEF Resume, At
      <3> QED BY <2>1, <3>1, GoesOnPreserves
    <2>3. CASE future[on[w]] # "cancelled"
      <3> DEFINE r == future[on[w]]
      <3>1. /\ r \in Approval
            /\ status[on[w]] \in Decided
            /\ status[r] = status[on[w]]
        BY <2>1, <2>3 DEF ApprovalInv, FutureOK, Outcome
      <3>2. at' = [at EXCEPT ![w] = "returned"] /\ got' = [got EXCEPT ![w] = r]
        BY <1>6, <2>3 DEF Resume, Return, At
      <3> HIDE DEF r
      <3> QED BY <2>1, <3>1, <3>2, GoesOnPreserves
    <2> QED BY <2>2, <2>3
  <1>7. ASSUME NEW w \in Waiter, FindDecision(w) PROVE ApprovalInv'
    <2>1. /\ at[w] = "timing out" /\ on[w] \notin pending /\ on[w] \in Approval
          /\ status[on[w]] # "none"
          /\ UNCHANGED <<status, pending, received, future, history, overdue, on>>
      BY <1>7 DEF ApprovalInv, WaiterOK, FindDecision
    <2>2. status[on[w]] \in Decided /\ on[w] \in ToSet(history)
      BY <2>1 DEF ApprovalInv, ApprovalTypeOK, FutureFollowsDecision
    <2>3. /\ at' = [at EXCEPT ![w] = "returned"]
          /\ got' = [got EXCEPT ![w] = on[w]]
      BY <1>7, <2>2 DEF FindDecision, Return, At
    <2> QED BY <2>1, <2>2, <2>3, GoesOnPreserves
  <1> QED BY <1>1, <1>2, <1>3, <1>4, <1>5, <1>6, <1>7 DEF Quiet

LEMMA QuietIsFinal ==
    ASSUME ApprovalInv, Quiet, NEW a \in Approval, status[a] \in Decided
    PROVE  status'[a] = status[a] /\ Entries(history', a) = Entries(history, a)
  <1>1. history' = history
    BY DEF Quiet, RequestApproval, Elapse, Approve, AwaitDecision, Timeout,
           Interrupt, Resume, FindDecision
  <1>2. \/ status' = status
        \/ \E b \in Approval : status[b] = "none"
                               /\ status' = [status EXCEPT ![b] = "pending"]
    BY DEF Quiet, RequestApproval, Elapse, Approve, AwaitDecision, Timeout,
           Interrupt, Resume, FindDecision
  <1>3. status'[a] = status[a]
    BY <1>2 DEF ApprovalInv, ApprovalTypeOK, Decided
  <1> QED BY <1>1, <1>3 DEF Entries

LEMMA ApprovalInitInv == ApprovalInit => ApprovalInv
  <1> SUFFICES ASSUME ApprovalInit PROVE ApprovalInv
    OBVIOUS
  <1>1. <<>> \in Seq(Approval) /\ DOMAIN <<>> = {}
    BY EmptySeq
  <1>2. ApprovalTypeOK
    BY <1>1 DEF ApprovalInit, ApprovalTypeOK, Outcome
  <1>3. HistoryOK
    BY <1>1 DEF ApprovalInit, HistoryOK, Decided
  <1>4. FutureOK
    BY ApprovalAssumption DEF ApprovalInit, FutureOK, Outcome
  <1>5. WaiterOK /\ FutureFollowsDecision /\ VerdictReachesWaiter
    BY DEF ApprovalInit, WaiterOK, FutureFollowsDecision, VerdictReachesWaiter, Decided
  <1> QED BY <1>2, <1>3, <1>4, <1>5 DEF ApprovalInv

LEMMA ApprovalStepInv == ApprovalInv /\ [ApprovalNext]_approvalVars => ApprovalInv'
  <1> SUFFICES ASSUME ApprovalInv, [ApprovalNext]_approvalVars PROVE ApprovalInv'
    OBVIOUS
  <1>1. CASE Ending
    BY <1>1, EndingEnds, EndsPreserves
  <1>2. CASE Quiet
    BY <1>2, QuietPreserves
  <1>3. CASE UNCHANGED approvalVars
    <2>1. UNCHANGED <<status, pending, received, future, history, overdue,
                      at, on, got>>
      BY <1>3 DEF approvalVars, waitVars
    <2>2. received' \in [Approval -> Nat] /\ overdue' \in SUBSET Approval
      BY <2>1 DEF ApprovalInv, ApprovalTypeOK
    <2> QED BY <2>1, <2>2, SamePreserves
  <1> QED BY <1>1, <1>2, <1>3, NextCases

LEMMA ApprovalInvariant == ApprovalSpec => []ApprovalInv
  BY ApprovalInitInv, ApprovalStepInv, PTL DEF ApprovalSpec

(* The state is well typed, for any approvals, counts and waiters.         *)
THEOREM ApprovalTypeCorrect == ApprovalSpec => []ApprovalTypeOK
  <1>1. ApprovalInv => ApprovalTypeOK
    BY DEF ApprovalInv
  <1> QED BY <1>1, ApprovalInvariant, PTL

(* Decided and waiting agree: no decision leaves its waiters behind        *)
(* (approval_engine.py:190, 221, 250, 279, 295, 313).                      *)
THEOREM FutureCorrect == ApprovalSpec => []FutureFollowsDecision
  <1>1. ApprovalInv => FutureFollowsDecision
    BY DEF ApprovalInv
  <1> QED BY <1>1, ApprovalInvariant, PTL

(* A waiter that returns learns the verdict of its own approval, for good, *)
(* and always finds one after a timeout (approval_engine.py:180-197).      *)
THEOREM VerdictReaches == ApprovalSpec => []VerdictReachesWaiter
  <1>1. ApprovalInv => VerdictReachesWaiter
    BY DEF ApprovalInv
  <1> QED BY <1>1, ApprovalInvariant, PTL

(* An approval ends once, with one entry in the history, however the six   *)
(* ways to end it race (approval_engine.py:184, 213, 270, 286, 304).       *)
THEOREM VerdictIsFinal == ApprovalSpec => VerdictFinal
  <1> DEFINE Final == \A a \in Approval : status[a] \in Decided =>
                        /\ status'[a] = status[a]
                        /\ Entries(history', a) = Entries(history, a)
  <1>1. ASSUME ApprovalInv, [ApprovalNext]_approvalVars PROVE [Final]_approvalVars
    <2>1. CASE Ending
      BY <1>1, <2>1, EndingEnds, EndsIsFinal
    <2>2. CASE Quiet
      BY <1>1, <2>2, QuietIsFinal
    <2>3. CASE UNCHANGED approvalVars
      BY <2>3
    <2> QED BY <1>1, <2>1, <2>2, <2>3, NextCases
  <1>2. ApprovalInv /\ [ApprovalNext]_approvalVars => [Final]_approvalVars
    BY <1>1
  <1> QED BY <1>2, ApprovalInvariant, PTL DEF ApprovalSpec, VerdictFinal

-----------------------------------------------------------------------------
(* The execution manager.                                                  *)

InQueue(e) == \E i \in DOMAIN queue : queue[i] = e

Once(q) == \A i, j \in DOMAIN q : q[i] = q[j] => i = j

Plans == [Path -> Value] \cup {NoPlan}

(* The place of an execution fits its status; one that nobody asked for    *)
(* has left no trace.                                                      *)
PlaceOK ==
    \A e \in Execution :
        /\ InQueue(e) => /\ result[e] \in {"pending", "cancelled"}
                         /\ dispatched[e] = 0
                         /\ e \notin running
                         /\ before[e] = NoPlan
        /\ e \in running => /\ result[e] \in {"running", "cancelled"}
                            /\ before[e] = NoPlan
        /\ before[e] # NoPlan =>
             /\ result[e] \in {"succeeded", "rolled_back", "cancelled"}
             /\ request[e].action \in FileAction \cup DirAction
        /\ request[e] = NoRequest =>
             /\ dispatched[e] = 0 /\ before[e] = NoPlan
             /\ e \notin running /\ ~InQueue(e)

Inv == TypeOK /\ Once(queue) /\ PlaceOK /\ AuditAgrees /\ DispatchedOnce

-----------------------------------------------------------------------------
(* Every operation on an execution is a Step: what e becomes, and that the *)
(* others are left alone.                                                  *)
Step(e, s, event, n, was) ==
    /\ result' = [result EXCEPT ![e] = s]
    /\ last' = [last EXCEPT ![e] = event]
    /\ dispatched' = [dispatched EXCEPT ![e] = n]
    /\ before' = [before EXCEPT ![e] = was]
    /\ s \in Tells[event] /\ s # "none"
    /\ result' \in [Execution -> {"none", "pending", "approved", "running",
                                 "rejected", "timeout", "cancelled",
                                 "rolled_back"} \cup Ended]
    /\ last' \in [Execution -> {"none", "queued", "policy_check", "refused",
                               "approval_requested", "dispatched", "completed",
                               "failed", "cancelled", "rolled_back"}]
    /\ n \in {0, 1} /\ was \in Plans

Elsewhere(e) ==
    /\ request' \in [Execution -> Request \cup {NoRequest}]
    /\ request'[e] # NoRequest
    /\ running' \in SUBSET Execution
    /\ queue' \in Seq(Execution) /\ Once(queue')
    /\ files' \in [Path -> Value]
    /\ up' \in BOOLEAN /\ current' \in Execution \cup {NoExecution}
    /\ \A x \in Execution \ {e} : /\ request'[x] = request[x]
                                  /\ x \in running' => x \in running
                                  /\ InQueue(x)' => InQueue(x)

Fits(e, s, n, was) ==
    /\ e \in running' => s \in {"running", "cancelled"} /\ was = NoPlan
    /\ InQueue(e)' => /\ s \in {"pending", "cancelled"}
                      /\ n = 0 /\ e \notin running' /\ was = NoPlan
    /\ was # NoPlan => /\ s \in {"succeeded", "rolled_back", "cancelled"}
                       /\ request'[e].action \in FileAction \cup DirAction

LEMMA StepKeeps ==
    ASSUME Inv, NEW e \in Execution, NEW s, NEW event, NEW n, NEW was,
           Step(e, s, event, n, was), Elsewhere(e), Fits(e, s, n, was)
    PROVE  Inv'
  <1>1. /\ result'[e] = s /\ last'[e] = event /\ dispatched'[e] = n
        /\ before'[e] = was
    BY DEF Inv, TypeOK, Step
  <1>2. \A x \in Execution \ {e} :
          /\ result'[x] = result[x] /\ last'[x] = last[x]
          /\ dispatched'[x] = dispatched[x] /\ before'[x] = before[x]
          /\ request'[x] = request[x]
    BY DEF Inv, TypeOK, Step, Elsewhere
  <1>3. TypeOK'
    <2>1. dispatched' \in [Execution -> Nat] /\ before' \in [Execution -> Plans]
      BY DEF Inv, TypeOK, Step, Plans
    <2>2. ASSUME NEW x \in Execution
          PROVE  result'[x] = "none" <=> request'[x] = NoRequest
      <3>1. CASE x = e
        BY <1>1, <3>1 DEF Step, Elsewhere
      <3>2. CASE x # e
        BY <1>2, <3>2 DEF Inv, TypeOK
      <3> QED BY <3>1, <3>2
    <2> QED BY <2>1, <2>2 DEF TypeOK, Step, Elsewhere, Plans
  <1>4. Once(queue)'
    BY DEF Elsewhere
  <1>5. PlaceOK'
    <2> SUFFICES ASSUME NEW x \in Execution
                 PROVE  /\ InQueue(x)' =>
                             /\ result'[x] \in {"pending", "cancelled"}
                             /\ dispatched'[x] = 0
                             /\ x \notin running'
                             /\ before'[x] = NoPlan
                        /\ x \in running' =>
                             /\ result'[x] \in {"running", "cancelled"}
                             /\ before'[x] = NoPlan
                        /\ before'[x] # NoPlan =>
                             /\ result'[x] \in {"succeeded", "rolled_back",
                                                "cancelled"}
                             /\ request'[x].action \in FileAction \cup DirAction
                        /\ request'[x] = NoRequest =>
                             /\ dispatched'[x] = 0 /\ before'[x] = NoPlan
                             /\ x \notin running' /\ ~InQueue(x)'
      BY DEF PlaceOK
    <2>1. CASE x = e
      BY <1>1, <2>1 DEF Fits, Elsewhere
    <2>2. CASE x # e
      <3>1. /\ x \in running' => x \in running
            /\ InQueue(x)' => InQueue(x)
        BY <2>2 DEF Elsewhere
      <3> QED BY <1>2, <2>2, <3>1 DEF Inv, PlaceOK
    <2> QED BY <2>1, <2>2
  <1>6. AuditAgrees'
    <2> SUFFICES ASSUME NEW x \in Execution PROVE result'[x] \in Tells[last'[x]]
      BY DEF AuditAgrees, Tells
    <2>1. CASE x = e
      BY <1>1, <2>1 DEF Step
    <2>2. CASE x # e
      BY <1>2, <2>2 DEF Inv, AuditAgrees
    <2> QED BY <2>1, <2>2
  <1>7. DispatchedOnce'
    BY <1>1, <1>2 DEF Inv, DispatchedOnce, Step
  <1> QED BY <1>3, <1>4, <1>5, <1>6, <1>7 DEF Inv

-----------------------------------------------------------------------------
(* Paths keep being paths.                                                 *)

LEMMA RequestTypes ==
    ASSUME NEW r \in Request
    PROVE  /\ r.path \in Path /\ r.to \in Path /\ r.content \in Value
           /\ r.action \in FileAction \cup DirAction \cup OtherAction
           /\ r.action \in FileAction \cup DirAction => r.action \notin OtherAction
  <1>1. \/ r \in [action: FileAction, path: FilePath, to: FilePath,
                  content: Text \cup {Empty}]
        \/ r \in [action: DirAction \cup OtherAction, path: DirPath,
                  to: DirPath, content: {Empty}]
    BY RequestAssumption
  <1> QED BY <1>1 DEF Path, Value, FileAction, DirAction, OtherAction

LEMMA AfterTypes ==
    ASSUME NEW r \in Request, NEW fs \in [Path -> Value],
           r.action \in FileAction \cup DirAction
    PROVE  After(r, fs) \in [Path -> Value]
  <1>1. /\ r.path \in Path /\ r.to \in Path /\ r.content \in Value
        /\ Absent \in Value /\ Bare \in Value
    BY RequestTypes DEF Value
  <1>2. CASE r.action = "write_file"
    BY <1>1, <1>2 DEF After
  <1>3. CASE r.action \in {"delete_file", "delete_directory"}
    BY <1>1, <1>3 DEF After
  <1>4. CASE r.action = "copy"
    BY <1>1, <1>4 DEF After
  <1>5. CASE r.action = "move"
    BY <1>1, <1>5 DEF After
  <1>6. CASE r.action = "create_directory"
    BY <1>1, <1>6 DEF After
  <1> QED BY <1>2, <1>3, <1>4, <1>5, <1>6 DEF FileAction, DirAction

LEMMA UndoneTypes ==
    ASSUME NEW r \in Request, NEW fs \in [Path -> Value],
           NEW was \in [Path -> Value],
           r.action \in FileAction \cup DirAction
    PROVE  Undone(r, was, fs) \in [Path -> Value]
  <1>1. r.path \in Path /\ r.to \in Path /\ Absent \in Value
    BY RequestTypes DEF Value
  <1>2. CASE r.action \in {"write_file", "delete_directory"}
    BY <1>2 DEF Undone
  <1>3. CASE r.action = "delete_file"
    BY <1>1, <1>3 DEF Undone
  <1>4. CASE r.action = "copy"
    BY <1>1, <1>4 DEF Undone
  <1>5. CASE r.action = "move"
    BY <1>1, <1>5 DEF Undone
  <1>6. CASE r.action = "create_directory"
    BY <1>1, <1>6 DEF Undone
  <1> QED BY <1>2, <1>3, <1>4, <1>5, <1>6 DEF FileAction, DirAction

-----------------------------------------------------------------------------
(* The queue.                                                              *)

LEMMA AppendOnce ==
    ASSUME NEW q \in Seq(Execution), Once(q), NEW e \in Execution,
           \A i \in DOMAIN q : q[i] # e
    PROVE  /\ Append(q, e) \in Seq(Execution)
           /\ Once(Append(q, e))
           /\ \A x : (\E i \in DOMAIN Append(q, e) : Append(q, e)[i] = x)
                       => x = e \/ \E i \in DOMAIN q : q[i] = x
  <1>1. /\ Append(q, e) \in Seq(Execution)
        /\ Len(q) \in Nat
        /\ DOMAIN q = 1..Len(q)
        /\ DOMAIN Append(q, e) = 1..Len(q)+1
        /\ \A i \in 1..Len(q) : Append(q, e)[i] = q[i]
        /\ Append(q, e)[Len(q)+1] = e
    BY AppendProperties, LenProperties
  <1>2. DOMAIN Append(q, e) = DOMAIN q \cup {Len(q) + 1}
    BY <1>1
  <1> QED BY <1>1, <1>2 DEF Once

LEMMA TailOnce ==
    ASSUME NEW q \in Seq(Execution), Once(q), q # <<>>
    PROVE  /\ Tail(q) \in Seq(Execution)
           /\ Once(Tail(q))
           /\ Head(q) \in Execution
           /\ \E i \in DOMAIN q : q[i] = Head(q)
           /\ \A x : (\E i \in DOMAIN Tail(q) : Tail(q)[i] = x)
                       => x # Head(q) /\ \E i \in DOMAIN q : q[i] = x
  <1>1. /\ Tail(q) \in Seq(Execution)
        /\ Head(q) \in Execution /\ Head(q) = q[1]
        /\ Len(q) \in Nat /\ Len(q) >= 1
        /\ DOMAIN q = 1..Len(q)
        /\ DOMAIN Tail(q) = 1..Len(q)-1
        /\ \A i \in 1..Len(q)-1 : Tail(q)[i] = q[i+1]
    BY HeadTailProperties, EmptySeq, LenProperties
  <1>2. \A i \in DOMAIN Tail(q) : i + 1 \in DOMAIN q /\ i + 1 # 1
                                  /\ Tail(q)[i] = q[i + 1] /\ i \in Int
    BY <1>1
  <1>3. 1 \in DOMAIN q
    BY <1>1
  <1>4. Once(Tail(q))
    <2> SUFFICES ASSUME NEW i \in DOMAIN Tail(q), NEW j \in DOMAIN Tail(q),
                        Tail(q)[i] = Tail(q)[j]
                 PROVE  i = j
      BY DEF Once
    <2>1. i + 1 = j + 1
      BY <1>2 DEF Once
    <2> QED BY <1>2, <2>1
  <1>5. \A i \in DOMAIN Tail(q) : Tail(q)[i] # Head(q)
    BY <1>1, <1>2, <1>3 DEF Once
  <1> QED BY <1>1, <1>2, <1>3, <1>4, <1>5

-----------------------------------------------------------------------------
(* The actions.                                                            *)

(* What Note and the two other updates of an execution make a Step.        *)
LEMMA NoteStep ==
    ASSUME Inv, NEW e \in Execution, NEW s, NEW event, NEW n \in {0, 1},
           NEW was \in Plans, Note(e, s, event),
           dispatched' = [dispatched EXCEPT ![e] = n],
           before' = [before EXCEPT ![e] = was],
           s \in {"pending", "approved", "running", "rejected", "timeout",
                  "cancelled", "rolled_back"} \cup Ended,
           event \in {"queued", "policy_check", "refused", "approval_requested",
                      "dispatched", "completed", "failed", "cancelled",
                      "rolled_back"},
           s \in Tells[event]
    PROVE  Step(e, s, event, n, was)
  <1>1. s # "none"
    BY DEF Ended
  <1> QED BY <1>1 DEF Inv, TypeOK, Note, Step

(* What the pipeline makes of e, which nobody executed before.             *)
Piped(e, r, s, event, n, was) ==
    /\ Step(e, s, event, n, was)
    /\ files' \in [Path -> Value]
    /\ running' \in {running, running \cup {e}}
    /\ e \in running' => s = "running" /\ was = NoPlan
    /\ was # NoPlan => s = "succeeded" /\ r.action \in FileAction \cup DirAction

LEMMA PipelineStep ==
    ASSUME Inv, NEW e \in Execution, NEW r \in Request, Pipeline(e, r),
           dispatched[e] = 0, before[e] = NoPlan, e \notin running
    PROVE  \E s, event, n, was : Piped(e, r, s, event, n, was)
  <1>1. /\ NoPlan \in Plans /\ files \in [Path -> Value] /\ files \in Plans
        /\ before = [before EXCEPT ![e] = NoPlan]
        /\ dispatched = [dispatched EXCEPT ![e] = 0]
        /\ dispatched[e] + 1 = 1
    BY DEF Inv, TypeOK, Plans
  <1>2. /\ "rejected" \in Tells["refused"]
        /\ "pending" \in Tells["policy_check"]
        /\ "approved" \in Tells["approval_requested"]
        /\ "running" \in Tells["dispatched"]
        /\ "failed" \in Tells["failed"]
        /\ "succeeded" \in Tells["completed"]
        /\ "failed" \in Ended /\ "succeeded" \in Ended
    BY DEF Tells, Ended
  <1>3. CASE Refuse(e) /\ UNCHANGED before
    <2>1. Step(e, "rejected", "refused", 0, NoPlan)
      BY <1>1, <1>2, <1>3, NoteStep DEF Refuse
    <2> QED BY <1>1, <1>3, <2>1 DEF Refuse, Piped
  <1>4. CASE SetupFails(e) /\ UNCHANGED before
    <2>1. \/ Step(e, "pending", "policy_check", 0, NoPlan)
          \/ Step(e, "approved", "approval_requested", 0, NoPlan)
      BY <1>1, <1>2, <1>4, NoteStep DEF SetupFails
    <2> QED BY <1>1, <1>4, <2>1 DEF SetupFails, Piped
  <1>5. CASE /\ dispatched' = [dispatched EXCEPT ![e] = @ + 1]
             /\ Waits(e, r) /\ UNCHANGED before
    <2>1. Step(e, "running", "dispatched", 1, NoPlan)
      BY <1>1, <1>2, <1>5, NoteStep DEF Waits
    <2> QED BY <1>1, <1>5, <2>1 DEF Waits, Piped
  <1>6. CASE /\ dispatched' = [dispatched EXCEPT ![e] = @ + 1]
             /\ FailsAtOnce(e) /\ UNCHANGED before
    <2>1. Step(e, "failed", "failed", 1, NoPlan)
      BY <1>1, <1>2, <1>6, NoteStep DEF FailsAtOnce
    <2> QED BY <1>1, <1>6, <2>1 DEF FailsAtOnce, Piped
  <1>7. CASE /\ dispatched' = [dispatched EXCEPT ![e] = @ + 1]
             /\ Handles(e, r) /\ before' = [before EXCEPT ![e] = files]
    <2>1. Step(e, "succeeded", "completed", 1, files)
      BY <1>1, <1>2, <1>7, NoteStep DEF Handles
    <2>2. files' \in [Path -> Value]
      BY <1>1, <1>7, AfterTypes DEF Handles
    <2> QED BY <1>7, <2>1, <2>2 DEF Handles, Piped
  <1> QED BY <1>3, <1>4, <1>5, <1>6, <1>7 DEF Pipeline

LEMMA ExecuteKeeps ==
    ASSUME Inv, NEW e \in Execution, NEW r \in Request, Execute(e, r)
    PROVE  Inv'
  <1>1. /\ dispatched[e] = 0 /\ before[e] = NoPlan /\ e \notin running
        /\ ~InQueue(e)
    BY DEF Inv, PlaceOK, Execute, Fresh
  <1>2. PICK s, event, n, was : Piped(e, r, s, event, n, was)
    BY <1>1, PipelineStep DEF Execute
  <1>3. /\ request' = [request EXCEPT ![e] = r]
        /\ queue' = queue /\ up' = up /\ current' = current
    BY DEF Execute
  <1>4. \A x : InQueue(x)' <=> InQueue(x)
    BY <1>3 DEF InQueue
  <1>5. Elsewhere(e) /\ request'[e] = r
    <2>1. /\ request' \in [Execution -> Request \cup {NoRequest}]
          /\ request'[e] = r
          /\ \A x \in Execution \ {e} : request'[x] = request[x]
      BY <1>3 DEF Inv, TypeOK
    <2>2. r # NoRequest
      BY ValueAssumption
    <2>3. /\ running' \in SUBSET Execution
          /\ \A x \in Execution \ {e} : x \in running' => x \in running
      BY <1>2 DEF Inv, TypeOK, Piped
    <2> QED BY <1>2, <1>3, <1>4, <2>1, <2>2, <2>3
            DEF Inv, TypeOK, Piped, Elsewhere
  <1>6. Fits(e, s, n, was)
    BY <1>1, <1>2, <1>4, <1>5 DEF Piped, Fits
  <1>7. Step(e, s, event, n, was)
    BY <1>2 DEF Piped
  <1> QED BY <1>5, <1>6, <1>7, StepKeeps

LEMMA DispatchKeeps ==
    ASSUME Inv, Dispatch
    PROVE  Inv'
  <1>1. /\ queue \in Seq(Execution) /\ Once(queue) /\ queue # <<>>
        /\ queue' = Tail(queue)
    BY DEF Inv, TypeOK, Dispatch
  <1>0. PICK e \in Execution : e = Head(queue)
    BY <1>1, TailOnce
  <1>2. /\ queue' \in Seq(Execution) /\ Once(queue')
        /\ InQueue(e)
        /\ \A x : InQueue(x)' => x # e /\ InQueue(x)
    BY <1>0, <1>1, TailOnce DEF InQueue
  <1>3. /\ Pipeline(e, request[e])
        /\ current' \in {e, NoExecution}
        /\ request' = request /\ up' = up
    BY <1>0 DEF Dispatch
  <1>4. /\ dispatched[e] = 0 /\ before[e] = NoPlan /\ e \notin running
        /\ request[e] \in Request
    BY <1>2 DEF Inv, TypeOK, PlaceOK
  <1>5. PICK s, event, n, was : Piped(e, request[e], s, event, n, was)
    BY <1>2, <1>3, <1>4, PipelineStep
  <1>6. Elsewhere(e)
    <2>1. /\ running' \in SUBSET Execution
          /\ \A x \in Execution \ {e} : x \in running' => x \in running
      BY <1>2, <1>5 DEF Inv, TypeOK, Piped
    <2>2. /\ request' \in [Execution -> Request \cup {NoRequest}]
          /\ request'[e] # NoRequest
          /\ up' \in BOOLEAN /\ current' \in Execution \cup {NoExecution}
      BY <1>2, <1>3, <1>4, ValueAssumption DEF Inv, TypeOK
    <2> QED BY <1>2, <1>3, <1>5, <2>1, <2>2 DEF Piped, Elsewhere
  <1>7. Fits(e, s, n, was)
    BY <1>2, <1>3, <1>5 DEF Piped, Fits
  <1>8. Step(e, s, event, n, was)
    BY <1>5 DEF Piped
  <1> QED BY <1>2, <1>6, <1>7, <1>8, StepKeeps

LEMMA SubmitKeeps ==
    ASSUME Inv, NEW e \in Execution, NEW r \in Request, Submit(e, r)
    PROVE  Inv'
  <1>1. /\ dispatched[e] = 0 /\ before[e] = NoPlan /\ e \notin running
        /\ ~InQueue(e)
    BY DEF Inv, PlaceOK, Submit, Fresh
  <1>2. /\ request' = [request EXCEPT ![e] = r]
        /\ Note(e, "pending", "queued")
        /\ queue' = Append(queue, e)
        /\ UNCHANGED <<dispatched, before, files, running, up, current>>
    BY DEF Submit
  <1>3. Step(e, "pending", "queued", 0, NoPlan)
    <2>1. /\ dispatched' = [dispatched EXCEPT ![e] = 0]
          /\ before' = [before EXCEPT ![e] = NoPlan]
      BY <1>1, <1>2 DEF Inv, TypeOK
    <2>2. NoPlan \in Plans /\ "pending" \in Tells["queued"]
      BY DEF Plans, Tells
    <2> QED BY <1>2, <2>1, <2>2, NoteStep
  <1>4. /\ queue' \in Seq(Execution) /\ Once(queue')
        /\ \A x : InQueue(x)' => x = e \/ InQueue(x)
    <2>1. queue \in Seq(Execution) /\ Once(queue)
      BY DEF Inv, TypeOK
    <2>2. \A i \in DOMAIN queue : queue[i] # e
      BY <1>1 DEF InQueue
    <2> QED BY <1>2, <2>1, <2>2, AppendOnce DEF InQueue
  <1>5. Elsewhere(e)
    BY <1>2, <1>4, ValueAssumption DEF Inv, TypeOK, Elsewhere
  <1>6. Fits(e, "pending", 0, NoPlan)
    BY <1>1, <1>2 DEF Fits
  <1> QED BY <1>3, <1>5, <1>6, StepKeeps

(* The steps that concern an execution known already, and only its status. *)
LEMMA NoteKeeps ==
    ASSUME Inv, NEW e \in Execution, NEW s, NEW event,
           request[e] # NoRequest, Note(e, s, event), s \in Tells[event],
           s \in {"succeeded", "failed", "timeout", "cancelled", "rolled_back"},
           event \in {"completed", "failed", "cancelled", "rolled_back"},
           UNCHANGED <<request, dispatched, before, queue, up>>,
           files' \in [Path -> Value],
           running' \in SUBSET running,
           current' \in Execution \cup {NoExecution},
           e \in running' \/ InQueue(e) => s = "cancelled",
           before[e] # NoPlan => s \in {"cancelled", "rolled_back"}
    PROVE  Inv'
  <1>1. \A x : InQueue(x)' <=> InQueue(x)
    BY DEF InQueue
  <1>2. PICK n \in {0, 1}, was \in Plans : n = dispatched[e] /\ was = before[e]
    BY DEF Inv, TypeOK, DispatchedOnce, Plans
  <1>3. Step(e, s, event, n, was)
    <2>1. /\ dispatched' = [dispatched EXCEPT ![e] = n]
          /\ before' = [before EXCEPT ![e] = was]
      BY <1>2 DEF Inv, TypeOK
    <2>2. s \in Tells[event] /\ s # "none"
      OBVIOUS
    <2>3. /\ result' = [result EXCEPT ![e] = s]
          /\ last' = [last EXCEPT ![e] = event]
      BY DEF Note
    <2> QED BY <1>2, <2>1, <2>2, <2>3 DEF Inv, TypeOK, Step, Ended
  <1>4. Elsewhere(e)
    BY <1>1 DEF Inv, TypeOK, Elsewhere
  <1>5. Fits(e, s, n, was)
    BY <1>1, <1>2 DEF Inv, PlaceOK, Fits
  <1> QED BY <1>3, <1>4, <1>5, StepKeeps

LEMMA EndCommandKeeps ==
    ASSUME Inv, NEW e \in Execution, EndCommand(e)
    PROVE  Inv'
  <1>1. /\ request[e] # NoRequest /\ before[e] = NoPlan /\ ~InQueue(e)
        /\ e \notin running' /\ running' \in SUBSET running
        /\ current' \in Execution \cup {NoExecution}
        /\ UNCHANGED <<request, dispatched, before, files, queue, up>>
    BY DEF Inv, TypeOK, PlaceOK, EndCommand
  <1>2. files' \in [Path -> Value]
    BY <1>1 DEF Inv, TypeOK
  <1>3. /\ "succeeded" \in Tells["completed"] /\ "failed" \in Tells["failed"]
        /\ "timeout" \in Tells["failed"]
    BY DEF Tells
  <1>4. \/ Note(e, "succeeded", "completed") \/ Note(e, "failed", "failed")
        \/ Note(e, "timeout", "failed")
    BY DEF EndCommand
  <1> QED BY <1>1, <1>2, <1>3, <1>4, NoteKeeps

LEMMA CancelKeeps ==
    ASSUME Inv, NEW e \in Execution, Cancel(e)
    PROVE  Inv'
  <1>1. /\ request[e] # NoRequest /\ Note(e, "cancelled", "cancelled")
        /\ UNCHANGED <<request, dispatched, before, files, running, queue, up,
                       current>>
    BY DEF Cancel, Fresh
  <1>2. /\ files' \in [Path -> Value] /\ running' \in SUBSET running
        /\ current' \in Execution \cup {NoExecution}
    BY <1>1 DEF Inv, TypeOK
  <1>3. "cancelled" \in Tells["cancelled"]
    BY DEF Tells
  <1> QED BY <1>1, <1>2, <1>3, NoteKeeps

LEMMA RollbackKeeps ==
    ASSUME Inv, NEW e \in Execution, Rollback(e)
    PROVE  Inv'
  <1>1. /\ before[e] # NoPlan /\ Note(e, "rolled_back", "rolled_back")
        /\ files' = Undone(request[e], before[e], files)
        /\ UNCHANGED <<request, dispatched, before, running, queue, up, current>>
    BY DEF Rollback
  <1>2. /\ request[e] \in Request /\ before[e] \in [Path -> Value]
        /\ files \in [Path -> Value]
        /\ request[e].action \in FileAction \cup DirAction
        /\ request[e] # NoRequest
        /\ e \notin running /\ ~InQueue(e)
    BY <1>1 DEF Inv, TypeOK, PlaceOK
  <1>3. files' \in [Path -> Value]
    BY <1>1, <1>2, UndoneTypes
  <1>4. /\ running' \in SUBSET running /\ e \notin running'
        /\ current' \in Execution \cup {NoExecution}
    BY <1>1, <1>2 DEF Inv, TypeOK
  <1>5. "rolled_back" \in Tells["rolled_back"]
    BY DEF Tells
  <1> QED BY <1>1, <1>2, <1>3, <1>4, <1>5, NoteKeeps

(* The steps that touch no execution's record.                             *)
Silent ==
    \/ Start \/ Stop \/ UNCHANGED vars
    \/ \E e \in Execution : CallerCancelled(e) \/ RollbackFails(e)

LEMMA LoopKeeps ==
    ASSUME Inv, Silent
    PROVE  Inv'
  <1>0. ASSUME NEW e \in Execution, RollbackFails(e)
        PROVE  files' \in [Path -> Value]
    <2>1. request[e] \in Request
      BY <1>0 DEF Inv, TypeOK, PlaceOK, RollbackFails
    <2>2. request[e].path \in Path /\ Empty \in Value
      BY <2>1, RequestTypes DEF Value
    <2> QED BY <1>0, <2>2 DEF Inv, TypeOK, RollbackFails
  <1>1. /\ UNCHANGED <<request, result, last, dispatched, before, queue>>
        /\ running' \in SUBSET running /\ up' \in BOOLEAN
        /\ current' \in Execution \cup {NoExecution}
        /\ files' \in [Path -> Value]
    BY <1>0 DEF Silent, Inv, TypeOK, Start, Stop, CallerCancelled, RollbackFails, vars
  <1>2. \A x : InQueue(x)' <=> InQueue(x)
    BY <1>1 DEF InQueue
  <1>3. TypeOK'
    BY <1>1 DEF Inv, TypeOK
  <1>4. Once(queue)' /\ AuditAgrees' /\ DispatchedOnce'
    BY <1>1 DEF Inv, AuditAgrees, DispatchedOnce, Tells
  <1>5. PlaceOK'
    <2> SUFFICES ASSUME NEW x \in Execution
                 PROVE  /\ InQueue(x)' =>
                             /\ result[x] \in {"pending", "cancelled"}
                             /\ dispatched[x] = 0
                             /\ x \notin running'
                             /\ before[x] = NoPlan
                        /\ x \in running' =>
                             /\ result[x] \in {"running", "cancelled"}
                             /\ before[x] = NoPlan
                        /\ before[x] # NoPlan =>
                             /\ result[x] \in {"succeeded", "rolled_back",
                                               "cancelled"}
                             /\ request[x].action \in FileAction \cup DirAction
                        /\ request[x] = NoRequest =>
                             /\ dispatched[x] = 0 /\ before[x] = NoPlan
                             /\ x \notin running' /\ ~InQueue(x)'
      BY <1>1 DEF PlaceOK
    <2> QED BY <1>1, <1>2 DEF Inv, PlaceOK
  <1> QED BY <1>3, <1>4, <1>5 DEF Inv

-----------------------------------------------------------------------------
(* The theorems.                                                           *)

LEMMA InitInv == Init => Inv
  <1> SUFFICES ASSUME Init PROVE Inv
    OBVIOUS
  <1>1. <<>> \in Seq(Execution) /\ DOMAIN <<>> = {}
    BY EmptySeq
  <1>2. TypeOK
    BY <1>1 DEF Init, TypeOK
  <1>3. Once(queue) /\ \A e : ~InQueue(e)
    BY <1>1 DEF Init, Once, InQueue
  <1>4. PlaceOK
    BY <1>3 DEF Init, PlaceOK
  <1>5. AuditAgrees /\ DispatchedOnce
    BY DEF Init, AuditAgrees, DispatchedOnce, Tells
  <1> QED BY <1>2, <1>3, <1>4, <1>5 DEF Inv

LEMMA StepInv == Inv /\ [Next]_vars => Inv'
  <1> SUFFICES ASSUME Inv, [Next]_vars PROVE Inv'
    OBVIOUS
  <1>1. ASSUME NEW e \in Execution, NEW r \in Request,
               Execute(e, r) \/ Submit(e, r)
        PROVE  Inv'
    BY <1>1, ExecuteKeeps, SubmitKeeps
  <1>2. ASSUME NEW e \in Execution, NEW new \in Execution, Replay(e, new)
        PROVE  Inv'
    <2>1. request[e] \in Request
      BY <1>2 DEF Inv, TypeOK, Replay, Fresh
    <2> QED BY <1>2, <2>1, ExecuteKeeps DEF Replay
  <1>3. CASE Dispatch
    BY <1>3, DispatchKeeps
  <1>4. ASSUME NEW e \in Execution, EndCommand(e) \/ Cancel(e) \/ Rollback(e)
        PROVE  Inv'
    BY <1>4, EndCommandKeeps, CancelKeeps, RollbackKeeps
  <1>5. CASE Silent
    BY <1>5, LoopKeeps
  <1> QED BY <1>1, <1>2, <1>3, <1>4, <1>5 DEF Next, Silent

LEMMA Invariant == Spec => []Inv
  BY InitInv, StepInv, PTL DEF Spec

(* The state is well typed, whatever the handlers do to the paths.         *)
THEOREM TypeCorrect == Spec => []TypeOK
  <1>1. Inv => TypeOK
    BY DEF Inv
  <1> QED BY <1>1, Invariant, PTL

(* The last audit entry about an execution tells its status                *)
(* (manager.py:111, 155, 328, 455).                                        *)
THEOREM AuditCorrect == Spec => []AuditAgrees
  <1>1. Inv => AuditAgrees
    BY DEF Inv
  <1> QED BY <1>1, Invariant, PTL

(* No request is executed twice (manager.py:419, 484).                     *)
THEOREM DispatchCorrect == Spec => []DispatchedOnce
  <1>1. Inv => DispatchedOnce
    BY DEF Inv
  <1> QED BY <1>1, Invariant, PTL

-----------------------------------------------------------------------------
(* The pipeline and the operations write the status of one execution, and  *)
(* of one that has no outcome yet, but for a rollback.                     *)
Outcomes ==
    \A e \in Execution : result[e] \in Ended =>
        \/ result'[e] = result[e]
        \/ result[e] = "succeeded" /\ Rollback(e)

LEMMA OneStatusKeeps ==
    ASSUME Inv, NEW x \in Execution, result[x] \notin Ended,
           NEW s, result' = [result EXCEPT ![x] = s]
    PROVE  Outcomes
  BY DEF Inv, TypeOK, Outcomes

LEMMA PipelineStatus ==
    ASSUME NEW x \in Execution, NEW r \in Request, Pipeline(x, r)
    PROVE  \E s : result' = [result EXCEPT ![x] = s]
  BY DEF Pipeline, Refuse, SetupFails, Waits, FailsAtOnce, Handles, Note

LEMMA StepOutcomes == Inv /\ [Next]_vars => Outcomes
  <1> SUFFICES ASSUME Inv, [Next]_vars PROVE Outcomes
    OBVIOUS
  <1>1. ASSUME NEW x \in Execution, NEW r \in Request, Execute(x, r)
        PROVE  Outcomes
    <2>1. result[x] \notin Ended
      BY <1>1 DEF Inv, TypeOK, Execute, Fresh, Ended
    <2> QED BY <1>1, <2>1, PipelineStatus, OneStatusKeeps DEF Execute
  <1>2. ASSUME NEW x \in Execution, NEW r \in Request, Submit(x, r)
        PROVE  Outcomes
    <2>1. result[x] \notin Ended
      BY <1>2 DEF Inv, TypeOK, Submit, Fresh, Ended
    <2> QED BY <1>2, <2>1, OneStatusKeeps DEF Submit, Note
  <1>3. ASSUME NEW e \in Execution, NEW x \in Execution, Replay(e, x)
        PROVE  Outcomes
    <2>1. request[e] \in Request
      BY <1>3 DEF Inv, TypeOK, Replay, Fresh
    <2> QED BY <1>1, <1>3, <2>1 DEF Replay
  <1>4. CASE Dispatch
    <2>1. queue \in Seq(Execution) /\ Once(queue) /\ queue # <<>>
      BY <1>4 DEF Inv, TypeOK, Dispatch
    <2>2. PICK x \in Execution : x = Head(queue)
      BY <2>1, TailOnce
    <2>3. InQueue(x) /\ Pipeline(x, request[x])
      BY <1>4, <2>1, <2>2, TailOnce DEF InQueue, Dispatch
    <2>4. result[x] \notin Ended /\ request[x] \in Request
      BY <2>3 DEF Inv, TypeOK, PlaceOK, Ended
    <2> QED BY <2>3, <2>4, PipelineStatus, OneStatusKeeps
  <1>5. ASSUME NEW x \in Execution, EndCommand(x)
        PROVE  Outcomes
    <2>1. result[x] \notin Ended
      BY <1>5 DEF Inv, PlaceOK, EndCommand, Ended
    <2> QED BY <1>5, <2>1, OneStatusKeeps DEF EndCommand, Note
  <1>6. ASSUME NEW x \in Execution, Cancel(x)
        PROVE  Outcomes
    BY <1>6, OneStatusKeeps DEF Cancel, Note
  <1>7. ASSUME NEW x \in Execution, Rollback(x)
        PROVE  Outcomes
    <2>1. result[x] \in Ended => result[x] = "succeeded"
      BY <1>7 DEF Inv, PlaceOK, Rollback, Ended
    <2>2. \A e \in Execution \ {x} : result'[e] = result[e]
      BY <1>7 DEF Inv, TypeOK, Rollback, Note
    <2> QED BY <1>7, <2>1, <2>2 DEF Outcomes
  <1>8. CASE Silent
    BY <1>8 DEF Silent, Start, Stop, CallerCancelled, RollbackFails, vars, Outcomes
  <1> QED BY <1>1, <1>2, <1>3, <1>4, <1>5, <1>6, <1>7, <1>8 DEF Next, Silent

(* The outcome of an execution is not lost: neither a late result, nor a   *)
(* cancel, nor the dispatcher writes over it (manager.py:149, 328, 455).   *)
THEOREM OutcomeCorrect == Spec => OutcomeKept
  <1>1. Inv /\ [Next]_vars =>
          [\A e \in Execution : result[e] \in Ended =>
             \/ result'[e] = result[e]
             \/ result[e] = "succeeded" /\ Rollback(e)]_vars
    BY StepOutcomes DEF Outcomes
  <1> QED BY <1>1, Invariant, PTL DEF Spec, OutcomeKept
=============================================================================
