---------------------------- MODULE ApprovalEngine ----------------------------
(***************************************************************************)
(* ProductionApprovalEngine of services/execution/approval_engine.py:      *)
(* executions ask for approvals and await the decision, operators approve, *)
(* reject and list them, and three pieces of code expire them: a late      *)
(* approve, get_pending and the timeout of a waiting execution.            *)
(*                                                                         *)
(* Every method is one "async with self._lock" block that awaits nothing,  *)
(* so it is one step.  await_decision is five: its beginning, the timer of *)
(* wait_for, a cancellation, and the two ways the task goes on.  The timer *)
(* cancels the task, which cancels the future it awaits; the task itself   *)
(* runs later, and other tasks may run in between.                         *)
(***************************************************************************)
EXTENDS Integers, FiniteSets, SequencesExt

CONSTANTS Approval, \* approval ids
          Order,    \* the ids in the order of the requests
          Waiter,   \* calls of await_decision
          Required, \* approvals needed, by the risk level of the request
          NoApproval

ASSUME OrderAssumption ==
    /\ IsFiniteSet(Approval)
    /\ Order \in Seq(Approval)
    /\ \A i, j \in DOMAIN Order : Order[i] = Order[j] => i = j
    /\ \A a \in Approval : \E i \in DOMAIN Order : Order[i] = a

ASSUME RequiredAssumption == Required \in [Approval -> Nat \ {0}]

Outcome == {"open", "cancelled"}

ASSUME ApprovalAssumption ==
    NoApproval \notin Approval /\ Approval \cap Outcome = {}

VARIABLES status,   \* ApprovalRequest.status, "none" before the request
          pending,  \* the keys of _pending
          received, \* the length of _approvals_received
          future,   \* _futures: open, cancelled or the record it holds
          history,  \* _history
          overdue,  \* approvals past expires_at
          at,       \* where an await_decision is
          on,       \* the approval it is about
          got       \* the record it returned

waitVars == <<at, on, got>>
approvalVars == <<status, pending, received, future, history, overdue, waitVars>>

Decided == {"approved", "rejected", "expired"}

ApprovalTypeOK ==
    /\ status \in [Approval -> {"none", "pending"} \cup Decided]
    /\ pending \in SUBSET Approval
    /\ received \in [Approval -> Nat]
    /\ future \in [Approval -> Outcome \cup Approval]
    /\ history \in Seq(Approval)
    /\ overdue \in SUBSET Approval
    /\ at \in [Waiter -> {"idle", "waiting", "timing out", "returned",
                          "cancelled", "interrupted", "not found"}]
    /\ on \in [Waiter -> Approval \cup {NoApproval}]
    /\ got \in [Waiter -> Approval \cup {NoApproval}]
    /\ \A w \in Waiter : at[w] = "returned" => got[w] \in Approval

ApprovalInit ==
    /\ status = [a \in Approval |-> "none"]
    /\ pending = {}
    /\ received = [a \in Approval |-> 0]
    /\ future = [a \in Approval |-> "open"]
    /\ history = <<>>
    /\ overdue = {}
    /\ at = [w \in Waiter |-> "idle"]
    /\ on = [w \in Waiter |-> NoApproval]
    /\ got = [w \in Waiter |-> NoApproval]

Before(a, b) ==
    \E i, j \in DOMAIN Order : i < j /\ Order[i] = a /\ Order[j] = b

RequestApproval(a) ==
    /\ status[a] = "none"
    /\ \A b \in Approval : Before(b, a) => status[b] # "none"
    /\ status' = [status EXCEPT ![a] = "pending"]
    /\ pending' = pending \cup {a}
    /\ UNCHANGED <<received, future, history, overdue, waitVars>>

(* The clock passes expires_at.                                            *)
Elapse(a) ==
    /\ a \in pending
    /\ a \notin overdue
    /\ overdue' = overdue \cup {a}
    /\ UNCHANGED <<status, pending, received, future, history, waitVars>>

(* "if ... and not self._futures[approval_id].done(): set_result"          *)
Resolve(a) ==
    future' = IF future[a] = "open" THEN [future EXCEPT ![a] = a] ELSE future

\* Mutant: the future is not resolved.
DecideSilently(a, verdict) ==
    /\ status' = [status EXCEPT ![a] = verdict]
    /\ history' = Append(history, a)
    /\ pending' = pending \ {a}
    /\ UNCHANGED <<future, overdue, waitVars>>

(* The end of an approval: its status, the history, _pending, the future.  *)
Decide(a, verdict) ==
    /\ status' = [status EXCEPT ![a] = verdict]
    /\ history' = Append(history, a)
    /\ pending' = pending \ {a}
    /\ Resolve(a)
    /\ UNCHANGED <<overdue, waitVars>>

(* approve, of a request that is past its time, whatever the role.         *)
ApproveLate(a) ==
    /\ a \in pending
    /\ a \in overdue
    /\ Decide(a, "expired")
    /\ UNCHANGED received

(* approve, by somebody whose role suffices.  _approvals_received is only  *)
(* counted: nobody asks who the approvers were.                            *)
Approve(a) ==
    /\ a \in pending
    /\ a \notin overdue
    /\ IF received[a] + 1 >= Required[a]
       THEN /\ Decide(a, "approved")
            /\ received' = [received EXCEPT ![a] = 0]
       ELSE /\ received' = [received EXCEPT ![a] = @ + 1]
            /\ UNCHANGED <<status, pending, future, history, overdue,
                           waitVars>>

Reject(a) ==
    /\ a \in pending
    /\ Decide(a, "rejected")
    /\ received' = [received EXCEPT ![a] = 0]

(* cancel: the execution was cancelled.                                    *)
CancelApproval(a) ==
    /\ a \in pending
    /\ Decide(a, "expired")
    /\ received' = [received EXCEPT ![a] = 0]

(* The elements of S in the order of the requests: one sequence.           *)
Listings(S) ==
    {q \in [1..Cardinality(S) -> S] :
        /\ \A a \in S : \E i \in DOMAIN q : q[i] = a
        /\ \A i, j \in DOMAIN q : i < j => Before(q[i], q[j])}

\* Mutant: the futures take the first record of the history.
GetPendingFirst ==
    /\ pending \cap overdue # {}
    /\ LET expired == pending \cap overdue
       IN  \E q \in Listings(expired) :
             /\ status' = [a \in Approval |->
                             IF a \in expired THEN "expired" ELSE status[a]]
             /\ history' = history \o q
             /\ pending' = pending \ expired
             /\ received' = [a \in Approval |->
                               IF a \in expired THEN 0 ELSE received[a]]
             /\ future' = [a \in Approval |->
                             IF a \in expired /\ future[a] = "open"
                             THEN Head(history') ELSE future[a]]
    /\ UNCHANGED <<overdue, waitVars>>

(* get_pending first expires what is past its time, in the order of the    *)
(* requests, and then resolves every future with _history[-1].             *)
GetPending ==
    /\ pending \cap overdue # {}
    /\ LET expired == pending \cap overdue
       IN  \E q \in Listings(expired) :
             /\ status' = [a \in Approval |->
                             IF a \in expired THEN "expired" ELSE status[a]]
             /\ history' = history \o q
             /\ pending' = pending \ expired
             /\ received' = [a \in Approval |->
                               IF a \in expired THEN 0 ELSE received[a]]
             /\ future' = [a \in Approval |->
                             IF a \in expired /\ future[a] = "open"
                             THEN Last(history') ELSE future[a]]
    /\ UNCHANGED <<overdue, waitVars>>

-----------------------------------------------------------------------------
(* await_decision                                                          *)

At(w, where) == at' = [at EXCEPT ![w] = where]

Return(w, a) == At(w, "returned") /\ got' = [got EXCEPT ![w] = a]

AwaitDecision(w, a) ==
    /\ at[w] = "idle"
    /\ status[a] # "none"
    /\ At(w, "waiting")
    /\ on' = [on EXCEPT ![w] = a]
    /\ UNCHANGED <<status, pending, received, future, history, overdue, got>>

(* The timeout of wait_for; timeout_s may be shorter than the request's.   *)
(* The future may be done already and the task not yet resumed.            *)
Timeout(w) ==
    /\ at[w] = "waiting"
    /\ At(w, "timing out")
    /\ future' = IF future[on[w]] = "open"
                 THEN [future EXCEPT ![on[w]] = "cancelled"] ELSE future
    /\ UNCHANGED <<status, pending, received, history, overdue, on, got>>

(* The waiting task is cancelled from outside, and wait_for cancels the    *)
(* future with it; a second cancel outweighs the timer's.                  *)
Interrupt(w) ==
    /\ at[w] \in {"waiting", "timing out"}
    /\ At(w, "interrupted")
    /\ future' = IF future[on[w]] = "open"
                 THEN [future EXCEPT ![on[w]] = "cancelled"] ELSE future
    /\ UNCHANGED <<status, pending, received, history, overdue, on, got>>

(* The task goes on with the future's result, or with the cancellation     *)
(* that another waiter's timer or end gave the future.                     *)
Resume(w) ==
    /\ at[w] = "waiting"
    /\ future[on[w]] # "open"
    /\ IF future[on[w]] = "cancelled"
       THEN At(w, "cancelled") /\ UNCHANGED got
       ELSE Return(w, future[on[w]])
    /\ UNCHANGED <<status, pending, received, future, history, overdue, on>>

\* Mutant: the request is expired without a look at _pending.
ExpireUnchecked(w) ==
    /\ at[w] = "timing out"
    /\ status' = [status EXCEPT ![on[w]] = "expired"]
    /\ history' = Append(history, on[w])
    /\ pending' = pending \ {on[w]}
    /\ Resolve(on[w])
    /\ Return(w, on[w])
    /\ UNCHANGED <<received, overdue, on>>

(* except TimeoutError: expire the request ...                             *)
Expire(w) ==
    /\ at[w] = "timing out"
    /\ on[w] \in pending
    /\ status' = [status EXCEPT ![on[w]] = "expired"]
    /\ history' = Append(history, on[w])
    /\ pending' = pending \ {on[w]}
    /\ Resolve(on[w])
    /\ Return(w, on[w])
    /\ UNCHANGED <<received, overdue, on>>

(* ... or find the decision that was made since the timer.                 *)
FindDecision(w) ==
    /\ at[w] = "timing out"
    /\ on[w] \notin pending
    /\ IF on[w] \in ToSet(history)
       THEN Return(w, on[w])
       ELSE At(w, "not found") /\ UNCHANGED got
    /\ UNCHANGED <<status, pending, received, future, history, overdue, on>>

ApprovalNext ==
    \/ \E a \in Approval :
         \/ RequestApproval(a) \/ Elapse(a)
         \/ ApproveLate(a) \/ Approve(a) \/ Reject(a) \/ CancelApproval(a)
    \/ GetPending
    \/ \E w \in Waiter : \E a \in Approval : AwaitDecision(w, a)
    \/ \E w \in Waiter :
         \/ Timeout(w) \/ Interrupt(w)
         \/ Resume(w) \/ Expire(w) \/ FindDecision(w)

ApprovalSpec == ApprovalInit /\ [][ApprovalNext]_approvalVars

(* The event loop runs the tasks that are ready.  Nothing is assumed of    *)
(* the timers.                                                             *)
ApprovalFairness ==
    \A w \in Waiter :
        WF_approvalVars(Resume(w)) /\ WF_approvalVars(Expire(w) \/ FindDecision(w))

ApprovalFairSpec == ApprovalSpec /\ ApprovalFairness
-----------------------------------------------------------------------------
Entries(h, a) == {i \in DOMAIN h : h[i] = a}

(* An approval ends once: its verdict is final and it enters the history   *)
(* once, whichever of the six ways to end it race (approval_engine.py:184, *)
(* 213, 270, 286, 304).                                                    *)
VerdictFinal ==
    [][\A a \in Approval : status[a] \in Decided =>
         /\ status'[a] = status[a]
         /\ Entries(history', a) = Entries(history, a)]_approvalVars

(* What closes a future before the decision.                               *)
Closing(w, a) == on[w] = a /\ at[w] \in {"timing out", "interrupted"}

(* No decision leaves its waiters behind: the future of an approval is     *)
(* open exactly as long as the approval is, except that a waiter closes it *)
(* whose timer has gone off, which then expires the approval, or whose     *)
(* task was cancelled.  And what waits nowhere is in the history           *)
(* (approval_engine.py:180, 190, 221, 250, 279, 313).                      *)
FutureFollowsDecision ==
    \A a \in Approval :
        /\ status[a] \in Decided => future[a] # "open" /\ a \in ToSet(history)
        /\ a \in pending <=> status[a] = "pending"
        /\ a \in pending /\ future[a] # "open" =>
             \E w \in Waiter : Closing(w, a)

(* Whatever record a waiter is given, it is decided and has the verdict of *)
(* the approval it asked about, for good.                                  *)
VerdictReachesWaiter ==
    \A w \in Waiter :
        /\ at[w] = "returned" => /\ status[on[w]] \in Decided
                                 /\ status[got[w]] = status[on[w]]
        /\ at[w] # "not found"

(* A decision reaches everyone who awaits it without waiting for a timer,  *)
(* unless its task is cancelled, or another waiter's timeout or cancelled  *)
(* task cancels the future they share (approval_engine.py:180).            *)
DecisionReturns ==
    \A w \in Waiter :
        at[w] = "waiting" /\ status[on[w]] \in Decided
        ~> at[w] \in {"returned", "cancelled", "interrupted"}
=============================================================================
