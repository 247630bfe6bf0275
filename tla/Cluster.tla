------------------------------- MODULE Cluster -------------------------------
(***************************************************************************)
(* The distributed cluster: a NodeRegistry whose background check ages the *)
(* nodes' heartbeats, and the ClusterManager that dispatches a task to one *)
(* of its nodes or runs it locally.                                        *)
(*                                                                         *)
(* Both keep their state in memory behind asyncio locks that no await      *)
(* holds, but for that of the status callback, which is not modelled.  So  *)
(* each operation is one step; an execution suspends while the call to the *)
(* node (or the local executor) runs.                                      *)
(***************************************************************************)
EXTENDS Naturals

CONSTANTS
  Nodes,             \* node ids
  NoNode,            \* no target chosen
  Local,             \* the manager's own node id, or NoNode
  HasExecutor,       \* was the manager given a local executor?
  Dispatches,        \* dispatch ids
  Loads,             \* what a node reports as its number of active tasks
  HeartbeatTimeout, OfflineTimeout, CheckInterval,
  MaxAge             \* bound: ages are not told apart beyond it

ASSUME TimesAssumption ==
  /\ Loads \subseteq Nat /\ Loads # {}
  /\ {HeartbeatTimeout, OfflineTimeout, CheckInterval, MaxAge} \subseteq Nat
  /\ HeartbeatTimeout + CheckInterval < MaxAge /\ OfflineTimeout < MaxAge
ASSUME NodesAssumption == NoNode \notin Nodes /\ Local \in Nodes \cup {NoNode}

NodeStatus == {"online", "offline", "draining", "unhealthy"}
Outcomes   == {"completed", "failed", "timed_out"}

VARIABLES
  registered,  \* the ids in NodeRegistry._nodes
  node,        \* their NodeRecord
  checking,    \* does the heartbeat loop run?
  sinceCheck,  \* time since its last round
  unchecked,   \* history: nodes a round has not looked at since their status
               \* was set by hand or the loop was stopped
  status,      \* DispatchHandle.status, "none" before dispatch()
  target,      \* DispatchHandle.target_node_id
  task,        \* its _execute task: "none", "created" or "calling"
  answer       \* history: the outcome await_result last returned for it

nodeVars == <<registered, node, checking, sinceCheck, unchecked>>
dispatchVars == <<status, target, task, answer>>
clusterVars == <<nodeVars, dispatchVars>>

NodeRecord == [status : NodeStatus, age : 0..MaxAge, load : Loads, serves : BOOLEAN]

ClusterTypeOK ==
  /\ registered \subseteq Nodes /\ unchecked \subseteq registered
  /\ node \in [Nodes -> NodeRecord]
  /\ checking \in BOOLEAN /\ sinceCheck \in 0..CheckInterval
  /\ status \in [Dispatches -> Outcomes \cup
                   {"none", "pending", "running", "cancelled", "node_unavailable"}]
  /\ target \in [Dispatches -> Nodes \cup {NoNode}]
  /\ task \in [Dispatches -> {"none", "created", "calling"}]
  /\ answer \in [Dispatches -> Outcomes \cup {"none"}]

Fresh(s, l) == [status |-> "online", age |-> 0, load |-> l, serves |-> s]
IdleLoad == CHOOSE l \in Loads : \A k \in Loads : l <= k

ClusterInit ==
  /\ registered = {} /\ unchecked = {}
  /\ node = [n \in Nodes |-> Fresh(FALSE, IdleLoad)]
  /\ checking = FALSE /\ sinceCheck = 0
  /\ status = [d \in Dispatches |-> "none"]
  /\ target = [d \in Dispatches |-> NoNode]
  /\ task = [d \in Dispatches |-> "none"]
  /\ answer = [d \in Dispatches |-> "none"]

-----------------------------------------------------------------------------
(* The registry. *)

RegisterNode(n, s) ==
  /\ n \notin registered
  /\ registered' = registered \cup {n}
  /\ node' = [node EXCEPT ![n] = Fresh(s, IdleLoad)]
  /\ unchecked' = IF checking THEN unchecked ELSE unchecked \cup {n}
  /\ UNCHANGED <<checking, sinceCheck, dispatchVars>>

Deregister(n) ==
  /\ n \in registered
  /\ registered' = registered \ {n}
  /\ node' = [node EXCEPT ![n] = Fresh(FALSE, IdleLoad)]
  /\ unchecked' = unchecked \ {n}
  /\ UNCHANGED <<checking, sinceCheck, dispatchVars>>

\* Brings an unhealthy node back, but neither an offline nor a draining one.
Heartbeat(n, l) ==
  /\ n \in registered
  /\ node' = [node EXCEPT ![n].age = 0, ![n].load = l,
                ![n].status = IF @ = "unhealthy" THEN "online" ELSE @]
  /\ UNCHANGED <<registered, checking, sinceCheck, unchecked, dispatchVars>>

SetStatus(n, s) ==
  /\ n \in registered
  /\ node' = [node EXCEPT ![n].status = s]
  /\ unchecked' = unchecked \cup {n}
  /\ UNCHANGED <<registered, checking, sinceCheck, dispatchVars>>

\* Mutant: only the longer timeout is looked at.
CheckedForOffline(r) == IF r.age > OfflineTimeout THEN [r EXCEPT !.status = "offline"] ELSE r

Checked(r) ==
  IF r.age > OfflineTimeout THEN [r EXCEPT !.status = "offline"]
  ELSE IF r.age > HeartbeatTimeout /\ r.status = "online"
    THEN [r EXCEPT !.status = "unhealthy"] ELSE r

CheckHeartbeats ==
  /\ checking /\ sinceCheck = CheckInterval
  /\ sinceCheck' = 0
  /\ node' = [n \in Nodes |-> IF n \in registered THEN Checked(node[n]) ELSE node[n]]
  /\ unchecked' = {}
  /\ UNCHANGED <<registered, checking, dispatchVars>>

Start ==
  /\ ~checking /\ checking' = TRUE
  /\ sinceCheck' = 0
  /\ UNCHANGED <<registered, node, unchecked, dispatchVars>>

Stop ==
  /\ checking /\ checking' = FALSE
  /\ sinceCheck' = 0
  /\ unchecked' = registered
  /\ UNCHANGED <<registered, node, dispatchVars>>

\* Time passes; the loop's sleep ends on time (the event loop is not blocked).
Tick ==
  /\ checking => sinceCheck < CheckInterval
  /\ sinceCheck' = IF checking THEN sinceCheck + 1 ELSE 0
  /\ node' = [n \in Nodes |-> IF n \in registered /\ node[n].age < MaxAge
                                THEN [node[n] EXCEPT !.age = @ + 1] ELSE node[n]]
  /\ UNCHANGED <<registered, checking, unchecked, dispatchVars>>

-----------------------------------------------------------------------------
(* The manager. *)

Serving == {n \in registered : node[n].serves}

IsLocal(n) == HasExecutor /\ n = Local

\* select_node(least_loaded); which of the equally loaded is left open.
Candidates ==
  LET online == {n \in Serving : node[n].status = "online"}
  IN  {n \in online : \A o \in online : node[n].load <= node[o].load}

\* The targets dispatch() may settle on when the caller names none: its own
\* node first, whatever its status.
Routed == IF \E n \in Serving : IsLocal(n) THEN {Local}
          ELSE IF Candidates = {} THEN {NoNode} ELSE Candidates

\* named is the caller's target_node_id, registered or not.
Dispatch(d, named) ==
  /\ status[d] = "none"
  /\ \E n \in (IF named = NoNode THEN Routed ELSE {named}) :
       /\ target' = [target EXCEPT ![d] = n]
       /\ status' = [status EXCEPT ![d] = IF n = NoNode THEN "node_unavailable" ELSE "pending"]
       /\ task' = [task EXCEPT ![d] = IF n = NoNode THEN "none" ELSE "created"]
  /\ UNCHANGED <<nodeVars, answer>>

\* Mutant: a node that is gone ends the task without a word.
ExecuteSilently(d) ==
  /\ task[d] = "created"
  /\ IF IsLocal(target[d]) \/ target[d] \in registered
       THEN /\ status' = [status EXCEPT ![d] = "running"]
            /\ task' = [task EXCEPT ![d] = "calling"]
       ELSE /\ task' = [task EXCEPT ![d] = "none"]
            /\ UNCHANGED status
  /\ UNCHANGED <<nodeVars, target, answer>>

\* _execute up to the call: RUNNING even over CANCELLED; FAILED for a node
\* that is not registered any more.
Execute(d) ==
  /\ task[d] = "created"
  /\ IF IsLocal(target[d]) \/ target[d] \in registered
       THEN /\ status' = [status EXCEPT ![d] = "running"]
            /\ task' = [task EXCEPT ![d] = "calling"]
       ELSE /\ status' = [status EXCEPT ![d] = "failed"]
            /\ task' = [task EXCEPT ![d] = "none"]
  /\ UNCHANGED <<nodeVars, target, answer>>

\* The call returns, raises or exceeds wait_for's timeout.
Settle(d, outcome) ==
  /\ task[d] = "calling"
  /\ status' = [status EXCEPT ![d] = outcome]
  /\ task' = [task EXCEPT ![d] = "none"]
  /\ UNCHANGED <<nodeVars, target, answer>>

\* The call raises CancelledError, which is no Exception: nothing is written.
CallCut(d) ==
  /\ task[d] = "calling"
  /\ task' = [task EXCEPT ![d] = "none"]
  /\ UNCHANGED <<nodeVars, status, target, answer>>

\* Mutant: a timeout does not count as an end.
CancelTimedOut(d) ==
  /\ status[d] \in {"pending", "running", "node_unavailable", "timed_out"}
  /\ status' = [status EXCEPT ![d] = "cancelled"]
  /\ UNCHANGED <<nodeVars, target, task, answer>>

Cancel(d) ==
  /\ status[d] \in {"pending", "running", "node_unavailable"}
  /\ status' = [status EXCEPT ![d] = "cancelled"]
  /\ UNCHANGED <<nodeVars, target, task, answer>>

\* Mutant: the first round answers, whatever the status.
AwaitAtOnce(d) ==
  /\ status[d] # "none"
  /\ answer' = [answer EXCEPT ![d] = status[d]]
  /\ UNCHANGED <<nodeVars, status, target, task>>

\* A round of await_result's polling that finds an outcome.  CANCELLED and
\* NODE_UNAVAILABLE are answered too, and so is the caller's own timeout, but
\* none of these says that the dispatch is over.
AwaitResult(d) ==
  /\ status[d] \in Outcomes
  /\ answer' = [answer EXCEPT ![d] = status[d]]
  /\ UNCHANGED <<nodeVars, status, target, task>>

-----------------------------------------------------------------------------
ClusterNext ==
  \/ \E n \in Nodes :
       \/ \E s \in BOOLEAN : RegisterNode(n, s)
       \/ Deregister(n)
       \/ \E l \in Loads : Heartbeat(n, l)
       \/ \E s \in NodeStatus : SetStatus(n, s)
  \/ CheckHeartbeats \/ Start \/ Stop \/ Tick
  \/ \E d \in Dispatches :
       \/ \E named \in Nodes \cup {NoNode} : Dispatch(d, named)
       \/ Execute(d) \/ CallCut(d) \/ Cancel(d) \/ AwaitResult(d)
       \/ \E o \in Outcomes : Settle(d, o)

\* The event loop runs a created task; wait_for bounds the call.
Fairness == \A d \in Dispatches :
              WF_clusterVars(Execute(d)) /\ WF_clusterVars(\E o \in Outcomes : Settle(d, o))

ClusterSpec == ClusterInit /\ [][ClusterNext]_clusterVars /\ Fairness

-----------------------------------------------------------------------------
(***************************************************************************)
(* The router's view is fresh: while the heartbeat loop runs, a node it    *)
(* offers work to has been heard from within the timeout plus the time     *)
(* since the loop's last round, unless that round has not come by since    *)
(* the status was set by hand or the loop was stopped.                     *)
(***************************************************************************)
FreshOnline ==
  checking => \A n \in registered \ unchecked :
    node[n].status = "online" => node[n].age <= HeartbeatTimeout + sinceCheck

(***************************************************************************)
(* A result, failure or timeout handed to one awaiter is what every later  *)
(* awaiter gets, whatever cancellations and late calls do.                 *)
(***************************************************************************)
AnswersStand ==
  \A d \in Dispatches : answer[d] # "none" => status[d] = answer[d]

\* A call that ended without an outcome.
Abandoned(d) == /\ task[d] = "none" /\ target[d] # NoNode
                /\ status[d] \in {"running", "cancelled"}

(***************************************************************************)
(* Every dispatch that found a node ends for good, be it cancelled, be its *)
(* node gone, if its call does not raise CancelledError.                   *)
(***************************************************************************)
DispatchesEnd ==
  \A d \in Dispatches :
    [](~Abandoned(d)) =>
      (status[d] \in {"pending", "running"} ~>
         [](task[d] = "none" /\ status[d] \in Outcomes))
=============================================================================
