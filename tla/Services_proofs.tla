---------------------------- MODULE Services_proofs ----------------------------
(***************************************************************************)
(* Proofs about four services beside the orchestrator, which do not call   *)
(* one another: the cluster, the agent registry, the model router and the  *)
(* state manager on its event bus.  Each is proved for any nodes, agents,  *)
(* providers or subscribers and any limits; what they share is the         *)
(* induction below, stated of sets.                                        *)
(***************************************************************************)
EXTENDS Cluster, AgentRegistry, ModelRouter, StateManager, FiniteSetTheorems,
        SequenceTheorems, WellFoundedInduction, TLAPS

\* A set of natural numbers that is not empty has a least one.
LEMMA LeastNat ==
  ASSUME NEW S \in SUBSET Nat, S # {}
  PROVE  \E l \in S : \A m \in S : l <= m
<1>1. PICK l \in S : \A m \in S : ~(<<m, l>> \in OpToRel(<, Nat))
  BY NatLessThanWellFounded, WFMin
<1>2. \A m \in S : ~(m < l)
  BY <1>1 DEF OpToRel
<1> QED BY <1>2

\* Induction up to a bound, stated of a set instead of a predicate.
LEMMA UpTo ==
  ASSUME NEW n \in Nat, NEW S, 0 \in S, \A i \in 0 .. n - 1 : i \in S => i + 1 \in S
  PROVE  \A i \in 0 .. n : i \in S
<1> SUFFICES ASSUME (0 .. n) \ S # {} PROVE FALSE
  OBVIOUS
<1> DEFINE Rest == (0 .. n) \ S
<1>1. Rest \in SUBSET Nat /\ Rest # {}
  OBVIOUS
<1>2. \E l \in Rest : \A m \in Rest : l <= m
  BY <1>1, LeastNat
<1>3. PICK l \in (0 .. n) \ S : \A m \in (0 .. n) \ S : l <= m
  BY <1>2
<1>4. l # 0 /\ l - 1 \in 0 .. n - 1
  BY <1>3
<1>5. l - 1 \in S
  <2>1. l - 1 \in 0 .. n /\ ~(l <= l - 1)
    BY <1>3, <1>4
  <2> QED BY <1>3, <2>1
<1>6. (l - 1) + 1 \in S /\ (l - 1) + 1 = l
  BY <1>3, <1>4, <1>5
<1> QED BY <1>3, <1>6

\* h holds what v becomes in n steps; there is such a history for any steps.
IsHistory(h, n, S, v, step) ==
  h \in [0 .. n -> S] /\ h[0] = v /\ \A i \in 1 .. n : h[i] = step[i][h[i - 1]]

LEMMA StepsExist ==
  ASSUME NEW n \in Nat, NEW S, NEW v \in S, NEW step \in [1 .. n -> [S -> S]]
  PROVE  \E h : IsHistory(h, n, S, v, step)
<1> DEFINE History(k) == {h \in [0 .. k -> S] : h[0] = v /\ \A i \in 1 .. k : h[i] = step[i][h[i - 1]]}
           Long == {k \in 0 .. n : History(k) # {}}
<1>1. 0 \in Long
  <2>1. [i \in 0 .. 0 |-> v] \in History(0)
    OBVIOUS
  <2> QED BY <2>1
<1>2. ASSUME NEW k \in 0 .. n - 1, k \in Long PROVE k + 1 \in Long
  <2>1. PICK h \in [0 .. k -> S] : h[0] = v /\ \A i \in 1 .. k : h[i] = step[i][h[i - 1]]
    BY <1>2
  <2> DEFINE g == [i \in 0 .. k + 1 |-> IF i <= k THEN h[i] ELSE step[k + 1][h[k]]]
  <2>2. /\ k \in Nat /\ k + 1 \in 0 .. n /\ k + 1 \in 1 .. n
        /\ 0 .. k + 1 = (0 .. k) \cup {k + 1} /\ 1 .. k + 1 = (1 .. k) \cup {k + 1}
    OBVIOUS
  <2>3. step[k + 1][h[k]] \in S
    BY <2>1, <2>2
  <2>4. g \in [0 .. k + 1 -> S]
    BY <2>1, <2>2, <2>3
  <2>5. \A i \in 0 .. k : g[i] = h[i] /\ ~(k + 1 \in 0 .. k)
    BY <2>2
  <2>6. g[k + 1] = step[k + 1][h[k]] /\ (k + 1) - 1 = k /\ k \in 0 .. k /\ 0 \in 0 .. k
    BY <2>2
  <2>7. \A i \in 1 .. k : i - 1 \in 0 .. k /\ i \in 0 .. k
    BY <2>2
  <2> HIDE DEF g
  <2>8. g[0] = v /\ \A i \in 1 .. k + 1 : g[i] = step[i][g[i - 1]]
    BY <2>1, <2>2, <2>5, <2>6, <2>7
  <2>9. g \in History(k + 1)
    BY <2>4, <2>8
  <2> QED BY <2>2, <2>9
<1> HIDE DEF Long
<1>3. \A k \in 0 .. n - 1 : k \in Long => k + 1 \in Long
  BY <1>2
<1>4. \A k \in 0 .. n : k \in Long
  BY <1>1, <1>3, UpTo
<1>5. n \in Long
  BY <1>4
<1> QED BY <1>5 DEF Long, IsHistory

-----------------------------------------------------------------------------
(* The cluster. *)

\* A dispatch that has an outcome has no task any more, so the outcome stands;
\* what an awaiter was told is such an outcome.
DispatchInv ==
  \A d \in Dispatches :
    /\ status[d] \in Outcomes => task[d] = "none"
    /\ status[d] = "none" => task[d] = "none" /\ answer[d] = "none"
    /\ answer[d] # "none" => status[d] = answer[d]

LEMMA FreshType ==
  ASSUME NEW s \in BOOLEAN, NEW l \in Loads
  PROVE  Fresh(s, l) \in NodeRecord
BY TimesAssumption DEF Fresh, NodeRecord, NodeStatus

LEMMA IdleLoadType == IdleLoad \in Loads
<1>1. \E l \in Loads : \A k \in Loads : l <= k
  BY LeastNat, TimesAssumption
<1> QED BY <1>1 DEF IdleLoad

\* A node the check leaves online was heard from within the timeout.
LEMMA CheckedFacts ==
  ASSUME NEW r \in NodeRecord
  PROVE  /\ Checked(r) \in NodeRecord
         /\ Checked(r).status = "online" => r.age <= HeartbeatTimeout
                                            /\ Checked(r).age = r.age
         /\ Checked(r).status = "online" => Checked(r).age <= HeartbeatTimeout
BY TimesAssumption DEF Checked, NodeRecord, NodeStatus

LEMMA ClusterTypeNext == ClusterTypeOK /\ [ClusterNext]_clusterVars => ClusterTypeOK'
<1> SUFFICES ASSUME ClusterTypeOK, [ClusterNext]_clusterVars PROVE ClusterTypeOK'
  OBVIOUS
<1> USE DEF ClusterTypeOK, nodeVars, dispatchVars
<1>0. MaxAge \in Nat /\ CheckInterval \in Nat
  BY TimesAssumption
<1>1. ASSUME NEW n \in Nodes, NEW s \in BOOLEAN, RegisterNode(n, s) PROVE ClusterTypeOK'
  BY <1>1, FreshType, IdleLoadType DEF RegisterNode
<1>2. ASSUME NEW n \in Nodes, Deregister(n) PROVE ClusterTypeOK'
  BY <1>2, FreshType, IdleLoadType DEF Deregister
<1>3. ASSUME NEW n \in Nodes, NEW l \in Loads, Heartbeat(n, l) PROVE ClusterTypeOK'
  <2>1. l \in Nat /\ node[n] \in NodeRecord
    BY TimesAssumption
  <2>2. node'[n] \in NodeRecord /\ \A x \in Nodes \ {n} : node'[x] = node[x]
    <3> DEFINE s == IF node[n].status = "unhealthy" THEN "online" ELSE node[n].status
    <3>1. node'[n] = [status |-> s, age |-> 0, load |-> l, serves |-> node[n].serves]
      BY <1>3, <2>1 DEF Heartbeat, NodeRecord
    <3>2. s \in NodeStatus /\ node[n].serves \in BOOLEAN
      BY <2>1 DEF NodeRecord, NodeStatus
    <3>3. node'[n] \in NodeRecord
      BY <1>0, <3>1, <3>2 DEF NodeRecord
    <3> QED BY <1>3, <3>3 DEF Heartbeat
  <2>3. node' \in [Nodes -> NodeRecord]
    <3>1. node' = [x \in Nodes |-> node'[x]]
      BY <1>3 DEF Heartbeat
    <3>2. \A x \in Nodes : node'[x] \in NodeRecord
      BY <2>2
    <3> QED BY <3>1, <3>2
  <2> QED BY <1>3, <2>3 DEF Heartbeat
<1>4. ASSUME NEW n \in Nodes, NEW s \in NodeStatus, SetStatus(n, s) PROVE ClusterTypeOK'
  BY <1>4 DEF SetStatus, NodeRecord
<1>5. CASE CheckHeartbeats
  <2>1. \A x \in Nodes : Checked(node[x]) \in NodeRecord /\ node[x] \in NodeRecord
    BY CheckedFacts
  <2>2. node' \in [Nodes -> NodeRecord]
    BY <1>5, <2>1 DEF CheckHeartbeats
  <2>3. sinceCheck' \in 0..CheckInterval
    BY <1>0, <1>5 DEF CheckHeartbeats
  <2>4. /\ registered' \subseteq Nodes /\ unchecked' \subseteq registered'
        /\ checking' = checking
        /\ <<status, target, task, answer>>' = <<status, target, task, answer>>
    BY <1>5 DEF CheckHeartbeats
  <2> QED BY <2>2, <2>3, <2>4
<1>6. CASE Start \/ Stop
  <2>1. sinceCheck' \in 0..CheckInterval
    BY <1>0, <1>6 DEF Start, Stop
  <2>2. /\ registered' = registered /\ node' = node /\ checking' \in BOOLEAN
        /\ unchecked' \in {unchecked, registered}
        /\ <<status, target, task, answer>>' = <<status, target, task, answer>>
    BY <1>6 DEF Start, Stop
  <2> QED BY <2>1, <2>2
<1>7. CASE Tick
  BY <1>0, <1>7 DEF Tick, NodeRecord
<1>8. ASSUME NEW d \in Dispatches, NEW named \in Nodes \cup {NoNode}, Dispatch(d, named)
      PROVE  ClusterTypeOK'
  <2>1. Routed \subseteq Nodes \cup {NoNode}
    BY NodesAssumption DEF Routed, Candidates, Serving
  <2> QED BY <1>8, <2>1 DEF Dispatch
<1>9. ASSUME NEW d \in Dispatches,
             Execute(d) \/ CallCut(d) \/ Cancel(d) \/ AwaitResult(d)
      PROVE  ClusterTypeOK'
  BY <1>9 DEF Execute, CallCut, Cancel, AwaitResult, Outcomes
<1>10. ASSUME NEW d \in Dispatches, NEW o \in Outcomes, Settle(d, o) PROVE ClusterTypeOK'
  BY <1>10 DEF Settle
<1>11. CASE UNCHANGED clusterVars
  BY <1>11 DEF clusterVars
<1> QED BY <1>1, <1>2, <1>3, <1>4, <1>5, <1>6, <1>7, <1>8, <1>9, <1>10, <1>11 DEF ClusterNext

LEMMA ClusterTypeInit == ClusterInit => ClusterTypeOK
<1> SUFFICES ASSUME ClusterInit PROVE ClusterTypeOK
  OBVIOUS
<1>1. 0 \in 0..CheckInterval
  BY TimesAssumption
<1>2. node \in [Nodes -> NodeRecord]
  BY FreshType, IdleLoadType DEF ClusterInit
<1> QED BY <1>1, <1>2 DEF ClusterInit, ClusterTypeOK

LEMMA DispatchNext ==
  ClusterTypeOK /\ DispatchInv /\ [ClusterNext]_clusterVars => DispatchInv'
<1> SUFFICES ASSUME ClusterTypeOK, DispatchInv, [ClusterNext]_clusterVars
             PROVE  DispatchInv'
  OBVIOUS
<1> USE DEF ClusterTypeOK, DispatchInv, nodeVars, dispatchVars, Outcomes
<1>1. CASE UNCHANGED dispatchVars
  BY <1>1
<1>2. ASSUME NEW d \in Dispatches, NEW named, Dispatch(d, named) PROVE DispatchInv'
  BY <1>2 DEF Dispatch
<1>3. ASSUME NEW d \in Dispatches, Execute(d) PROVE DispatchInv'
  BY <1>3 DEF Execute
<1>4. ASSUME NEW d \in Dispatches, CallCut(d) \/ \E o \in Outcomes : Settle(d, o)
      PROVE  DispatchInv'
  BY <1>4 DEF Settle, CallCut
<1>5. ASSUME NEW d \in Dispatches, Cancel(d) PROVE DispatchInv'
  BY <1>5 DEF Cancel
<1>6. ASSUME NEW d \in Dispatches, AwaitResult(d) PROVE DispatchInv'
  BY <1>6 DEF AwaitResult
<1> QED
  BY <1>1, <1>2, <1>3, <1>4, <1>5, <1>6
  DEF ClusterNext, clusterVars, RegisterNode, Deregister, Heartbeat, SetStatus, CheckHeartbeats,
      Start, Stop, Tick

\* While the loop is stopped nothing counts as looked at: this is what makes
\* the first round after start() safe.
IdleInv == ~checking => registered \subseteq unchecked

LEMMA IdleNext == ClusterTypeOK /\ IdleInv /\ [ClusterNext]_clusterVars => IdleInv'
BY DEF ClusterTypeOK, IdleInv, ClusterNext, clusterVars, nodeVars, dispatchVars, RegisterNode,
       Deregister, Heartbeat, SetStatus, CheckHeartbeats, Start, Stop, Tick, Dispatch, Execute,
       Settle, CallCut, Cancel, AwaitResult

LEMMA FreshNext ==
  ClusterTypeOK /\ IdleInv /\ FreshOnline /\ [ClusterNext]_clusterVars => FreshOnline'
<1> SUFFICES ASSUME ClusterTypeOK, IdleInv, FreshOnline, [ClusterNext]_clusterVars,
                    checking', NEW m \in registered' \ unchecked',
                    node'[m].status = "online"
             PROVE  node'[m].age <= HeartbeatTimeout + sinceCheck'
  BY DEF FreshOnline
<1>a. m \in Nodes
  BY ClusterTypeNext DEF ClusterTypeOK
<1> USE DEF ClusterTypeOK, nodeVars, dispatchVars
<1>0. /\ HeartbeatTimeout \in Nat /\ MaxAge \in Nat /\ sinceCheck \in Nat
      /\ m \in Nodes /\ node[m] \in NodeRecord /\ node[m].age \in Nat
      /\ node[m].status = "online" /\ checking /\ m \in registered \ unchecked
           => node[m].age <= HeartbeatTimeout + sinceCheck
  BY TimesAssumption, <1>a DEF FreshOnline, NodeRecord
<1>1. ASSUME NEW n \in Nodes, NEW s \in BOOLEAN, RegisterNode(n, s)
      PROVE  node'[m].age <= HeartbeatTimeout + sinceCheck'
  BY <1>0, <1>1 DEF RegisterNode, Fresh
<1>2. ASSUME NEW n \in Nodes, Deregister(n)
      PROVE  node'[m].age <= HeartbeatTimeout + sinceCheck'
  BY <1>0, <1>2 DEF Deregister
<1>3. ASSUME NEW n \in Nodes, NEW l \in Loads, Heartbeat(n, l)
      PROVE  node'[m].age <= HeartbeatTimeout + sinceCheck'
  BY <1>0, <1>3 DEF Heartbeat
<1>4. ASSUME NEW n \in Nodes, NEW s \in NodeStatus, SetStatus(n, s)
      PROVE  node'[m].age <= HeartbeatTimeout + sinceCheck'
  BY <1>0, <1>4 DEF SetStatus
<1>5. ASSUME CheckHeartbeats PROVE node'[m].age <= HeartbeatTimeout + sinceCheck'
  BY <1>0, <1>5, CheckedFacts DEF CheckHeartbeats
<1>6. ASSUME Tick PROVE node'[m].age <= HeartbeatTimeout + sinceCheck'
  <2>1. /\ node'[m].age \in {node[m].age, node[m].age + 1}
        /\ node'[m].status = node[m].status
    BY <1>0, <1>6 DEF Tick, NodeRecord
  <2> QED BY <1>0, <1>6, <2>1 DEF Tick
<1>7. ASSUME UNCHANGED nodeVars PROVE node'[m].age <= HeartbeatTimeout + sinceCheck'
  BY <1>0, <1>7
\* After start() every registered node is one the loop has not looked at.
<1>8. ASSUME Start PROVE node'[m].age <= HeartbeatTimeout + sinceCheck'
  BY <1>0, <1>8 DEF Start, IdleInv
<1>9. ~Stop
  BY DEF Stop
<1> QED
  BY <1>1, <1>2, <1>3, <1>4, <1>5, <1>6, <1>7, <1>8, <1>9
  DEF ClusterNext, clusterVars, Dispatch, Execute, Settle, CallCut, Cancel, AwaitResult

\* The variables of the cluster keep their types.
THEOREM ClusterTypeCorrect == ClusterSpec => []ClusterTypeOK
<1> QED BY ClusterTypeInit, ClusterTypeNext, PTL DEF ClusterSpec

\* Once an awaiter of a dispatch has been given its outcome, the handle keeps
\* that outcome: await_result gives the same one for good.
THEOREM AnswersCorrect == ClusterSpec => []AnswersStand
<1>1. ClusterInit => DispatchInv
  BY DEF ClusterInit, DispatchInv, Outcomes
<1>2. DispatchInv => AnswersStand
  BY DEF DispatchInv, AnswersStand
<1> QED BY <1>1, <1>2, ClusterTypeCorrect, DispatchNext, PTL DEF ClusterSpec

\* While the heartbeat loop runs, a node it vouches for as online was heard
\* from within the timeout plus the time since the last round.
THEOREM FreshCorrect == ClusterSpec => []FreshOnline
<1>1. ClusterInit => IdleInv /\ FreshOnline
  BY DEF ClusterInit, IdleInv, FreshOnline
<1> QED BY <1>1, ClusterTypeCorrect, IdleNext, FreshNext, PTL DEF ClusterSpec

-----------------------------------------------------------------------------
(* The agent registry. *)

\* What the holder of the lock checked still holds when its agent answers, for
\* whoever takes no lock neither adds nor removes an agent nor a dependency.
LockInv ==
  /\ op.kind = "register" => op.agent \notin Registered /\ NoCycle(op.agent, op.deps)
  /\ op.kind \in {"reload", "report"} => op.agent \in Registered \cap reloaded

\* The heartbeat only writes to entries that are still registered.
BeatInv == beat.left \subseteq Registered /\ beat.at \in Registered \cup {Absent, Gone}

RegistryInv == RegistryTypeOK /\ LockInv /\ BeatInv

LEMMA OpFacts ==
  ASSUME RegistryTypeOK
  PROVE  /\ op.kind = "register" => /\ op.agent \in Agents /\ op.deps \in SUBSET Agents
                                    /\ op.initialize \in BOOLEAN
         /\ op.kind \in {"unregister", "reload", "report"} => op.agent \in Agents
         /\ op = Free => op.kind = "free"
         /\ op.kind \in {"free", "register", "unregister", "reload", "report"}
BY DEF RegistryTypeOK, Free

LEMMA BeatFacts ==
  ASSUME RegistryTypeOK
  PROVE  /\ beat.on \in BOOLEAN /\ beat.left \subseteq Agents
         /\ beat.at \in Agents \cup {Absent, Gone}
         /\ beat = [on |-> beat.on, left |-> beat.left, at |-> beat.at]
BY DEF RegistryTypeOK

\* A change of an entry that keeps its dependencies does not touch the graph.
LEMMA SameGraph ==
  ASSUME \A a \in Agents : /\ entry'[a] = Absent <=> entry[a] = Absent
                           /\ entry[a] # Absent => entry'[a].deps = entry[a].deps
  PROVE  /\ Registered' = Registered
         /\ Acyclic => Acyclic'
         /\ \A a \in Agents, deps \in SUBSET Agents : NoCycle(a, deps) => NoCycle(a, deps)'
<1>1. Registered' = Registered
  BY DEF Registered
<1>2. \A a \in Registered : entry'[a].deps = entry[a].deps
  BY DEF Registered
<1>3. Acyclic => Acyclic'
  BY <1>1, <1>2 DEF Acyclic
<1>4. ASSUME NEW a \in Agents, NEW deps \in SUBSET Agents, NoCycle(a, deps)
      PROVE  NoCycle(a, deps)'
  <2>1. PICK S \in SUBSET (Agents \ {a}) :
          deps \subseteq S /\ \A b \in S \cap Registered : entry[b].deps \subseteq S
    BY <1>4 DEF NoCycle
  <2>2. \A b \in S \cap Registered' : entry'[b].deps \subseteq S
    BY <1>1, <1>2, <2>1
  <2> QED BY <2>1, <2>2 DEF NoCycle
<1> QED BY <1>1, <1>3, <1>4

\* An entry changed in one field is an entry still.
LEMMA EntryFields ==
  ASSUME RegistryTypeOK, NEW a \in Registered, NEW e \in BOOLEAN, NEW h \in BOOLEAN,
         NEW caps \in SUBSET Caps
  PROVE  /\ [entry EXCEPT ![a].enabled = e] \in [Agents -> Entry \cup {Absent}]
         /\ [entry EXCEPT ![a].caps = caps] \in [Agents -> Entry \cup {Absent}]
         /\ [entry EXCEPT ![a].healthy = h] \in [Agents -> Entry \cup {Absent}]
         /\ [entry EXCEPT ![a].healthy = h, ![a].initialized = TRUE]
              \in [Agents -> Entry \cup {Absent}]
<1>1. entry[a] \in Entry /\ entry[a] # Absent /\ a \in Agents /\ Absent \notin Entry
  BY AbsentAssumption DEF RegistryTypeOK, Registered
<1>2. /\ [entry[a] EXCEPT !.enabled = e] \in Entry
      /\ [entry[a] EXCEPT !.caps = caps] \in Entry
      /\ [entry[a] EXCEPT !.healthy = h] \in Entry
      /\ [entry[a] EXCEPT !.healthy = h, !.initialized = TRUE] \in Entry
  BY <1>1 DEF Entry
<1>3. /\ [entry EXCEPT ![a].enabled = e] = [entry EXCEPT ![a] = [entry[a] EXCEPT !.enabled = e]]
      /\ [entry EXCEPT ![a].caps = caps] = [entry EXCEPT ![a] = [entry[a] EXCEPT !.caps = caps]]
      /\ [entry EXCEPT ![a].healthy = h] = [entry EXCEPT ![a] = [entry[a] EXCEPT !.healthy = h]]
      /\ [entry EXCEPT ![a].healthy = h, ![a].initialized = TRUE]
           = [entry EXCEPT ![a] = [entry[a] EXCEPT !.healthy = h, !.initialized = TRUE]]
  BY <1>1 DEF RegistryTypeOK
<1>4. \A x \in Entry : [entry EXCEPT ![a] = x] \in [Agents -> Entry \cup {Absent}]
  BY <1>1 DEF RegistryTypeOK
<1> QED BY <1>2, <1>3, <1>4

\* A step that keeps the operation, or ends it, and leaves the graph alone.
LEMMA LockKept ==
  ASSUME RegistryInv, reloaded' = reloaded, op' = op \/ op' = Free,
         \A a \in Agents : /\ entry'[a] = Absent <=> entry[a] = Absent
                           /\ entry[a] # Absent => entry'[a].deps = entry[a].deps
  PROVE  LockInv'
<1>1. CASE op' = Free
  BY <1>1 DEF LockInv, Free
<1>2. CASE op' = op
  BY <1>2, OpFacts, SameGraph DEF RegistryInv, LockInv
<1> QED BY <1>1, <1>2

LEMMA RegistryInvNext == RegistryInv /\ [RegistryNext]_registryVars => RegistryInv'
<1> SUFFICES ASSUME RegistryInv, [RegistryNext]_registryVars PROVE RegistryInv'
  OBVIOUS
<1> DEFINE Record(a, deps, initialize) ==
      [kind |-> "register", agent |-> a, deps |-> deps, initialize |-> initialize]
<1>a. Registered \subseteq Agents /\ RegistryTypeOK
  BY DEF Registered, RegistryInv
<1>b. \A a \in Registered : entry[a] \in Entry /\ entry[a] # Absent
  BY <1>a DEF RegistryTypeOK, Registered
<1>1. ASSUME NEW a \in Agents, NEW deps \in SUBSET Agents, NEW i \in BOOLEAN,
             RegisterAgent(a, deps, i)
      PROVE  RegistryInv'
  <2>1. op' = Record(a, deps, i) /\ entry' = entry
    BY <1>1 DEF RegisterAgent
  <2>2. RegistryTypeOK'
    BY <1>a, <1>1 DEF RegisterAgent, RegistryTypeOK
  <2>3. Registered' = Registered /\ NoCycle(a, deps)'
    BY <1>1, <2>1, SameGraph DEF RegisterAgent
  <2>4. LockInv'
    BY <1>1, <2>1, <2>3 DEF RegisterAgent, LockInv
  <2>5. BeatInv'
    BY <1>1, <2>3 DEF RegisterAgent, RegistryInv, BeatInv
  <2> QED BY <2>2, <2>4, <2>5 DEF RegistryInv
<1>2. ASSUME NEW caps \in SUBSET Caps, NEW h \in BOOLEAN, RegisterDone(caps, h)
      PROVE  RegistryInv'
  <2> DEFINE new == [caps |-> caps, deps |-> op.deps, enabled |-> TRUE,
                     initialized |-> op.initialize, healthy |-> op.initialize /\ h]
  <2>1. op.agent \in Agents /\ new \in Entry
    BY <1>a, <1>2, OpFacts DEF RegisterDone, Entry
  <2>2. entry' = [entry EXCEPT ![op.agent] = new] /\ beat' = beat /\ op' = Free
    BY <1>2 DEF RegisterDone
  <2>3. Registered' = Registered \cup {op.agent}
    <3>1. new # Absent
      BY <2>1, AbsentAssumption
    <3> HIDE DEF new
    <3>2. \A b \in Agents : entry'[b] = IF b = op.agent THEN new ELSE entry[b]
      BY <1>a, <2>2 DEF RegistryTypeOK
    <3> QED BY <2>1, <3>1, <3>2 DEF Registered
  <2>4. entry' \in [Agents -> Entry \cup {Absent}]
    BY <1>a, <2>1, <2>2 DEF RegistryTypeOK
  <2>5. index' \in [Caps -> SUBSET Agents] /\ reloaded' \subseteq Agents
    BY <1>a, <1>2, <2>1 DEF RegisterDone, Indexed, RegistryTypeOK
  <2> QED BY <1>a, <2>2, <2>3, <2>4, <2>5
          DEF RegistryInv, RegistryTypeOK, LockInv, BeatInv, Free
<1>3. ASSUME NEW a \in Agents, Unregister(a) PROVE RegistryInv'
  <2>1. /\ entry' = [entry EXCEPT ![a] = Absent] /\ reloaded' = reloaded
        /\ op' = [kind |-> "unregister", agent |-> a]
        /\ beat' = [on |-> beat.on, left |-> beat.left \ {a},
                    at |-> IF beat.at = a THEN Gone ELSE beat.at]
    BY <1>a, <1>3, BeatFacts DEF Unregister
  <2>2. Registered' = Registered \ {a}
    BY <1>a, <2>1 DEF Registered, RegistryTypeOK
  <2>3. index' \in [Caps -> SUBSET Agents]
    BY <1>a, <1>3 DEF Unregister, Unindexed, RegistryTypeOK
  <2>4. entry' \in [Agents -> Entry \cup {Absent}]
    BY <1>a, <2>1 DEF RegistryTypeOK
  <2>5. beat' \in [on : BOOLEAN, left : SUBSET Agents, at : Agents \cup {Absent, Gone}]
    BY <1>a, <2>1, BeatFacts
  <2>6. BeatInv'
    BY <2>1, <2>2 DEF RegistryInv, BeatInv
  <2> QED BY <1>a, <2>1, <2>3, <2>4, <2>5, <2>6 DEF RegistryInv, RegistryTypeOK, LockInv
<1>4. ASSUME NEW a \in Agents, NEW e \in BOOLEAN, SetEnabled(a, e) PROVE RegistryInv'
  <2>1. entry' \in [Agents -> Entry \cup {Absent}]
    BY <1>a, <1>4, EntryFields DEF SetEnabled
  <2>2. \A b \in Agents : /\ entry'[b] = Absent <=> entry[b] = Absent
                          /\ entry[b] # Absent => entry'[b].deps = entry[b].deps
    BY <1>a, <1>b, <1>4, <2>1, AbsentAssumption DEF SetEnabled, RegistryTypeOK, Entry
  <2>3. RegistryTypeOK'
    BY <1>a, <1>4, <2>1 DEF SetEnabled, RegistryTypeOK
  <2> QED BY <1>4, <2>2, <2>3, LockKept, SameGraph DEF SetEnabled, RegistryInv, BeatInv
<1>5. ASSUME NEW a \in Agents, Reload(a) PROVE RegistryInv'
  <2>1. RegistryTypeOK'
    BY <1>a, <1>5 DEF Reload, RegistryTypeOK
  <2> QED BY <1>a, <1>5, <2>1 DEF Reload, RegistryInv, LockInv, BeatInv, Registered
<1>6. ASSUME NEW caps \in SUBSET Caps, ReloadDiscovered(caps) PROVE RegistryInv'
  <2>0. op.agent \in Registered \cap reloaded /\ op.agent \in Agents
    BY <1>a, <1>6 DEF ReloadDiscovered, RegistryInv, LockInv
  <2>1. entry' \in [Agents -> Entry \cup {Absent}]
    BY <1>a, <1>6, <2>0, EntryFields DEF ReloadDiscovered
  <2>2. \A b \in Agents : /\ entry'[b] = Absent <=> entry[b] = Absent
                          /\ entry[b] # Absent => entry'[b].deps = entry[b].deps
    BY <1>a, <1>b, <1>6, <2>0, <2>1, AbsentAssumption
    DEF ReloadDiscovered, RegistryTypeOK, Entry
  <2>3. op' = [kind |-> "report", agent |-> op.agent]
    BY <1>a, <1>6 DEF ReloadDiscovered, RegistryTypeOK, Free
  <2>4. RegistryTypeOK'
    BY <1>a, <1>6, <2>0, <2>1, <2>3 DEF ReloadDiscovered, RegistryTypeOK
  <2>5. Registered' = Registered
    BY <2>2, SameGraph
  <2>6. LockInv'
    BY <1>6, <2>0, <2>3, <2>5 DEF ReloadDiscovered, LockInv
  <2> QED BY <1>6, <2>4, <2>5, <2>6 DEF ReloadDiscovered, RegistryInv, BeatInv
<1>7. ASSUME NEW h \in BOOLEAN, ReloadDone(h) PROVE RegistryInv'
  <2>0. op.agent \in Registered \cap reloaded /\ op.agent \in Agents
    BY <1>a, <1>7 DEF ReloadDone, RegistryInv, LockInv
  <2>1. entry' \in [Agents -> Entry \cup {Absent}]
    BY <1>a, <1>7, <2>0, EntryFields DEF ReloadDone
  <2>2. \A b \in Agents : /\ entry'[b] = Absent <=> entry[b] = Absent
                          /\ entry[b] # Absent => entry'[b].deps = entry[b].deps
    <3>1. \A b \in Agents \ {op.agent} : entry'[b] = entry[b]
      BY <1>a, <1>7, <2>0 DEF ReloadDone, RegistryTypeOK
    <3>2. entry'[op.agent] = [entry[op.agent] EXCEPT !.healthy = h, !.initialized = TRUE]
      <4> DEFINE mid == [entry EXCEPT ![op.agent].healthy = h]
      <4>1. entry' = [mid EXCEPT ![op.agent].initialized = TRUE]
        BY <1>7 DEF ReloadDone
      <4>2. mid[op.agent] = [entry[op.agent] EXCEPT !.healthy = h] /\ op.agent \in DOMAIN mid
        BY <1>a, <2>0 DEF RegistryTypeOK
      <4> HIDE DEF mid
      <4>3. entry'[op.agent] = [mid[op.agent] EXCEPT !.initialized = TRUE]
        BY <4>1, <4>2
      <4> QED BY <4>2, <4>3
    <3>3. entry'[op.agent].deps = entry[op.agent].deps /\ entry'[op.agent] \in Entry
      BY <1>b, <2>0, <3>2 DEF Entry
    <3> QED BY <1>b, <2>0, <3>1, <3>3, AbsentAssumption
  <2>3. index' \in [Caps -> SUBSET Agents]
    BY <1>a, <1>7, <2>0 DEF ReloadDone, Indexed, RegistryTypeOK
  <2>4. RegistryTypeOK'
    BY <1>a, <1>7, <2>1, <2>3 DEF ReloadDone, RegistryTypeOK
  <2> QED BY <1>7, <2>2, <2>4, LockKept, SameGraph DEF ReloadDone, RegistryInv, BeatInv
<1>8. ASSUME RegisterFailed \/ UnregisterDone \/ ReloadFailed PROVE RegistryInv'
  <2>1. /\ op' = Free /\ entry' = entry /\ beat' = beat
        /\ index' = index /\ reloaded' = reloaded
    BY <1>8 DEF RegisterFailed, UnregisterDone, ReloadFailed
  <2> QED BY <1>a, <2>1, LockKept DEF RegistryInv, RegistryTypeOK, BeatInv, Registered
<1>9. ASSUME NEW h \in BOOLEAN, BeatReport(h) PROVE RegistryInv'
  <2>1. CASE beat.at = Gone
    BY <1>9, <2>1, <1>a, LockKept, BeatFacts
    DEF BeatReport, RegistryInv, RegistryTypeOK, BeatInv, Registered
  <2>2. CASE beat.at # Gone
    <3>0. beat.at \in Registered /\ entry' = [entry EXCEPT ![beat.at].healthy = h]
      BY <1>9, <2>2 DEF BeatReport, RegistryInv, BeatInv
    <3>1. entry' \in [Agents -> Entry \cup {Absent}]
      BY <1>a, <3>0, EntryFields
    <3>2. \A b \in Agents : /\ entry'[b] = Absent <=> entry[b] = Absent
                            /\ entry[b] # Absent => entry'[b].deps = entry[b].deps
      BY <1>a, <1>b, <3>0, <3>1, AbsentAssumption DEF RegistryTypeOK, Entry
    <3>3. beat' = [on |-> beat.on, left |-> beat.left, at |-> Absent]
      BY <1>a, <1>9, BeatFacts DEF BeatReport
    <3>4. RegistryTypeOK'
      BY <1>a, <1>9, <3>1, <3>3, BeatFacts DEF BeatReport, RegistryTypeOK
    <3> QED BY <1>9, <3>2, <3>3, <3>4, LockKept, SameGraph DEF BeatReport, RegistryInv, BeatInv
  <2> QED BY <2>1, <2>2
<1>10. ASSUME NEW a \in Agents, BeatNext(a) PROVE RegistryInv'
  <2>1. /\ beat' = [on |-> beat.on, left |-> beat.left \ {a}, at |-> beat'.at]
        /\ beat'.at \in {a, Absent} /\ a \in beat.left
    BY <1>a, <1>10, BeatFacts DEF BeatNext
  <2>2. RegistryTypeOK'
    BY <1>a, <1>10, <2>1, BeatFacts DEF BeatNext, RegistryTypeOK
  <2> QED BY <1>10, <2>1, <2>2, LockKept DEF BeatNext, RegistryInv, BeatInv, Registered
<1>11. ASSUME BeatStart \/ BeatDone \/ BeatStop PROVE RegistryInv'
  <2>1. RegistryTypeOK'
    <3>1. beat' \in [on : BOOLEAN, left : SUBSET Agents, at : Agents \cup {Absent, Gone}]
      <4>1. beat' \in {[on |-> TRUE, left |-> Registered, at |-> Absent],
                       [on |-> FALSE, left |-> {}, at |-> Absent]}
        BY <1>11 DEF BeatStart, BeatDone, BeatStop, NoRound
      <4>2. \A b \in BOOLEAN, L \in SUBSET Agents :
              [on |-> b, left |-> L, at |-> Absent]
                \in [on : BOOLEAN, left : SUBSET Agents, at : Agents \cup {Absent, Gone}]
        OBVIOUS
      <4>3. Registered \in SUBSET Agents /\ {} \in SUBSET Agents
        BY <1>a
      <4> QED BY <4>1, <4>2, <4>3
    <3>2. UNCHANGED <<entry, index, op, reloaded>>
      BY <1>11 DEF BeatStart, BeatDone, BeatStop
    <3> QED BY <1>a, <3>1, <3>2 DEF RegistryTypeOK
  <2>2. /\ entry' = entry /\ op' = op /\ reloaded' = reloaded
        /\ beat'.left \subseteq Registered /\ beat'.at = Absent
    BY <1>11 DEF BeatStart, BeatDone, BeatStop, NoRound
  <2> QED BY <2>1, <2>2, LockKept DEF RegistryInv, BeatInv, Registered
<1>12. ASSUME UNCHANGED registryVars PROVE RegistryInv'
  BY <1>a, <1>12, LockKept DEF registryVars, RegistryInv, RegistryTypeOK, BeatInv, Registered
<1> QED
  BY <1>1, <1>2, <1>3, <1>4, <1>5, <1>6, <1>7, <1>8, <1>9, <1>10, <1>11, <1>12
  DEF RegistryNext

\* The set that shows there is no cycle serves any set of agents with the new
\* one in it: cut down to it the set has a member without dependencies inside,
\* and outside it the new agent itself is one.
LEMMA AcyclicExtended ==
  ASSUME Acyclic, NEW a \in Agents \ Registered, NEW deps \in SUBSET Agents, NoCycle(a, deps),
         Registered' = Registered \cup {a},
         entry'[a].deps = deps,
         \A b \in Registered : entry'[b].deps = entry[b].deps
  PROVE  Acyclic'
<1> SUFFICES ASSUME NEW S \in SUBSET Registered', S # {}
             PROVE  \E b \in S : entry'[b].deps \cap S = {}
  BY DEF Acyclic
<1>1. PICK C \in SUBSET (Agents \ {a}) :
        deps \subseteq C /\ \A b \in C \cap Registered : entry[b].deps \subseteq C
  BY DEF NoCycle
<1>2. CASE S \cap C # {}
  <2>1. S \cap C \subseteq Registered
    OBVIOUS
  <2>2. PICK b \in S \cap C : entry[b].deps \cap (S \cap C) = {}
    BY <1>2, <2>1 DEF Acyclic
  <2>3. entry'[b].deps = entry[b].deps /\ entry[b].deps \subseteq C
    BY <1>1, <2>1, <2>2
  <2> QED BY <2>2, <2>3
<1>3. CASE S \cap C = {} /\ a \in S
  BY <1>1, <1>3
<1>4. CASE a \notin S
  <2>1. S \in SUBSET Registered
    BY <1>4
  <2>2. PICK b \in S : entry[b].deps \cap S = {}
    BY <2>1 DEF Acyclic
  <2> QED BY <2>1, <2>2
<1> QED BY <1>2, <1>3, <1>4

LEMMA AcyclicNext == RegistryInv /\ Acyclic /\ [RegistryNext]_registryVars => Acyclic'
<1> SUFFICES ASSUME RegistryInv, Acyclic, [RegistryNext]_registryVars PROVE Acyclic'
  OBVIOUS
<1>a. Registered \subseteq Agents /\ RegistryTypeOK
  BY DEF Registered, RegistryInv
<1>b. \A a \in Registered : entry[a] \in Entry /\ entry[a] # Absent
  BY <1>a DEF RegistryTypeOK, Registered
<1>1. ASSUME NEW caps \in SUBSET Caps, NEW h \in BOOLEAN, RegisterDone(caps, h)
      PROVE  Acyclic'
  <2> DEFINE new == [caps |-> caps, deps |-> op.deps, enabled |-> TRUE,
                     initialized |-> op.initialize, healthy |-> op.initialize /\ h]
  <2>1. /\ op.agent \in Agents \ Registered /\ op.deps \in SUBSET Agents
        /\ NoCycle(op.agent, op.deps) /\ new \in Entry
    BY <1>a, <1>1, OpFacts DEF RegisterDone, RegistryInv, LockInv, Entry
  <2>2. new # Absent /\ new.deps = op.deps
    BY <2>1, AbsentAssumption
  <2>3. entry' = [entry EXCEPT ![op.agent] = new]
    BY <1>1 DEF RegisterDone
  <2> HIDE DEF new
  <2>4. \A b \in Agents : entry'[b] = IF b = op.agent THEN new ELSE entry[b]
    BY <1>a, <2>3 DEF RegistryTypeOK
  <2>5. Registered' = Registered \cup {op.agent}
    BY <2>1, <2>2, <2>4 DEF Registered
  <2>6. entry'[op.agent].deps = op.deps /\ \A b \in Registered : entry'[b] = entry[b]
    BY <1>a, <2>1, <2>2, <2>4
  <2> QED BY <2>1, <2>5, <2>6, AcyclicExtended
<1>2. ASSUME NEW a \in Agents, Unregister(a) PROVE Acyclic'
  <2>1. \A b \in Agents : entry'[b] = IF b = a THEN Absent ELSE entry[b]
    BY <1>a, <1>2 DEF Unregister, RegistryTypeOK
  <2>2. Registered' = Registered \ {a}
    BY <2>1 DEF Registered
  <2> QED BY <1>a, <2>1, <2>2 DEF Acyclic
<1>3. CASE \A b \in Agents : /\ entry'[b] = Absent <=> entry[b] = Absent
                             /\ entry[b] # Absent => entry'[b].deps = entry[b].deps
  BY <1>3, SameGraph
<1>4. ASSUME NEW a \in Registered, NEW x \in Entry, x.deps = entry[a].deps,
             entry' = [entry EXCEPT ![a] = x]
      PROVE  \A b \in Agents : /\ entry'[b] = Absent <=> entry[b] = Absent
                               /\ entry[b] # Absent => entry'[b].deps = entry[b].deps
  BY <1>a, <1>b, <1>4, AbsentAssumption DEF RegistryTypeOK
<1>5. ASSUME NEW a \in Agents, NEW e \in BOOLEAN, SetEnabled(a, e) PROVE Acyclic'
  <2>1. /\ a \in Registered /\ [entry[a] EXCEPT !.enabled = e] \in Entry
        /\ [entry[a] EXCEPT !.enabled = e].deps = entry[a].deps
        /\ entry' = [entry EXCEPT ![a] = [entry[a] EXCEPT !.enabled = e]]
    BY <1>b, <1>5 DEF SetEnabled, Entry
  <2> QED BY <1>3, <1>4, <2>1
<1>6. ASSUME NEW caps \in SUBSET Caps, ReloadDiscovered(caps) PROVE Acyclic'
  <2>0. op.agent \in Registered
    BY <1>6 DEF ReloadDiscovered, RegistryInv, LockInv
  <2>1. /\ [entry[op.agent] EXCEPT !.caps = caps] \in Entry
        /\ [entry[op.agent] EXCEPT !.caps = caps].deps = entry[op.agent].deps
        /\ entry' = [entry EXCEPT ![op.agent] = [entry[op.agent] EXCEPT !.caps = caps]]
    BY <1>b, <1>6, <2>0 DEF ReloadDiscovered, Entry
  <2> QED BY <1>3, <1>4, <2>0, <2>1
<1>7. ASSUME NEW h \in BOOLEAN, ReloadDone(h) PROVE Acyclic'
  <2> DEFINE x == [entry[op.agent] EXCEPT !.healthy = h, !.initialized = TRUE]
  <2>0. op.agent \in Registered /\ op.agent \in Agents
    BY <1>a, <1>7 DEF ReloadDone, RegistryInv, LockInv
  <2>1. x \in Entry /\ x.deps = entry[op.agent].deps
    BY <1>b, <2>0 DEF Entry
  <2>2. entry' = [entry EXCEPT ![op.agent].healthy = h, ![op.agent].initialized = TRUE]
    BY <1>7 DEF ReloadDone
  <2>3. entry' = [entry EXCEPT ![op.agent] = x]
    BY <1>a, <2>0, <2>2 DEF RegistryTypeOK
  <2> QED BY <1>3, <1>4, <2>0, <2>1, <2>3
<1>8. ASSUME NEW h \in BOOLEAN, BeatReport(h) PROVE Acyclic'
  <2>1. CASE beat.at = Gone
    BY <1>3, <1>8, <2>1 DEF BeatReport
  <2>2. CASE beat.at # Gone
    <3>1. /\ beat.at \in Registered
          /\ entry' = [entry EXCEPT ![beat.at] = [entry[beat.at] EXCEPT !.healthy = h]]
      BY <1>8, <2>2 DEF BeatReport, RegistryInv, BeatInv
    <3>2. /\ [entry[beat.at] EXCEPT !.healthy = h] \in Entry
          /\ [entry[beat.at] EXCEPT !.healthy = h].deps = entry[beat.at].deps
      BY <1>b, <3>1 DEF Entry
    <3> QED BY <1>3, <1>4, <3>1, <3>2
  <2> QED BY <2>1, <2>2
<1>9. CASE entry' = entry
  BY <1>3, <1>9
<1> QED
  BY <1>1, <1>2, <1>5, <1>6, <1>7, <1>8, <1>9
  DEF RegistryNext, registryVars, RegisterAgent, Reload, RegisterFailed, UnregisterDone,
      ReloadFailed, BeatStart, BeatNext, BeatDone, BeatStop

\* Who is in the index and what an agent that was not reloaded advertises
\* change together: the id is the one just registered or just removed.
LEMMA IndexNext == RegistryInv /\ IndexExact /\ [RegistryNext]_registryVars => IndexExact'
<1> SUFFICES ASSUME RegistryInv, IndexExact, [RegistryNext]_registryVars PROVE IndexExact'
  OBVIOUS
<1>a. Registered \subseteq Agents /\ RegistryTypeOK
  BY DEF Registered, RegistryInv
<1>b. \A a \in Registered : entry[a] \in Entry /\ entry[a] # Absent
  BY <1>a DEF RegistryTypeOK, Registered
<1>1. ASSUME NEW caps \in SUBSET Caps, NEW h \in BOOLEAN, RegisterDone(caps, h)
      PROVE  IndexExact'
  <2> DEFINE new == [caps |-> caps, deps |-> op.deps, enabled |-> TRUE,
                     initialized |-> op.initialize, healthy |-> op.initialize /\ h]
  <2>1. op.agent \in Agents \ Registered /\ new \in Entry
    BY <1>a, <1>1, OpFacts DEF RegisterDone, RegistryInv, LockInv, Entry
  <2>2. new # Absent /\ new.caps = caps
    BY <2>1, AbsentAssumption
  <2>3. /\ entry' = [entry EXCEPT ![op.agent] = new]
        /\ reloaded' = IF InIndex(op.agent) THEN reloaded ELSE reloaded \ {op.agent}
    BY <1>1 DEF RegisterDone
  <2> HIDE DEF new
  <2>4. \A b \in Agents : entry'[b] = IF b = op.agent THEN new ELSE entry[b]
    BY <1>a, <2>3 DEF RegistryTypeOK
  <2>5. Registered' = Registered \cup {op.agent}
    BY <2>1, <2>2, <2>4 DEF Registered
  <2>6. \A c \in Caps : index'[c] = IF c \in caps THEN index[c] \cup {op.agent} ELSE index[c]
    BY <1>1 DEF RegisterDone, Indexed
  <2>7. ASSUME NEW a \in Agents \ reloaded', NEW c \in Caps
        PROVE  a \in index'[c] <=> a \in Registered' /\ c \in entry'[a].caps
    <3>1. CASE a = op.agent
      <4>1. ~InIndex(a)
        BY <2>1, <2>3, <2>7, <3>1 DEF IndexExact, InIndex
      <4> QED BY <2>2, <2>4, <2>5, <2>6, <3>1, <4>1 DEF InIndex
    <3>2. CASE a # op.agent
      <4>1. /\ entry'[a] = entry[a]
            /\ a \in index'[c] <=> a \in index[c]
            /\ a \in Registered' <=> a \in Registered
        BY <2>4, <2>5, <2>6, <3>2
      <4>2. a \in Agents \ reloaded
        BY <2>3, <2>7, <3>2
      <4> QED BY <4>1, <4>2 DEF IndexExact
    <3> QED BY <3>1, <3>2
  <2> QED BY <2>7 DEF IndexExact
<1>2. ASSUME NEW a \in Agents, Unregister(a) PROVE IndexExact'
  <2>1. \A b \in Agents : entry'[b] = IF b = a THEN Absent ELSE entry[b]
    BY <1>a, <1>2 DEF Unregister, RegistryTypeOK
  <2>2. Registered' = Registered \ {a} /\ a \in Registered
    BY <1>2, <2>1 DEF Registered, Unregister
  <2>3. /\ reloaded' = reloaded
        /\ \A c \in Caps : index'[c] = IF c \in entry[a].caps THEN index[c] \ {a} ELSE index[c]
    BY <1>2 DEF Unregister, Unindexed
  <2>4. ASSUME NEW b \in Agents \ reloaded, NEW c \in Caps
        PROVE  b \in index'[c] <=> b \in Registered' /\ c \in entry'[b].caps
    <3>1. b \in index[c] <=> b \in Registered /\ c \in entry[b].caps
      BY DEF IndexExact
    <3>2. CASE b = a
      BY <2>2, <2>3, <3>1, <3>2
    <3>3. CASE b # a
      <4>1. entry'[b] = entry[b] /\ (b \in Registered' <=> b \in Registered)
        BY <2>1, <2>2, <3>3
      <4>2. b \in index'[c] <=> b \in index[c]
        BY <2>3, <3>3
      <4> QED BY <3>1, <4>1, <4>2
    <3> QED BY <3>2, <3>3
  <2> QED BY <2>3, <2>4 DEF IndexExact
<1>3. ASSUME index' = index, reloaded \subseteq reloaded',
             \A b \in Agents : entry'[b] = Absent <=> entry[b] = Absent,
             \A b \in Registered \ reloaded : entry'[b].caps = entry[b].caps
      PROVE  IndexExact'
  <2>1. Registered' = Registered
    BY <1>3 DEF Registered
  <2> QED BY <1>3, <2>1 DEF IndexExact
<1>4. ASSUME NEW a \in Registered, NEW x \in Entry, entry' = [entry EXCEPT ![a] = x]
      PROVE  /\ entry'[a] = x
             /\ \A b \in Agents : entry'[b] = Absent <=> entry[b] = Absent
             /\ \A b \in Agents \ {a} : entry'[b] = entry[b]
  BY <1>a, <1>b, <1>4, AbsentAssumption DEF RegistryTypeOK
<1>5. ASSUME NEW a \in Agents, NEW e \in BOOLEAN, SetEnabled(a, e) PROVE IndexExact'
  <2>1. /\ a \in Registered /\ [entry[a] EXCEPT !.enabled = e] \in Entry
        /\ [entry[a] EXCEPT !.enabled = e].caps = entry[a].caps
        /\ entry' = [entry EXCEPT ![a] = [entry[a] EXCEPT !.enabled = e]]
        /\ index' = index /\ reloaded' = reloaded
    BY <1>b, <1>5 DEF SetEnabled, Entry
  <2> QED BY <1>a, <1>3, <1>4, <2>1
<1>6. ASSUME NEW caps \in SUBSET Caps, ReloadDiscovered(caps) PROVE IndexExact'
  <2>0. op.agent \in Registered \cap reloaded
    BY <1>6 DEF ReloadDiscovered, RegistryInv, LockInv
  <2>1. /\ [entry[op.agent] EXCEPT !.caps = caps] \in Entry
        /\ entry' = [entry EXCEPT ![op.agent] = [entry[op.agent] EXCEPT !.caps = caps]]
        /\ index' = index /\ reloaded' = reloaded
    BY <1>b, <1>6, <2>0 DEF ReloadDiscovered, Entry
  <2> QED BY <1>a, <1>3, <1>4, <2>0, <2>1
<1>7. ASSUME NEW h \in BOOLEAN, ReloadDone(h) PROVE IndexExact'
  <2> DEFINE x == [entry[op.agent] EXCEPT !.healthy = h, !.initialized = TRUE]
  <2>0. op.agent \in Registered \cap reloaded /\ op.agent \in Agents
    BY <1>a, <1>7 DEF ReloadDone, RegistryInv, LockInv
  <2>1. x \in Entry
    BY <1>b, <2>0 DEF Entry
  <2>2. entry' = [entry EXCEPT ![op.agent].healthy = h, ![op.agent].initialized = TRUE]
    BY <1>7 DEF ReloadDone
  <2>3. entry' = [entry EXCEPT ![op.agent] = x]
    BY <1>a, <2>0, <2>2 DEF RegistryTypeOK
  <2> HIDE DEF x
  <2>4. /\ Registered' = Registered
        /\ \A b \in Agents \ {op.agent} : entry'[b] = entry[b]
    BY <1>4, <2>0, <2>1, <2>3 DEF Registered
  <2>5. /\ reloaded' = reloaded
        /\ \A c \in Caps : index'[c] \ {op.agent} = index[c] \ {op.agent}
    BY <1>7 DEF ReloadDone, Indexed
  <2> QED BY <2>0, <2>4, <2>5 DEF IndexExact
<1>8. ASSUME NEW h \in BOOLEAN, BeatReport(h) PROVE IndexExact'
  <2>0. index' = index /\ reloaded' = reloaded
    BY <1>8 DEF BeatReport
  <2>1. CASE beat.at = Gone
    BY <1>3, <1>8, <2>0, <2>1 DEF BeatReport
  <2>2. CASE beat.at # Gone
    <3> DEFINE x == [entry[beat.at] EXCEPT !.healthy = h]
    <3>1. beat.at \in Registered /\ entry' = [entry EXCEPT ![beat.at] = x]
      BY <1>8, <2>2 DEF BeatReport, RegistryInv, BeatInv
    <3>2. x \in Entry /\ x.caps = entry[beat.at].caps
      BY <1>b, <3>1 DEF Entry
    <3> HIDE DEF x
    <3>3. /\ \A b \in Agents : entry'[b] = Absent <=> entry[b] = Absent
          /\ \A b \in Registered : entry'[b].caps = entry[b].caps
      BY <1>a, <1>4, <3>1, <3>2
    <3> QED BY <1>3, <2>0, <3>3
  <2> QED BY <2>1, <2>2
<1>9. CASE entry' = entry /\ index' = index /\ reloaded \subseteq reloaded'
  BY <1>3, <1>9
<1> QED
  BY <1>1, <1>2, <1>5, <1>6, <1>7, <1>8, <1>9
  DEF RegistryNext, registryVars, RegisterAgent, Reload, RegisterFailed, UnregisterDone,
      ReloadFailed, BeatStart, BeatNext, BeatDone, BeatStop

LEMMA RegistryInvInit == RegistryInit => RegistryInv /\ Acyclic /\ IndexExact
<1> SUFFICES ASSUME RegistryInit PROVE RegistryInv /\ Acyclic /\ IndexExact
  OBVIOUS
<1>1. Registered = {} /\ op = [kind |-> "free"]
  BY DEF RegistryInit, Registered, Free
<1>2. RegistryTypeOK
  <2>1. entry \in [Agents -> Entry \cup {Absent}] /\ index \in [Caps -> SUBSET Agents]
    BY DEF RegistryInit
  <2>2. beat \in [on : BOOLEAN, left : SUBSET Agents, at : Agents \cup {Absent, Gone}]
    BY DEF RegistryInit, NoRound
  <2> QED BY <2>1, <2>2 DEF RegistryInit, RegistryTypeOK
<1> QED BY <1>1, <1>2
        DEF RegistryInit, RegistryInv, LockInv, BeatInv, NoRound, Acyclic, IndexExact

\* Whatever the registry was about to do when it waited for an agent is still
\* allowed when the agent answers, and the types hold.
LEMMA RegistryInvCorrect == RegistrySpec => []RegistryInv
<1> QED BY RegistryInvInit, RegistryInvNext, PTL DEF RegistrySpec

\* The variables of the agent registry keep their types.
THEOREM RegistryTypeCorrect == RegistrySpec => []RegistryTypeOK
<1>1. RegistryInv => RegistryTypeOK
  BY DEF RegistryInv
<1> QED BY <1>1, RegistryInvCorrect, PTL

\* No circle of dependencies among the registered agents, ever: the check made
\* before the registry waits for the agent is as good as one made after.
THEOREM AcyclicCorrect == RegistrySpec => []Acyclic
<1> QED BY RegistryInvInit, RegistryInvCorrect, AcyclicNext, PTL DEF RegistrySpec

\* The capability index of ids that were not reloaded is exact, through every
\* failed registration, removal and return.
THEOREM IndexCorrect == RegistrySpec => []IndexExact
<1> QED BY RegistryInvInit, RegistryInvCorrect, IndexNext, PTL DEF RegistrySpec

-----------------------------------------------------------------------------
(* The model router. *)

\* h holds the sums of the first elements of s.
IsSums(h, s) ==
  /\ h \in [0 .. Len(s) -> Int] /\ h[0] = 0
  /\ \A i \in 1 .. Len(s) : h[i] = h[i - 1] + s[i]

LEMMA SumsExist ==
  ASSUME NEW s \in Seq(Int)
  PROVE  \E h : IsSums(h, s)
<1> DEFINE step == [i \in 1 .. Len(s) |-> [x \in Int |-> x + s[i]]]
<1>1. Len(s) \in Nat /\ \A i \in 1 .. Len(s) : s[i] \in Int
  OBVIOUS
<1>2. step \in [1 .. Len(s) -> [Int -> Int]]
  BY <1>1
<1>3. \A i \in 1 .. Len(s), x \in Int : step[i][x] = x + s[i]
  OBVIOUS
<1> HIDE DEF step
<1>4. PICK h : IsHistory(h, Len(s), Int, 0, step)
  <2>1. \A v \in Int : \E h : IsHistory(h, Len(s), Int, v, step)
    BY <1>1, <1>2, StepsExist
  <2> QED BY <2>1
<1>5. \A i \in 1 .. Len(s) : h[i - 1] \in Int
  <2>1. \A i \in 1 .. Len(s) : i - 1 \in 0 .. Len(s)
    BY <1>1
  <2> QED BY <1>4, <2>1 DEF IsHistory
<1>6. IsSums(h, s)
  BY <1>3, <1>4, <1>5 DEF IsSums, IsHistory
<1> QED BY <1>6

\* Sum is the last of the sums.
LEMMA SumIs ==
  ASSUME NEW s \in Seq(Int), NEW h, IsSums(h, s)
  PROVE  Sum(s) = h[Len(s)] /\ Sum(s) \in Int
<1> DEFINE IsUpTo(f) == f = [i \in 0 .. Len(s) |-> IF i = 0 THEN 0 ELSE f[i - 1] + s[i]]
           f == CHOOSE g : IsUpTo(g)
<1>0. Len(s) \in Nat /\ \A i \in 1 .. Len(s) : s[i] \in Int
  OBVIOUS
<1>1. Sum(s) = f[Len(s)]
  BY DEF Sum
<1>2. IsUpTo(h)
  BY <1>0 DEF IsSums
<1>3. IsUpTo(f)
  BY <1>2
<1> HIDE DEF f
<1> DEFINE S == {i \in 0 .. Len(s) : f[i] = h[i]}
<1>4. 0 \in S
  BY <1>0, <1>2, <1>3
<1>5. ASSUME NEW i \in 0 .. Len(s) - 1, i \in S PROVE i + 1 \in S
  <2>1. i + 1 \in 1 .. Len(s) /\ (i + 1) - 1 = i
    BY <1>0
  <2>2. f[i + 1] = f[i] + s[i + 1] /\ h[i + 1] = h[i] + s[i + 1]
    BY <1>0, <1>2, <1>3, <2>1
  <2> QED BY <1>5, <2>1, <2>2
<1> HIDE DEF S
<1>6. \A i \in 0 .. Len(s) - 1 : i \in S => i + 1 \in S
  BY <1>5
<1>7. \A i \in 0 .. Len(s) : i \in S
  BY <1>0, <1>4, <1>6, UpTo
<1>8. Len(s) \in S
  BY <1>0, <1>7
<1> QED BY <1>0, <1>1, <1>8 DEF S, IsSums

LEMMA SumEmpty == Sum(<<>>) = 0
<1>1. <<>> \in Seq(Int) /\ Len(<<>>) = 0
  OBVIOUS
<1>2. PICK h : IsSums(h, <<>>)
  BY <1>1, SumsExist
<1> QED BY <1>1, <1>2, SumIs DEF IsSums

\* One element more at the end adds that element,
LEMMA SumLonger ==
  ASSUME NEW s \in Seq(Int), NEW t \in Seq(Int), Len(t) = Len(s) + 1,
         \A i \in 1 .. Len(s) : t[i] = s[i]
  PROVE  Sum(t) = Sum(s) + t[Len(t)]
<1>1. PICK h : IsSums(h, s)
  BY SumsExist
<1> DEFINE last == h[Len(s)] + t[Len(t)]
           g == [i \in 0 .. Len(t) |-> IF i = Len(t) THEN last ELSE h[i]]
<1>2. Len(s) \in Nat /\ Len(t) = Len(s) + 1
  OBVIOUS
<1>3. /\ Len(s) \in Nat /\ Len(t) \in 1 .. Len(t) /\ Len(t) - 1 = Len(s)
      /\ 0 .. Len(t) = (0 .. Len(s)) \cup {Len(t)} /\ Len(t) \notin 0 .. Len(s)
      /\ 1 .. Len(t) = (1 .. Len(s)) \cup {Len(t)}
      /\ \A i \in 1 .. Len(s) : i \in 0 .. Len(s) /\ i - 1 \in 0 .. Len(s)
      /\ 0 \in 0 .. Len(s) /\ Len(s) \in 0 .. Len(s)
  BY ONLY <1>2
<1>4. last \in Int
  <2>1. t[Len(t)] \in Int
    BY <1>3
  <2>2. h[Len(s)] \in Int
    BY <1>1, <1>3 DEF IsSums
  <2> QED BY <2>1, <2>2
<1> HIDE DEF last
<1>5. g \in [0 .. Len(t) -> Int]
  BY <1>1, <1>3, <1>4 DEF IsSums
<1>6. g[Len(t)] = last /\ \A i \in 0 .. Len(s) : g[i] = h[i]
  BY <1>3
<1> HIDE DEF g
<1>7. IsSums(g, t)
  BY <1>1, <1>3, <1>5, <1>6 DEF IsSums, last
<1>8. Sum(t) = last /\ Sum(s) = h[Len(s)]
  BY <1>1, <1>6, <1>7, SumIs
<1> QED BY <1>8 DEF last

\* and one element less at the front takes that one away.
LEMMA SumShorter ==
  ASSUME NEW s \in Seq(Int), NEW t \in Seq(Int), Len(s) = Len(t) + 1,
         \A i \in 1 .. Len(t) : t[i] = s[i + 1]
  PROVE  Sum(s) = s[1] + Sum(t)
<1>1. PICK h : IsSums(h, s)
  BY SumsExist
<1> DEFINE g == [i \in 0 .. Len(t) |-> h[i + 1] - s[1]]
<1>2. Len(t) \in Nat /\ Len(s) = Len(t) + 1
  OBVIOUS
<1>3. s[1] \in Int
  BY <1>2
<1>4. /\ Len(t) \in Nat /\ 1 \in 1 .. Len(s) /\ s[1] \in Int
      /\ \A i \in 0 .. Len(t) : i + 1 \in 1 .. Len(s) /\ (i + 1) - 1 = i /\ i + 1 \in 0 .. Len(s)
      /\ \A i \in 1 .. Len(t) : i \in 0 .. Len(t) /\ i - 1 \in 0 .. Len(t) /\ (i - 1) + 1 = i
      /\ 0 \in 0 .. Len(t) /\ Len(t) \in 0 .. Len(t)
  BY ONLY <1>2, <1>3
<1>5. \A i \in 1 .. Len(s) : h[i] \in Int /\ h[i] = h[i - 1] + s[i]
  <2>1. \A i \in 1 .. Len(s) : i \in 0 .. Len(s)
    BY <1>2
  <2> QED BY <1>1, <2>1 DEF IsSums
<1>6. h[1] = s[1]
  BY <1>1, <1>4, <1>5 DEF IsSums
<1>7. g \in [0 .. Len(t) -> Int]
  <2>1. \A i \in 0 .. Len(t) : h[i + 1] \in Int
    BY <1>4, <1>5
  <2> QED BY <1>3, <2>1
<1>8. \A i \in 0 .. Len(t) : g[i] = h[i + 1] - s[1]
  OBVIOUS
<1> HIDE DEF g
<1>9. g[0] = 0
  BY <1>4, <1>6, <1>8
<1>10. ASSUME NEW i \in 1 .. Len(t) PROVE g[i] = g[i - 1] + t[i]
  <2>1. h[i + 1] = h[i] + s[i + 1] /\ h[i] \in Int /\ s[i + 1] \in Int
    <3>1. i \in 1 .. Len(s) /\ i + 1 \in 1 .. Len(s) /\ (i + 1) - 1 = i
      BY <1>2
    <3>2. /\ h[i + 1] = h[(i + 1) - 1] + s[i + 1]
          /\ h[i] \in Int
      BY <1>5, <3>1
    <3>3. s[i + 1] \in Int
      BY <3>1
    <3> QED BY <3>1, <3>2, <3>3
  <2>2. g[i] = h[i + 1] - s[1] /\ g[i - 1] = h[i] - s[1]
    BY <1>4, <1>8
  <2>3. t[i] = s[i + 1]
    OBVIOUS
  <2> QED BY <1>4, <2>1, <2>2, <2>3
<1>11. IsSums(g, t)
  BY <1>7, <1>9, <1>10 DEF IsSums
<1>12. Sum(s) = h[Len(s)] /\ Sum(t) = h[Len(t) + 1] - s[1]
  BY <1>1, <1>4, <1>8, <1>11, SumIs
<1>13. h[Len(s)] \in Int
  BY <1>4, <1>5
<1> QED BY <1>4, <1>12, <1>13

\* What the entries of a ledger cost the providers of S, one by one.
CostSeq(es, S) ==
  [i \in 1 .. Len(es) |-> IF es[i].provider \in S THEN es[i].cost ELSE 0]

LEMMA EntryType ==
  ASSUME NEW e \in LedgerEntry
  PROVE  e.provider \in Providers /\ e.cost \in Int
<1>1. e.provider \in Providers /\ e.cost \in Costs
  BY DEF LedgerEntry
<1>2. \A x \in Costs : x \in Int
  BY LimitsAssumption
<1> QED BY <1>1, <1>2

LEMMA CostSeqType ==
  ASSUME NEW es \in Seq(LedgerEntry), NEW S
  PROVE  CostSeq(es, S) \in Seq(Int) /\ Len(CostSeq(es, S)) = Len(es)
<1>1. \A i \in 1 .. Len(es) : es[i].cost \in Int
  BY EntryType
<1>2. Len(es) \in Nat
  OBVIOUS
<1>3. \A i \in 1 .. Len(es) : (IF es[i].provider \in S THEN es[i].cost ELSE 0) \in Int
  BY <1>1
<1>4. CostSeq(es, S) \in [1 .. Len(es) -> Int]
  BY <1>3 DEF CostSeq
<1>5. CostSeq(es, S) \in Seq(Int)
  BY <1>2, <1>4, SeqDef
<1>6. 1 .. Len(CostSeq(es, S)) = 1 .. Len(es) /\ Len(CostSeq(es, S)) \in Nat
  BY <1>4, <1>5, LenProperties
<1> QED BY <1>2, <1>5, <1>6

\* The ledger grows by the new entry's cost
LEMMA CostAppend ==
  ASSUME NEW es \in Seq(LedgerEntry), NEW e \in LedgerEntry, NEW S
  PROVE  Sum(CostSeq(Append(es, e), S))
           = Sum(CostSeq(es, S)) + (IF e.provider \in S THEN e.cost ELSE 0)
<1> DEFINE s == CostSeq(es, S)
           t == CostSeq(Append(es, e), S)
<1>1. Append(es, e) \in Seq(LedgerEntry) /\ Len(Append(es, e)) = Len(es) + 1
  OBVIOUS
<1>2. s \in Seq(Int) /\ t \in Seq(Int) /\ Len(s) = Len(es) /\ Len(t) = Len(es) + 1
  BY <1>1, CostSeqType
<1>3. \A i \in 1 .. Len(es) : Append(es, e)[i] = es[i] /\ i \in 1 .. Len(Append(es, e))
  BY <1>1
<1>4. \A i \in 1 .. Len(s) : t[i] = s[i]
  BY <1>2, <1>3 DEF CostSeq
<1>5. t[Len(t)] = IF e.provider \in S THEN e.cost ELSE 0
  <2>1. Append(es, e)[Len(es) + 1] = e /\ Len(es) + 1 \in 1 .. Len(Append(es, e))
    BY <1>1
  <2> QED BY <1>2, <2>1 DEF CostSeq
<1> HIDE DEF s, t
<1>6. Sum(t) = Sum(s) + t[Len(t)]
  BY <1>2, <1>4, SumLonger
<1> QED BY <1>5, <1>6 DEF s, t

\* and shrinks by the oldest entry's.
LEMMA CostTail ==
  ASSUME NEW es \in Seq(LedgerEntry), es # <<>>, NEW S
  PROVE  Sum(CostSeq(es, S))
           = (IF Head(es).provider \in S THEN Head(es).cost ELSE 0) + Sum(CostSeq(Tail(es), S))
<1> DEFINE s == CostSeq(es, S)
           t == CostSeq(Tail(es), S)
<1>1. /\ Tail(es) \in Seq(LedgerEntry) /\ Len(es) = Len(Tail(es)) + 1 /\ Len(Tail(es)) \in Nat
      /\ Head(es) = es[1] /\ 1 \in 1 .. Len(es)
  OBVIOUS
<1>2. s \in Seq(Int) /\ t \in Seq(Int) /\ Len(s) = Len(es) /\ Len(t) = Len(Tail(es))
  BY <1>1, CostSeqType
<1>3. \A i \in 1 .. Len(Tail(es)) : Tail(es)[i] = es[i + 1] /\ i + 1 \in 1 .. Len(es)
  BY <1>1
<1>4. \A i \in 1 .. Len(t) : t[i] = s[i + 1]
  BY <1>2, <1>3 DEF CostSeq
<1>5. s[1] = IF Head(es).provider \in S THEN Head(es).cost ELSE 0
  BY <1>1 DEF CostSeq
<1> HIDE DEF s, t
<1>6. Sum(s) = s[1] + Sum(t)
  BY <1>1, <1>2, <1>4, SumShorter
<1> QED BY <1>5, <1>6 DEF s, t

-----------------------------------------------------------------------------

LEMMA LimitsFacts ==
  /\ MaxRequests \in Nat \ {0} /\ MaxEntries \in Nat \ {0} /\ UnhealthyAfter \in Nat
  /\ MaxClosing \in Nat \ {0}
  /\ DegradedAfter \in Nat
BY LimitsAssumption

LEMMA DetachType ==
  ASSUME call \in [Callers -> Waiting \cup {Idle}], NEW S, Detach(S)
  PROVE  call' \in [Callers -> Waiting \cup {Idle}]
<1>1. ASSUME NEW w \in Waiting PROVE [w EXCEPT !.detached = TRUE] \in Waiting
  BY DEF Waiting
<1> QED BY <1>1 DEF Detach

LEMMA TryType ==
  ASSUME call \in [Callers -> Waiting \cup {Idle}], offered \subseteq Providers,
         NEW c \in Callers, NEW kind \in {"complete", "stream"}, NEW S \in SUBSET Providers,
         Try(c, kind, S)
  PROVE  call' \in [Callers -> Waiting \cup {Idle}]
<1>1. ASSUME NEW p \in Providers, NEW L \in SUBSET Providers
      PROVE  [kind |-> kind, on |-> p, detached |-> FALSE, left |-> L] \in Waiting
  BY DEF Waiting
<1> DEFINE skipped == {p \in S \cap held \cap offered : health[p] = "unhealthy" \/ ~CanRequest(p)}
           p == Ranked(S \ skipped)
           left == {q \in S : Priority[q] > Priority[p]}
<1>2. call' = [call EXCEPT ![c] =
        IF S \subseteq skipped \/ p \notin held \cap offered THEN Idle
        ELSE [kind |-> kind, on |-> p, detached |-> FALSE, left |-> left]]
  BY DEF Try
<1>3. left \in SUBSET Providers
  OBVIOUS
<1> HIDE DEF skipped, p, left
<1>4. p \in held \cap offered
        => [kind |-> kind, on |-> p, detached |-> FALSE, left |-> left] \in Waiting
  BY <1>1, <1>3
<1> QED BY <1>2, <1>4

LEMMA RecordedType ==
  ASSUME RouterTypeOK, NEW e \in LedgerEntry, Recorded(e)
  PROVE  /\ entries' \in Seq(LedgerEntry) /\ Len(entries') <= MaxEntries
         /\ spent' \in [Providers -> Int] /\ total' \in Int
<1>1. /\ entries \in Seq(LedgerEntry) /\ Len(entries) <= MaxEntries
      /\ spent \in [Providers -> Int] /\ total \in Int
      /\ e.provider \in Providers /\ e.cost \in Int
  BY EntryType DEF RouterTypeOK
<1>2. CASE Len(entries) = MaxEntries
  <2>1. entries # <<>> /\ Tail(entries) \in Seq(LedgerEntry) /\ Len(Tail(entries)) = MaxEntries - 1
    BY <1>1, <1>2, LimitsFacts
  <2>2. Head(entries) \in LedgerEntry
    BY <1>1, <2>1
  <2>3. Head(entries).provider \in Providers /\ Head(entries).cost \in Int
    BY <2>2, EntryType
  <2> DEFINE kept == [spent EXCEPT ![Head(entries).provider] = @ - Head(entries).cost]
  <2>4. /\ entries' = Append(Tail(entries), e)
        /\ spent' = [kept EXCEPT ![e.provider] = @ + e.cost]
        /\ total' = total + e.cost - Head(entries).cost
    BY <1>2 DEF Recorded
  <2>5. kept \in [Providers -> Int]
    BY <1>1, <2>3
  <2> HIDE DEF kept
  <2> QED BY <1>1, <2>1, <2>3, <2>4, <2>5, LimitsFacts
<1>3. CASE Len(entries) # MaxEntries
  <2>1. /\ entries' = Append(entries, e)
        /\ spent' = [spent EXCEPT ![e.provider] = @ + e.cost]
        /\ total' = total + e.cost - 0
    BY <1>3 DEF Recorded
  <2> QED BY <1>1, <1>3, <2>1, LimitsFacts
<1> QED BY <1>2, <1>3

LEMMA HealthType ==
  ASSUME health \in [Providers -> {"healthy", "degraded", "unhealthy"}],
         failures \in [Providers -> Nat], NEW p \in Providers,
         UNCHANGED healthVars \/ RecordSuccess(p) \/ RecordFailure(p)
  PROVE  /\ health' \in [Providers -> {"healthy", "degraded", "unhealthy"}]
         /\ failures' \in [Providers -> Nat]
<1>1. CASE UNCHANGED healthVars
  BY <1>1 DEF healthVars
<1>2. CASE RecordSuccess(p)
  BY <1>2 DEF RecordSuccess
<1>3. CASE RecordFailure(p)
  <2>1. failures' \in [Providers -> Nat]
    BY <1>3 DEF RecordFailure
  <2> DEFINE st == IF failures[p] + 1 >= UnhealthyAfter THEN "unhealthy"
                   ELSE IF failures[p] + 1 >= DegradedAfter THEN "degraded" ELSE health[p]
  <2>2. health' = [health EXCEPT ![p] = st]
    BY <1>3 DEF RecordFailure
  <2>3. st \in {"healthy", "degraded", "unhealthy"}
    OBVIOUS
  <2> HIDE DEF st
  <2> QED BY <2>1, <2>2, <2>3
<1> QED BY <1>1, <1>2, <1>3

LEMMA RouterTypeNext == RouterTypeOK /\ [RouterNext]_routerVars => RouterTypeOK'
<1> SUFFICES ASSUME RouterTypeOK, [RouterNext]_routerVars PROVE RouterTypeOK'
  OBVIOUS
<1> USE DEF regVars, healthVars, ledgerVars
<1>a. /\ held \subseteq Providers /\ offered \subseteq Providers
      /\ closing \in [Providers -> 0 .. MaxClosing] /\ shutting \in Nat
      /\ Removable \subseteq Providers
      /\ health \in [Providers -> {"healthy", "degraded", "unhealthy"}]
      /\ failures \in [Providers -> Nat]
      /\ recent \in [Providers -> Seq(Tokens)]
      /\ call \in [Callers -> Waiting \cup {Idle}]
      /\ entries \in Seq(LedgerEntry) /\ Len(entries) <= MaxEntries
      /\ spent \in [Providers -> Int] /\ total \in Int
  BY ProvidersAssumption DEF RouterTypeOK
<1>b. \A c \in Callers : call[c] # Idle => /\ call[c].on \in Providers
                                           /\ call[c].left \in SUBSET Providers
                                           /\ call[c].kind \in {"complete", "stream"}
  BY <1>a DEF Waiting
<1>1. ASSUME NEW p \in Providers, RegisterProvider(p) PROVE RouterTypeOK'
  <2>1. call' \in [Callers -> Waiting \cup {Idle}]
    BY <1>a, <1>1, DetachType DEF RegisterProvider
  <2>2. <<>> \in Seq(Tokens)
    OBVIOUS
  <2> QED BY <1>a, <1>1, <2>1, <2>2 DEF RegisterProvider, RouterTypeOK
<1>2. ASSUME NEW p \in Providers,
             UnregisterProvider(p) \/ Unregistered(p) \/ UnregisterFailed(p)
      PROVE  RouterTypeOK'
  <2>1. call' \in [Callers -> Waiting \cup {Idle}]
    BY <1>a, <1>2, DetachType DEF UnregisterProvider, Unregistered, UnregisterFailed
  <2>2. closing' \in [Providers -> 0 .. MaxClosing]
    <3>1. CASE UnregisterProvider(p)
      <4>1. closing[p] + 1 \in 0 .. MaxClosing
        BY <1>a, <3>1, LimitsFacts DEF UnregisterProvider
      <4> QED BY <1>a, <3>1, <4>1 DEF UnregisterProvider
    <3>2. CASE Unregistered(p) \/ UnregisterFailed(p)
      <4>1. closing[p] - 1 \in 0 .. MaxClosing
        BY <1>a, <3>2, LimitsFacts DEF Unregistered, UnregisterFailed
      <4> QED BY <1>a, <3>2, <4>1 DEF Unregistered, UnregisterFailed
    <3> QED BY <1>2, <3>1, <3>2
  <2> QED
    BY <1>a, <1>2, <2>1, <2>2 DEF UnregisterProvider, Unregistered, UnregisterFailed, RouterTypeOK
<1>3. ASSUME Shutdown \/ ShutdownDone \/ ShutdownFailed PROVE RouterTypeOK'
  <2>1. call' \in [Callers -> Waiting \cup {Idle}]
    BY <1>a, <1>3, DetachType DEF Shutdown, ShutdownDone, ShutdownFailed
  <2>2. Cardinality(held) \in Nat
    BY <1>a, ProvidersAssumption, FS_Subset, FS_CardinalityType
  <2> QED
    BY <1>a, <1>3, <2>1, <2>2 DEF Shutdown, ShutdownDone, ShutdownFailed, RouterTypeOK
<1>4. ASSUME NEW p \in Providers, Expire(p) PROVE RouterTypeOK'
  <2>1. Tail(recent[p]) \in Seq(Tokens)
    BY <1>a, <1>4 DEF Expire
  <2> QED BY <1>a, <1>4, <2>1 DEF Expire, RouterTypeOK
<1>5. ASSUME NEW c \in Callers, NEW k \in {"complete", "stream"}, NEW h \in Hints,
             Request(c, k, h)
      PROVE  RouterTypeOK'
  <2>1. Selected(h) \in SUBSET Providers
    BY <1>a DEF Selected
  <2>2. call' \in [Callers -> Waiting \cup {Idle}]
    BY <1>a, <1>5, <2>1, TryType DEF Request
  <2> QED BY <1>a, <1>5, <2>2 DEF Request, RouterTypeOK
<1>6. ASSUME NEW c \in Callers, NEW t \in Tokens, NEW u \in Costs, Succeed(c, t, u)
      PROVE  RouterTypeOK'
  <2> DEFINE p == call[c].on
             e == [provider |-> p, cost |-> u]
  <2>1. p \in Providers /\ e \in LedgerEntry
    BY <1>b, <1>6 DEF Succeed, LedgerEntry
  <2>2. call' \in [Callers -> Waiting \cup {Idle}]
    BY <1>a, <1>6 DEF Succeed
  <2>3. /\ health' \in [Providers -> {"healthy", "degraded", "unhealthy"}]
        /\ failures' \in [Providers -> Nat]
    <3>1. UNCHANGED healthVars \/ RecordSuccess(p)
      BY <1>6 DEF Succeed
    <3> QED BY <1>a, <2>1, <3>1, HealthType
  <2>4. held' = held /\ offered' = offered /\ closing' = closing /\ shutting' = shutting
    BY <1>6 DEF Succeed
  <2>5. CASE call[c].kind = "complete"
    <3>1. Recorded(e) /\ recent' = [recent EXCEPT ![p] = Append(@, t)]
      BY <1>6, <2>5 DEF Succeed
    <3>2. Append(recent[p], t) \in Seq(Tokens)
      BY <1>a, <2>1
    <3>3. recent' \in [Providers -> Seq(Tokens)]
      BY <1>a, <2>1, <3>1, <3>2
    <3>4. /\ entries' \in Seq(LedgerEntry) /\ Len(entries') <= MaxEntries
          /\ spent' \in [Providers -> Int] /\ total' \in Int
      BY <2>1, <3>1, RecordedType
    <3> QED BY <1>a, <2>2, <2>3, <2>4, <3>3, <3>4 DEF RouterTypeOK
  <2>6. CASE call[c].kind # "complete"
    <3>1. recent' = recent /\ entries' = entries /\ spent' = spent /\ total' = total
      BY <1>6, <2>6 DEF Succeed
    <3> QED BY <1>a, <2>2, <2>3, <2>4, <3>1 DEF RouterTypeOK
  <2> QED BY <2>5, <2>6
<1>7. ASSUME NEW c \in Callers, NEW r \in BOOLEAN, Fail(c, r) PROVE RouterTypeOK'
  <2>1. /\ call[c].on \in Providers /\ call[c].left \in SUBSET Providers
        /\ call[c].kind \in {"complete", "stream"}
    BY <1>b, <1>7 DEF Fail
  <2>2. call' \in [Callers -> Waiting \cup {Idle}]
    <3>1. CASE r \/ call[c].kind = "stream"
      <4>1. Try(c, call[c].kind, call[c].left)
        BY <1>7, <3>1 DEF Fail
      <4> QED BY <1>a, <2>1, <4>1, TryType
    <3>2. CASE ~(r \/ call[c].kind = "stream")
      BY <1>a, <1>7, <3>2 DEF Fail
    <3> QED BY <3>1, <3>2
  <2>3. /\ health' \in [Providers -> {"healthy", "degraded", "unhealthy"}]
        /\ failures' \in [Providers -> Nat]
    <3>1. UNCHANGED healthVars \/ RecordFailure(call[c].on)
      BY <1>7 DEF Fail
    <3> QED BY <1>a, <2>1, <3>1, HealthType
  <2> QED BY <1>a, <1>7, <2>2, <2>3 DEF Fail, RouterTypeOK
<1>8. ASSUME NEW c \in Callers, Abandon(c) PROVE RouterTypeOK'
  BY <1>a, <1>8 DEF Abandon, RouterTypeOK
<1>9. ASSUME UNCHANGED routerVars PROVE RouterTypeOK'
  BY <1>a, <1>9 DEF routerVars, RouterTypeOK
<1> QED
  BY <1>1, <1>2, <1>3, <1>4, <1>5, <1>6, <1>7, <1>8, <1>9 DEF RouterNext, Answer

LEMMA RouterTypeInit == RouterInit => RouterTypeOK
<1> SUFFICES ASSUME RouterInit PROVE RouterTypeOK
  OBVIOUS
<1>1. Len(<<>>) <= MaxEntries /\ <<>> \in Seq(LedgerEntry) /\ <<>> \in Seq(Tokens)
  BY LimitsFacts
<1>2. [p \in Providers |-> 0] \in [Providers -> 0 .. MaxClosing]
  BY LimitsFacts
<1> QED BY <1>1, <1>2 DEF RouterInit, RouterTypeOK

-----------------------------------------------------------------------------

\* The books after an entry is recorded, whether or not it displaces the oldest.
LEMMA RecordedBalances ==
  ASSUME RouterTypeOK, LedgerBalances, NEW e \in LedgerEntry, Recorded(e)
  PROVE  LedgerBalances'
<1> DEFINE Of(x, S) == IF x.provider \in S THEN x.cost ELSE 0
<1>1. /\ entries \in Seq(LedgerEntry) /\ spent \in [Providers -> Int] /\ total \in Int
      /\ e.provider \in Providers /\ e.cost \in Int
  BY EntryType DEF RouterTypeOK
<1>2. /\ total = Sum(CostSeq(entries, Providers))
      /\ \A p \in Providers : spent[p] = Sum(CostSeq(entries, {p}))
  BY DEF LedgerBalances, CostSeq
<1>3. SUFFICES /\ total' = Sum(CostSeq(entries', Providers))
               /\ \A p \in Providers : spent'[p] = Sum(CostSeq(entries', {p}))
  BY DEF LedgerBalances, CostSeq
<1>4. CASE Len(entries) = MaxEntries
  <2> DEFINE old == Head(entries)
             kept == [spent EXCEPT ![old.provider] = @ - old.cost]
  <2>1. entries # <<>> /\ Tail(entries) \in Seq(LedgerEntry)
    BY <1>1, <1>4, LimitsFacts
  <2>2. old \in LedgerEntry
    BY <1>1, <2>1
  <2>3. old.provider \in Providers /\ old.cost \in Int
    BY <2>2, EntryType
  <2>4. /\ entries' = Append(Tail(entries), e)
        /\ spent' = [kept EXCEPT ![e.provider] = @ + e.cost]
        /\ total' = total + e.cost - old.cost
    BY <1>4 DEF Recorded
  <2>5. ASSUME NEW S
        PROVE  Sum(CostSeq(entries', S)) = Sum(CostSeq(entries, S)) - Of(old, S) + Of(e, S)
    <3>1. Sum(CostSeq(Tail(entries), S)) \in Int
      BY <2>1, CostSeqType, SumsExist, SumIs
    <3>2. Sum(CostSeq(entries, S)) = Of(old, S) + Sum(CostSeq(Tail(entries), S))
      BY <1>1, <2>1, CostTail
    <3>3. Sum(CostSeq(entries', S)) = Sum(CostSeq(Tail(entries), S)) + Of(e, S)
      BY <2>1, <2>4, CostAppend
    <3>4. Of(old, S) \in Int /\ Of(e, S) \in Int
      BY <1>1, <2>3
    <3> QED BY ONLY <3>1, <3>2, <3>3, <3>4
  <2>6. total' = Sum(CostSeq(entries', Providers))
    BY <1>1, <1>2, <2>3, <2>4, <2>5
  <2>7. ASSUME NEW p \in Providers PROVE spent'[p] = Sum(CostSeq(entries', {p}))
    <3>1. kept[p] = spent[p] - Of(old, {p})
      BY <1>1, <2>3
    <3>2. kept \in [Providers -> Int]
      BY <1>1, <2>3
    <3> HIDE DEF kept
    <3>3. spent'[p] = kept[p] + Of(e, {p})
      BY <1>1, <2>4, <3>2
    <3> QED BY <1>2, <2>5, <3>1, <3>3
  <2> QED BY <2>6, <2>7
<1>5. CASE Len(entries) # MaxEntries
  <2>1. /\ entries' = Append(entries, e)
        /\ spent' = [spent EXCEPT ![e.provider] = @ + e.cost]
        /\ total' = total + e.cost - 0
    BY <1>5 DEF Recorded
  <2>2. \A S : Sum(CostSeq(entries', S)) = Sum(CostSeq(entries, S)) + Of(e, S)
    BY <1>1, <2>1, CostAppend
  <2>3. \A p \in Providers : spent'[p] = spent[p] + Of(e, {p})
    BY <1>1, <2>1
  <2>4. total' = total + Of(e, Providers)
    BY <1>1, <2>1
  <2> HIDE DEF Of
  <2> QED BY <1>2, <2>2, <2>3, <2>4
<1> QED BY <1>4, <1>5

LEMMA LedgerNext == RouterTypeOK /\ LedgerBalances /\ [RouterNext]_routerVars => LedgerBalances'
<1> SUFFICES ASSUME RouterTypeOK, LedgerBalances, [RouterNext]_routerVars PROVE LedgerBalances'
  OBVIOUS
<1>1. CASE UNCHANGED ledgerVars
  BY <1>1 DEF ledgerVars, LedgerBalances
<1>2. ASSUME NEW c \in Callers, NEW t \in Tokens, NEW u \in Costs, Succeed(c, t, u)
      PROVE  LedgerBalances'
  <2> DEFINE e == [provider |-> call[c].on, cost |-> u]
  <2>1. Recorded(e) \/ UNCHANGED ledgerVars
    BY <1>2 DEF Succeed
  <2>2. call[c].on \in Providers
    <3>1. call[c] # Idle /\ call[c] \in Waiting \cup {Idle}
      BY <1>2 DEF Succeed, RouterTypeOK
    <3> QED BY <3>1 DEF Waiting
  <2>3. e \in LedgerEntry
    BY <2>2 DEF LedgerEntry
  <2> HIDE DEF e
  <2> QED BY <1>1, <2>1, <2>3, RecordedBalances
<1> QED
  BY <1>1, <1>2
  DEF RouterNext, Answer, routerVars, RegisterProvider, UnregisterProvider, Unregistered,
      UnregisterFailed, Shutdown, ShutdownDone, ShutdownFailed, Expire, Request, Fail, Abandon

LEMMA LedgerInit == RouterInit => LedgerBalances
<1> SUFFICES ASSUME RouterInit PROVE LedgerBalances
  OBVIOUS
<1>1. \A S : CostSeq(<<>>, S) = <<>>
  BY DEF CostSeq
<1>2. /\ total = Sum(CostSeq(entries, Providers))
      /\ \A p \in Providers : spent[p] = Sum(CostSeq(entries, {p}))
  BY <1>1, SumEmpty DEF RouterInit
<1> QED BY <1>2 DEF LedgerBalances, CostSeq

-----------------------------------------------------------------------------

\* Some provider of the fewest priority is there to be chosen.
LEMMA RankedIn ==
  ASSUME NEW S \in SUBSET Providers, S # {}
  PROVE  Ranked(S) \in S
<1> DEFINE P == {Priority[p] : p \in S}
<1>1. P \in SUBSET Nat /\ P # {}
  BY ProvidersAssumption
<1>2. PICK l \in P : \A m \in P : l <= m
  BY <1>1, LeastNat
<1>3. \E p \in S : \A q \in S : Priority[p] <= Priority[q]
  BY <1>2
<1> QED BY <1>3 DEF Ranked

LEMMA InFlightFacts ==
  ASSUME NEW p
  PROVE  /\ IsFiniteSet(InFlight(p)) /\ Cardinality(InFlight(p)) \in Nat
         /\ Cardinality(InFlight(p)) <= Cardinality(Callers) /\ Cardinality(Callers) \in Nat
BY ProvidersAssumption, FS_Subset, FS_CardinalityType DEF InFlight

\* A request the router lets through finds room in the window.
LEMMA TryAdmits ==
  ASSUME RouterTypeOK, NEW c \in Callers, NEW kind \in {"complete", "stream"},
         NEW S \in SUBSET Providers, Try(c, kind, S), NEW p \in Providers
  PROVE  \/ InFlight(p)' \subseteq InFlight(p)
         \/ Len(recent[p]) < MaxRequests
<1> DEFINE skipped == {q \in S \cap held \cap offered : health[q] = "unhealthy" \/ ~CanRequest(q)}
           r == Ranked(S \ skipped)
           left == {q \in S : Priority[q] > Priority[r]}
<1>1. call' = [call EXCEPT ![c] =
        IF S \subseteq skipped \/ r \notin held \cap offered THEN Idle
        ELSE [kind |-> kind, on |-> r, detached |-> FALSE, left |-> left]]
  BY DEF Try
<1>2. call \in [Callers -> Waiting \cup {Idle}]
  BY DEF RouterTypeOK
<1>3. ~(S \subseteq skipped) /\ r \in held \cap offered => Len(recent[r]) < MaxRequests
  <2> SUFFICES ASSUME ~(S \subseteq skipped), r \in held \cap offered
               PROVE  Len(recent[r]) < MaxRequests
    OBVIOUS
  <2>1. r \in S \ skipped
    BY RankedIn
  <2>2. CanRequest(r)
    BY <2>1
  <2> QED BY <2>2 DEF CanRequest
<1> HIDE DEF r, left, skipped
<1>4. CASE S \subseteq skipped \/ r \notin held \cap offered
  BY <1>1, <1>2, <1>4 DEF InFlight
<1>5. CASE ~(S \subseteq skipped) /\ r \in held \cap offered /\ p = r
  BY <1>3, <1>5
<1>6. CASE ~(S \subseteq skipped) /\ r \in held \cap offered /\ p # r
  <2>1. call' = [call EXCEPT ![c] = [kind |-> kind, on |-> r, detached |-> FALSE, left |-> left]]
    BY <1>1, <1>6
  <2> QED BY <1>2, <1>6, <2>1 DEF InFlight
<1> QED BY <1>4, <1>5, <1>6

\* What does not add to a provider's window or to the completions under way on
\* it keeps the bound; so does what adds a completion to a window with room,
LEMMA OverrunKept ==
  ASSUME RouterTypeOK, OverrunBounded,
         \A p \in Providers :
           \/ /\ Len(recent'[p]) \in Nat /\ Len(recent'[p]) <= Len(recent[p])
              /\ InFlight(p)' \subseteq InFlight(p)
           \/ Len(recent'[p]) \in Nat /\ Len(recent'[p]) < MaxRequests
  PROVE  OverrunBounded'
<1> SUFFICES ASSUME NEW p \in Providers
             PROVE  Len(recent'[p]) + Cardinality(InFlight(p)')
                      <= MaxRequests - 1 + Cardinality(Callers)
  BY DEF OverrunBounded
<1>1. /\ IsFiniteSet(InFlight(p)) /\ Cardinality(InFlight(p)) \in Nat
      /\ Cardinality(Callers) \in Nat /\ MaxRequests \in Nat /\ Len(recent[p]) \in Nat
      /\ Len(recent[p]) + Cardinality(InFlight(p)) <= MaxRequests - 1 + Cardinality(Callers)
  BY InFlightFacts, LimitsFacts DEF RouterTypeOK, OverrunBounded
<1>2. InFlight(p)' \subseteq Callers
  BY DEF InFlight
<1>3. /\ Cardinality(InFlight(p)') \in Nat
      /\ Cardinality(InFlight(p)') <= Cardinality(Callers)
  BY <1>2, ProvidersAssumption, FS_Subset, FS_CardinalityType
<1>4. CASE /\ Len(recent'[p]) \in Nat /\ Len(recent'[p]) <= Len(recent[p])
           /\ InFlight(p)' \subseteq InFlight(p)
  <2>1. Cardinality(InFlight(p)') <= Cardinality(InFlight(p))
    BY <1>1, <1>4, FS_Subset
  <2> QED BY <1>1, <1>3, <1>4, <2>1
<1>5. CASE Len(recent'[p]) \in Nat /\ Len(recent'[p]) < MaxRequests
  BY <1>1, <1>3, <1>5
<1> QED BY <1>4, <1>5

\* and a completion that returns trades its place under way for one in the window.
LEMMA OverrunTraded ==
  ASSUME RouterTypeOK, OverrunBounded, NEW p \in Providers, NEW c \in InFlight(p), NEW t \in Tokens,
         recent' = [recent EXCEPT ![p] = Append(@, t)],
         \A q \in Providers : InFlight(q)' = InFlight(q) \ {c}
  PROVE  OverrunBounded'
<1> SUFFICES ASSUME NEW q \in Providers
             PROVE  Len(recent'[q]) + Cardinality(InFlight(q)')
                      <= MaxRequests - 1 + Cardinality(Callers)
  BY DEF OverrunBounded
<1>1. /\ IsFiniteSet(InFlight(q)) /\ Cardinality(InFlight(q)) \in Nat
      /\ Cardinality(Callers) \in Nat /\ MaxRequests \in Nat
      /\ recent[q] \in Seq(Tokens) /\ Len(recent[q]) \in Nat
      /\ Len(recent[q]) + Cardinality(InFlight(q)) <= MaxRequests - 1 + Cardinality(Callers)
  BY InFlightFacts, LimitsFacts DEF RouterTypeOK, OverrunBounded
<1>2. CASE q = p
  <2>1. Cardinality(InFlight(q)') = Cardinality(InFlight(q)) - 1
    BY <1>1, <1>2, FS_RemoveElement
  <2>2. Len(recent'[q]) = Len(recent[q]) + 1
    BY <1>1, <1>2 DEF RouterTypeOK
  <2> QED BY <1>1, <2>1, <2>2
<1>3. CASE q # p
  <2>1. InFlight(q)' = InFlight(q) /\ recent'[q] = recent[q]
    BY <1>3 DEF InFlight, RouterTypeOK
  <2> QED BY <1>1, <2>1
<1> QED BY <1>2, <1>3

\* Detaching calls leaves them under way.
LEMMA DetachInFlight ==
  ASSUME RouterTypeOK, NEW S, Detach(S), NEW p
  PROVE  InFlight(p)' = InFlight(p)
<1>1. \A c \in Callers : call[c] \in Waiting \cup {Idle}
  BY DEF RouterTypeOK
<1>2. ASSUME NEW c \in Callers, call[c] # Idle
      PROVE  /\ [call[c] EXCEPT !.detached = TRUE] # Idle
             /\ [call[c] EXCEPT !.detached = TRUE].kind = call[c].kind
             /\ [call[c] EXCEPT !.detached = TRUE].on = call[c].on
  BY <1>1, <1>2 DEF Waiting, Idle
<1> QED BY <1>2 DEF Detach, InFlight

LEMMA OverrunNext == RouterTypeOK /\ OverrunBounded /\ [RouterNext]_routerVars => OverrunBounded'
<1> SUFFICES ASSUME RouterTypeOK, OverrunBounded, [RouterNext]_routerVars PROVE OverrunBounded'
  OBVIOUS
<1>a. \A p \in Providers : recent[p] \in Seq(Tokens) /\ Len(recent[p]) \in Nat
  BY DEF RouterTypeOK
<1>b. call \in [Callers -> Waiting \cup {Idle}] /\ recent \in [Providers -> Seq(Tokens)]
  BY DEF RouterTypeOK
<1>1. ASSUME NEW p \in Providers, RegisterProvider(p) PROVE OverrunBounded'
  <2>1. \A q \in Providers : InFlight(q)' = InFlight(q)
    BY <1>1, DetachInFlight DEF RegisterProvider
  <2>2. \A q \in Providers : recent'[q] = recent[q] \/ recent'[q] = <<>>
    BY <1>1, <1>b DEF RegisterProvider
  <2>3. Len(<<>>) = 0 /\ 0 < MaxRequests
    BY LimitsFacts
  <2> QED BY <1>a, <2>1, <2>2, <2>3, OverrunKept
<1>2. ASSUME recent' = recent, call' = call PROVE OverrunBounded'
  BY <1>2 DEF OverrunBounded, InFlight
<1>3. ASSUME recent' = recent, NEW S, Detach(S) PROVE OverrunBounded'
  <2>1. \A q \in Providers : InFlight(q)' = InFlight(q)
    BY <1>3, DetachInFlight
  <2> QED BY <1>a, <1>3, <2>1, OverrunKept
<1>4. ASSUME NEW p \in Providers, Expire(p) PROVE OverrunBounded'
  <2>1. \A q \in Providers : InFlight(q)' = InFlight(q)
    BY <1>4 DEF Expire, InFlight
  <2>2. Len(Tail(recent[p])) \in Nat /\ Len(Tail(recent[p])) <= Len(recent[p])
    BY <1>a, <1>4 DEF Expire
  <2>3. \A q \in Providers : recent'[q] = IF q = p THEN Tail(recent[p]) ELSE recent[q]
    BY <1>b, <1>4 DEF Expire
  <2>4. \A q \in Providers : Len(recent'[q]) \in Nat /\ Len(recent'[q]) <= Len(recent[q])
    <3>1. \A q \in Providers \ {p} : recent'[q] = recent[q]
      BY <2>3
    <3>2. recent'[p] = Tail(recent[p])
      BY <2>3
    <3>3. \A q \in Providers : Len(recent[q]) \in Nat /\ Len(recent[q]) <= Len(recent[q])
      BY <1>a
    <3> QED BY <2>2, <3>1, <3>2, <3>3, Zenon
  <2> QED BY <2>1, <2>4, OverrunKept
<1>5. ASSUME recent' = recent, NEW c \in Callers, NEW kind \in {"complete", "stream"},
             NEW S \in SUBSET Providers, Try(c, kind, S)
      PROVE  OverrunBounded'
  <2>1. \A p \in Providers : InFlight(p)' \subseteq InFlight(p) \/ Len(recent[p]) < MaxRequests
    BY <1>5, TryAdmits
  <2> QED BY <1>a, <1>5, <2>1, OverrunKept
<1>6. ASSUME recent' = recent, NEW c \in Callers, call' = [call EXCEPT ![c] = Idle]
      PROVE  OverrunBounded'
  <2>1. \A p \in Providers : InFlight(p)' \subseteq InFlight(p)
    BY <1>b, <1>6 DEF InFlight
  <2> QED BY <1>a, <1>6, <2>1, OverrunKept
<1>7. ASSUME NEW c \in Callers, NEW k \in {"complete", "stream"}, NEW h \in Hints,
             Request(c, k, h)
      PROVE  OverrunBounded'
  <2>1. Selected(h) \in SUBSET Providers
    BY DEF Selected, RouterTypeOK
  <2> QED BY <1>5, <1>7, <2>1 DEF Request
<1>8. ASSUME NEW c \in Callers, NEW t \in Tokens, NEW u \in Costs, Succeed(c, t, u)
      PROVE  OverrunBounded'
  <2>1. call[c] \in Waiting /\ call' = [call EXCEPT ![c] = Idle]
    BY <1>b, <1>8 DEF Succeed
  <2>2. CASE call[c].kind = "complete"
    <3>1. call[c].on \in Providers /\ c \in InFlight(call[c].on)
      BY <1>8, <2>1, <2>2 DEF InFlight, Waiting, Succeed
    <3>2. recent' = [recent EXCEPT ![call[c].on] = Append(@, t)]
      BY <1>8, <2>2 DEF Succeed
    <3>3. \A q \in Providers : InFlight(q)' = InFlight(q) \ {c}
      BY <1>b, <2>1 DEF InFlight
    <3> QED BY <3>1, <3>2, <3>3, OverrunTraded
  <2>3. CASE call[c].kind # "complete"
    BY <1>6, <1>8, <2>1, <2>3 DEF Succeed
  <2> QED BY <2>2, <2>3
<1>9. ASSUME NEW c \in Callers, NEW r \in BOOLEAN, Fail(c, r) PROVE OverrunBounded'
  <2>1. call[c].left \in SUBSET Providers /\ call[c].kind \in {"complete", "stream"}
    <3>1. call[c] \in Waiting
      BY <1>b, <1>9 DEF Fail
    <3> QED BY <3>1 DEF Waiting
  <2> QED BY <1>5, <1>6, <1>9, <2>1 DEF Fail
<1>10. ASSUME NEW c \in Callers, Abandon(c) PROVE OverrunBounded'
  BY <1>6, <1>10 DEF Abandon
<1> QED
  BY <1>1, <1>2, <1>3, <1>4, <1>7, <1>8, <1>9, <1>10
  DEF RouterNext, Answer, routerVars, UnregisterProvider, Unregistered, UnregisterFailed,
      Shutdown, ShutdownDone, ShutdownFailed

LEMMA OverrunInit == RouterInit => OverrunBounded
<1> SUFFICES ASSUME RouterInit, NEW p \in Providers
             PROVE  Len(recent[p]) + Cardinality(InFlight(p))
                      <= MaxRequests - 1 + Cardinality(Callers)
  BY DEF OverrunBounded
<1>1. Len(recent[p]) = 0
  BY DEF RouterInit
<1> QED BY <1>1, InFlightFacts, LimitsFacts

\* The variables of the model router keep their types.
THEOREM RouterTypeCorrect == RouterSpec => []RouterTypeOK
<1> QED BY RouterTypeInit, RouterTypeNext, PTL DEF RouterSpec

\* The completions in the window, checked before the wait and filled after it,
\* never overrun the limit by more than the callers that can be between the two.
THEOREM OverrunCorrect == RouterSpec => []OverrunBounded
<1> QED BY RouterTypeCorrect, OverrunInit, OverrunNext, PTL DEF RouterSpec

\* The running totals of the ledger are the sums of the entries it still keeps.
THEOREM LedgerCorrect == RouterSpec => []LedgerBalances
<1> QED BY RouterTypeCorrect, LedgerInit, LedgerNext, PTL DEF RouterSpec

-----------------------------------------------------------------------------
(* The state manager. *)

Any == Statuses \cup {None}

LEMMA ReducerFacts ==
  /\ \A k : \A v \in Any : task_reducer(v, k) \in Any
  /\ \A k : \A v \in Statuses : task_reducer(v, k) \in Statuses
  /\ \A v, w \in Statuses, k \in DOMAIN StatusOf : task_reducer(v, k) = task_reducer(w, k)
  /\ \A k : \A v \in Statuses : k \notin DOMAIN StatusOf => task_reducer(v, k) = v
  /\ \A k : k # "created" => task_reducer(None, k) = None
  /\ \A v \in Any : task_reducer(v, "created") \in Statuses
  /\ "created" \notin DOMAIN StatusOf
<1>1. "pending" \in Statuses /\ \A k \in DOMAIN StatusOf : StatusOf[k] \in Statuses
  BY DEF Statuses
<1>2. "created" \notin DOMAIN StatusOf
  BY DEF StatusOf
<1> QED BY <1>1, <1>2, NoneAssumption DEF task_reducer, Any

\* f is the fold of the events about t.
IsFold(f, t) ==
  /\ f \in [0 .. Heard -> Any] /\ f[0] = None
  /\ \A n \in 1 .. Heard :
       f[n] = IF log[n].about = t THEN task_reducer(f[n - 1], log[n].kind) ELSE f[n - 1]

\* f brings v forward by the events of C.
IsResumed(f, v, C) ==
  /\ f \in [0 .. Heard -> Any] /\ f[0] = v
  /\ \A n \in 1 .. Heard :
       f[n] = IF n \in C THEN task_reducer(f[n - 1], log[n].kind) ELSE f[n - 1]

StreamPast(t, after) == {n \in 1 .. Heard : log[n].about = t /\ SequenceOf(n) > after}

LEMMA ResumedExists ==
  ASSUME Heard \in Nat, NEW v \in Any, NEW C
  PROVE  \E f : IsResumed(f, v, C)
<1> DEFINE step == [n \in 1 .. Heard |-> [w \in Any |->
                      IF n \in C THEN task_reducer(w, log[n].kind) ELSE w]]
<1>1. step \in [1 .. Heard -> [Any -> Any]]
  BY ReducerFacts
<1>2. \A n \in 1 .. Heard, w \in Any :
        step[n][w] = IF n \in C THEN task_reducer(w, log[n].kind) ELSE w
  OBVIOUS
<1> HIDE DEF step
<1>3. PICK f : IsHistory(f, Heard, Any, v, step)
  BY <1>1, StepsExist
<1>4. \A i \in 1 .. Heard : f[i - 1] \in Any
  <2>1. \A i \in 1 .. Heard : i - 1 \in 0 .. Heard
    OBVIOUS
  <2> QED BY <1>3, <2>1 DEF IsHistory
<1>5. IsResumed(f, v, C)
  BY <1>2, <1>3, <1>4 DEF IsResumed, IsHistory
<1> QED BY <1>5

\* Refolded is the end of such a history.
LEMMA RefoldedIs ==
  ASSUME Heard \in Nat, NEW t, NEW v \in Any, NEW after, NEW h,
         IsResumed(h, v, StreamPast(t, after))
  PROVE  Refolded(t, v, after) = h[Heard]
<1> DEFINE IsUpTo(f) == f = [n \in 0 .. Heard |->
                               IF n = 0 THEN v
                               ELSE IF log[n].about = t /\ SequenceOf(n) > after
                               THEN task_reducer(f[n - 1], log[n].kind)
                               ELSE f[n - 1]]
           f == CHOOSE g : IsUpTo(g)
<1>1. Refolded(t, v, after) = f[Heard]
  BY DEF Refolded
<1>2. IsUpTo(h)
  <2>1. \A n \in 0 .. Heard : n = 0 \/ n \in 1 .. Heard
    OBVIOUS
  <2>2. \A n \in 1 .. Heard :
          n \in StreamPast(t, after) <=> log[n].about = t /\ SequenceOf(n) > after
    BY DEF StreamPast
  <2>3. \A n \in 1 .. Heard : n # 0
    OBVIOUS
  <2> QED BY <2>1, <2>2, <2>3 DEF IsResumed
<1>3. IsUpTo(f)
  BY <1>2
<1>4. /\ f[0] = v /\ h[0] = v
      /\ \A n \in 1 .. Heard :
           /\ f[n] = IF log[n].about = t /\ SequenceOf(n) > after
                     THEN task_reducer(f[n - 1], log[n].kind) ELSE f[n - 1]
           /\ h[n] = IF log[n].about = t /\ SequenceOf(n) > after
                     THEN task_reducer(h[n - 1], log[n].kind) ELSE h[n - 1]
  <2>1. 0 \in 0 .. Heard /\ \A n \in 1 .. Heard : n \in 0 .. Heard /\ n # 0
    OBVIOUS
  <2>2. /\ f[0] = v
        /\ \A n \in 1 .. Heard :
             f[n] = IF log[n].about = t /\ SequenceOf(n) > after
                    THEN task_reducer(f[n - 1], log[n].kind) ELSE f[n - 1]
    BY ONLY <1>3, <2>1
  <2>3. /\ h[0] = v
        /\ \A n \in 1 .. Heard :
             h[n] = IF log[n].about = t /\ SequenceOf(n) > after
                    THEN task_reducer(h[n - 1], log[n].kind) ELSE h[n - 1]
    BY DEF IsResumed, StreamPast
  <2> QED BY <2>2, <2>3
<1> HIDE DEF f
<1> DEFINE S == {n \in 0 .. Heard : f[n] = h[n]}
<1>5. 0 \in S
  BY <1>4
<1>6. ASSUME NEW i \in 0 .. Heard - 1, i \in S PROVE i + 1 \in S
  <2>1. i + 1 \in 1 .. Heard /\ (i + 1) - 1 = i /\ i + 1 \in 0 .. Heard
    OBVIOUS
  <2> QED BY <1>4, <1>6, <2>1
<1> HIDE DEF S
<1>7. \A i \in 0 .. Heard - 1 : i \in S => i + 1 \in S
  BY <1>6
<1>8. \A i \in 0 .. Heard : i \in S
  BY <1>5, <1>7, UpTo
<1>9. Heard \in S
  BY <1>8
<1> QED BY <1>1, <1>9 DEF S

LEMMA FoldExists ==
  ASSUME Heard \in Nat, NEW t
  PROVE  \E f : IsFold(f, t)
<1> DEFINE C == {n \in 1 .. Heard : log[n].about = t}
<1>1. None \in Any
  BY DEF Any
<1>2. PICK f : IsResumed(f, None, C)
  BY <1>1, ResumedExists
<1> QED BY <1>2 DEF IsResumed, IsFold

\* Where nothing about t is published the fold stands still,
LEMMA FoldStill ==
  ASSUME Heard \in Nat, NEW t, NEW f, IsFold(f, t), NEW p \in 0 .. Heard, NEW q \in p .. Heard,
         \A n \in p + 1 .. q : log[n].about # t
  PROVE  f[q] = f[p]
<1> DEFINE S == {i \in 0 .. q - p : f[p + i] = f[p]}
<1>1. p \in Nat /\ q \in Nat /\ q - p \in Nat /\ p + (q - p) = q /\ q <= Heard
  OBVIOUS
<1>2. 0 \in S
  BY <1>1
<1>3. ASSUME NEW i \in 0 .. (q - p) - 1, i \in S PROVE i + 1 \in S
  <2>1. /\ p + (i + 1) \in 1 .. Heard /\ (p + (i + 1)) - 1 = p + i
        /\ p + (i + 1) \in p + 1 .. q /\ i + 1 \in 0 .. q - p
    BY <1>1
  <2>2. f[p + (i + 1)] = f[p + i]
    BY <2>1 DEF IsFold
  <2> QED BY <1>3, <2>1, <2>2
<1> HIDE DEF S
<1>4. \A i \in 0 .. (q - p) - 1 : i \in S => i + 1 \in S
  BY <1>3
<1>5. \A i \in 0 .. q - p : i \in S
  BY <1>1, <1>2, <1>4, UpTo
<1>6. q - p \in S
  BY <1>1, <1>5
<1> QED BY <1>1, <1>6 DEF S

\* and once the task is created it has a status.
LEMMA FoldCreated ==
  ASSUME Heard \in Nat, NEW t, NEW f, IsFold(f, t), NEW m \in 1 .. Heard, NEW q \in m .. Heard,
         log[m].about = t, log[m].kind = "created"
  PROVE  f[q] \in Statuses
<1> DEFINE S == {i \in 0 .. q - m : f[m + i] \in Statuses}
<1>1. m \in Nat /\ q \in Nat /\ q - m \in Nat /\ m + (q - m) = q /\ q <= Heard /\ m >= 1
  OBVIOUS
<1>2. 0 \in S
  <2>1. m - 1 \in 0 .. Heard /\ m + 0 = m
    BY <1>1
  <2>2. f[m - 1] \in Any /\ f[m] = task_reducer(f[m - 1], "created")
    BY <2>1 DEF IsFold
  <2> QED BY <1>1, <2>1, <2>2, ReducerFacts
<1>3. ASSUME NEW i \in 0 .. (q - m) - 1, i \in S PROVE i + 1 \in S
  <2>1. m + (i + 1) \in 1 .. Heard /\ (m + (i + 1)) - 1 = m + i /\ i + 1 \in 0 .. q - m
    BY <1>1
  <2>2. f[m + (i + 1)] = f[m + i] \/ f[m + (i + 1)] = task_reducer(f[m + i], log[m + (i + 1)].kind)
    BY <2>1 DEF IsFold
  <2>3. f[m + i] \in Statuses
    BY <1>3
  <2>4. task_reducer(f[m + i], log[m + (i + 1)].kind) \in Statuses
    BY <2>3, ReducerFacts
  <2> QED BY <2>1, <2>2, <2>3, <2>4
<1> HIDE DEF S
<1>4. \A i \in 0 .. (q - m) - 1 : i \in S => i + 1 \in S
  BY <1>3
<1>5. \A i \in 0 .. q - m : i \in S
  BY <1>1, <1>2, <1>4, UpTo
<1>6. q - m \in S
  BY <1>1, <1>5
<1> QED BY <1>1, <1>6 DEF S

\* Some event about t and all that follow it.
IsRest(C, t) ==
  /\ \A n \in C : n \in 1 .. Heard /\ log[n].about = t
  /\ \A m \in C, n \in 1 .. Heard : m <= n /\ log[n].about = t => n \in C

\* Applied again from any event on, to what they made of it up to p, the events
\* of a task that is created first give the same once more: up to where the
\* first status is set again the value stays, from there on it is the fold.
LEMMA AppliedAgain ==
  ASSUME Heard \in Nat, NEW t, NEW f, IsFold(f, t), CreatedFirst(t), NEW p \in 0 .. Heard,
         NEW C, IsRest(C, t), NEW g, IsResumed(g, f[p], C)
  PROVE  g[p] = f[p]
<1> DEFINE Caught(i) == g[i] = f[i] /\ \E m \in C : m <= i
           S == {i \in 0 .. p : g[i] = f[p] \/ Caught(i)}
<1>1. /\ p \in Nat /\ p <= Heard
      /\ \A n \in C : n \in 1 .. Heard /\ log[n].about = t
      /\ \A m \in C, n \in 1 .. Heard : m <= n /\ log[n].about = t => n \in C
  BY DEF IsRest
<1>2. 0 \in S
  BY <1>1 DEF IsResumed
<1>3. ASSUME NEW i \in 0 .. p - 1, i \in S PROVE i + 1 \in S
  <2> DEFINE k == log[i + 1].kind
  <2>1. /\ i + 1 \in 1 .. Heard /\ (i + 1) - 1 = i /\ i \in 0 .. Heard /\ i + 1 \in 0 .. p
        /\ p \in i + 1 .. Heard /\ i + 1 <= Heard
    BY <1>1
  <2>2. f[i] \in Any /\ g[i] \in Any /\ f[p] \in Any
    BY <2>1 DEF IsFold, IsResumed
  <2>3. CASE i + 1 \notin C
    <3>1. g[i + 1] = g[i]
      BY <2>1, <2>3 DEF IsResumed
    <3>2. CASE g[i] = f[p]
      BY <2>1, <3>1, <3>2
    <3>3. CASE Caught(i)
      <4>1. PICK m \in C : m <= i
        BY <3>3
      <4>2. m <= i + 1 /\ m \in 1 .. Heard
        BY <1>1, <4>1, <2>1
      <4>3. log[i + 1].about # t
        BY <1>1, <2>1, <2>3, <4>1, <4>2
      <4>4. f[i + 1] = f[i]
        BY <2>1, <4>3 DEF IsFold
      <4> QED BY <2>1, <3>1, <3>3, <4>1, <4>2, <4>4
    <3> QED BY <1>3, <3>2, <3>3
  <2>4. CASE i + 1 \in C
    <3>1. log[i + 1].about = t /\ g[i + 1] = task_reducer(g[i], k) /\ f[i + 1] = task_reducer(f[i], k)
      BY <1>1, <2>1, <2>4 DEF IsResumed, IsFold
    <3>2. ASSUME task_reducer(g[i], k) = task_reducer(f[i], k) PROVE i + 1 \in S
      <4>1. i + 1 <= i + 1
        BY <2>1
      <4> QED BY <2>1, <2>4, <3>1, <3>2, <4>1
    <3>3. CASE Caught(i)
      BY <3>2, <3>3
    <3>4. CASE g[i] = f[p] /\ k \in DOMAIN StatusOf
      <4>1. PICK m \in 1 .. (i + 1) - 1 : log[m].about = t /\ log[m].kind = "created"
        BY <2>1, <3>1, <3>4 DEF CreatedFirst
      <4>2. /\ m \in 1 .. Heard /\ i \in m .. Heard /\ p \in m .. Heard
            /\ log[m].about = t /\ log[m].kind = "created"
        BY <2>1, <4>1
      <4>3. f[i] \in Statuses /\ f[p] \in Statuses
        BY <4>2, FoldCreated
      <4> QED BY <3>2, <3>4, <4>3, ReducerFacts
    <3>5. CASE g[i] = f[p] /\ k \notin DOMAIN StatusOf
      <4>1. g[i + 1] = f[p]
        <5>1. CASE f[p] \in Statuses
          BY <3>1, <3>5, <5>1, ReducerFacts
        <5>2. CASE f[p] = None /\ k # "created"
          BY <3>1, <3>5, <5>2, ReducerFacts
        <5>3. CASE f[p] = None /\ k = "created"
          <6>1. f[p] \in Statuses
            BY <2>1, <3>1, <5>3, FoldCreated
          <6> QED BY <5>3, <6>1, NoneAssumption
        <5> QED BY <2>2, <5>1, <5>2, <5>3 DEF Any
      <4> QED BY <2>1, <4>1
    <3> QED BY <1>3, <3>3, <3>4, <3>5
  <2> QED BY <2>3, <2>4
<1> HIDE DEF S
<1>4. \A i \in 0 .. p - 1 : i \in S => i + 1 \in S
  BY <1>3
<1>5. \A i \in 0 .. p : i \in S
  BY <1>1, <1>2, <1>4, UpTo
<1>6. p \in S
  BY <1>1, <1>5
<1> QED BY <1>1, <1>6 DEF S

\* How many of the first p events are about t.
Nth(t, p) == Cardinality({i \in 1 .. p : log[i].about = t})

LEMMA NthFacts ==
  ASSUME NEW t, NEW p \in Nat, NEW q \in Nat, p <= q
  PROVE  /\ Nth(t, p) \in Nat /\ Nth(t, p) <= Nth(t, q)
         /\ p < q /\ log[q].about = t => Nth(t, p) < Nth(t, q)
<1> DEFINE P == {i \in 1 .. p : log[i].about = t}
           Q == {i \in 1 .. q : log[i].about = t}
<1>1. IsFiniteSet(P) /\ IsFiniteSet(Q)
  <2>1. IsFiniteSet(1 .. p) /\ IsFiniteSet(1 .. q)
    BY FS_Interval
  <2>2. P \subseteq 1 .. p /\ Q \subseteq 1 .. q
    OBVIOUS
  <2> QED BY <2>1, <2>2, FS_Subset
<1>2. Cardinality(P) \in Nat /\ Cardinality(Q) \in Nat
  BY <1>1, FS_CardinalityType
<1>3. P \subseteq Q
  OBVIOUS
<1>4. Cardinality(P) <= Cardinality(Q)
  BY <1>1, <1>3, FS_Subset
<1>5. ASSUME p < q, log[q].about = t PROVE Cardinality(P) < Cardinality(Q)
  <2>1. q \in Q \ P
    BY <1>5
  <2>2. IsFiniteSet(P \cup {q}) /\ Cardinality(P \cup {q}) = Cardinality(P) + 1
    BY <1>1, <2>1, FS_AddElement
  <2>3. P \cup {q} \subseteq Q
    BY <1>3, <2>1
  <2>4. Cardinality(P \cup {q}) <= Cardinality(Q)
    BY <1>1, <2>3, FS_Subset
  <2> QED BY <1>2, <2>2, <2>4
<1> HIDE DEF P, Q
<1>6. Nth(t, p) = Cardinality(P) /\ Nth(t, q) = Cardinality(Q)
  BY DEF Nth, P, Q
<1> QED BY <1>2, <1>4, <1>5, <1>6

\* Within a stream the sequence grows, and where all that is about t is in one stream
\* it is never behind the count of what is about t.
LEMMA SequenceGrows ==
  ASSUME NEW m \in Nat, NEW n \in Nat, m <= n, log[m].task = log[n].task
  PROVE  SequenceOf(m) \in Nat /\ SequenceOf(n) \in Nat /\ SequenceOf(m) <= SequenceOf(n)
<1> DEFINE M == {i \in 1 .. m : log[i].task = log[m].task}
           N == {i \in 1 .. n : log[i].task = log[n].task}
<1>1. IsFiniteSet(1 .. n)
  BY FS_Interval
<1>2. M \subseteq N /\ N \subseteq 1 .. n
  OBVIOUS
<1>3. IsFiniteSet(N)
  BY <1>1, <1>2, FS_Subset
<1>4. IsFiniteSet(M) /\ Cardinality(M) <= Cardinality(N)
  BY <1>2, <1>3, FS_Subset
<1>5. Cardinality(M) \in Nat /\ Cardinality(N) \in Nat
  BY <1>3, <1>4, FS_CardinalityType
<1> QED BY <1>4, <1>5 DEF SequenceOf

LEMMA SequenceAhead ==
  ASSUME Heard \in Nat, NEW t, NEW n \in 1 .. Heard, log[n].about = t
  PROVE  /\ SequenceOf(n) \in Nat /\ SequenceOf(n) > 0
         /\ OneStream(t) => Nth(t, n) <= SequenceOf(n)
<1> DEFINE A == {i \in 1 .. n : log[i].about = t}
           N == {i \in 1 .. n : log[i].task = log[n].task}
<1>1. IsFiniteSet(1 .. n) /\ n \in N /\ N \subseteq 1 .. n
  BY FS_Interval
<1>2. IsFiniteSet(N)
  BY <1>1, FS_Subset
<1>3. Cardinality(N) \in Nat /\ Cardinality(N) # 0
  BY <1>1, <1>2, FS_CardinalityType, FS_EmptySet
<1>4. ASSUME OneStream(t) PROVE Cardinality(A) <= Cardinality(N)
  <2>1. \A i \in 1 .. n : i \in 1 .. Heard
    OBVIOUS
  <2>2. A \subseteq N
    BY <1>4, <2>1 DEF OneStream
  <2> QED BY <1>2, <2>2, FS_Subset
<1>5. SequenceOf(n) = Cardinality(N) /\ Nth(t, n) = Cardinality(A)
  BY DEF SequenceOf, Nth
<1> QED BY <1>3, <1>4, <1>5

\* What event n of the log l makes of the status v of t.
After(l, n, t, v) == IF l[n].about = t THEN task_reducer(v, l[n].kind) ELSE v

\* The deliveries q, once made, bring the status of t from v to w.
Brings(l, q, t, v, w) ==
  \E h \in [0 .. Len(q) -> Any] :
    /\ h[0] = v /\ h[Len(q)] = w
    /\ \A i \in 1 .. Len(q) : h[i] = After(l, q[i], t, h[i - 1])

LEMMA AfterType == \A l, n, t, v : v \in Any => After(l, n, t, v) \in Any
BY ReducerFacts DEF After

LEMMA BringsAppend ==
  ASSUME NEW S, NEW q \in Seq(S), NEW n \in S, NEW l, NEW t, NEW v, NEW w, Brings(l, q, t, v, w)
  PROVE  Brings(l, Append(q, n), t, v, After(l, n, t, w))
<1> DEFINE N == Len(q)
           r == Append(q, n)
<1>1. PICK h \in [0 .. N -> Any] :
        /\ h[0] = v /\ h[N] = w
        /\ \A i \in 1 .. N : h[i] = After(l, q[i], t, h[i - 1])
  BY DEF Brings
<1>2. N \in Nat /\ Len(r) = N + 1 /\ r[N + 1] = n /\ \A i \in 1 .. N : r[i] = q[i]
  OBVIOUS
<1> HIDE DEF r
<1> DEFINE g == [i \in 0 .. N + 1 |-> IF i = N + 1 THEN After(l, n, t, w) ELSE h[i]]
<1> HIDE DEF N
<1>3. /\ 0 .. N + 1 = (0 .. N) \cup {N + 1} /\ N + 1 \notin 0 .. N /\ 0 \in 0 .. N /\ N \in 0 .. N
      /\ 1 .. N + 1 = (1 .. N) \cup {N + 1} /\ (N + 1) - 1 = N
      /\ \A i \in 1 .. N : i \in 0 .. N /\ i - 1 \in 0 .. N
  BY <1>2
<1>4. w \in Any /\ After(l, n, t, w) \in Any
  <2>1. w \in Any
    BY <1>1, <1>3
  <2> QED BY <2>1, AfterType
<1>5. g \in [0 .. N + 1 -> Any]
  BY <1>1, <1>3, <1>4
<1>6. g[N + 1] = After(l, n, t, w) /\ \A i \in 0 .. N : g[i] = h[i]
  BY <1>3
<1> HIDE DEF g
<1>7. g[0] = v /\ \A i \in 1 .. N + 1 : g[i] = After(l, r[i], t, g[i - 1])
  BY <1>1, <1>2, <1>3, <1>6
<1>8. Brings(l, r, t, v, After(l, n, t, w))
  BY <1>2, <1>5, <1>6, <1>7 DEF Brings
<1> QED BY <1>8 DEF r

LEMMA BringsTail ==
  ASSUME NEW S, NEW q \in Seq(S), q # <<>>, NEW l, NEW t, NEW v, NEW w, Brings(l, q, t, v, w)
  PROVE  Brings(l, Tail(q), t, After(l, Head(q), t, v), w)
<1> DEFINE N == Len(q)
           r == Tail(q)
<1>1. PICK h \in [0 .. N -> Any] :
        /\ h[0] = v /\ h[N] = w
        /\ \A i \in 1 .. N : h[i] = After(l, q[i], t, h[i - 1])
  BY DEF Brings
<1>2. N \in Nat /\ N > 0 /\ Len(r) = N - 1 /\ Head(q) = q[1] /\ \A i \in 1 .. N - 1 : r[i] = q[i + 1]
  OBVIOUS
<1> HIDE DEF r
<1> DEFINE g == [i \in 0 .. N - 1 |-> h[i + 1]]
<1> HIDE DEF N
<1>3. /\ \A i \in 0 .. N - 1 : i + 1 \in 0 .. N /\ i + 1 \in 1 .. N
      /\ \A i \in 1 .. N - 1 : i \in 0 .. N - 1 /\ i - 1 \in 0 .. N - 1 /\ (i - 1) + 1 = i /\ (i + 1) - 1 = i
      /\ 0 \in 0 .. N - 1 /\ N - 1 \in 0 .. N - 1 /\ (N - 1) + 1 = N /\ 1 \in 1 .. N /\ 0 + 1 = 1 /\ 1 - 1 = 0
      /\ N - 1 \in Nat
  BY <1>2
<1>4. g \in [0 .. N - 1 -> Any] /\ \A i \in 0 .. N - 1 : g[i] = h[i + 1]
  BY <1>1, <1>3
<1> HIDE DEF g
<1>5. g[0] = After(l, q[1], t, v) /\ g[N - 1] = w
  BY <1>1, <1>3, <1>4
<1>6. \A i \in 1 .. N - 1 : g[i] = After(l, r[i], t, g[i - 1])
  <2>1. \A i \in 1 .. N - 1 : i + 1 \in 1 .. N
    BY <1>3
  <2>2. \A i \in 1 .. N - 1 : h[i + 1] = After(l, q[i + 1], t, h[i])
    BY <1>1, <1>3, <2>1
  <2> QED BY <1>2, <1>3, <1>4, <2>2
<1>7. Brings(l, r, t, After(l, q[1], t, v), w)
  BY <1>2, <1>4, <1>5, <1>6 DEF Brings
<1> QED BY <1>2, <1>7 DEF r

\* Deliveries of other tasks bring nothing.
LEMMA BringsNothing ==
  ASSUME NEW S, NEW q \in Seq(S), NEW l, NEW t, NEW v, NEW w, Brings(l, q, t, v, w),
         \A i \in 1 .. Len(q) : l[q[i]].about # t
  PROVE  v = w
<1>1. PICK h \in [0 .. Len(q) -> Any] :
        /\ h[0] = v /\ h[Len(q)] = w
        /\ \A i \in 1 .. Len(q) : h[i] = After(l, q[i], t, h[i - 1])
  BY DEF Brings
<1>2. \A i \in 1 .. Len(q) : h[i] = h[i - 1]
  BY <1>1 DEF After
<1> DEFINE T == {i \in 0 .. Len(q) : h[i] = v}
<1>3. Len(q) \in Nat /\ 0 \in T
  BY <1>1
<1>4. \A i \in 0 .. Len(q) - 1 : i \in T => i + 1 \in T
  <2>1. \A i \in 0 .. Len(q) - 1 : i + 1 \in 1 .. Len(q) /\ (i + 1) - 1 = i /\ i + 1 \in 0 .. Len(q)
    BY <1>3
  <2> QED BY <1>2, <2>1
<1> HIDE DEF T
<1>5. \A i \in 0 .. Len(q) : i \in T
  BY <1>3, <1>4, UpTo
<1>6. Len(q) \in T
  BY <1>3, <1>5
<1> QED BY <1>1, <1>6 DEF T

\* The events a replay dispatches to s again, and the queue of s with them.
Again(s, streams, after) ==
  {n \in 1 .. Len(log) :
     log[n].task \in streams /\ SequenceOf(n) > after /\ s \in Matching(log[n].kind)}

IsRescheduled(g, s, C) ==
  /\ g \in [0 .. Len(log) -> Seq(1 .. MaxEvents)] /\ g[0] = ready[s]
  /\ \A n \in 1 .. Len(log) : g[n] = IF n \in C THEN Append(g[n - 1], n) ELSE g[n - 1]

LEMMA RescheduledIs ==
  ASSUME BusTypeOK, NEW s \in Subscribers, NEW streams, NEW after
  PROVE  \E g : /\ IsRescheduled(g, s, Again(s, streams, after))
                /\ Rescheduled(s, streams, after) = g[Len(log)]
<1> DEFINE L == Len(log)
           C == Again(s, streams, after)
           Queues == Seq(1 .. MaxEvents)
           step == [n \in 1 .. L |-> [q \in Queues |-> IF n \in C THEN Append(q, n) ELSE q]]
<1>1. L \in Nat /\ ready[s] \in Queues /\ \A n \in 1 .. L : n \in 1 .. MaxEvents
  BY BoundAssumption DEF BusTypeOK
<1>2. step \in [1 .. L -> [Queues -> Queues]]
  <2>1. \A n \in 1 .. MaxEvents, q \in Queues : Append(q, n) \in Queues
    OBVIOUS
  <2> HIDE DEF Queues, C
  <2> QED BY <1>1, <2>1
<1>3. \A n \in 1 .. L, q \in Queues : step[n][q] = IF n \in C THEN Append(q, n) ELSE q
  OBVIOUS
<1> HIDE DEF step, Queues, L
<1>4. PICK h : IsHistory(h, L, Queues, ready[s], step)
  BY <1>1, <1>2, StepsExist
<1>5. \A i \in 1 .. L : h[i - 1] \in Queues
  <2>1. \A i \in 1 .. L : i - 1 \in 0 .. L
    BY <1>1
  <2> QED BY <1>4, <2>1 DEF IsHistory
<1>6. IsRescheduled(h, s, C)
  BY <1>3, <1>4, <1>5 DEF IsRescheduled, IsHistory, Queues, L
<1> DEFINE IsUpTo(f) == f = [n \in 0 .. Len(log) |->
                               IF n = 0 THEN ready[s]
                               ELSE IF /\ log[n].task \in streams /\ SequenceOf(n) > after
                                       /\ s \in Matching(log[n].kind)
                               THEN Append(f[n - 1], n)
                               ELSE f[n - 1]]
           f == CHOOSE g : IsUpTo(g)
<1>7. Rescheduled(s, streams, after) = f[Len(log)]
  BY DEF Rescheduled
<1>8. IsUpTo(h)
  <2>1. \A n \in 0 .. Len(log) : n = 0 \/ n \in 1 .. Len(log)
    BY <1>1 DEF L
  <2>2. \A n \in 1 .. Len(log) :
          n \in C <=> /\ log[n].task \in streams /\ SequenceOf(n) > after
                      /\ s \in Matching(log[n].kind)
    BY DEF Again
  <2>3. \A n \in 1 .. Len(log) : n # 0
    BY <1>1 DEF L
  <2> HIDE DEF C
  <2> QED BY Zenon, <1>6, <2>1, <2>2, <2>3 DEF IsRescheduled
<1>9. IsUpTo(f)
  BY Zenon, <1>8
<1> HIDE DEF f
<1>10. /\ f[0] = ready[s]
       /\ \A n \in 1 .. L : f[n] = IF n \in C THEN Append(f[n - 1], n) ELSE f[n - 1]
  <2>1. 0 \in 0 .. L /\ \A n \in 1 .. L : n \in 0 .. L /\ n # 0
    BY <1>1
  <2>2. \A n \in 1 .. L :
          n \in C <=> /\ log[n].task \in streams /\ SequenceOf(n) > after
                      /\ s \in Matching(log[n].kind)
    BY DEF Again, L
  <2> HIDE DEF C
  <2> QED BY <1>9, <2>1, <2>2 DEF L
<1> DEFINE S == {n \in 0 .. L : f[n] = h[n]}
<1>11. 0 \in S
  BY <1>1, <1>6, <1>10 DEF IsRescheduled
<1>12. ASSUME NEW i \in 0 .. L - 1, i \in S PROVE i + 1 \in S
  <2>1. i + 1 \in 1 .. L /\ (i + 1) - 1 = i /\ i + 1 \in 0 .. L
    BY <1>1
  <2> HIDE DEF C
  <2> QED BY <1>6, <1>10, <1>12, <2>1 DEF IsRescheduled, L
<1> HIDE DEF S
<1>13. \A i \in 0 .. L - 1 : i \in S => i + 1 \in S
  BY <1>12
<1>14. \A i \in 0 .. L : i \in S
  BY <1>1, <1>11, <1>13, UpTo
<1>15. L \in S
  BY <1>1, <1>14
<1> QED BY <1>6, <1>7, <1>15 DEF S, L

\* q comes first, and what follows are events of C.
Extends(r, q, C) ==
  /\ Len(q) <= Len(r) /\ \A i \in 1 .. Len(q) : r[i] = q[i]
  /\ \A i \in 1 .. Len(r) : i > Len(q) => r[i] \in C

LEMMA RescheduledExtends ==
  ASSUME BusTypeOK, NEW s \in Subscribers, NEW C, NEW g, IsRescheduled(g, s, C)
  PROVE  Extends(g[Len(log)], ready[s], C)
<1> DEFINE S == {n \in 0 .. Len(log) : Extends(g[n], ready[s], C)}
<1>1. Len(log) \in Nat /\ ready[s] \in Seq(1 .. MaxEvents) /\ Len(ready[s]) \in Nat
  BY DEF BusTypeOK
<1>2. 0 \in S
  BY <1>1 DEF IsRescheduled, Extends
<1>3. ASSUME NEW i \in 0 .. Len(log) - 1, i \in S PROVE i + 1 \in S
  <2>1. i + 1 \in 1 .. Len(log) /\ (i + 1) - 1 = i /\ i + 1 \in 0 .. Len(log) /\ i \in 0 .. Len(log)
    BY <1>1
  <2>2. g[i] \in Seq(1 .. MaxEvents)
    BY <2>1 DEF IsRescheduled
  <2>3. CASE i + 1 \in C
    <3>1. g[i + 1] = Append(g[i], i + 1)
      BY <2>1, <2>3 DEF IsRescheduled
    <3>2. /\ Len(g[i]) \in Nat /\ Len(g[i + 1]) = Len(g[i]) + 1 /\ g[i + 1][Len(g[i]) + 1] = i + 1
          /\ \A j \in 1 .. Len(g[i]) : g[i + 1][j] = g[i][j]
      BY <2>2, <3>1
    <3>3. Extends(g[i], ready[s], C)
      BY <1>3
    <3>4. Extends(g[i + 1], ready[s], C)
      <4>1. Len(ready[s]) <= Len(g[i]) /\ Len(ready[s]) <= Len(g[i + 1])
        BY <1>1, <3>2, <3>3 DEF Extends
      <4>2. \A j \in 1 .. Len(ready[s]) : j \in 1 .. Len(g[i])
        BY <1>1, <3>2, <4>1
      <4>3. \A j \in 1 .. Len(ready[s]) : g[i + 1][j] = ready[s][j]
        BY <3>2, <3>3, <4>2 DEF Extends
      <4>4. \A j \in 1 .. Len(g[i + 1]) : j \in 1 .. Len(g[i]) \/ j = Len(g[i]) + 1
        BY <3>2
      <4>5. \A j \in 1 .. Len(g[i + 1]) : j > Len(ready[s]) => g[i + 1][j] \in C
        BY <2>3, <3>2, <3>3, <4>4 DEF Extends
      <4> QED BY <4>1, <4>3, <4>5 DEF Extends
    <3> QED BY <2>1, <3>4
  <2>4. CASE i + 1 \notin C
    BY <1>3, <2>1, <2>4 DEF IsRescheduled
  <2> QED BY <2>3, <2>4
<1> HIDE DEF S
<1>4. \A i \in 0 .. Len(log) - 1 : i \in S => i + 1 \in S
  BY <1>3
<1>5. \A i \in 0 .. Len(log) : i \in S
  BY <1>1, <1>2, <1>4, UpTo
<1>6. Len(log) \in S
  BY <1>1, <1>5
<1> QED BY <1>6 DEF S

LEMMA RescheduledBrings ==
  ASSUME BusTypeOK, NEW s \in Subscribers, NEW C, NEW g, IsRescheduled(g, s, C),
         NEW t, NEW v, NEW h, Brings(log, ready[s], t, v, h[0]),
         \A n \in 1 .. Len(log) : h[n] = IF n \in C THEN After(log, n, t, h[n - 1]) ELSE h[n - 1]
  PROVE  Brings(log, g[Len(log)], t, v, h[Len(log)])
<1> DEFINE S == {n \in 0 .. Len(log) : Brings(log, g[n], t, v, h[n])}
<1>1. Len(log) \in Nat /\ \A n \in 1 .. Len(log) : n \in 1 .. MaxEvents
  BY BoundAssumption DEF BusTypeOK
<1>2. 0 \in S
  BY <1>1 DEF IsRescheduled
<1>3. ASSUME NEW i \in 0 .. Len(log) - 1, i \in S PROVE i + 1 \in S
  <2>1. i + 1 \in 1 .. Len(log) /\ (i + 1) - 1 = i /\ i + 1 \in 0 .. Len(log) /\ i \in 0 .. Len(log)
    BY <1>1
  <2>2. g[i] \in Seq(1 .. MaxEvents) /\ i + 1 \in 1 .. MaxEvents
    BY <1>1, <2>1 DEF IsRescheduled
  <2>3. Brings(log, g[i], t, v, h[i])
    BY <1>3
  <2>4. CASE i + 1 \in C
    <3>1. g[i + 1] = Append(g[i], i + 1) /\ h[i + 1] = After(log, i + 1, t, h[i])
      BY <2>1, <2>4 DEF IsRescheduled
    <3>2. Brings(log, Append(g[i], i + 1), t, v, After(log, i + 1, t, h[i]))
      BY <2>2, <2>3, BringsAppend
    <3> QED BY <2>1, <3>1, <3>2
  <2>5. CASE i + 1 \notin C
    BY <2>1, <2>3, <2>5 DEF IsRescheduled
  <2> QED BY <2>4, <2>5
<1> HIDE DEF S
<1>4. \A i \in 0 .. Len(log) - 1 : i \in S => i + 1 \in S
  BY <1>3
<1>5. \A i \in 0 .. Len(log) : i \in S
  BY <1>1, <1>2, <1>4, UpTo
<1>6. Len(log) \in S
  BY <1>1, <1>5
<1> QED BY <1>6 DEF S

-----------------------------------------------------------------------------
\* The manager's subscription and the deliveries scheduled for it span what it heard.
HeardInv ==
  /\ subs[Manager].on \in {"active", "gone"} /\ Heard <= Len(log)
  /\ \A i \in 1 .. Len(ready[Manager]) : ready[Manager][i] <= Heard

\* What is scheduled brings the status of a task to the fold of what is about it,
\* replayed or not.
CaughtUp(t) ==
  \E f : IsFold(f, t) /\ Brings(log, ready[Manager], t, states[t], f[Heard])

CaughtUpInv == \A t \in Tasks : OneStream(t) /\ CreatedFirst(t) => CaughtUp(t)

\* Of the events about t, if no stream with one was replayed, those up to p were
\* delivered and those past it are scheduled in their order; the snapshot is a state of the past, with a
\* sequence that is never ahead of it.
Reached(f, t, p) ==
  LET q == ready[Manager]
      Mine == {i \in 1 .. Len(q) : log[q[i]].about = t}
  IN  /\ \A i \in Mine : q[i] > p
      /\ \A i, j \in Mine : i < j => q[i] < q[j]
      /\ \A n \in p + 1 .. Heard : log[n].about = t => \E i \in Mine : q[i] = n
      /\ states[t] = f[p] /\ counts[t] <= Nth(t, p)
      /\ snapshots[t] # None =>
           \E o \in 0 .. p : snapshots[t].status = f[o] /\ snapshots[t].sequence <= Nth(t, o)

ReachedInv ==
  \A t \in Tasks : NotReplayed(t) =>
    \E f : \E p \in 0 .. Heard : IsFold(f, t) /\ Reached(f, t, p)

StateInv == StateTypeOK /\ HeardInv /\ CaughtUpInv /\ ReachedInv

LEMMA StateTypeFacts ==
  ASSUME StateTypeOK, HeardInv
  PROVE  /\ Len(log) \in Nat /\ Heard \in Nat /\ Heard <= Len(log) /\ Len(log) <= MaxEvents
         /\ subs[Manager].on = "active" => Heard = Len(log)
         /\ ready[Manager] \in Seq(1 .. MaxEvents) /\ Len(ready[Manager]) \in Nat
         /\ \A i \in 1 .. Len(ready[Manager]) : ready[Manager][i] \in 1 .. Heard
         /\ \A n \in 1 .. Len(log) : log[n] \in Event
         /\ \A t \in Tasks : states[t] \in Any /\ counts[t] \in Nat
<1>1. Len(log) \in Nat /\ Len(log) <= MaxEvents /\ \A n \in 1 .. Len(log) : log[n] \in Event
  BY DEF StateTypeOK, BusTypeOK
<1>2. subs[Manager] \in Registration
  BY ManagerAssumption DEF StateTypeOK, BusTypeOK
<1>3. Heard \in Nat
  BY <1>1, <1>2, BoundAssumption DEF Heard, Registration
<1>4. ready[Manager] \in Seq(1 .. MaxEvents)
  BY ManagerAssumption DEF StateTypeOK, BusTypeOK
<1>5. \A i \in 1 .. Len(ready[Manager]) : ready[Manager][i] \in 1 .. MaxEvents
  BY <1>4, ElementOfSeq
<1> QED BY <1>1, <1>3, <1>4, <1>5, BoundAssumption DEF HeardInv, Heard, StateTypeOK, Any

LEMMA OnEventType ==
  ASSUME StateTypeOK, NEW event \in Event, OnEvent(event)
  PROVE  /\ states' \in [Tasks -> Statuses \cup {None}]
         /\ counts' \in [Tasks -> Nat]
         /\ snapshots' \in [Tasks -> [status : Statuses, sequence : Nat] \cup {None}]
<1>1. CASE event.kind \notin Reducible \/ event.about = NoId
  BY <1>1 DEF OnEvent, StateTypeOK
<1>2. CASE event.kind \in Reducible /\ event.about # NoId
  <2> DEFINE t == event.about
             reduced == task_reducer(states[t], event.kind)
             count == counts[t] + 1
  <2>1. t \in Tasks
    BY <1>2 DEF Event
  <2>2. states[t] \in Any /\ counts[t] \in Nat
    BY <2>1 DEF StateTypeOK, Any
  <2>3. reduced \in Any /\ count \in Nat
    BY <2>2, ReducerFacts
  <2>4. /\ states' = [states EXCEPT ![t] = reduced]
        /\ counts' = [counts EXCEPT ![t] = count]
        /\ snapshots' = snapshots \/ /\ reduced # None
                                     /\ snapshots' = [snapshots EXCEPT ![t] = [status |-> reduced, sequence |-> count]]
    BY <1>2 DEF OnEvent
  <2> HIDE DEF t, reduced, count
  <2>5. reduced # None => [status |-> reduced, sequence |-> count] \in [status : Statuses, sequence : Nat]
    BY <2>3 DEF Any
  <2> QED BY <2>1, <2>3, <2>4, <2>5 DEF StateTypeOK, Any
<1> QED BY <1>1, <1>2

LEMMA RescheduledType ==
  ASSUME BusTypeOK, NEW s \in Subscribers, NEW streams, NEW after
  PROVE  Rescheduled(s, streams, after) \in Seq(1 .. MaxEvents)
<1>1. PICK g : /\ IsRescheduled(g, s, Again(s, streams, after))
               /\ Rescheduled(s, streams, after) = g[Len(log)]
  BY RescheduledIs
<1>2. Len(log) \in 0 .. Len(log)
  BY DEF BusTypeOK
<1> QED BY <1>1, <1>2 DEF IsRescheduled

LEMMA StateTypeNext == StateTypeOK /\ HeardInv /\ [StateNext]_stateVars => StateTypeOK'
<1> SUFFICES ASSUME StateTypeOK, HeardInv, [StateNext]_stateVars PROVE StateTypeOK'
  OBVIOUS
<1>1. ASSUME NEW e \in Emits, Publish(e),
             UNCHANGED <<states, counts, snapshots, begun>>
      PROVE  StateTypeOK'
  <2>1. Len(log) \in Nat /\ Len(log) + 1 \in 1 .. MaxEvents
    BY <1>1, BoundAssumption DEF Publish, StateTypeOK, BusTypeOK
  <2>2. e \in Event
    BY EmitsAssumption
  <2>3. log' \in Seq(Event) /\ Len(log') <= MaxEvents
    BY <1>1, <2>1, <2>2 DEF Publish, StateTypeOK, BusTypeOK
  <2>4. \A s \in Subscribers : Append(ready[s], Len(log) + 1) \in Seq(1 .. MaxEvents)
    BY <2>1 DEF StateTypeOK, BusTypeOK
  <2>5. ready' \in [Subscribers -> Seq(1 .. MaxEvents)]
    BY <1>1, <2>4 DEF Publish, StateTypeOK, BusTypeOK
  <2> QED BY <1>1, <2>3, <2>5 DEF Publish, StateTypeOK, BusTypeOK
<1>2. ASSUME NEW s \in Subscribers, Subscribe(s) \/ Unsubscribe(s),
             UNCHANGED <<states, counts, snapshots, begun>>
      PROVE  StateTypeOK'
  <2>1. Len(log) \in 0 .. MaxEvents /\ 0 \in 0 .. MaxEvents
    BY BoundAssumption DEF StateTypeOK, BusTypeOK
  <2>2. subs[s] \in Registration
    BY DEF StateTypeOK, BusTypeOK
  <2>3. [on |-> "active", from |-> Len(log), to |-> 0] \in Registration
    BY <2>1 DEF Registration
  <2>4. [subs[s] EXCEPT !.on = "gone", !.to = Len(log)] \in Registration
    BY <2>1, <2>2 DEF Registration
  <2>5. subs' \in [Subscribers -> Registration]
    BY <1>2, <2>3, <2>4 DEF Subscribe, Unsubscribe, StateTypeOK, BusTypeOK
  <2> QED BY <1>2, <2>5 DEF Subscribe, Unsubscribe, StateTypeOK, BusTypeOK
<1>3. ASSUME NEW streams \in SUBSET Tasks, NEW after, Replay(streams, after),
             UNCHANGED <<states, counts, snapshots, begun>>
      PROVE  StateTypeOK'
  <2>1. \A s \in Subscribers : Rescheduled(s, streams, after) \in Seq(1 .. MaxEvents)
    BY RescheduledType DEF StateTypeOK
  <2>2. ready' \in [Subscribers -> Seq(1 .. MaxEvents)]
    BY <1>3, <2>1 DEF Replay
  <2> QED BY <1>3, <2>2 DEF Replay, StateTypeOK, BusTypeOK
<1>4. ASSUME NEW s \in Subscribers, Deliver(s) PROVE StateTypeOK'
  <2>1. ready[s] \in Seq(1 .. MaxEvents) /\ ready[s] # <<>>
    BY <1>4 DEF Deliver, Begin, StateTypeOK, BusTypeOK
  <2>2. Head(ready[s]) \in 1 .. MaxEvents /\ Tail(ready[s]) \in Seq(1 .. MaxEvents)
    BY <2>1, HeadTailProperties
  <2>3. BusTypeOK'
    BY <1>4, <2>2 DEF Deliver, Begin, StateTypeOK, BusTypeOK
  <2>4. begun' \in [Subscribers -> SUBSET (1 .. MaxEvents)]
    BY <1>4, <2>2 DEF Deliver, StateTypeOK
  <2>5. CASE s = Manager
    <3>1. Head(ready[s]) = ready[s][1] /\ 1 \in 1 .. Len(ready[s])
      BY <2>1
    <3>2. Head(ready[s]) \in 1 .. Len(log)
      BY <2>5, <3>1, StateTypeFacts
    <3>3. log[Head(ready[s])] \in Event
      BY <3>2, StateTypeFacts
    <3>4. OnEvent(log[Head(ready[s])])
      BY <1>4, <2>5 DEF Deliver
    <3> QED BY <2>3, <2>4, <3>3, <3>4, OnEventType DEF StateTypeOK
  <2>6. CASE s # Manager
    BY <1>4, <2>3, <2>4, <2>6 DEF Deliver, StateTypeOK
  <2> QED BY <2>5, <2>6
<1>5. CASE UNCHANGED stateVars
  BY <1>5 DEF stateVars, StateTypeOK, BusTypeOK
<1>6. \A t \in Tasks : {t} \in SUBSET Tasks
  OBVIOUS
<1> QED BY <1>1, <1>2, <1>3, <1>4, <1>5, <1>6 DEF StateNext

\* A step the manager's side takes no part in.
LEMMA QuietKeeps ==
  ASSUME HeardInv, CaughtUpInv, ReachedInv, UNCHANGED <<log, states, counts, snapshots>>,
         ready'[Manager] = ready[Manager], replayed' = replayed, Heard' = Heard,
         subs'[Manager].on \in {"active", "gone"}
  PROVE  HeardInv' /\ CaughtUpInv' /\ ReachedInv'
<1>1. HeardInv'
  BY DEF HeardInv
<1>2. \A f, t : IsFold(f, t)' <=> IsFold(f, t)
  BY DEF IsFold
<1>3. \A t : /\ CreatedFirst(t)' <=> CreatedFirst(t)
             /\ OneStream(t)' <=> OneStream(t)
             /\ NotReplayed(t)' <=> NotReplayed(t)
  BY DEF CreatedFirst, OneStream, NotReplayed
<1>4. \A t : CaughtUp(t) => CaughtUp(t)'
  BY <1>2 DEF CaughtUp
<1>5. \A t, p : Nth(t, p)' = Nth(t, p)
  BY DEF Nth
<1>6. \A f, t, p : Reached(f, t, p)' <=> Reached(f, t, p)
  BY <1>5 DEF Reached
<1>7. CaughtUpInv'
  BY <1>3, <1>4 DEF CaughtUpInv
<1>8. ReachedInv'
  BY <1>2, <1>3, <1>6 DEF ReachedInv
<1> QED BY <1>1, <1>7, <1>8

LEMMA BringsSame ==
  ASSUME NEW l, NEW m, NEW q, NEW t, NEW v, NEW w, Brings(l, q, t, v, w),
         \A i \in 1 .. Len(q) : m[q[i]] = l[q[i]]
  PROVE  Brings(m, q, t, v, w)
<1>1. \A x : \A i \in 1 .. Len(q) : After(m, q[i], t, x) = After(l, q[i], t, x)
  BY DEF After
<1> QED BY <1>1 DEF Brings

\* One event more, heard or not.
LEMMA FoldLonger ==
  ASSUME StateTypeOK, HeardInv, NEW e, log' = Append(log, e), Heard' \in {Heard, Heard + 1},
         NEW t, NEW f, IsFold(f, t)
  PROVE  \E g : /\ IsFold(g, t)' /\ \A i \in 0 .. Heard : g[i] = f[i]
                /\ Heard' = Heard + 1 => g[Heard'] = After(log', Heard', t, f[Heard])
<1>1. /\ Heard \in Nat /\ Heard <= Len(log) /\ Len(log) \in Nat
      /\ \A i \in 1 .. Heard : log'[i] = log[i]
  BY StateTypeFacts DEF StateTypeOK, BusTypeOK
<1>2. CASE Heard' = Heard
  <2>1. IsFold(f, t)'
    BY <1>1, <1>2 DEF IsFold
  <2>2. Heard' # Heard + 1
    BY <1>1, <1>2
  <2> QED BY <2>1, <2>2
<1>3. CASE Heard' = Heard + 1
  <2> DEFINE H == Heard
             last == After(log', H + 1, t, f[H])
             long == [i \in 0 .. H + 1 |-> IF i = H + 1 THEN last ELSE f[i]]
  <2>1. /\ 0 .. H + 1 = (0 .. H) \cup {H + 1} /\ H + 1 \notin 0 .. H /\ 0 \in 0 .. H /\ H \in 0 .. H
        /\ 1 .. H + 1 = (1 .. H) \cup {H + 1} /\ (H + 1) - 1 = H
        /\ \A i \in 1 .. H : i \in 0 .. H /\ i - 1 \in 0 .. H
    BY <1>1
  <2>2. f[H] \in Any
    BY <2>1 DEF IsFold
  <2>3. last \in Any
    BY <2>2, AfterType
  <2> HIDE DEF last
  <2>4. PICK g : g = long
    OBVIOUS
  <2>5. /\ g \in [0 .. H + 1 -> Any]
        /\ g[H + 1] = last /\ \A i \in 0 .. H : g[i] = f[i]
    BY <2>1, <2>3, <2>4 DEF IsFold
  <2> HIDE DEF long
  <2>6. \A i \in 1 .. H + 1 : g[i] = After(log', i, t, g[i - 1])
    <3>1. \A i \in 1 .. H : f[i] = After(log', i, t, f[i - 1])
      BY <1>1 DEF IsFold, After
    <3> QED BY <2>1, <2>5, <3>1 DEF last
  <2>7. g[0] = None
    BY <2>1, <2>5 DEF IsFold
  <2>8. IsFold(g, t)'
    <3>1. \A i \in 1 .. Heard' :
            g[i] = IF log'[i].about = t THEN task_reducer(g[i - 1], log'[i].kind) ELSE g[i - 1]
      BY <1>3, <2>6 DEF After
    <3>2. g \in [0 .. Heard' -> Any]
      BY <1>3, <2>5
    <3> QED BY <2>7, <3>1, <3>2 DEF IsFold
  <2>9. g[Heard'] = After(log', Heard', t, f[Heard])
    BY <1>3, <2>5 DEF last
  <2> QED BY <2>5, <2>8, <2>9
<1> QED BY <1>2, <1>3

LEMMA NthSame ==
  ASSUME log \in Seq(Event), NEW e, log' = Append(log, e), NEW t, NEW p \in 0 .. Len(log)
  PROVE  Nth(t, p)' = Nth(t, p)
<1>1. Len(log) \in Nat
  OBVIOUS
<1>2. \A i \in 1 .. p : log'[i] = log[i]
  BY <1>1
<1>3. {i \in 1 .. p : log[i].about = t}' = {i \in 1 .. p : log[i].about = t}
  BY <1>2
<1> QED BY <1>3 DEF Nth

LEMMA PublishKeeps ==
  ASSUME StateInv, NEW e \in Emits, Publish(e),
         UNCHANGED <<states, counts, snapshots>>
  PROVE  HeardInv' /\ CaughtUpInv' /\ ReachedInv'
<1> DEFINE q == ready[Manager]
           H == Heard
<1>1. /\ Len(log) \in Nat /\ H \in Nat /\ H <= Len(log) /\ Len(log) < MaxEvents
      /\ subs[Manager].on = "active" => H = Len(log)
      /\ q \in Seq(1 .. MaxEvents) /\ Len(q) \in Nat /\ \A i \in 1 .. Len(q) : q[i] \in 1 .. H
      /\ log \in Seq(Event) /\ StateTypeOK /\ HeardInv
  BY StateTypeFacts DEF StateInv, StateTypeOK, BusTypeOK, Publish
<1>2. /\ log' = Append(log, e) /\ Len(log') = Len(log) + 1
      /\ \A i \in 1 .. Len(log) : log'[i] = log[i]
  BY <1>1 DEF Publish
<1>3. e.kind \in Wants[Manager] /\ Manager \in Subscribers
  BY ManagerAssumption, EmitsAssumption DEF Event
<1>4. \/ /\ subs[Manager].on = "active" /\ H = Len(log) /\ Heard' = H + 1
         /\ ready'[Manager] = Append(q, H + 1)
      \/ subs[Manager].on = "gone" /\ Heard' = H /\ ready'[Manager] = q
  <2>1. subs'[Manager] = subs[Manager] /\ subs[Manager].on \in {"active", "gone"}
    BY <1>1 DEF Publish, HeardInv
  <2>2. CASE subs[Manager].on = "active"
    <3>1. Manager \in Matching(e.kind)
      BY <1>3, <2>2 DEF Matching
    <3>2. ready'[Manager] = Append(q, Len(log) + 1)
      BY <1>3, <3>1 DEF Publish
    <3> QED BY <1>1, <1>2, <2>1, <2>2, <3>2 DEF Heard
  <2>3. CASE subs[Manager].on = "gone"
    <3>1. Manager \notin Matching(e.kind)
      BY <2>3 DEF Matching
    <3>2. ready'[Manager] = q
      BY <1>3, <3>1 DEF Publish
    <3> QED BY <2>1, <2>3, <3>2 DEF Heard
  <2> QED BY <2>1, <2>2, <2>3
<1>5. /\ Heard' \in {Heard, Heard + 1} /\ \A i \in 1 .. H : i \in 1 .. Heard' /\ i \in 1 .. Len(log)
      /\ Heard' <= Len(log') /\ replayed' = replayed /\ subs' = subs
  BY <1>1, <1>2, <1>4 DEF Publish
<1> HIDE DEF H, q
<1>6. HeardInv'
  <2>1. CASE ready'[Manager] = Append(q, H + 1) /\ Heard' = H + 1
    <3>1. /\ Len(ready'[Manager]) = Len(q) + 1 /\ ready'[Manager][Len(q) + 1] = H + 1
          /\ \A i \in 1 .. Len(q) : ready'[Manager][i] = q[i]
      BY <1>1, <2>1
    <3>2. \A i \in 1 .. Len(q) + 1 : i \in 1 .. Len(q) \/ i = Len(q) + 1
      BY <1>1
    <3>3. \A i \in 1 .. Len(q) + 1 : ready'[Manager][i] <= H + 1
      BY <1>1, <3>1, <3>2
    <3> QED BY <1>1, <1>5, <2>1, <3>1, <3>3 DEF HeardInv
  <2>2. CASE ready'[Manager] = q /\ Heard' = H
    BY <1>1, <1>5, <2>2 DEF HeardInv, H
  <2> QED BY <1>4, <2>1, <2>2
<1>7. CaughtUpInv'
  <2> SUFFICES ASSUME NEW t \in Tasks, OneStream(t)', CreatedFirst(t)' PROVE CaughtUp(t)'
    BY DEF CaughtUpInv
  <2>1. CreatedFirst(t)
    <3>1. SUFFICES ASSUME NEW n \in 1 .. H, log[n].about = t, log[n].kind \in DOMAIN StatusOf
                   PROVE \E m \in 1 .. n - 1 : log[m].about = t /\ log[m].kind = "created"
      BY DEF CreatedFirst, H
    <3>2. n \in 1 .. Heard' /\ log'[n] = log[n] /\ \A m \in 1 .. n - 1 : log'[m] = log[m]
      BY <1>1, <1>2, <1>5
    <3>3. \E m \in 1 .. n - 1 : log'[m].about = t /\ log'[m].kind = "created"
      BY <3>1, <3>2 DEF CreatedFirst
    <3> QED BY <3>2, <3>3
  <2>1a. OneStream(t)
    BY <1>2, <1>5 DEF OneStream, H
  <2>2. PICK f : IsFold(f, t) /\ Brings(log, q, t, states[t], f[H])
    BY <2>1, <2>1a DEF StateInv, CaughtUpInv, CaughtUp, H, q
  <2>3. PICK g : /\ IsFold(g, t)' /\ \A i \in 0 .. H : g[i] = f[i]
                 /\ Heard' = H + 1 => g[Heard'] = After(log', Heard', t, f[H])
    BY <1>1, <1>2, <1>5, <2>2, FoldLonger DEF H
  <2>4. Brings(log', q, t, states[t], f[H])
    BY <1>1, <1>2, <1>5, <2>2, BringsSame
  <2>5. CASE ready'[Manager] = Append(q, H + 1) /\ Heard' = H + 1
    <3>1. H + 1 \in 1 .. MaxEvents
      BY <1>1, BoundAssumption
    <3>2. Brings(log', Append(q, H + 1), t, states[t], After(log', H + 1, t, f[H]))
      BY <1>1, <2>4, <3>1, BringsAppend
    <3> QED BY <2>3, <2>5, <3>2 DEF CaughtUp
  <2>6. CASE ready'[Manager] = q /\ Heard' = H
    <3>1. g[Heard'] = f[H]
      BY <1>1, <2>3, <2>6
    <3> QED BY <2>3, <2>4, <2>6, <3>1 DEF CaughtUp
  <2> QED BY <1>4, <2>5, <2>6
<1>8. ReachedInv'
  <2> SUFFICES ASSUME NEW t \in Tasks, NotReplayed(t)'
               PROVE \E f : \E p \in 0 .. Heard' : IsFold(f, t)' /\ Reached(f, t, p)'
    BY DEF ReachedInv
  <2>a. NotReplayed(t)
    BY <1>2, <1>5 DEF NotReplayed, H
  <2>0. PICK f : \E p \in 0 .. H : IsFold(f, t) /\ Reached(f, t, p)
    BY <2>a DEF StateInv, ReachedInv, H
  <2>1. PICK p \in 0 .. H : IsFold(f, t) /\ Reached(f, t, p)
    BY <2>0
  <2>2. PICK g : IsFold(g, t)' /\ \A i \in 0 .. H : g[i] = f[i]
    BY <1>1, <1>2, <1>5, <2>1, FoldLonger DEF H
  <2>3. p \in Nat /\ p <= H /\ p \in 0 .. Heard' /\ \A o \in 0 .. p : o \in 0 .. H /\ o \in 0 .. Len(log)
    BY <1>1, <1>5 DEF H
  <2>4. \A o \in 0 .. p : Nth(t, o)' = Nth(t, o) /\ g[o] = f[o]
    BY <1>1, <1>2, <2>2, <2>3, NthSame
  <2>5. p \in 0 .. p
    BY <2>3
  <2>6. /\ states'[t] = g[p] /\ counts'[t] <= Nth(t, p)'
        /\ snapshots'[t] # None =>
             \E o \in 0 .. p : snapshots'[t].status = g[o] /\ snapshots'[t].sequence <= Nth(t, o)'
    BY <2>1, <2>4, <2>5 DEF Reached
  <2> DEFINE r == ready'[Manager]
             Old == {i \in 1 .. Len(q) : log[q[i]].about = t}
             New == {i \in 1 .. Len(r) : log'[r[i]].about = t}
  <2>7. /\ \A i \in Old : q[i] > p
        /\ \A i, j \in Old : i < j => q[i] < q[j]
        /\ \A n \in p + 1 .. H : log[n].about = t => \E i \in Old : q[i] = n
    BY <2>1 DEF Reached, H, q
  <2>8. /\ \A i \in New : r[i] > p
        /\ \A i, j \in New : i < j => r[i] < r[j]
        /\ \A n \in p + 1 .. Heard' : log'[n].about = t => \E i \in New : r[i] = n
    <3>1. \A i \in 1 .. Len(q) : log'[q[i]] = log[q[i]]
      BY <1>1, <1>2, <1>5
    <3>2. CASE r = q /\ Heard' = H
      <4>1. New = Old
        BY <3>1, <3>2
      <4>2. \A n \in p + 1 .. H : log'[n] = log[n]
        BY <1>1, <1>2, <2>3
      <4> HIDE DEF New, Old, r
      <4> QED BY <2>7, <3>2, <4>1, <4>2
    <3>3. CASE r = Append(q, H + 1) /\ Heard' = H + 1
      <4>1. /\ Len(r) = Len(q) + 1 /\ r[Len(q) + 1] = H + 1
            /\ \A i \in 1 .. Len(q) : r[i] = q[i]
        BY <1>1, <3>3
      <4>2. \A i \in 1 .. Len(r) : i \in 1 .. Len(q) \/ i = Len(q) + 1
        BY <1>1, <4>1
      <4>3. \A i \in 1 .. Len(q) : r[i] = q[i] /\ q[i] \in 1 .. H /\ log'[r[i]] = log[q[i]] /\ i \in 1 .. Len(r)
        BY <1>1, <3>1, <4>1
      <4> HIDE DEF r
      <4>4. \A i \in New : (i \in Old /\ r[i] = q[i] /\ q[i] \in 1 .. H) \/ (i = Len(q) + 1 /\ r[i] = H + 1)
        BY <4>1, <4>2, <4>3
      <4>5. \A i \in Old : i \in New /\ r[i] = q[i] /\ i \in 1 .. Len(q)
        BY <4>3
      <4>6. log'[H + 1].about = t => Len(q) + 1 \in New
        BY <1>1, <4>1
      <4> HIDE DEF New
      <4>7. \A i \in New : r[i] > p
        BY <1>1, <2>3, <2>7, <4>4
      <4>8. \A i, j \in New : i < j => r[i] < r[j]
        <5> SUFFICES ASSUME NEW i \in New, NEW j \in New, i < j PROVE r[i] < r[j]
          OBVIOUS
        <5>1. CASE i \in Old /\ j \in Old
          BY <2>7, <4>5, <5>1
        <5>2. CASE i \in Old /\ j = Len(q) + 1 /\ r[j] = H + 1
          <6>1. r[i] \in 1 .. H
            BY <4>3, <5>2
          <6> QED BY <1>1, <5>2, <6>1
        <5>3. CASE i = Len(q) + 1
          <6>1. j \in 1 .. Len(q) \/ j = Len(q) + 1
            BY <4>4
          <6> QED BY <1>1, <5>3, <6>1
        <5> QED BY <4>4, <5>1, <5>2, <5>3
      <4>9. \A n \in p + 1 .. H + 1 : n = H + 1 \/ (n \in p + 1 .. H /\ n \in 1 .. Len(log))
        BY <1>1, <2>3
      <4>10. \A n \in p + 1 .. H + 1 : log'[n].about = t => \E i \in New : r[i] = n
        BY <1>2, <2>7, <4>1, <4>5, <4>6, <4>9
      <4> QED BY <3>3, <4>7, <4>8, <4>10
    <3> QED BY <1>4, <3>2, <3>3
  <2>9. Reached(g, t, p)'
    BY <2>6, <2>8 DEF Reached
  <2> QED BY <2>2, <2>3, <2>9
<1> QED BY <1>6, <1>7, <1>8

LEMMA ReplayKeeps ==
  ASSUME StateInv, NEW streams \in SUBSET Tasks, NEW after \in Nat, Replay(streams, after),
         UNCHANGED <<states, counts, snapshots>>
  PROVE  HeardInv' /\ CaughtUpInv' /\ ReachedInv'
<1> DEFINE q == ready[Manager]
           r == ready'[Manager]
           C == Again(Manager, streams, after)
<1>1. /\ Len(log) \in Nat /\ Heard \in Nat /\ Heard <= Len(log)
      /\ subs[Manager].on = "active" => Heard = Len(log)
      /\ q \in Seq(1 .. MaxEvents) /\ Len(q) \in Nat /\ \A i \in 1 .. Len(q) : q[i] \in 1 .. Heard
      /\ \A n \in 1 .. Len(log) : log[n] \in Event
      /\ StateTypeOK /\ BusTypeOK /\ HeardInv
  BY StateTypeFacts DEF StateInv, StateTypeOK
<1>2. log' = log /\ subs' = subs /\ Heard' = Heard /\ replayed' = replayed \cup streams
  BY DEF Replay, Heard
<1>3. PICK g : IsRescheduled(g, Manager, C) /\ Rescheduled(Manager, streams, after) = g[Len(log)]
  BY <1>1, RescheduledIs, ManagerAssumption
<1>4. r = g[Len(log)]
  BY <1>3, ManagerAssumption DEF Replay
<1>5. Extends(r, q, C)
  BY <1>1, <1>3, <1>4, RescheduledExtends, ManagerAssumption
<1>6. \A n \in C : n \in 1 .. Len(log) /\ log[n].task \in streams /\ subs[Manager].on = "active"
  BY DEF Again, Matching
<1>7. Len(r) \in Nat
  <2>1. Len(log) \in 0 .. Len(log)
    BY <1>1
  <2>2. r \in Seq(1 .. MaxEvents)
    BY <1>3, <1>4, <2>1 DEF IsRescheduled
  <2> QED BY <2>2
<1> HIDE DEF C, q, r
<1>8. \A i \in 1 .. Len(r) : \/ i \in 1 .. Len(q) /\ r[i] = q[i]
                             \/ r[i] \in C
  BY <1>1, <1>5, <1>7 DEF Extends
<1>9. HeardInv'
  <2>1. \A i \in 1 .. Len(r) : r[i] <= Heard
    BY <1>1, <1>6, <1>8
  <2> QED BY <1>1, <1>2, <2>1 DEF HeardInv, r
<1>10. \A f, t : IsFold(f, t)' <=> IsFold(f, t)
  BY <1>2 DEF IsFold
<1>11. CaughtUpInv'
  <2> SUFFICES ASSUME NEW t \in Tasks, OneStream(t)', CreatedFirst(t)' PROVE CaughtUp(t)'
    BY DEF CaughtUpInv
  <2>1. OneStream(t) /\ CreatedFirst(t)
    BY <1>2 DEF OneStream, CreatedFirst
  <2>2. PICK f : IsFold(f, t) /\ Brings(log, q, t, states[t], f[Heard])
    BY <2>1 DEF StateInv, CaughtUpInv, CaughtUp, q
  <2>3. Brings(log, r, t, states[t], f[Heard])
    <3>1. CASE subs[Manager].on = "active"
      <4> DEFINE D == {n \in C : log[n].about = t}
      <4>1. Heard = Len(log) /\ Heard \in 0 .. Heard
        BY <1>1, <3>1
      <4>2. f[Heard] \in Any
        BY <2>2, <4>1 DEF IsFold
      <4>3. PICK h : IsResumed(h, f[Heard], D)
        BY <1>1, <4>2, ResumedExists
      <4>4. \A n \in D : n \in 1 .. Heard /\ log[n].about = t
        BY <1>6, <4>1
      <4>5. ASSUME NEW m \in D, NEW n \in 1 .. Heard, m <= n, log[n].about = t PROVE n \in D
        <5>1. /\ m \in 1 .. Heard /\ log[m].about = t /\ SequenceOf(m) > after
              /\ log[m].task \in streams /\ log[m].task = log[n].task
          BY <1>6, <2>1, <4>4, <4>5 DEF C, Again, OneStream
        <5>2. SequenceOf(m) \in Nat /\ SequenceOf(n) \in Nat /\ SequenceOf(m) <= SequenceOf(n)
          <6>1. m \in Nat /\ n \in Nat /\ log[m].task = log[n].task
            BY <1>1, <4>5, <5>1
          <6> QED BY <4>5, <6>1, SequenceGrows
        <5>3. SequenceOf(n) > after
          BY <5>1, <5>2
        <5>4. log[n].kind \in Published
          BY <1>1, <4>1 DEF Event
        <5>5. Manager \in Matching(log[n].kind)
          BY <3>1, <5>4, ManagerAssumption DEF Matching
        <5>6. n \in C
          BY <4>1, <4>5, <5>1, <5>3, <5>5 DEF C, Again
        <5> QED BY <4>5, <5>6
      <4> HIDE DEF D
      <4>6. h[Heard] = f[Heard]
        <5>1. \A m \in D, n \in 1 .. Heard : m <= n /\ log[n].about = t => n \in D
          BY <4>5
        <5>2. IsRest(D, t)
          BY <4>4, <5>1 DEF IsRest
        <5> QED BY <1>1, <2>1, <2>2, <4>1, <4>3, <5>2, AppliedAgain
      <4>7. \A n \in 1 .. Len(log) : h[n] = IF n \in C THEN After(log, n, t, h[n - 1]) ELSE h[n - 1]
        BY <4>1, <4>3 DEF IsResumed, After, D
      <4>8. h[0] = f[Heard]
        BY <4>3 DEF IsResumed
      <4>9. Brings(log, ready[Manager], t, states[t], h[0])
        BY <2>2, <4>8 DEF q
      <4>10. Brings(log, g[Len(log)], t, states[t], h[Len(log)])
        BY <1>1, <1>3, <4>7, <4>9, RescheduledBrings, ManagerAssumption
      <4> QED BY <1>4, <4>1, <4>6, <4>10
    <3>2. CASE subs[Manager].on = "gone"
      <4> DEFINE h == [n \in 0 .. Len(log) |-> f[Heard]]
      <4>1. \A n \in 1 .. Len(log) : n \in 0 .. Len(log) /\ n - 1 \in 0 .. Len(log) /\ n \notin C
        BY <1>1, <1>6, <3>2
      <4>2. /\ h[0] = f[Heard] /\ h[Len(log)] = f[Heard]
            /\ \A n \in 1 .. Len(log) : h[n] = IF n \in C THEN After(log, n, t, h[n - 1]) ELSE h[n - 1]
        BY <1>1, <4>1
      <4> HIDE DEF h
      <4>3. Brings(log, ready[Manager], t, states[t], h[0])
        BY <2>2, <4>2 DEF q
      <4>4. Brings(log, g[Len(log)], t, states[t], h[Len(log)])
        BY <1>1, <1>3, <4>2, <4>3, RescheduledBrings, ManagerAssumption
      <4> QED BY <1>4, <4>2, <4>4
    <3> QED BY <1>1, <3>1, <3>2 DEF HeardInv
  <2>4. Brings(log', ready'[Manager], t, states'[t], f[Heard'])
    BY <1>2, <2>3 DEF r
  <2> QED BY <1>10, <2>2, <2>4 DEF CaughtUp
<1>12. ReachedInv'
  <2> SUFFICES ASSUME NEW t \in Tasks, NotReplayed(t)'
               PROVE \E f : \E p \in 0 .. Heard' : IsFold(f, t)' /\ Reached(f, t, p)'
    BY DEF ReachedInv
  <2>1. NotReplayed(t) /\ \A n \in C : log[n].about # t
    BY <1>1, <1>2, <1>6 DEF NotReplayed
  <2>2. PICK f : \E p \in 0 .. Heard : IsFold(f, t) /\ Reached(f, t, p)
    BY <2>1 DEF StateInv, ReachedInv
  <2>3. PICK p \in 0 .. Heard : IsFold(f, t) /\ Reached(f, t, p)
    BY <2>2
  <2> DEFINE Old == {i \in 1 .. Len(q) : log[q[i]].about = t}
             New == {i \in 1 .. Len(r) : log[r[i]].about = t}
  <2>4. \A i \in New : i \in Old /\ r[i] = q[i]
    BY <1>6, <1>8, <2>1
  <2>5. \A i \in Old : i \in New /\ r[i] = q[i]
    BY <1>1, <1>5, <1>7 DEF Extends
  <2>6. \A o : Nth(t, o)' = Nth(t, o)
    BY <1>2 DEF Nth
  <2>7. /\ \A i \in Old : q[i] > p
        /\ \A i, j \in Old : i < j => q[i] < q[j]
        /\ \A n \in p + 1 .. Heard : log[n].about = t => \E i \in Old : q[i] = n
        /\ states[t] = f[p] /\ counts[t] <= Nth(t, p)
        /\ snapshots[t] # None =>
             \E o \in 0 .. p : snapshots[t].status = f[o] /\ snapshots[t].sequence <= Nth(t, o)
    BY <2>3 DEF Reached, q
  <2> HIDE DEF New, Old
  <2>8. /\ \A i \in New : r[i] > p
        /\ \A i, j \in New : i < j => r[i] < r[j]
        /\ \A n \in p + 1 .. Heard : log[n].about = t => \E i \in New : r[i] = n
    BY <2>4, <2>5, <2>7
  <2>9. Reached(f, t, p)'
    BY <1>2, <2>6, <2>7, <2>8 DEF Reached, New, r
  <2> QED BY <1>2, <1>10, <2>3, <2>9
<1> QED BY <1>9, <1>11, <1>12

LEMMA OnEventFacts ==
  ASSUME StateTypeOK, NEW n \in 1 .. Len(log), OnEvent(log[n]), NEW t \in Tasks
  PROVE  /\ states'[t] = After(log, n, t, states[t])
         /\ log[n].about # t => counts'[t] = counts[t] /\ snapshots'[t] = snapshots[t]
         /\ counts'[t] \in {counts[t], counts[t] + 1}
         /\ \/ snapshots'[t] = snapshots[t]
            \/ snapshots'[t] = [status |-> states'[t], sequence |-> counts'[t]]
<1> DEFINE e == log[n]
<1>1. e \in Event /\ states[t] \in Any
  BY DEF StateTypeOK, BusTypeOK, Any
<1>2. CASE e.kind \notin Reducible
  <2>1. e.kind # "created" /\ e.kind \notin DOMAIN StatusOf
    BY <1>2 DEF Reducible
  <2>2. task_reducer(states[t], e.kind) = states[t]
    BY <1>1, <2>1, ReducerFacts DEF Any
  <2> QED BY <1>2, <2>2 DEF OnEvent, After
<1>4. CASE e.about = NoId
  BY <1>4, EmitsAssumption DEF OnEvent, After
<1>3. CASE e.kind \in Reducible /\ e.about # NoId
  <2>1. /\ states' = [states EXCEPT ![e.about] = task_reducer(states[e.about], e.kind)]
        /\ counts' = [counts EXCEPT ![e.about] = counts[e.about] + 1]
        /\ \/ snapshots' = snapshots
           \/ snapshots' = [snapshots EXCEPT ![e.about] =
                              [status |-> task_reducer(states[e.about], e.kind),
                               sequence |-> counts[e.about] + 1]]
    BY <1>3 DEF OnEvent
  <2>2. /\ states \in [Tasks -> Statuses \cup {None}] /\ counts \in [Tasks -> Nat]
        /\ DOMAIN snapshots = Tasks
    BY DEF StateTypeOK
  <2> HIDE DEF e
  <2>3. CASE e.about = t
    <3>1. states'[t] = task_reducer(states[t], e.kind) /\ counts'[t] = counts[t] + 1
      BY <2>1, <2>2, <2>3
    <3>2. \/ snapshots'[t] = snapshots[t]
          \/ snapshots'[t] = [status |-> task_reducer(states[t], e.kind), sequence |-> counts[t] + 1]
      BY <2>1, <2>2, <2>3
    <3> QED BY <2>3, <3>1, <3>2 DEF e, After
  <2>4. CASE e.about # t
    <3>1. states'[t] = states[t] /\ counts'[t] = counts[t] /\ snapshots'[t] = snapshots[t]
      BY <2>1, <2>2, <2>4
    <3> QED BY <2>4, <3>1 DEF e, After
  <2> QED BY <2>3, <2>4
<1> QED BY <1>2, <1>3, <1>4

LEMMA DeliverKeeps ==
  ASSUME StateInv, Deliver(Manager)
  PROVE  HeardInv' /\ CaughtUpInv' /\ ReachedInv'
<1> DEFINE q == ready[Manager]
           r == ready'[Manager]
<1>1. /\ Len(log) \in Nat /\ Heard \in Nat /\ Heard <= Len(log)
      /\ q \in Seq(1 .. MaxEvents) /\ Len(q) \in Nat /\ \A i \in 1 .. Len(q) : q[i] \in 1 .. Heard
      /\ StateTypeOK /\ HeardInv
  BY StateTypeFacts DEF StateInv
<1>2. /\ log' = log /\ subs' = subs /\ Heard' = Heard /\ replayed' = replayed
      /\ q # <<>> /\ r = Tail(q)
  BY ManagerAssumption, <1>1 DEF Deliver, Begin, Heard, StateTypeOK, BusTypeOK
<1>3. /\ Len(q) > 0 /\ Len(r) = Len(q) - 1 /\ Head(q) = q[1]
      /\ \A i \in 1 .. Len(r) : r[i] = q[i + 1]
  BY <1>1, <1>2
<1>4. PICK n \in 1 .. Heard : n = q[1] /\ n = Head(q)
  <2>1. 1 \in 1 .. Len(q)
    BY <1>1, <1>3
  <2> QED BY <1>1, <1>3, <2>1
<1>5. n \in 1 .. Len(log) /\ OnEvent(log[n])
  BY <1>1, <1>4 DEF Deliver
<1>6. \A f, t : IsFold(f, t)' <=> IsFold(f, t)
  BY <1>2 DEF IsFold
<1> HIDE DEF r
<1>7. HeardInv'
  <2>1. \A i \in 1 .. Len(r) : i + 1 \in 1 .. Len(q)
    BY <1>1, <1>3
  <2>2. \A i \in 1 .. Len(r) : r[i] <= Heard
    BY <1>1, <1>3, <2>1
  <2> QED BY <1>1, <1>2, <2>2 DEF HeardInv, r
<1>8. CaughtUpInv'
  <2> SUFFICES ASSUME NEW t \in Tasks, OneStream(t)', CreatedFirst(t)' PROVE CaughtUp(t)'
    BY DEF CaughtUpInv
  <2>1. OneStream(t) /\ CreatedFirst(t)
    BY <1>2 DEF OneStream, CreatedFirst
  <2>2. PICK f : IsFold(f, t) /\ Brings(log, q, t, states[t], f[Heard])
    BY <2>1 DEF StateInv, CaughtUpInv, CaughtUp
  <2>3. Brings(log, Tail(q), t, After(log, Head(q), t, states[t]), f[Heard])
    BY <1>1, <1>2, <2>2, BringsTail
  <2>4. states'[t] = After(log, n, t, states[t])
    BY <1>1, <1>5, OnEventFacts
  <2>5. Brings(log', ready'[Manager], t, states'[t], f[Heard'])
    BY <1>2, <1>4, <2>3, <2>4 DEF r
  <2> QED BY <1>6, <2>2, <2>5 DEF CaughtUp
<1>9. ReachedInv'
  <2> SUFFICES ASSUME NEW t \in Tasks, NotReplayed(t)
               PROVE \E f : \E p \in 0 .. Heard' : IsFold(f, t)' /\ Reached(f, t, p)'
    BY <1>2 DEF ReachedInv, NotReplayed
  <2>1. PICK f : \E p \in 0 .. Heard : IsFold(f, t) /\ Reached(f, t, p)
    BY DEF StateInv, ReachedInv
  <2>2. PICK p \in 0 .. Heard : IsFold(f, t) /\ Reached(f, t, p)
    BY <2>1
  <2> DEFINE Old == {i \in 1 .. Len(q) : log[q[i]].about = t}
             New == {i \in 1 .. Len(r) : log[r[i]].about = t}
  <2>3. /\ \A i \in Old : q[i] > p
        /\ \A i, j \in Old : i < j => q[i] < q[j]
        /\ \A m \in p + 1 .. Heard : log[m].about = t => \E i \in Old : q[i] = m
        /\ states[t] = f[p] /\ counts[t] <= Nth(t, p)
        /\ snapshots[t] # None =>
             \E o \in 0 .. p : snapshots[t].status = f[o] /\ snapshots[t].sequence <= Nth(t, o)
    BY <2>2 DEF Reached
  <2>4. \A o : Nth(t, o)' = Nth(t, o)
    BY <1>2 DEF Nth
  <2>5. \A i \in New : i + 1 \in Old /\ r[i] = q[i + 1]
    BY <1>1, <1>3
  <2>6. \A i \in Old : i \in Int /\ (i = 1 \/ (i - 1 \in New /\ r[i - 1] = q[i]))
    <3>1. \A i \in 1 .. Len(q) : i = 1 \/ (i - 1 \in 1 .. Len(r) /\ (i - 1) + 1 = i)
      BY <1>1, <1>3
    <3> QED BY <1>3, <3>1
  <2>7. /\ \A i \in New : i \in Int /\ i >= 1
        /\ 1 \in Old <=> log[n].about = t
    BY <1>1, <1>3, <1>4
  <2>8. counts[t] \in Nat /\ counts'[t] \in {counts[t], counts[t] + 1}
        /\ states'[t] = After(log, n, t, states[t])
    BY <1>1, <1>5, OnEventFacts, StateTypeFacts
  <2>9. \A o \in 0 .. Heard : o \in Nat
    OBVIOUS
  <2>10. CASE log[n].about # t
    <3> HIDE DEF New, Old
    <3>1. /\ \A i \in New : r[i] > p
          /\ \A i, j \in New : i < j => r[i] < r[j]
          /\ \A m \in p + 1 .. Heard : log[m].about = t => \E i \in New : r[i] = m
      <4>1. \A i, j \in New : i < j => i + 1 < j + 1
        BY <2>7
      <4>2. \A i \in Old : i - 1 \in New /\ r[i - 1] = q[i]
        BY <2>6, <2>7, <2>10
      <4> QED BY <2>3, <2>5, <4>1, <4>2
    <3>2. states'[t] = states[t] /\ counts'[t] = counts[t] /\ snapshots'[t] = snapshots[t]
      BY <1>1, <1>5, <2>8, <2>10, OnEventFacts DEF After
    <3>3. Reached(f, t, p)'
      BY <1>2, <2>3, <2>4, <3>1, <3>2 DEF Reached, New, r
    <3> QED BY <1>2, <1>6, <2>2, <3>3
  <2>11. CASE log[n].about = t
    <3> HIDE DEF New, Old
    <3>1. n > p /\ n \in Nat /\ p \in Nat /\ n - 1 \in p .. Heard /\ n - 1 \in 0 .. Heard /\ n \in 0 .. Heard
      <4>1. n > p
        BY <1>4, <2>3, <2>7, <2>11
      <4> QED BY <1>1, <4>1
    <3>2. \A m \in p + 1 .. n - 1 : log[m].about # t
      <4> SUFFICES ASSUME NEW m \in p + 1 .. n - 1, log[m].about = t PROVE FALSE
        OBVIOUS
      <4>1. m \in p + 1 .. Heard /\ m < n
        BY <1>1, <3>1
      <4>2. PICK i \in Old : q[i] = m
        BY <2>3, <4>1
      <4>3. 1 \in Old /\ i \in Int
        BY <2>6, <2>7, <2>11
      <4>4. i # 1
        BY <1>4, <4>1, <4>2
      <4>5. i > 1
        BY <2>6, <2>7, <4>2, <4>3, <4>4
      <4>6. q[1] < q[i]
        BY <2>3, <4>2, <4>3, <4>5
      <4> QED BY <1>4, <3>1, <4>1, <4>2, <4>6
    <3>3. f[n - 1] = f[p]
      BY <1>1, <2>2, <3>1, <3>2, FoldStill
    <3>4. states'[t] = f[n]
      <4>1. f[n] = task_reducer(f[n - 1], log[n].kind)
        BY <2>2, <2>11 DEF IsFold
      <4> QED BY <2>3, <2>8, <2>11, <3>3, <4>1 DEF After
    <3>5. Nth(t, p) \in Nat /\ Nth(t, n) \in Nat /\ Nth(t, p) < Nth(t, n)
      <4>1. p <= n /\ n <= n
        BY <3>1
      <4> QED BY <2>11, <3>1, <4>1, NthFacts
    <3>6. counts'[t] <= Nth(t, n)
      BY <2>3, <2>8, <3>5
    <3>7. snapshots'[t] # None =>
            \E o \in 0 .. n : snapshots'[t].status = f[o] /\ snapshots'[t].sequence <= Nth(t, o)
      <4>1. n \in 0 .. n /\ \A o \in 0 .. p : o \in 0 .. n
        BY <3>1
      <4>2. CASE snapshots'[t] = snapshots[t]
        BY <2>3, <4>1, <4>2
      <4>3. CASE snapshots'[t] = [status |-> states'[t], sequence |-> counts'[t]]
        <5>1. snapshots'[t].status = f[n] /\ snapshots'[t].sequence <= Nth(t, n)
          BY <3>4, <3>6, <4>3
        <5> QED BY <4>1, <5>1
      <4> QED BY <1>1, <1>5, <4>2, <4>3, OnEventFacts
    <3>8. /\ \A i \in New : r[i] > n
          /\ \A i, j \in New : i < j => r[i] < r[j]
          /\ \A m \in n + 1 .. Heard : log[m].about = t => \E i \in New : r[i] = m
      <4>1. \A i, j \in New : i < j => i + 1 < j + 1
        BY <2>7
      <4>2. \A i \in New : 1 < i + 1 /\ 1 \in Old
        BY <2>7, <2>11
      <4>3. \A i \in New : r[i] > n
        <5>1. \A i \in New : q[1] < q[i + 1]
          BY <2>3, <2>5, <4>2
        <5>2. \A i \in New : q[i + 1] \in 1 .. Heard
          BY <1>1, <2>5 DEF Old
        <5> QED BY <1>4, <2>5, <5>1, <5>2
      <4>4. \A m \in n + 1 .. Heard : m \in p + 1 .. Heard /\ m # n
        BY <3>1
      <4>5. ASSUME NEW m \in n + 1 .. Heard, log[m].about = t PROVE \E i \in New : r[i] = m
        <5>1. PICK i \in Old : q[i] = m
          BY <2>3, <4>4, <4>5
        <5>2. i # 1
          BY <1>4, <4>4, <5>1
        <5> QED BY <2>6, <5>1, <5>2
      <4> QED BY <2>3, <2>5, <4>1, <4>3, <4>5
    <3>9. Reached(f, t, n)'
      BY <1>2, <2>4, <3>4, <3>6, <3>7, <3>8 DEF Reached, New, r
    <3> QED BY <1>2, <1>6, <2>2, <3>1, <3>9
  <2> QED BY <2>10, <2>11
<1> QED BY <1>7, <1>8, <1>9

LEMMA StateInvNext == StateInv /\ [StateNext]_stateVars => StateInv'
<1> SUFFICES ASSUME StateInv, [StateNext]_stateVars PROVE StateInv'
  OBVIOUS
<1>1. StateTypeOK /\ HeardInv /\ CaughtUpInv /\ ReachedInv
  BY DEF StateInv
<1>2. StateTypeOK'
  BY <1>1, StateTypeNext
<1>3. subs[Manager].on \in {"active", "gone"} /\ subs \in [Subscribers -> Registration]
  BY <1>1 DEF HeardInv, StateTypeOK, BusTypeOK
<1>4. ASSUME NEW e \in Emits, Publish(e),
             UNCHANGED <<states, counts, snapshots, begun>>
      PROVE  StateInv'
  BY <1>2, <1>4, PublishKeeps DEF StateInv
<1>5. ASSUME NEW s \in Subscribers, Subscribe(s) \/ Unsubscribe(s),
             UNCHANGED <<states, counts, snapshots, begun>>
      PROVE  StateInv'
  <2>1. log' = log /\ ready' = ready /\ replayed' = replayed
    BY <1>5 DEF Subscribe, Unsubscribe
  <2>2. subs'[Manager].on \in {"active", "gone"} /\ Heard' = Heard
    <3>1. CASE s # Manager
      <4>1. subs'[Manager] = subs[Manager]
        BY <1>3, <1>5, <3>1, ManagerAssumption DEF Subscribe, Unsubscribe
      <4> QED BY <1>3, <2>1, <4>1 DEF Heard
    <3>2. CASE s = Manager
      <4>1. subs[Manager].on = "active" /\ subs' = [subs EXCEPT ![s].on = "gone", ![s].to = Len(log)]
        BY <1>3, <1>5, <3>2 DEF Subscribe, Unsubscribe
      <4>2. subs'[Manager].on = "gone" /\ subs'[Manager].to = Len(log)
        <5>1. subs[Manager] \in Registration
          BY <1>3, ManagerAssumption
        <5>2. subs'[Manager] = [subs[Manager] EXCEPT !.on = "gone", !.to = Len(log)]
          BY <1>3, <3>2, <4>1, ManagerAssumption
        <5> QED BY <5>1, <5>2 DEF Registration
      <4> QED BY <4>1, <4>2 DEF Heard
    <3> QED BY <3>1, <3>2
  <2> QED BY <1>1, <1>2, <1>5, <2>1, <2>2, QuietKeeps DEF StateInv
<1>6. ASSUME NEW streams \in SUBSET Tasks, NEW after \in 0 .. MaxEvents - 1, Replay(streams, after),
             UNCHANGED <<states, counts, snapshots, begun>>
      PROVE  StateInv'
  <2>1. after \in Nat
    BY BoundAssumption
  <2> QED BY <1>2, <1>6, <2>1, ReplayKeeps DEF StateInv
<1>7. ASSUME NEW s \in Subscribers, Deliver(s) PROVE StateInv'
  <2>1. CASE s = Manager
    BY <1>2, <1>7, <2>1, DeliverKeeps DEF StateInv
  <2>2. CASE s # Manager
    <3>1. UNCHANGED <<log, subs, replayed, states, counts, snapshots>>
      BY <1>7, <2>2 DEF Deliver, Begin
    <3>2. ready'[Manager] = ready[Manager]
      BY <1>1, <1>7, <2>2, ManagerAssumption DEF Deliver, Begin, StateTypeOK, BusTypeOK
    <3>3. Heard' = Heard
      BY <3>1 DEF Heard
    <3> QED BY <1>1, <1>2, <1>3, <3>1, <3>2, <3>3, QuietKeeps DEF StateInv
  <2> QED BY <2>1, <2>2
<1>8. CASE UNCHANGED stateVars
  <2>1. Heard' = Heard
    BY <1>8 DEF stateVars, Heard
  <2> QED BY <1>1, <1>2, <1>3, <1>8, <2>1, QuietKeeps DEF StateInv, stateVars
<1>9. \A t \in Tasks : {t} \in SUBSET Tasks
  OBVIOUS
<1> QED BY <1>4, <1>5, <1>6, <1>7, <1>8, <1>9 DEF StateNext

LEMMA StateInvInit == StateInit => StateInv
<1> SUFFICES ASSUME StateInit PROVE StateInv
  OBVIOUS
<1>1. StateTypeOK
  <2>1. <<>> \in Seq(Event) /\ Len(<<>>) = 0 /\ <<>> \in Seq(1 .. MaxEvents) /\ 0 \in 0 .. MaxEvents
    BY BoundAssumption
  <2>2. subs \in [Subscribers -> Registration]
    BY <2>1 DEF StateInit, BusInit, Registration
  <2> QED BY <2>1, <2>2, BoundAssumption DEF StateInit, BusInit, StateTypeOK, BusTypeOK
<1>2. /\ subs[Manager].on = "active" /\ ready[Manager] = <<>> /\ Len(ready[Manager]) = 0
      /\ Heard = 0 /\ log = <<>>
  BY ManagerAssumption DEF StateInit, BusInit, Heard
<1>3. HeardInv
  BY <1>2 DEF HeardInv
<1> DEFINE f == [n \in 0 .. 0 |-> None]
<1>4. f \in [0 .. 0 -> Any] /\ f[0] = None
  BY DEF Any
<1> HIDE DEF f
<1>5. \A t : IsFold(f, t)
  BY <1>2, <1>4 DEF IsFold
<1>6. ASSUME NEW t \in Tasks PROVE CaughtUp(t) /\ \E p \in 0 .. Heard : IsFold(f, t) /\ Reached(f, t, p)
  <2>1. states[t] = None /\ counts[t] = 0 /\ snapshots[t] = None
    BY DEF StateInit
  <2>2. Brings(log, ready[Manager], t, states[t], f[Heard])
    BY <1>2, <1>4, <2>1 DEF Brings
  <2>3. CaughtUp(t)
    BY <1>5, <2>2 DEF CaughtUp
  <2>4. Nth(t, 0) \in Nat
    BY NthFacts
  <2>5. 0 \in 0 .. Heard /\ Reached(f, t, 0)
    BY <1>2, <1>4, <2>1, <2>4 DEF Reached
  <2> QED BY <1>5, <2>3, <2>5
<1>7. CaughtUpInv /\ ReachedInv
  BY <1>6 DEF CaughtUpInv, ReachedInv
<1> QED BY <1>1, <1>3, <1>7 DEF StateInv

LEMMA StateInvCorrect == StateSpec => []StateInv
BY StateInvInit, StateInvNext, PTL DEF StateSpec

\* The log, the queues, the counters and the snapshots keep their types: no snapshot
\* is taken of a task that has no aggregate.
THEOREM StateTypeCorrect == StateSpec => []StateTypeOK
<1>1. StateInv => StateTypeOK
  BY DEF StateInv
<1> QED BY <1>1, StateInvCorrect, PTL

\* Nothing about t waits for the manager: all of it was delivered.
LEMMA SettledFacts ==
  ASSUME StateInv, NEW t \in Tasks, Settled(t)
  PROVE  /\ OneStream(t) /\ CreatedFirst(t) => \E f : IsFold(f, t) /\ states[t] = f[Heard]
         /\ NotReplayed(t) => \E f : \E p \in 0 .. Heard :
              /\ IsFold(f, t) /\ Reached(f, t, p) /\ states[t] = f[Heard]
<1>1. /\ Heard \in Nat /\ ready[Manager] \in Seq(1 .. MaxEvents) /\ Len(ready[Manager]) \in Nat
      /\ \A i \in 1 .. Len(ready[Manager]) : log[ready[Manager][i]].about # t
  BY StateTypeFacts DEF StateInv, Settled
<1>2. ASSUME OneStream(t), CreatedFirst(t) PROVE \E f : IsFold(f, t) /\ states[t] = f[Heard]
  <2>1. PICK f : IsFold(f, t) /\ Brings(log, ready[Manager], t, states[t], f[Heard])
    BY <1>2 DEF StateInv, CaughtUpInv, CaughtUp
  <2>2. states[t] = f[Heard]
    BY <1>1, <2>1, BringsNothing
  <2> QED BY <2>1, <2>2
<1>3. ASSUME NotReplayed(t)
      PROVE  \E f : \E p \in 0 .. Heard : IsFold(f, t) /\ Reached(f, t, p) /\ states[t] = f[Heard]
  <2>1. PICK f : \E p \in 0 .. Heard : IsFold(f, t) /\ Reached(f, t, p)
    BY <1>3 DEF StateInv, ReachedInv
  <2>2. PICK p \in 0 .. Heard : IsFold(f, t) /\ Reached(f, t, p)
    BY <2>1
  <2>3. states[t] = f[p] /\ \A n \in p + 1 .. Heard : log[n].about # t
    BY <1>1, <2>2 DEF Reached
  <2>4. Heard \in p .. Heard
    BY <1>1
  <2>5. f[Heard] = f[p]
    BY <1>1, <2>2, <2>3, <2>4, FoldStill
  <2> QED BY <2>2, <2>3, <2>5
<1> QED BY <1>2, <1>3

\* Once nothing about a task waits for the state manager its status is the fold of the
\* events about it, whatever streams they are in, for any log and any subscribers, as
\* long as none of these streams is replayed; and after any replay, if they are all in
\* one stream and the task is created first (StateManager._on_event and
\* InMemoryEventBus.replay).
THEOREM FollowsCorrect == StateSpec => []StateFollowsLog
<1>1. ASSUME StateInv PROVE StateFollowsLog
  <2> SUFFICES ASSUME NEW t \in Tasks, Settled(t),
                      NotReplayed(t) \/ (OneStream(t) /\ CreatedFirst(t))
               PROVE states[t] = Refolded(t, None, 0)
    BY DEF StateFollowsLog
  <2>1. PICK f : IsFold(f, t) /\ states[t] = f[Heard]
    BY <1>1, SettledFacts
  <2>2. Heard \in Nat /\ None \in Any
    BY <1>1, StateTypeFacts DEF StateInv, Any
  <2>3. \A n \in 1 .. Heard : log[n].about = t => SequenceOf(n) > 0
    BY <2>2, SequenceAhead
  <2>4. IsResumed(f, None, StreamPast(t, 0))
    <3>1. \A n \in 1 .. Heard : n \in StreamPast(t, 0) <=> log[n].about = t
      BY <2>3 DEF StreamPast
    <3> QED BY <2>1, <3>1 DEF IsFold, IsResumed
  <2>5. Refolded(t, None, 0) = f[Heard]
    BY <2>2, <2>4, RefoldedIs
  <2> QED BY <2>1, <2>5
<1> QED BY <1>1, StateInvCorrect, PTL

\* A snapshot and the events past its sequence give the status back (the recovery
\* the module comment of StateManager promises), although its sequence is the
\* manager's own count and may be behind the store's: where all that is about the task
\* is in one stream, never replayed, and the task is created first.
THEOREM SnapshotCorrect == StateSpec => []SnapshotRecovers
<1>1. ASSUME StateInv PROVE SnapshotRecovers
  <2> SUFFICES ASSUME NEW t \in Tasks, Settled(t), OneStream(t), NotReplayed(t), CreatedFirst(t),
                      snapshots[t] # None
               PROVE states[t] = Refolded(t, snapshots[t].status, snapshots[t].sequence)
    BY DEF SnapshotRecovers
  <2>1. PICK f : \E p \in 0 .. Heard : IsFold(f, t) /\ Reached(f, t, p) /\ states[t] = f[Heard]
    BY <1>1, SettledFacts
  <2>2. PICK p \in 0 .. Heard : IsFold(f, t) /\ Reached(f, t, p) /\ states[t] = f[Heard]
    BY <2>1
  <2>3. PICK o \in 0 .. p : snapshots[t].status = f[o] /\ snapshots[t].sequence <= Nth(t, o)
    BY <2>2 DEF Reached
  <2> DEFINE c == snapshots[t].sequence
             C == StreamPast(t, c)
  <2>4. /\ Heard \in Nat /\ o \in Nat /\ o \in 0 .. Heard /\ f[o] \in Any
        /\ \A n \in 1 .. Heard : n \in Nat
    BY <1>1, <2>2, StateTypeFacts DEF StateInv, IsFold
  <2>5. c \in Nat
    BY <1>1 DEF StateInv, StateTypeOK
  <2> HIDE DEF c
  <2>6. PICK g : IsResumed(g, f[o], C)
    BY <2>4, ResumedExists
  <2>7. IsRest(C, t)
    <3>1. ASSUME NEW m \in C, NEW n \in 1 .. Heard, m <= n, log[n].about = t PROVE n \in C
      <4>1. /\ m \in Nat /\ n \in Nat /\ log[m].about = t /\ SequenceOf(m) > c
            /\ log[m].task = log[n].task
        BY <2>4, <3>1 DEF StreamPast, OneStream
      <4>2. SequenceOf(m) \in Nat /\ SequenceOf(n) \in Nat /\ SequenceOf(m) <= SequenceOf(n)
        BY <3>1, <4>1, SequenceGrows
      <4>3. SequenceOf(n) > c
        BY <2>5, <4>1, <4>2
      <4> QED BY <3>1, <4>3 DEF StreamPast
    <3>2. \A n \in C : n \in 1 .. Heard /\ log[n].about = t
      BY DEF StreamPast
    <3> QED BY <3>1, <3>2 DEF IsRest
  <2>8. g[o] = f[o]
    BY <2>2, <2>4, <2>6, <2>7, AppliedAgain
  <2>9. \A n \in o + 1 .. Heard : log[n].about = t => n \in C
    <3> SUFFICES ASSUME NEW n \in o + 1 .. Heard, log[n].about = t PROVE n \in C
      OBVIOUS
    <3>1. n \in Nat /\ n \in 1 .. Heard /\ o < n /\ o <= n /\ n <= n
      BY <2>4
    <3>2. Nth(t, o) \in Nat /\ Nth(t, n) \in Nat /\ Nth(t, o) < Nth(t, n)
      BY <2>4, <3>1, NthFacts
    <3>3. SequenceOf(n) > c
      <4>1. SequenceOf(n) \in Nat /\ Nth(t, n) <= SequenceOf(n)
        BY <2>4, <3>1, SequenceAhead
      <4> QED BY <2>3, <2>5, <3>2, <4>1 DEF c
    <3> QED BY <3>1, <3>3 DEF StreamPast
  <2> HIDE DEF C
  <2>10. g[Heard] = f[Heard]
    <3> DEFINE S == {i \in 0 .. Heard - o : g[o + i] = f[o + i]}
    <3>1. Heard - o \in Nat /\ o + (Heard - o) = Heard /\ 0 \in S
      BY <2>4, <2>8
    <3>2. ASSUME NEW i \in 0 .. (Heard - o) - 1, i \in S PROVE i + 1 \in S
      <4>1. /\ o + (i + 1) \in o + 1 .. Heard /\ o + (i + 1) \in 1 .. Heard
            /\ (o + (i + 1)) - 1 = o + i /\ i + 1 \in 0 .. Heard - o
        BY <2>4
      <4>2. g[o + i] = f[o + i]
        BY <3>2
      <4>3. CASE log[o + (i + 1)].about = t
        BY <2>2, <2>6, <2>9, <4>1, <4>2, <4>3 DEF IsFold, IsResumed
      <4>4. CASE log[o + (i + 1)].about # t
        <5>1. o + (i + 1) \notin C
          BY <2>7, <4>4 DEF IsRest
        <5> QED BY <2>2, <2>6, <4>1, <4>2, <4>4, <5>1 DEF IsFold, IsResumed
      <4> QED BY <4>3, <4>4
    <3> HIDE DEF S
    <3>3. \A i \in 0 .. (Heard - o) - 1 : i \in S => i + 1 \in S
      BY <3>2
    <3>4. \A i \in 0 .. Heard - o : i \in S
      BY <3>1, <3>3, UpTo
    <3>5. Heard - o \in S
      BY <3>1, <3>4
    <3> QED BY <3>1, <3>5 DEF S
  <2>11. Refolded(t, f[o], c) = g[Heard]
    BY <2>4, <2>6, RefoldedIs DEF C
  <2> QED BY <2>2, <2>3, <2>10, <2>11 DEF c
<1> QED BY <1>1, StateInvCorrect, PTL
================================================================================
