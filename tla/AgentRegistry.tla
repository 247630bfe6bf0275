---------------------------- MODULE AgentRegistry ----------------------------
(***************************************************************************)
(* The agent registry: which agents exist, what they depend on, which      *)
(* capabilities lead to them, and the heartbeat that asks for their health.*)
(*                                                                         *)
(* Registration, removal and reload hold the registry's lock while they    *)
(* wait for the agent; the heartbeat and every query take no lock at all.  *)
(* The default context is set before any agent is registered.              *)
(***************************************************************************)
EXTENDS FiniteSets

CONSTANTS
  Agents,     \* agent ids
  Caps,       \* capability namespaces
  Absent,     \* not registered
  Gone,       \* an entry that only the heartbeat still holds
  Standby     \* bound: agents registered without being initialized, and then
              \* neither switched on and off nor reloaded

VARIABLES
  entry,      \* _entries
  index,      \* _by_capability
  op,         \* the operation that holds _lock and what it waits for
  beat,       \* the heartbeat round under way
  reloaded    \* history: ids reloaded since they were last not indexed at all

registryVars == <<entry, index, op, beat, reloaded>>

Entry == [caps : SUBSET Caps, deps : SUBSET Agents, enabled : BOOLEAN,
          initialized : BOOLEAN, healthy : BOOLEAN]

ASSUME AbsentAssumption == Absent \notin Entry \cup Agents /\ Gone \notin Agents
ASSUME StandbyAssumption == Standby \subseteq Agents

Free == [kind |-> "free"]

\* left: the registered entries of the round's copy still to be asked; at: the
\* one being asked, Gone once it is unregistered.  (The copy's other removed
\* entries are asked too, but nobody sees what their agents answer.)
NoRound == [on |-> FALSE, left |-> {}, at |-> Absent]

RegistryTypeOK ==
  /\ entry \in [Agents -> Entry \cup {Absent}]
  /\ index \in [Caps -> SUBSET Agents]
  /\ op \in {Free} \cup
       [kind : {"register"}, agent : Agents, deps : SUBSET Agents, initialize : BOOLEAN]
       \cup [kind : {"unregister", "reload", "report"}, agent : Agents]
  /\ beat \in [on : BOOLEAN, left : SUBSET Agents, at : Agents \cup {Absent, Gone}]
  /\ reloaded \subseteq Agents

RegistryInit ==
  /\ entry = [a \in Agents |-> Absent]
  /\ index = [c \in Caps |-> {}]
  /\ op = Free /\ beat = NoRound /\ reloaded = {}

Registered == {a \in Agents : entry[a] # Absent}

Indexed(a, caps) == [c \in Caps |-> IF c \in caps THEN index[c] \cup {a} ELSE index[c]]
Unindexed(a, caps) == [c \in Caps |-> IF c \in caps THEN index[c] \ {a} ELSE index[c]]
InIndex(a) == \E c \in Caps : a \in index[c]

-----------------------------------------------------------------------------
(* Registration. *)

\* Mutant: only a direct circle is refused.
NoSelfDependency(a, deps) == a \notin deps

\* _check_no_cycle: following the dependencies from deps, through registered
\* agents, stays within a set that does not hold a.
NoCycle(a, deps) ==
  \E S \in SUBSET (Agents \ {a}) :
    deps \subseteq S /\ \A b \in S \cap Registered : entry[b].deps \subseteq S

RegisterAgent(a, deps, initialize) ==
  /\ op = Free
  /\ a \notin Registered
  /\ deps \subseteq Registered
  /\ NoCycle(a, deps)
  /\ op' = [kind |-> "register", agent |-> a, deps |-> deps, initialize |-> initialize]
  /\ UNCHANGED <<entry, index, beat, reloaded>>

\* The agent has answered; without initialize it is only asked for its manifest,
\* and a failure to give one leaves it without capabilities.
RegisterDone(caps, healthy) ==
  /\ op.kind = "register"
  /\ LET a == op.agent
     IN  /\ entry' = [entry EXCEPT ![a] =
                        [caps |-> caps, deps |-> op.deps, enabled |-> TRUE,
                         initialized |-> op.initialize,
                         healthy |-> op.initialize /\ healthy]]
         /\ index' = Indexed(a, caps)
         /\ reloaded' = IF InIndex(a) THEN reloaded ELSE reloaded \ {a}
  /\ op' = Free
  /\ UNCHANGED beat

RegisterFailed ==
  /\ op.kind = "register" /\ op.initialize
  /\ op' = Free
  /\ UNCHANGED <<entry, index, beat, reloaded>>

\* Mutant: the index is forgotten.
UnregisterIndexed(a) ==
  /\ op = Free /\ a \in Registered
  /\ entry' = [entry EXCEPT ![a] = Absent]
  /\ op' = [kind |-> "unregister", agent |-> a]
  /\ beat' = [beat EXCEPT !.left = @ \ {a}, !.at = IF @ = a THEN Gone ELSE @]
  /\ UNCHANGED <<index, reloaded>>

\* Nobody asks whether another agent depends on this one.
Unregister(a) ==
  /\ op = Free /\ a \in Registered
  /\ entry' = [entry EXCEPT ![a] = Absent]
  /\ index' = Unindexed(a, entry[a].caps)
  /\ op' = [kind |-> "unregister", agent |-> a]
  /\ beat' = [beat EXCEPT !.left = @ \ {a}, !.at = IF @ = a THEN Gone ELSE @]
  /\ UNCHANGED reloaded

\* The agent's shutdown() returns or raises.
UnregisterDone ==
  /\ op.kind = "unregister"
  /\ op' = Free
  /\ UNCHANGED <<entry, index, beat, reloaded>>

SetEnabled(a, enabled) ==
  /\ op = Free /\ a \in Registered
  /\ entry' = [entry EXCEPT ![a].enabled = enabled]
  /\ UNCHANGED <<index, op, beat, reloaded>>

Reload(a) ==
  /\ op = Free /\ a \in Registered
  /\ op' = [kind |-> "reload", agent |-> a]
  /\ reloaded' = reloaded \cup {a}
  /\ UNCHANGED <<entry, index, beat>>

\* initialize() and discover_capabilities() are done; queries see the new
\* manifest at once, the index does not.
ReloadDiscovered(caps) ==
  /\ op.kind = "reload"
  /\ entry' = [entry EXCEPT ![op.agent].caps = caps]
  /\ op' = [op EXCEPT !.kind = "report"]
  /\ UNCHANGED <<index, beat, reloaded>>

\* Capabilities are added to the index, those given up stay in it.
ReloadDone(healthy) ==
  /\ op.kind = "report"
  /\ entry' = [entry EXCEPT ![op.agent].healthy = healthy,
                            ![op.agent].initialized = TRUE]
  /\ index' = Indexed(op.agent, entry[op.agent].caps)
  /\ op' = Free
  /\ UNCHANGED <<beat, reloaded>>

\* Mutant: the lock is kept after an error.
ReloadFailedHeld ==
  /\ op.kind \in {"reload", "report"}
  /\ op' = [op EXCEPT !.kind = "failed"]
  /\ UNCHANGED <<entry, index, beat, reloaded>>

ReloadFailed ==
  /\ op.kind \in {"reload", "report"}
  /\ op' = Free
  /\ UNCHANGED <<entry, index, beat, reloaded>>

-----------------------------------------------------------------------------
(* The heartbeat, over a copy of the entries. *)

BeatStart ==
  /\ ~beat.on
  /\ beat' = [on |-> TRUE, left |-> Registered, at |-> Absent]
  /\ UNCHANGED <<entry, index, op, reloaded>>

\* An entry that was never initialized is not asked.
BeatNext(a) ==
  /\ beat.on /\ beat.at = Absent /\ a \in beat.left
  /\ beat' = [beat EXCEPT !.left = @ \ {a},
                          !.at = IF entry[a].initialized THEN a ELSE Absent]
  /\ UNCHANGED <<entry, index, op, reloaded>>

\* report_health() answers; an error or the 5 second timeout says unhealthy.
BeatReport(healthy) ==
  /\ beat.at # Absent
  /\ entry' = IF beat.at = Gone THEN entry
              ELSE [entry EXCEPT ![beat.at].healthy = healthy]
  /\ beat' = [beat EXCEPT !.at = Absent]
  /\ UNCHANGED <<index, op, reloaded>>

BeatDone ==
  /\ beat.on /\ beat.left = {} /\ beat.at = Absent
  /\ beat' = NoRound
  /\ UNCHANGED <<entry, index, op, reloaded>>

\* stop_heartbeat() cancels the round wherever it is.
BeatStop ==
  /\ beat.on
  /\ beat' = NoRound
  /\ UNCHANGED <<entry, index, op, reloaded>>

-----------------------------------------------------------------------------
RegistryNext ==
  \/ \E a \in Agents :
       \/ \E deps \in SUBSET Agents : RegisterAgent(a, deps, FALSE)
       \/ Unregister(a) \/ BeatNext(a)
  \/ \E a \in Agents \ Standby :
       \/ \E deps \in SUBSET Agents : RegisterAgent(a, deps, TRUE)
       \/ Reload(a)
       \/ \E e \in BOOLEAN : SetEnabled(a, e)
  \/ \E caps \in SUBSET Caps :
       ReloadDiscovered(caps) \/ \E h \in BOOLEAN : RegisterDone(caps, h)
  \/ \E h \in BOOLEAN : ReloadDone(h) \/ BeatReport(h)
  \/ RegisterFailed \/ UnregisterDone \/ ReloadFailed
  \/ BeatStart \/ BeatDone \/ BeatStop

RegistrySpec == RegistryInit /\ [][RegistryNext]_registryVars

-----------------------------------------------------------------------------
(***************************************************************************)
(* The agents never depend on one another in a circle, although an agent   *)
(* may leave while others depend on it and come back depending on them: no *)
(* set of registered agents has a dependency of each of its members in it. *)
(***************************************************************************)
Acyclic ==
  \A S \in SUBSET Registered :
    S # {} => \E a \in S : entry[a].deps \cap S = {}

(***************************************************************************)
(* The index leads from a capability to exactly the registered agents that *)
(* advertise it, save for an id that was reloaded: that one may miss what  *)
(* a failed reload announced and keeps what a reload gave up, even after   *)
(* it was unregistered.                                                    *)
(***************************************************************************)
IndexExact ==
  \A a \in Agents \ reloaded, c \in Caps :
    a \in index[c] <=> a \in Registered /\ c \in entry[a].caps
=============================================================================
