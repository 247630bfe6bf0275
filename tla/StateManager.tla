---------------------------- MODULE StateManager ----------------------------
(***************************************************************************)
(* The event-sourced state manager, one of the bus's subscribers: it folds *)
(* the events about a task into the task's status and takes a snapshot     *)
(* every so many of them.  An event is about the aggregate its payload     *)
(* names, and about the task of its stream only if it names none: an       *)
(* aggregate may be fed from several streams.  The reducer is that of      *)
(* tasks, the only one that is ever registered; it raises nothing and      *)
(* never returns None for an aggregate that is there.  The other           *)
(* subscribers' handlers may wait and raise; what they do then is their    *)
(* own affair, the bus has begun them.                                     *)
(***************************************************************************)
EXTENDS EventBus

CONSTANTS
  Manager,    \* the state manager's subscription, to every topic
  None,       \* no aggregate
  Interval    \* snapshot_interval

VARIABLES
  states,     \* task -> the aggregate's status
  counts,     \* task -> events counted
  snapshots,  \* task -> the latest snapshot
  begun       \* history: subscriber -> the events its handler was begun on

stateVars == <<log, subs, ready, replayed, states, counts, snapshots, begun>>

ASSUME ManagerAssumption == Manager \in Subscribers /\ Wants[Manager] = Published
ASSUME IntervalAssumption == Interval \in Nat \ {0}

\* The topics that set the status; task.created only makes an aggregate, any other
\* task.* ("noted") is reduced to nothing new, and step.* and others have no reducer.
StatusOf == [queued |-> "queued", started |-> "running", paused |-> "paused",
             resumed |-> "running", completed |-> "completed", failed |-> "failed",
             cancelled |-> "cancelled"]

Reducible == {"created", "noted"} \cup DOMAIN StatusOf

Statuses == {"pending"} \cup {StatusOf[k] : k \in DOMAIN StatusOf}

ASSUME NoneAssumption == None \notin Statuses

task_reducer(status, kind) ==
  IF status = None THEN IF kind = "created" THEN "pending" ELSE None
  ELSE IF kind \in DOMAIN StatusOf THEN StatusOf[kind] ELSE status

StateTypeOK ==
  /\ BusTypeOK
  /\ states \in [Tasks -> Statuses \cup {None}]
  /\ counts \in [Tasks -> Nat]
  /\ snapshots \in [Tasks -> [status : Statuses, sequence : Nat] \cup {None}]
  /\ begun \in [Subscribers -> SUBSET (1 .. MaxEvents)]

StateInit ==
  /\ BusInit({Manager})
  /\ states = [t \in Tasks |-> None]
  /\ counts = [t \in Tasks |-> 0]
  /\ snapshots = [t \in Tasks |-> None]
  /\ begun = [s \in Subscribers |-> {}]

\* Mutants: a snapshot of no aggregate; a snapshot before the event is reduced.
OnEventSnapshotNone(event) ==
  IF event.kind \notin Reducible \/ event.about = NoId THEN UNCHANGED <<states, counts, snapshots>>
  ELSE LET t == event.about
           status == task_reducer(states[t], event.kind)
           count == counts[t] + 1
       IN  /\ states' = [states EXCEPT ![t] = status]
           /\ counts' = [counts EXCEPT ![t] = count]
           /\ snapshots' = IF count % Interval = 0
                           THEN [snapshots EXCEPT ![t] = [status |-> status, sequence |-> count]]
                           ELSE snapshots

OnEventSnapshotFirst(event) ==
  IF event.kind \notin Reducible \/ event.about = NoId THEN UNCHANGED <<states, counts, snapshots>>
  ELSE LET t == event.about
           count == counts[t] + 1
       IN  /\ states' = [states EXCEPT ![t] = task_reducer(@, event.kind)]
           /\ counts' = [counts EXCEPT ![t] = count]
           /\ snapshots' = IF count % Interval = 0 /\ states[t] # None
                           THEN [snapshots EXCEPT ![t] = [status |-> states[t], sequence |-> count]]
                           ELSE snapshots

\* _on_event: its lock is free whenever it is taken, so it never suspends.
OnEvent(event) ==
  IF event.kind \notin Reducible \/ event.about = NoId THEN UNCHANGED <<states, counts, snapshots>>
  ELSE LET t == event.about
           status == task_reducer(states[t], event.kind)
           count == counts[t] + 1
       IN  /\ states' = [states EXCEPT ![t] = status]
           /\ counts' = [counts EXCEPT ![t] = count]
           /\ snapshots' = IF count % Interval = 0 /\ status # None
                           THEN [snapshots EXCEPT ![t] = [status |-> status, sequence |-> count]]
                           ELSE snapshots

Deliver(s) ==
  /\ Begin(s)
  /\ LET n == Head(ready[s])
     IN  /\ begun' = [begun EXCEPT ![s] = @ \cup {n}]
         /\ IF s = Manager THEN OnEvent(log[n])
            ELSE UNCHANGED <<states, counts, snapshots>>

StateNext ==
  \/ /\ \/ \E e \in Emits : Publish(e)
        \/ \E s \in Subscribers : Subscribe(s) \/ Unsubscribe(s)
        \/ \E after \in 0 .. MaxEvents - 1 :
             Replay(Tasks, after) \/ \E t \in Tasks : Replay({t}, after)
     /\ UNCHANGED <<states, counts, snapshots, begun>>
  \/ \E s \in Subscribers : Deliver(s)

\* The loop runs every task that is scheduled.
StateSpec ==
  /\ StateInit /\ [][StateNext]_stateVars
  /\ \A s \in Subscribers : WF_stateVars(Deliver(s))

-----------------------------------------------------------------------------
(* What the manager should know. *)

\* What the manager was subscribed for, and whether it has seen to all about t.
Heard == IF subs[Manager].on = "active" THEN Len(log) ELSE subs[Manager].to
Settled(t) == \A i \in DOMAIN ready[Manager] : log[ready[Manager][i]].about # t

\* A status brought forward by the events about t past a sequence number.
Refolded(t, status, after) ==
  LET upto[n \in 0 .. Heard] ==
        IF n = 0 THEN status
        ELSE IF log[n].about = t /\ SequenceOf(n) > after
        THEN task_reducer(upto[n - 1], log[n].kind)
        ELSE upto[n - 1]
  IN  upto[Heard]

\* Every event about t that sets a status comes after its task.created.
CreatedFirst(t) ==
  \A n \in 1 .. Heard :
    log[n].about = t /\ log[n].kind \in DOMAIN StatusOf
      => \E m \in 1 .. n - 1 : log[m].about = t /\ log[m].kind = "created"

\* All that is about t was published in one stream.
OneStream(t) ==
  \A m, n \in 1 .. Heard : log[m].about = t /\ log[n].about = t => log[m].task = log[n].task

\* No stream with an event about t was ever replayed.
NotReplayed(t) == \A n \in 1 .. Heard : log[n].about = t => log[n].task \notin replayed

(***************************************************************************)
(* Once nothing about a task is waiting for the state manager, the status  *)
(* it gives is the fold of the events about the task, in the order of the  *)
(* store.  If one of their streams was replayed, from whatever position,   *)
(* that needs all of them to be in that stream, and the task to be created *)
(* before it is anything else: of several streams, replaying one puts the  *)
(* status back to what that one says.                                      *)
(***************************************************************************)
StateFollowsLog ==
  \A t \in Tasks :
    Settled(t) /\ (NotReplayed(t) \/ (OneStream(t) /\ CreatedFirst(t)))
      => states[t] = Refolded(t, None, 0)

(***************************************************************************)
(* A snapshot and the events about the task past its sequence give back    *)
(* the status, although the store numbers all events of a stream and the   *)
(* manager counts those it reduces, so that some are applied twice: as     *)
(* long as all that is about the task is in one stream (the manager counts *)
(* across streams, the store within each), that stream was not replayed    *)
(* and the task is created before it is anything else.                     *)
(***************************************************************************)
SnapshotRecovers ==
  \A t \in Tasks :
    Settled(t) /\ OneStream(t) /\ NotReplayed(t) /\ CreatedFirst(t) /\ snapshots[t] # None
      => states[t] = Refolded(t, snapshots[t].status, snapshots[t].sequence)

(***************************************************************************)
(* Every event published while a subscriber was subscribed to its topic    *)
(* reaches the subscriber's handler, also when it unsubscribes before.     *)
(***************************************************************************)
Owed(s, n) ==
  /\ n <= Len(log) /\ log[n].kind \in Wants[s]
  /\ subs[s].on # "before" /\ n > subs[s].from
  /\ subs[s].on = "gone" => n <= subs[s].to

EventsArrive ==
  \A s \in Subscribers, n \in 1 .. MaxEvents : Owed(s, n) ~> n \in begun[s]
=============================================================================
