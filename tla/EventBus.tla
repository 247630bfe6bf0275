------------------------------ MODULE EventBus ------------------------------
(***************************************************************************)
(* The in-process event bus over the in-memory store.  publish() appends   *)
(* to the store and schedules one asyncio task per matching subscriber;    *)
(* neither lock it takes is ever held across a suspension, so it runs to   *)
(* its end in one turn of the loop, and the loop starts the scheduled      *)
(* tasks in the order they were created.  What is kept of that order is    *)
(* each subscriber's own; between subscribers it is left open.  Module     *)
(* StateManager adds the subscribers' handlers and composes the two.       *)
(***************************************************************************)
EXTENDS Integers, Sequences, FiniteSets

CONSTANTS
  Tasks,        \* UUIDs: correlation ids, each a stream of the store, and aggregate ids
  NoId,         \* what the payload names as its aggregate is not a UUID
  Subscribers,
  Wants,        \* subscriber -> the kinds of topic its pattern matches
  Published,    \* the kinds of topic that are published
  Emits,        \* bound: the events published
  MaxEvents     \* bound: events published

VARIABLES
  log,       \* the store's events, oldest first
  subs,      \* subscriber -> its registration
  ready,     \* subscriber -> the events whose deliveries are scheduled, not begun
  replayed   \* the streams replayed so far (bound: each at most once)

ASSUME BoundAssumption == MaxEvents \in Nat
busVars == <<log, subs, ready, replayed>>

\* about: payload["aggregate_id"] if it is there, else the correlation id.
Event == [task : Tasks, about : Tasks \cup {NoId}, kind : Published]

ASSUME EmitsAssumption == Emits \subseteq Event /\ NoId \notin Tasks

\* from, to: history, the length of the log on subscribing and unsubscribing.
Registration == [on : {"before", "active", "gone"}, from : 0 .. MaxEvents, to : 0 .. MaxEvents]

BusTypeOK ==
  /\ log \in Seq(Event) /\ Len(log) <= MaxEvents
  /\ subs \in [Subscribers -> Registration]
  /\ ready \in [Subscribers -> Seq(1 .. MaxEvents)]
  /\ replayed \subseteq Tasks

BusInit(early) ==
  /\ log = <<>> /\ ready = [s \in Subscribers |-> <<>>] /\ replayed = {}
  /\ subs = [s \in Subscribers |->
               [on |-> IF s \in early THEN "active" ELSE "before", from |-> 0, to |-> 0]]

Matching(kind) == {s \in Subscribers : subs[s].on = "active" /\ kind \in Wants[s]}

\* Event.sequence: the store counts within the event's stream.
SequenceOf(n) == Cardinality({i \in 1 .. n : log[i].task = log[n].task})

\* Mutant: the newest event is scheduled first.
PublishFirst(event) ==
  /\ Len(log) < MaxEvents
  /\ log' = Append(log, event)
  /\ ready' = [s \in Subscribers |->
                 IF s \in Matching(event.kind) THEN <<Len(log) + 1>> \o ready[s] ELSE ready[s]]
  /\ UNCHANGED <<subs, replayed>>

Publish(event) ==
  /\ Len(log) < MaxEvents
  /\ log' = Append(log, event)
  /\ ready' = [s \in Subscribers |->
                 IF s \in Matching(event.kind) THEN Append(ready[s], Len(log) + 1) ELSE ready[s]]
  /\ UNCHANGED <<subs, replayed>>

Subscribe(s) ==
  /\ subs[s].on = "before"
  /\ subs' = [subs EXCEPT ![s] = [on |-> "active", from |-> Len(log), to |-> 0]]
  /\ UNCHANGED <<log, ready, replayed>>

\* Mutant: what is scheduled for s is dropped.
UnsubscribeAtOnce(s) ==
  /\ subs[s].on = "active"
  /\ subs' = [subs EXCEPT ![s].on = "gone", ![s].to = Len(log)]
  /\ ready' = [ready EXCEPT ![s] = <<>>]
  /\ UNCHANGED <<log, replayed>>

\* What is already scheduled for s is still delivered to it.
Unsubscribe(s) ==
  /\ subs[s].on = "active"
  /\ subs' = [subs EXCEPT ![s].on = "gone", ![s].to = Len(log)]
  /\ UNCHANGED <<log, ready, replayed>>

\* What is scheduled for s once the events of the streams past a sequence
\* number have been dispatched again, in the order of the log.
Rescheduled(s, streams, after) ==
  LET upto[n \in 0 .. Len(log)] ==
        IF n = 0 THEN ready[s]
        ELSE IF /\ log[n].task \in streams /\ SequenceOf(n) > after
                /\ s \in Matching(log[n].kind)
        THEN Append(upto[n - 1], n)
        ELSE upto[n - 1]
  IN  upto[Len(log)]

\* Re-dispatch the events of one stream, or of all, past a sequence number.
Replay(streams, after) ==
  /\ streams \cap replayed = {}
  /\ ready' = [s \in Subscribers |-> Rescheduled(s, streams, after)]
  /\ replayed' = replayed \cup streams
  /\ UNCHANGED <<log, subs>>

\* The loop starts the next task scheduled for s.
Begin(s) ==
  /\ ready[s] # <<>>
  /\ ready' = [ready EXCEPT ![s] = Tail(@)]
  /\ UNCHANGED <<log, subs, replayed>>
=============================================================================
