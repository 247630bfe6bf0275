---------------------------- MODULE MCStateManager ----------------------------
(* The manager and one watcher of task.started, which may come and go. *)
EXTENDS StateManager, TLC

CONSTANTS watcher, t1, t2

MCWants == (Manager :> Published) @@ (watcher :> {"started"})

\* A task that is created and started, an event in its stream without a UUID, and one
\* about it in the stream of another.
MCEmits ==
  {[task |-> t1, about |-> t1, kind |-> k] : k \in {"created", "started"}}
    \cup {[task |-> t1, about |-> NoId, kind |-> "created"],
          [task |-> t2, about |-> t1, kind |-> "paused"]}
=============================================================================
