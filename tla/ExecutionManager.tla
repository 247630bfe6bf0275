--------------------------- MODULE ExecutionManager ---------------------------
(***************************************************************************)
(* ExecutionManager of services/execution/manager.py with the filesystem   *)
(* handler of handlers.py: requests are executed at once or through the    *)
(* queue and its dispatcher, cancelled, replayed and rolled back, and every*)
(* turn is written to the audit log.                                       *)
(*                                                                         *)
(* The pipeline waits in one place only, the handler of a command (a       *)
(* subprocess); everything before it is one step and everything after it   *)
(* another.  The filesystem handler does not wait.  An approval is asked   *)
(* for and given, by "auto", in the same step, so none is ever pending.    *)
(***************************************************************************)
EXTENDS Integers, SequencesExt

CONSTANTS Execution, \* execution ids
          Request,   \* what may be asked for
          FilePath, DirPath,
          Text,      \* contents of files, but for the empty one
          Empty,     \* an empty file
          Bare, Full, \* directories, without and with something in them
          Absent,    \* nothing at the path
          NoRequest, NoPlan, NoExecution

FileAction == {"write_file", "delete_file", "copy", "move"}
DirAction == {"create_directory", "delete_directory"}
OtherAction == {"command", "unknown"}

Path == FilePath \cup DirPath
Value == Text \cup {Empty, Bare, Full, Absent}

ASSUME RequestAssumption ==
    \A r \in Request :
        /\ r \in [action: FileAction, path: FilePath, to: FilePath,
                  content: Text \cup {Empty}]
              \cup [action: DirAction \cup OtherAction, path: DirPath,
                    to: DirPath, content: {Empty}]
        /\ r.action \in {"copy", "move"} => r.path # r.to

ASSUME ValueAssumption ==
    /\ FilePath \cap DirPath = {}
    /\ NoRequest \notin Request
    /\ NoPlan \notin [Path -> Value]
    /\ NoExecution \notin Execution
    /\ Absent \notin Text \cup {Empty, Bare, Full}
    /\ Empty \notin Text

VARIABLES request,    \* _requests
          result,     \* the status in _results
          last,       \* the latest entry of the audit log about it
          dispatched, \* how many "dispatched" entries it has there
          before,     \* the paths when the handler made the rollback plan,
                      \* which keeps the content of the request's own
          files,      \* the paths
          running,    \* executions whose handler is waiting
          queue,      \* _queue
          up,         \* _started
          current     \* what the dispatcher executes

vars == <<request, result, last, dispatched, before, files, running, queue,
          up, current>>

Ended == {"succeeded", "failed"}

TypeOK ==
    /\ request \in [Execution -> Request \cup {NoRequest}]
    /\ result \in [Execution -> {"none", "pending", "approved", "running",
                                 "rejected", "timeout", "cancelled",
                                 "rolled_back"} \cup Ended]
    /\ last \in [Execution -> {"none", "queued", "policy_check", "refused",
                               "approval_requested", "dispatched", "completed",
                               "failed", "cancelled", "rolled_back"}]
    /\ dispatched \in [Execution -> Nat]
    /\ before \in [Execution -> [Path -> Value] \cup {NoPlan}]
    /\ files \in [Path -> Value]
    /\ running \in SUBSET Execution
    /\ queue \in Seq(Execution)
    /\ up \in BOOLEAN
    /\ current \in Execution \cup {NoExecution}
    /\ \A e \in Execution : result[e] = "none" <=> request[e] = NoRequest

Init ==
    /\ request = [e \in Execution |-> NoRequest]
    /\ result = [e \in Execution |-> "none"]
    /\ last = [e \in Execution |-> "none"]
    /\ dispatched = [e \in Execution |-> 0]
    /\ before = [e \in Execution |-> NoPlan]
    /\ files \in [Path -> Value]
    /\ \A p \in FilePath : files[p] \in Text \cup {Empty, Absent}
    /\ \A p \in DirPath : files[p] \in {Bare, Full, Absent}
    /\ running = {}
    /\ queue = <<>>
    /\ up = FALSE
    /\ current = NoExecution

-----------------------------------------------------------------------------
(* What the filesystem handler does to the paths, and what rollback does   *)
(* with the plan it made.                                                  *)

Possible(r, fs) ==
    r.action \in {"delete_file", "copy", "move", "delete_directory"}
        => fs[r.path] # Absent

After(r, fs) ==
    CASE r.action = "write_file" -> [fs EXCEPT ![r.path] = r.content]
      [] r.action \in {"delete_file", "delete_directory"} ->
            [fs EXCEPT ![r.path] = Absent]
      [] r.action = "copy" -> [fs EXCEPT ![r.to] = fs[r.path]]
      [] r.action = "move" ->
            [fs EXCEPT ![r.to] = fs[r.path], ![r.path] = Absent]
      [] r.action = "create_directory" ->
            IF fs[r.path] = Absent THEN [fs EXCEPT ![r.path] = Bare] ELSE fs

(* The plans of write_file ("restore") and delete_directory                *)
(* ("recreate_directory") are steps that rollback does not know.           *)
Undone(r, was, fs) ==
    CASE r.action \in {"write_file", "delete_directory"} -> fs
      [] r.action = "delete_file" ->
            IF was[r.path] = Empty THEN fs
                                   ELSE [fs EXCEPT ![r.path] = was[r.path]]
      [] r.action = "copy" -> [fs EXCEPT ![r.to] = Absent]
      [] r.action = "move" ->
            IF fs[r.to] = Absent THEN fs
            ELSE [fs EXCEPT ![r.path] = fs[r.to], ![r.to] = Absent]
      [] r.action = "create_directory" -> [fs EXCEPT ![r.path] = Absent]

-----------------------------------------------------------------------------
(* _execute_internal                                                       *)

Note(e, s, event) ==
    /\ result' = [result EXCEPT ![e] = s]
    /\ last' = [last EXCEPT ![e] = event]

(* The policy engine says no: "policy_check", with the outcome failure.     *)
Refuse(e) ==
    /\ Note(e, "rejected", "refused")
    /\ UNCHANGED <<dispatched, files, running>>

(* sandbox.setup raises: a mkdir fails, with or without an approval before.*)
SetupFails(e) ==
    /\ \/ Note(e, "pending", "policy_check")
       \/ Note(e, "approved", "approval_requested")
    /\ UNCHANGED <<dispatched, files, running>>

Waits(e, r) ==
    /\ r.action = "command"
    /\ Note(e, "running", "dispatched")
    /\ running' = running \cup {e}
    /\ UNCHANGED files

(* No handler, an action or a path that does not exist, an I/O error that  *)
(* leaves the paths as they were.                                          *)
FailsAtOnce(e) ==
    /\ Note(e, "failed", "failed")
    /\ UNCHANGED <<files, running>>

Handles(e, r) ==
    /\ r.action \in FileAction \cup DirAction
    /\ Possible(r, files)
    /\ Note(e, "succeeded", "completed")
    /\ files' = After(r, files)
    /\ UNCHANGED running

(* The pipeline, to the handler's wait or to its end.  A rollback plan     *)
(* comes with the result of the filesystem handler.                        *)
Pipeline(e, r) ==
    \/ Refuse(e) /\ UNCHANGED before
    \/ SetupFails(e) /\ UNCHANGED before
    \/ /\ dispatched' = [dispatched EXCEPT ![e] = @ + 1]
       /\ \/ (Waits(e, r) \/ FailsAtOnce(e)) /\ UNCHANGED before
          \/ Handles(e, r) /\ before' = [before EXCEPT ![e] = files]

Fresh(e) == request[e] = NoRequest

Execute(e, r) ==
    /\ Fresh(e)
    /\ request' = [request EXCEPT ![e] = r]
    /\ Pipeline(e, r)
    /\ UNCHANGED <<queue, up, current>>

(* The request of e, under a new id.                                       *)
Replay(e, new) ==
    /\ ~Fresh(e)
    /\ Execute(new, request[e])

Submit(e, r) ==
    /\ Fresh(e)
    /\ request' = [request EXCEPT ![e] = r]
    /\ Note(e, "pending", "queued")
    /\ queue' = Append(queue, e)
    /\ UNCHANGED <<dispatched, before, files, running, up, current>>

\* Mutant: an exception of the pipeline ends the dispatcher.
DispatchUnguarded ==
    /\ up /\ current = NoExecution /\ queue # <<>>
    /\ LET e == Head(queue)
       IN  /\ Pipeline(e, request[e])
           /\ current' = IF e \in running' \/ result'[e] \in {"pending", "approved"}
                         THEN e ELSE NoExecution
    /\ queue' = Tail(queue)
    /\ UNCHANGED <<request, up>>

(* The dispatcher takes a request, whatever became of it in the queue.  It *)
(* survives an exception of the pipeline.                                  *)
Dispatch ==
    /\ up /\ current = NoExecution /\ queue # <<>>
    /\ LET e == Head(queue)
       IN  /\ Pipeline(e, request[e])
           /\ current' = IF e \in running' THEN e ELSE NoExecution
    /\ queue' = Tail(queue)
    /\ UNCHANGED <<request, up>>

\* Mutant: the result is not written over a cancellation, but audited.
EndCommandKeeping(e) ==
    /\ e \in running
    /\ \E s \in Ended \cup {"timeout"} :
         /\ result' = IF result[e] = "cancelled" THEN result
                      ELSE [result EXCEPT ![e] = s]
         /\ last' = [last EXCEPT ![e] = IF s = "succeeded" THEN "completed"
                                                           ELSE "failed"]
    /\ running' = running \ {e}
    /\ current' = IF current = e THEN NoExecution ELSE current
    /\ UNCHANGED <<request, dispatched, before, files, queue, up>>

(* The handler returns, or raises; whatever the status has become          *)
(* meanwhile, it is the result's now.                                      *)
EndCommand(e) ==
    /\ e \in running
    /\ \/ Note(e, "succeeded", "completed")
       \/ Note(e, "failed", "failed")
       \/ Note(e, "timeout", "failed")
    /\ running' = running \ {e}
    /\ current' = IF current = e THEN NoExecution ELSE current
    /\ UNCHANGED <<request, dispatched, before, files, queue, up>>

(* The task that called execute or replay is cancelled while the handler   *)
(* waits: no CancelledError is caught, and nothing is written.             *)
CallerCancelled(e) ==
    /\ e \in running
    /\ e # current
    /\ running' = running \ {e}
    /\ UNCHANGED <<request, result, last, dispatched, before, files, queue, up,
                   current>>

-----------------------------------------------------------------------------
(* The user's operations.                                                  *)

\* Mutant: a failed execution may be cancelled.
CancelFailed(e) ==
    /\ ~Fresh(e)
    /\ result[e] \notin {"succeeded", "cancelled"}
    /\ Note(e, "cancelled", "cancelled")
    /\ UNCHANGED <<request, dispatched, before, files, running, queue, up,
                   current>>

Cancel(e) ==
    /\ ~Fresh(e)
    /\ result[e] \notin Ended \cup {"cancelled"}
    /\ Note(e, "cancelled", "cancelled")
    /\ UNCHANGED <<request, dispatched, before, files, running, queue, up,
                   current>>

(* Whatever was done since, a second rollback included.                    *)
Rollback(e) ==
    /\ before[e] # NoPlan
    /\ files' = Undone(request[e], before[e], files)
    /\ Note(e, "rolled_back", "rolled_back")
    /\ UNCHANGED <<request, dispatched, before, running, queue, up, current>>

(* A step of the plan raises, and with it rollback, before it writes the   *)
(* status.  An error that leaves the paths alone leaves everything alone;  *)
(* write_text may fail when it has opened, that is emptied, the file.      *)
RollbackFails(e) ==
    /\ before[e] # NoPlan
    /\ request[e].action = "delete_file"
    /\ before[e][request[e].path] # Empty
    /\ files' = [files EXCEPT ![request[e].path] = Empty]
    /\ UNCHANGED <<request, result, last, dispatched, before, running, queue,
                   up, current>>

Start ==
    /\ ~up
    /\ up' = TRUE
    /\ UNCHANGED <<request, result, last, dispatched, before, files, running,
                   queue, current>>

(* The cancellation of the dispatcher ends the handler it waits for; the   *)
(* execution's status stays what it is.                                    *)
Stop ==
    /\ up
    /\ up' = FALSE
    /\ running' = running \ {current}
    /\ current' = NoExecution
    /\ UNCHANGED <<request, result, last, dispatched, before, files, queue>>

Next ==
    \/ \E e \in Execution, r \in Request : Execute(e, r) \/ Submit(e, r)
    \/ \E e, new \in Execution : Replay(e, new)
    \/ Dispatch
    \/ \E e \in Execution :
         \/ EndCommand(e) \/ CallerCancelled(e) \/ Cancel(e)
         \/ Rollback(e) \/ RollbackFails(e)
    \/ Start \/ Stop

Spec == Init /\ [][Next]_vars

(* The loop runs what is ready, and a command ends: its handler kills it   *)
(* at its timeout.                                                         *)
Fairness ==
    /\ WF_vars(Dispatch)
    /\ \A e \in Execution : WF_vars(EndCommand(e))

FairSpec == Spec /\ Fairness
-----------------------------------------------------------------------------
Tells == [none |-> {"none"}, queued |-> {"pending"},
          policy_check |-> {"pending"}, refused |-> {"rejected"},
          approval_requested |-> {"approved"}, dispatched |-> {"running"},
          completed |-> {"succeeded"}, failed |-> {"failed", "timeout"},
          cancelled |-> {"cancelled"}, rolled_back |-> {"rolled_back"}]

(* The audit log and the records agree: the last entry about an execution  *)
(* tells its status, however cancellations, results, restarts and          *)
(* rollbacks interleave (manager.py:111, 155, 328, 455).                   *)
AuditAgrees == \A e \in Execution : result[e] \in Tells[last[e]]

(* A request is executed at most once, whether it was cancelled in the     *)
(* queue or interrupted by stop (manager.py:419, 484).                     *)
DispatchedOnce == \A e \in Execution : dispatched[e] <= 1

(* The outcome of an execution is not lost: only a rollback of a success   *)
(* changes it, which the user asked for (manager.py:149, 328, 455).        *)
OutcomeKept ==
    [][\A e \in Execution : result[e] \in Ended =>
         \/ result'[e] = result[e]
         \/ result[e] = "succeeded" /\ Rollback(e)]_vars

(* What is queued is taken from the queue as long as the manager is up,    *)
(* although the dispatcher executes one request at a time and requests     *)
(* raise, hang and are cancelled (manager.py:484).                         *)
QueueDrains ==
    \A e \in Execution : e \in ToSet(queue) /\ up
                         ~> e \notin ToSet(queue) \/ ~up
=============================================================================
