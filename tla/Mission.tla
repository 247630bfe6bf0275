------------------------------- MODULE Mission -------------------------------
(***************************************************************************)
(* The missions of the organization service: MissionManager with its       *)
(* MissionStore, MissionStateMachine and MissionPersistence.               *)
(*                                                                         *)
(* A mission lives in three places: the store's memory, the store's own    *)
(* file (only when the manager is given a storage directory) and a         *)
(* snapshot.  An operation changes the memory, then writes the file, then  *)
(* the snapshot.  The awaits between them never suspend, so operations do  *)
(* not interleave; but the process may die between two writes, and each    *)
(* write may raise.  At the next boot the store loads its files and the    *)
(* recovery then adds what only the snapshots know.                        *)
(***************************************************************************)
EXTENDS Naturals, FiniteSets

CONSTANTS
  Missions,    \* mission ids; an id stands for a fresh uuid each time it is used
  Priorities,
  Contents,    \* everything else a mission holds: owner, tags, WBS nodes, budget
  Absent,      \* no mission, no file
  Torn,        \* a file cut short while it was being written
  MaxDoubt     \* bound: unacknowledged changes of one mission at a time

Status == {"created", "planning", "ready", "executing", "paused",
           "completed", "failed", "cancelled"}

Mission == [status : Status, priority : Priorities, content : Contents]

ASSUME ConstantsAssumption ==
  /\ Absent \notin Mission /\ Torn \notin Mission /\ Absent # Torn
  /\ MaxDoubt \in Nat

VARIABLES
  storeDir,  \* was the manager given a storage directory?
  phase,     \* "down", "booting" (inside start()) or "started"
  todo,      \* the snapshots start() has not come to yet
  mem,       \* MissionStore._missions
  filed,     \* the mission as the store's indices know it
  file,      \* the store's file of each mission
  snap,      \* the snapshot of each mission
  may        \* history: the last acknowledged state and every later attempt

vars == <<storeDir, phase, todo, mem, filed, file, snap, may>>

TypeOK ==
  /\ storeDir \in BOOLEAN
  /\ phase \in {"down", "booting", "started"}
  /\ todo \in SUBSET Missions
  /\ mem \in [Missions -> Mission \cup {Absent}]
  /\ filed \in [Missions -> Mission \cup {Absent}]
  /\ file \in [Missions -> Mission \cup {Absent, Torn}]
  /\ snap \in [Missions -> Mission \cup {Absent}]
  /\ may \in [Missions -> SUBSET (Mission \cup {Absent})]

None == [m \in Missions |-> Absent]

Init ==
  /\ storeDir \in BOOLEAN
  /\ phase = "started" /\ todo = {}
  /\ mem = None /\ filed = None /\ file = None /\ snap = None
  /\ may = [m \in Missions |-> {Absent}]

-----------------------------------------------------------------------------
ValidTransitions ==
  [created   |-> {"planning", "cancelled"},
   planning  |-> {"ready", "planning", "cancelled"},
   ready     |-> {"executing", "cancelled"},
   executing |-> {"paused", "completed", "failed", "planning", "cancelled"},
   paused    |-> {"executing", "planning", "failed", "cancelled"},
   completed |-> {},
   failed    |-> {"planning"},
   cancelled |-> {}]

\* Mutant: recovery forgets the pause.
NotPaused(r) == r

\* What recovery makes of a mission that was executing.
Paused(r) == IF r.status = "executing" THEN [r EXCEPT !.status = "paused"] ELSE r

(***************************************************************************)
(* The writes of an operation that leaves r (a mission, or Absent for a    *)
(* deletion) in memory.                                                    *)
(***************************************************************************)
Die == phase' = "down" /\ todo' = {} /\ mem' = None /\ filed' = None

\* MissionStore._persist and _delete_persisted do nothing without a directory.
FileOnce(m, r) == IF storeDir THEN r ELSE file[m]

\* What an interrupted write of r leaves in the file; an unlink cannot tear.
FileCut(m, r) == {file[m]} \cup IF ~storeDir THEN {}
                               ELSE IF r = Absent THEN {r} ELSE {r, Torn}

\* Mutant: a deletion forgets the snapshot.
AcknowledgedKeepingSnapshot(m, r) ==
  /\ mem' = [mem EXCEPT ![m] = r]
  /\ file' = [file EXCEPT ![m] = FileOnce(m, r)]
  /\ snap' = [snap EXCEPT ![m] = IF r = Absent THEN @ ELSE r]
  /\ may' = [may EXCEPT ![m] = {r}]

Acknowledged(m, r) ==
  /\ mem' = [mem EXCEPT ![m] = r]
  /\ file' = [file EXCEPT ![m] = FileOnce(m, r)]
  /\ snap' = [snap EXCEPT ![m] = r]
  /\ may' = [may EXCEPT ![m] = {r}]

\* The file's or the snapshot's write fails, or the process dies, half way.
Interrupted(m, r) ==
  /\ Cardinality(may[m]) < MaxDoubt
  /\ \E f \in FileCut(m, r) : file' = [file EXCEPT ![m] = f]
  /\ snap' = snap
  /\ may' = [may EXCEPT ![m] = @ \cup {r}]

Write(m, r, index) ==
  /\ phase = "started"
  /\ \/ Acknowledged(m, r) /\ filed' = index /\ UNCHANGED <<phase, todo>>
     \/ Interrupted(m, r) /\ mem' = [mem EXCEPT ![m] = r] /\ filed' = index
                          /\ UNCHANGED <<phase, todo>>
     \/ Interrupted(m, r) /\ Die
  /\ UNCHANGED storeDir

-----------------------------------------------------------------------------
(***************************************************************************)
(* The manager's operations.  update() compares the stored mission with    *)
(* itself, so only creation and boot ever file a mission in the indices.   *)
(***************************************************************************)
CreateMission(m, p, c) ==
  /\ may[m] = {Absent}
  /\ LET r == [status |-> "created", priority |-> p, content |-> c]
     IN  Write(m, r, [filed EXCEPT ![m] = r])

Change(m, r) == mem[m] # Absent /\ Write(m, r, filed)

UpdateMission(m, p, c) ==
  Change(m, [mem[m] EXCEPT !.priority = p, !.content = c])

CompleteWbsNode(m, c) == Change(m, [mem[m] EXCEPT !.content = c])

\* Mutant: start without a look at the status.
StartAnyMission(m) == Change(m, [mem[m] EXCEPT !.status = "executing"])

\* From any other status than the first three it only saves the mission again.
StartMission(m) ==
  Change(m, IF mem[m].status \in {"created", "planning", "ready"}
              THEN [mem[m] EXCEPT !.status = "executing"] ELSE mem[m])

Transition(m, to) ==
  /\ mem[m] # Absent
  /\ to \in ValidTransitions[mem[m].status]
  /\ Change(m, [mem[m] EXCEPT !.status = to])

PauseMission(m)    == Transition(m, "paused")
ResumeMission(m)   == Transition(m, "executing")
CancelMission(m)   == Transition(m, "cancelled")
CompleteMission(m) == Transition(m, "completed")
FailMission(m)     == Transition(m, "failed")
ReplanMission(m)   == Transition(m, "planning")

IsFiled(m) == /\ filed[m].status = mem[m].status
              /\ filed[m].priority = mem[m].priority

\* list.remove raises for a mission filed elsewhere, after it left the memory;
\* for one with another owner or tags than at creation, it may.
DeleteMission(m) ==
  /\ mem[m] # Absent
  /\ \/ IsFiled(m) /\ Write(m, Absent, filed)
     \/ /\ phase = "started" /\ filed[m] # mem[m]
        /\ mem' = [mem EXCEPT ![m] = Absent]
        /\ may' = [may EXCEPT ![m] = @ \cup {Absent}]
        /\ UNCHANGED <<storeDir, phase, todo, filed, file, snap>>

Crash == /\ phase # "down"
         /\ Die
         /\ UNCHANGED <<storeDir, file, snap, may>>

-----------------------------------------------------------------------------
\* MissionStore.__init__ loads the files; one that does not parse is skipped.
Boot ==
  /\ phase = "down"
  /\ mem' = [m \in Missions |-> IF file[m] \in Mission THEN file[m] ELSE Absent]
  /\ filed' = mem'
  /\ todo' = {m \in Missions : snap[m] # Absent}
  /\ phase' = IF todo' = {} THEN "started" ELSE "booting"
  /\ UNCHANGED <<storeDir, file, snap, may>>

\* recover_all() and the creation in start(): an executing mission is paused
\* in its snapshot (an error there is only logged), and the store takes the
\* mission in unless it has a copy of its own.  The two passes over the
\* snapshots are one here, a mission's copies being touched on its turn only.
RecoverMission(m) ==
  LET r == Paused(snap[m])
  IN  /\ phase = "booting" /\ m \in todo
      /\ \E s \in {snap[m], r} : snap' = [snap EXCEPT ![m] = s]
      /\ IF mem[m] # Absent
           THEN UNCHANGED <<mem, filed, file>>
           ELSE /\ mem' = [mem EXCEPT ![m] = r]
                /\ filed' = [filed EXCEPT ![m] = r]
                /\ file' = [file EXCEPT ![m] = FileOnce(m, r)]
      /\ todo' = todo \ {m}
      /\ phase' = IF todo' = {} THEN "started" ELSE "booting"
      /\ UNCHANGED <<storeDir, may>>

\* The boot ends between those writes, or on an error of the store's write.
RecoveryCut(m) ==
  LET r == Paused(snap[m])
  IN  /\ phase = "booting" /\ m \in todo
      /\ \E s \in {snap[m], r} : snap' = [snap EXCEPT ![m] = s]
      /\ \E f \in (IF mem[m] # Absent THEN {file[m]} ELSE FileCut(m, r)) :
           file' = [file EXCEPT ![m] = f]
      /\ Die
      /\ UNCHANGED <<storeDir, may>>

-----------------------------------------------------------------------------
Next ==
  \/ \E m \in Missions :
       \/ \E p \in Priorities, c \in Contents :
            CreateMission(m, p, c) \/ UpdateMission(m, p, c)
       \/ \E c \in Contents : CompleteWbsNode(m, c)
       \/ StartMission(m) \/ PauseMission(m) \/ ResumeMission(m)
       \/ CancelMission(m) \/ CompleteMission(m) \/ FailMission(m)
       \/ ReplanMission(m) \/ DeleteMission(m)
       \/ RecoverMission(m) \/ RecoveryCut(m)
  \/ Boot
  \/ Crash

Spec == Init /\ [][Next]_vars

-----------------------------------------------------------------------------
\* The states a mission may be read back in: the last acknowledged one, those
\* later operations tried to reach, and these paused by a recovery.
Reach(m) == may[m] \cup {Paused(r) : r \in may[m] \ {Absent}}

(***************************************************************************)
(* Nothing acknowledged is lost and nothing deleted comes back: whatever   *)
(* writes were torn, skipped or repeated by recoveries, a started manager  *)
(* shows each mission as its last acknowledged operation left it, as a     *)
(* later unacknowledged one would have, or paused from one of these.       *)
(***************************************************************************)
Durable ==
  phase = "started" => \A m \in Missions : mem[m] \in Reach(m)

(***************************************************************************)
(* A mission whose every possible reading has ended (completed or          *)
(* cancelled) keeps that status through edits, crashes and recoveries, or  *)
(* is deleted.                                                             *)
(***************************************************************************)
Ended(m, s) == \A r \in may[m] : r # Absent /\ r.status = s

EndedForGood ==
  [][\A m \in Missions, s \in {"completed", "cancelled"} :
       Ended(m, s) => \A r \in may'[m] : r = Absent \/ r.status = s]_vars

(***************************************************************************)
(* A mission executes right after a boot only where the store's own file   *)
(* says so: the recovery pauses every other interrupted mission.           *)
(***************************************************************************)
BootPauses ==
  [][phase # "started" /\ phase' = "started" =>
       \A m \in Missions : mem'[m] # Absent /\ mem'[m].status = "executing"
                             => file'[m] = mem'[m]]_vars
=============================================================================
