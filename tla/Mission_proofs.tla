---------------------------- MODULE Mission_proofs ----------------------------
(***************************************************************************)
(* What crashes, torn writes and recoveries cannot do to a mission, for    *)
(* any number of missions.                                                 *)
(***************************************************************************)
EXTENDS Mission, TLAPS

-----------------------------------------------------------------------------
(* The inductive invariant. *)

\* The snapshot, written last, is always a legal reading; the file is one or
\* cannot be read, or does not exist for want of a directory.
DiskInv ==
  \A m \in Missions : /\ snap[m] \in Reach(m)
                      /\ file[m] \in IF storeDir THEN Reach(m) \cup {Absent, Torn}
                                                 ELSE {Absent}

\* So is the memory, but for what a boot has still to take from a snapshot.
MemoryInv ==
  phase # "down" =>
    \A m \in Missions : mem[m] \in Reach(m) \/ (m \in todo /\ mem[m] = Absent)

BootInv ==
  /\ phase # "booting" => todo = {}
  /\ \A m \in todo : snap[m] # Absent
  /\ phase = "booting" =>
       \A m \in Missions : mem[m] # Absent /\ mem[m].status = "executing"
                             => file[m] = mem[m]

IInv == TypeOK /\ DiskInv /\ MemoryInv /\ BootInv

-----------------------------------------------------------------------------
(* Readings. *)

\* Pausing leaves a mission that does not execute, and one that has ended as it was.
LEMMA PausedFacts ==
  ASSUME NEW r \in Mission
  PROVE  /\ Paused(r) \in Mission
         /\ Paused(r).status # "executing"
         /\ Paused(Paused(r)) = Paused(r)
         /\ r.status # "executing" => Paused(r) = r
BY DEF Paused, Mission, Status

\* A reading is a mission or Absent, and can be paused.
LEMMA ReachFacts ==
  ASSUME TypeOK, NEW m \in Missions, NEW r \in Reach(m)
  PROVE  /\ r \in Mission \cup {Absent}
         /\ r # Absent => Paused(r) \in Reach(m)
<1>1. may[m] \subseteq Mission \cup {Absent}
  BY DEF TypeOK
<1>2. CASE r \in may[m]
  BY <1>1, <1>2, PausedFacts DEF Reach
<1>3. CASE \E q \in may[m] \ {Absent} : r = Paused(q)
  BY <1>1, <1>3, PausedFacts DEF Reach
<1> QED BY <1>2, <1>3 DEF Reach

\* Attempts only add readings.
LEMMA ReachGrows ==
  ASSUME NEW m \in Missions, may[m] \subseteq may'[m]
  PROVE  Reach(m) \subseteq Reach(m)'
BY DEF Reach

-----------------------------------------------------------------------------
(* The steps. *)

LEMMA InitSafe == Init => IInv
BY ConstantsAssumption DEF Init, IInv, TypeOK, DiskInv, MemoryInv, BootInv, None, Reach

\* The three ways a write of r ends.
LEMMA WriteSafe ==
  ASSUME IInv, NEW m \in Missions, NEW r \in Mission \cup {Absent},
         NEW index \in [Missions -> Mission \cup {Absent}], Write(m, r, index)
  PROVE  IInv'
<1> USE DEF IInv
<1>0. phase = "started" /\ todo = {} /\ UNCHANGED storeDir
  BY DEF Write, BootInv
<1>1. CASE Acknowledged(m, r) /\ filed' = index /\ UNCHANGED <<phase, todo>>
  <2>1. TypeOK'
    BY <1>0, <1>1 DEF TypeOK, Acknowledged, FileOnce
  <2>2. r \in Reach(m)' /\ \A n \in Missions \ {m} : Reach(n)' = Reach(n)
    BY <1>1 DEF Acknowledged, Reach, TypeOK
  <2>3. /\ mem'[m] = r /\ snap'[m] = r
        /\ file'[m] = IF storeDir THEN r ELSE Absent
        /\ \A n \in Missions \ {m} : mem'[n] = mem[n] /\ snap'[n] = snap[n] /\ file'[n] = file[n]
    BY <1>1 DEF Acknowledged, FileOnce, TypeOK, DiskInv
  <2>4. DiskInv'
    BY <1>0, <2>2, <2>3 DEF DiskInv
  <2>5. MemoryInv'
    BY <1>0, <1>1, <2>2, <2>3 DEF MemoryInv
  <2> QED BY <1>0, <1>1, <2>1, <2>4, <2>5 DEF BootInv
<1>2. ASSUME Interrupted(m, r)
      PROVE  /\ DiskInv'
             /\ r \in Reach(m)' /\ \A n \in Missions : Reach(n) \subseteq Reach(n)'
             /\ file' \in [Missions -> Mission \cup {Absent, Torn}] /\ snap' = snap
             /\ may' \in [Missions -> SUBSET (Mission \cup {Absent})]
  <2>1. may' = [may EXCEPT ![m] = @ \cup {r}] /\ snap' = snap
    BY <1>2 DEF Interrupted
  <2>2. r \in Reach(m)' /\ \A n \in Missions : Reach(n) \subseteq Reach(n)'
    BY <2>1, ReachGrows DEF TypeOK, Reach
  <2>3. PICK f \in FileCut(m, r) : file' = [file EXCEPT ![m] = f]
    BY <1>2 DEF Interrupted
  <2>4. f = file[m] \/ (storeDir /\ f \in {r, Torn})
    BY <2>3 DEF FileCut
  <2>5. DiskInv'
    BY <1>0, <2>1, <2>2, <2>3, <2>4 DEF DiskInv, TypeOK
  <2> QED BY <2>1, <2>2, <2>3, <2>4, <2>5 DEF TypeOK
<1>3. CASE Interrupted(m, r) /\ mem' = [mem EXCEPT ![m] = r] /\ filed' = index
           /\ UNCHANGED <<phase, todo>>
  <2>1. TypeOK' /\ DiskInv'
    BY <1>0, <1>2, <1>3 DEF TypeOK
  <2>2. MemoryInv'
    BY <1>0, <1>2, <1>3 DEF MemoryInv, TypeOK
  <2> QED BY <1>0, <1>3, <2>1, <2>2 DEF BootInv
<1>4. CASE Interrupted(m, r) /\ Die
  BY <1>0, <1>2, <1>4 DEF TypeOK, Die, None, MemoryInv, BootInv
<1> QED BY <1>1, <1>3, <1>4 DEF Write

\* What the manager's operations other than a deletion write: a mission, and one
\* that has ended only with the status it had.
LEMMA OperationFacts ==
  ASSUME IInv, NEW m \in Missions,
         \/ \E p \in Priorities, c \in Contents : CreateMission(m, p, c)
         \/ \E p \in Priorities, c \in Contents : UpdateMission(m, p, c)
         \/ \E c \in Contents : CompleteWbsNode(m, c)
         \/ StartMission(m)
         \/ \E to \in Status : Transition(m, to)
  PROVE  \E r \in Mission, index \in [Missions -> Mission \cup {Absent}] :
            /\ Write(m, r, index)
            /\ \/ may[m] = {Absent}
               \/ /\ mem[m] \in Mission
                  /\ mem[m].status \in {"completed", "cancelled"} => r.status = mem[m].status
<1> USE DEF IInv, TypeOK
<1>1. CASE \E p \in Priorities, c \in Contents : CreateMission(m, p, c)
  <2>1. PICK p \in Priorities, c \in Contents : CreateMission(m, p, c)
    BY <1>1
  <2> DEFINE r == [status |-> "created", priority |-> p, content |-> c]
  <2>2. r \in Mission
    BY DEF Mission, Status
  <2>3. [filed EXCEPT ![m] = r] \in [Missions -> Mission \cup {Absent}]
    BY <2>2
  <2>4. Write(m, r, [filed EXCEPT ![m] = r]) /\ may[m] = {Absent}
    BY <2>1 DEF CreateMission
  <2> HIDE DEF r
  <2> QED BY <2>2, <2>3, <2>4
<1>2. ASSUME NEW r \in Mission, Change(m, r),
             mem[m] \in Mission /\ mem[m].status \in {"completed", "cancelled"}
               => r.status = mem[m].status
      PROVE  \E q \in Mission, index \in [Missions -> Mission \cup {Absent}] :
               /\ Write(m, q, index)
               /\ mem[m] \in Mission
               /\ mem[m].status \in {"completed", "cancelled"} => q.status = mem[m].status
  BY <1>2 DEF Change
<1>3. ASSUME mem[m] # Absent
      PROVE  /\ \A p \in Priorities, c \in Contents :
                  /\ [mem[m] EXCEPT !.priority = p, !.content = c] \in Mission
                  /\ [mem[m] EXCEPT !.priority = p, !.content = c].status = mem[m].status
             /\ \A c \in Contents : [mem[m] EXCEPT !.content = c] \in Mission
                                   /\ [mem[m] EXCEPT !.content = c].status = mem[m].status
             /\ \A t \in Status : [mem[m] EXCEPT !.status = t] \in Mission
             /\ mem[m] \in Mission
  BY <1>3 DEF Mission
<1>4. ASSUME NEW p \in Priorities, NEW c \in Contents, UpdateMission(m, p, c)
      PROVE  \E q \in Mission, index \in [Missions -> Mission \cup {Absent}] :
               /\ Write(m, q, index)
               /\ \/ may[m] = {Absent}
                  \/ /\ mem[m] \in Mission
                     /\ mem[m].status \in {"completed", "cancelled"} => q.status = mem[m].status
  <2> DEFINE q == [mem[m] EXCEPT !.priority = p, !.content = c]
  <2>1. mem[m] # Absent /\ Change(m, q)
    BY <1>4 DEF UpdateMission, Change
  <2>2. q \in Mission /\ q.status = mem[m].status /\ mem[m] \in Mission
    BY <1>3, <2>1
  <2> HIDE DEF q
  <2> QED BY <1>2, <2>1, <2>2
<1>5. CASE \E c \in Contents : CompleteWbsNode(m, c)
  BY <1>2, <1>3, <1>5 DEF CompleteWbsNode, Change
<1>6. CASE StartMission(m)
  BY <1>2, <1>3, <1>6 DEF StartMission, Change, Status
<1>7. CASE \E to \in Status : Transition(m, to)
  <2>1. PICK to \in Status : Transition(m, to)
    BY <1>7
  <2>2. mem[m] # Absent /\ to \in ValidTransitions[mem[m].status]
        /\ Change(m, [mem[m] EXCEPT !.status = to])
    BY <2>1 DEF Transition
  <2>3. mem[m].status \notin {"completed", "cancelled"}
    BY <2>2 DEF ValidTransitions
  <2> QED BY <1>2, <1>3, <2>2, <2>3
<1> QED BY <1>1, <1>4, <1>5, <1>6, <1>7

\* A deletion writes Absent, or only takes the mission from the memory.
LEMMA DeleteSafe ==
  ASSUME IInv, NEW m \in Missions, DeleteMission(m)
  PROVE  IInv'
<1> USE DEF IInv, TypeOK
<1>1. CASE Write(m, Absent, filed)
  BY <1>1, WriteSafe
<1>2. CASE ~Write(m, Absent, filed)
  <2>1. /\ phase = "started" /\ mem' = [mem EXCEPT ![m] = Absent]
        /\ may' = [may EXCEPT ![m] = @ \cup {Absent}]
        /\ UNCHANGED <<storeDir, phase, todo, filed, file, snap>>
    BY <1>2 DEF DeleteMission
  <2>2. Absent \in Reach(m)' /\ \A n \in Missions : Reach(n) \subseteq Reach(n)'
    BY <2>1, ReachGrows DEF Reach
  <2> QED BY <2>1, <2>2 DEF DiskInv, MemoryInv, BootInv
<1> QED BY <1>1, <1>2

LEMMA BootSafe ==
  ASSUME IInv, Boot
  PROVE  IInv'
<1> USE DEF IInv, TypeOK
<1>1. \A m \in Missions : Reach(m)' = Reach(m)
  BY DEF Boot, Reach
<1>2. TypeOK'
  BY ConstantsAssumption DEF Boot
<1>3. \A m \in Missions : mem'[m] = IF file[m] \in Mission THEN file[m] ELSE Absent
  BY DEF Boot
<1>4. DiskInv'
  BY <1>1 DEF Boot, DiskInv
<1>5. MemoryInv'
  \* What the files do not give is in a snapshot, or may be absent.
  BY <1>1, <1>3, ConstantsAssumption DEF Boot, MemoryInv, DiskInv
<1>6. BootInv'
  BY <1>3, ConstantsAssumption DEF Boot, BootInv
<1> QED BY <1>2, <1>4, <1>5, <1>6

\* The pieces of recovery's two steps.
LEMMA RecoveryFacts ==
  ASSUME IInv, NEW m \in Missions, m \in todo
  PROVE  /\ snap[m] \in Mission
         /\ {snap[m], Paused(snap[m])} \subseteq Reach(m) \cap Mission
         /\ Paused(snap[m]).status # "executing"
BY ReachFacts, PausedFacts DEF IInv, TypeOK, BootInv, DiskInv

LEMMA RecoverSafe ==
  ASSUME IInv, NEW m \in Missions, RecoverMission(m)
  PROVE  IInv'
<1> USE DEF IInv, TypeOK
<1> DEFINE r == Paused(snap[m])
<1>0. /\ phase = "booting" /\ m \in todo /\ todo' = todo \ {m}
      /\ phase' = IF todo' = {} THEN "started" ELSE "booting"
      /\ UNCHANGED <<storeDir, may>>
  BY DEF RecoverMission
<1>1. r \in Reach(m) \cap Mission /\ r.status # "executing" /\ snap[m] \in Reach(m) \cap Mission
  BY <1>0, RecoveryFacts
<1>2. PICK s \in {snap[m], r} : snap' = [snap EXCEPT ![m] = s]
  BY DEF RecoverMission
<1>3. \A n \in Missions : Reach(n)' = Reach(n)
  BY <1>0 DEF Reach
<1> HIDE DEF r
<1>4. CASE mem[m] # Absent
  <2>1. UNCHANGED <<mem, filed, file>>
    BY <1>4 DEF RecoverMission
  <2>2. DiskInv'
    BY <1>0, <1>1, <1>2, <1>3, <2>1 DEF DiskInv
  <2>3. MemoryInv'
    BY <1>0, <1>3, <1>4, <2>1 DEF MemoryInv
  <2>4. BootInv'
    BY <1>0, <1>1, <1>2, <2>1, ConstantsAssumption DEF BootInv
  <2> QED BY <1>0, <1>1, <1>2, <2>1, <2>2, <2>3, <2>4
<1>5. CASE mem[m] = Absent
  <2>1. /\ mem' = [mem EXCEPT ![m] = r] /\ filed' = [filed EXCEPT ![m] = r]
        /\ file' = [file EXCEPT ![m] = FileOnce(m, r)]
    BY <1>5 DEF RecoverMission, r
  <2>2. FileOnce(m, r) = IF storeDir THEN r ELSE file[m]
    BY DEF FileOnce
  <2>3. DiskInv'
    BY <1>0, <1>1, <1>2, <1>3, <2>1, <2>2 DEF DiskInv
  <2>4. MemoryInv'
    BY <1>0, <1>1, <1>3, <2>1 DEF MemoryInv
  <2>5. BootInv'
    BY <1>0, <1>1, <1>2, <2>1, <2>2, ConstantsAssumption DEF BootInv
  <2> QED BY <1>0, <1>1, <1>2, <2>1, <2>2, <2>3, <2>4, <2>5
<1> QED BY <1>4, <1>5

LEMMA RecoveryCutSafe ==
  ASSUME IInv, NEW m \in Missions, RecoveryCut(m)
  PROVE  IInv'
<1> USE DEF IInv, TypeOK
<1> DEFINE r == Paused(snap[m])
<1>0. m \in todo /\ Die /\ UNCHANGED <<storeDir, may>>
  BY DEF RecoveryCut
<1>1. r \in Reach(m) \cap Mission /\ snap[m] \in Reach(m) \cap Mission
  BY <1>0, RecoveryFacts
<1>2. PICK s \in {snap[m], r} : snap' = [snap EXCEPT ![m] = s]
  BY DEF RecoveryCut
<1>3. PICK f \in {file[m]} \cup FileCut(m, r) : file' = [file EXCEPT ![m] = f]
  BY DEF RecoveryCut
<1>4. f = file[m] \/ (storeDir /\ f \in {r, Torn})
  BY <1>3 DEF FileCut
<1>5. \A n \in Missions : Reach(n)' = Reach(n)
  BY <1>0 DEF Reach
<1> HIDE DEF r
<1>6. DiskInv'
  BY <1>0, <1>1, <1>2, <1>3, <1>4, <1>5 DEF DiskInv
<1> QED BY <1>0, <1>1, <1>2, <1>3, <1>4, <1>6 DEF Die, None, MemoryInv, BootInv

\* The named transitions are transitions.
LEMMA TransitionFacts ==
  ASSUME NEW m \in Missions,
         \/ PauseMission(m) \/ ResumeMission(m) \/ CancelMission(m)
         \/ CompleteMission(m) \/ FailMission(m) \/ ReplanMission(m)
  PROVE  \E to \in Status : Transition(m, to)
BY DEF PauseMission, ResumeMission, CancelMission, CompleteMission, FailMission,
       ReplanMission, Status

LEMMA NextSafe ==
  ASSUME IInv, [Next]_vars
  PROVE  IInv'
<1>1. ASSUME NEW m \in Missions,
             \/ \E p \in Priorities, c \in Contents : CreateMission(m, p, c)
             \/ \E p \in Priorities, c \in Contents : UpdateMission(m, p, c)
             \/ \E c \in Contents : CompleteWbsNode(m, c)
             \/ StartMission(m)
             \/ PauseMission(m) \/ ResumeMission(m) \/ CancelMission(m)
             \/ CompleteMission(m) \/ FailMission(m) \/ ReplanMission(m)
      PROVE  IInv'
  <2>1. PICK r \in Mission, index \in [Missions -> Mission \cup {Absent}] : Write(m, r, index)
    BY <1>1, OperationFacts, TransitionFacts
  <2> QED BY <2>1, WriteSafe
<1>2. CASE Crash
  BY <1>2 DEF Crash, Die, None, IInv, TypeOK, DiskInv, MemoryInv, BootInv, Reach
<1>3. CASE UNCHANGED vars
  BY <1>3 DEF vars, IInv, TypeOK, DiskInv, MemoryInv, BootInv, Reach
<1> QED BY <1>1, <1>2, <1>3, DeleteSafe, RecoverSafe, RecoveryCutSafe, BootSafe DEF Next

-----------------------------------------------------------------------------
(* The theorems. *)

\* The inductive invariant holds always.
THEOREM Invariance == Spec => []IInv
BY InitSafe, NextSafe, PTL DEF Spec

\* The state of the missions is well typed.
THEOREM TypeCorrect == Spec => []TypeOK
BY Invariance, PTL DEF IInv

\* A started manager shows no mission in a state that no operation asked for,
\* and none that was acknowledged is missing.
THEOREM DurableCorrect == Spec => []Durable
<1>1. IInv => Durable
  BY DEF IInv, MemoryInv, BootInv, Durable
<1> QED BY <1>1, Invariance, PTL

\* A mission that has ended stays so.
THEOREM EndedCorrect == Spec => EndedForGood
<1> DEFINE Kept == \A m \in Missions, s \in {"completed", "cancelled"} :
                     Ended(m, s) => \A r \in may'[m] : r = Absent \/ r.status = s
<1>1. ASSUME IInv, [Next]_vars
      PROVE  Kept
  <2> USE DEF IInv, TypeOK
  <2> SUFFICES ASSUME NEW m \in Missions, NEW s \in {"completed", "cancelled"}, Ended(m, s),
                      NEW r \in may'[m], r \notin may[m], r # Absent
               PROVE  r.status = s
    BY DEF Ended
  <2>1. may[m] # {Absent}
    BY DEF Ended
  <2>2. \A q \in Reach(m) : q \in Mission /\ q.status = s
    <3>1. may[m] \subseteq Mission
      BY <1>1 DEF Ended
    <3>2. \A q \in may[m] : Paused(q) = q
      BY <3>1, PausedFacts DEF Ended
    <3> QED BY <3>1, <3>2 DEF Reach, Ended
  \* Only a write of r adds r.
  <2>3. ASSUME NEW n \in Missions, NEW q, NEW index, Write(n, q, index)
        PROVE  n = m /\ q = r /\ phase = "started"
    BY <1>1, <2>3 DEF Write, Acknowledged, Interrupted
  <2>4. ASSUME NEW n \in Missions,
               \/ \E p \in Priorities, c \in Contents : CreateMission(n, p, c)
               \/ \E p \in Priorities, c \in Contents : UpdateMission(n, p, c)
               \/ \E c \in Contents : CompleteWbsNode(n, c)
               \/ StartMission(n)
               \/ PauseMission(n) \/ ResumeMission(n) \/ CancelMission(n)
               \/ CompleteMission(n) \/ FailMission(n) \/ ReplanMission(n)
        PROVE  r.status = s
    <3>1. PICK q \in Mission, index \in [Missions -> Mission \cup {Absent}] :
             /\ Write(n, q, index)
             /\ \/ may[n] = {Absent}
                \/ /\ mem[n] \in Mission
                   /\ mem[n].status \in {"completed", "cancelled"} => q.status = mem[n].status
      BY <1>1, <2>4, OperationFacts, TransitionFacts
    <3>2. n = m /\ q = r /\ phase = "started"
      BY <3>1, <2>3
    <3>3. mem[m] \in Reach(m)
      BY <1>1, <3>2 DEF MemoryInv, BootInv
    <3> QED BY <2>1, <2>2, <3>1, <3>2, <3>3
  <2>5. ASSUME NEW n \in Missions, DeleteMission(n)
        PROVE  FALSE
    <3>1. CASE Write(n, Absent, filed)
      BY <1>1, <2>3, <3>1
    <3>2. CASE ~Write(n, Absent, filed)
      BY <1>1, <2>5, <3>2 DEF DeleteMission
    <3> QED BY <3>1, <3>2
  <2>6. UNCHANGED may => FALSE
    OBVIOUS
  <2> QED BY <1>1, <2>4, <2>5, <2>6 DEF Next, RecoverMission, RecoveryCut, Boot, Crash, vars
<1>2. Kept => [Kept]_vars
  OBVIOUS
<1>3. IInv /\ [Next]_vars => [Kept]_vars
  BY <1>1, <1>2
<1> QED BY <1>3, Invariance, PTL DEF Spec, EndedForGood

\* A boot leaves executing only what the store's own file says is.
THEOREM BootCorrect == Spec => BootPauses
<1> DEFINE Pauses == phase # "started" /\ phase' = "started" =>
                       \A m \in Missions : mem'[m] # Absent /\ mem'[m].status = "executing"
                                             => file'[m] = mem'[m]
<1>1. ASSUME IInv, [Next]_vars, phase # "started", phase' = "started"
      PROVE  \A m \in Missions : mem'[m] # Absent /\ mem'[m].status = "executing"
                                   => file'[m] = mem'[m]
  <2> USE DEF IInv, TypeOK
  <2>1. ~ \E m \in Missions : \E r : \E index : Write(m, r, index)
    BY <1>1 DEF Write
  <2>2. ASSUME NEW m \in Missions
        PROVE  /\ \A p \in Priorities, c \in Contents : ~CreateMission(m, p, c)
               /\ \A r : ~Change(m, r)
               /\ ~DeleteMission(m)
    BY <1>1, <2>1 DEF CreateMission, Change, DeleteMission
  <2>3. CASE Boot
    BY <1>1, <2>3 DEF Boot
  <2>4. ASSUME NEW m \in Missions, RecoverMission(m)
        PROVE  \A n \in Missions : mem'[n] # Absent /\ mem'[n].status = "executing"
                                     => file'[n] = mem'[n]
    <3>1. m \in todo /\ Paused(snap[m]).status # "executing"
      BY <1>1, <2>4, RecoveryFacts DEF RecoverMission
    <3>2. CASE mem[m] # Absent
      BY <1>1, <2>4, <3>2 DEF RecoverMission, BootInv
    <3>3. CASE mem[m] = Absent
      BY <1>1, <2>4, <3>1, <3>3 DEF RecoverMission, BootInv
    <3> QED BY <3>2, <3>3
  <2>5. phase' # "down" /\ phase' # phase
    BY <1>1
  <2>6. ~ \E m \in Missions : RecoveryCut(m)
    BY <2>5 DEF RecoveryCut, Die
  <2>7. ~Crash /\ ~UNCHANGED vars
    BY <2>5 DEF Crash, Die, vars
  <2>8. \A m \in Missions : /\ \A p \in Priorities, c \in Contents : ~UpdateMission(m, p, c)
                            /\ \A c \in Contents : ~CompleteWbsNode(m, c)
                            /\ ~StartMission(m) /\ \A to \in Status : ~Transition(m, to)
    BY <2>2 DEF UpdateMission, CompleteWbsNode, StartMission, Transition
  <2>9. \A m \in Missions : ~(\/ PauseMission(m) \/ ResumeMission(m) \/ CancelMission(m)
                               \/ CompleteMission(m) \/ FailMission(m) \/ ReplanMission(m))
    BY <2>8, TransitionFacts
  <2>10. Boot \/ \E m \in Missions : RecoverMission(m)
    BY <1>1, <2>2, <2>6, <2>7, <2>8, <2>9 DEF Next
  <2> QED BY <2>3, <2>4, <2>10
<1>2. IInv /\ [Next]_vars => [Pauses]_vars
  BY <1>1
<1> QED BY <1>2, Invariance, PTL DEF Spec, BootPauses
=============================================================================
