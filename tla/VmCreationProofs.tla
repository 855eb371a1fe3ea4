-------------------------- MODULE VmCreationProofs --------------------------
(***************************************************************************)
(* Theorems about module VmCreation, for any number of runs, VMs, ports,   *)
(* crashes and calls of `vm rm`.                                           *)
(***************************************************************************)
EXTENDS VmCreation, TLAPS

USE CreationAssumption

LEMMA NoFileTyping == NoFile \in LockFile /\ NoFile.by = Nobody
BY DEF NoFile, LockFile

LEMMA CreatedTyping ==
  ASSUME NEW r \in Runs
  PROVE  Created(r) \in LockFile /\ Created(r).by = r
BY DEF Created, LockFile

LEMMA StampedTyping ==
  ASSUME NEW file \in LockFile, NEW r \in Runs
  PROVE  /\ Stamped(file, r) \in LockFile
         /\ Stamped(file, r).by = file.by
         /\ file.by = r => Stamped(file, r).written
BY DEF Stamped, LockFile

LEMMA NoRemovalTyping == NoRemoval \in Removal
BY DEF NoRemoval, Removal

LEMMA IndexIsPort == Indices \subseteq Ports
BY DEF Indices, Ports

LEMMA NextPortTyping ==
  ASSUME TypeOK, NEW r \in Runs, TryNextPort(r)
  PROVE  port' \in [Runs -> Ports]
<1>1. port[r] + 1 < NumPorts => port[r] + 1 \in Ports
  BY DEF TypeOK, Ports
<1> QED
  BY <1>1 DEF TryNextPort, TypeOK

LEMMA RecordsTyping == TypeOK => Records \subseteq Entry
BY DEF TypeOK, Records, Entry

LEMMA RemovalTyping ==
  ASSUME TypeOK, NEW entry \in rm.todo
  PROVE  /\ entry \in Entry
         /\ [rm EXCEPT !.stopped = {entry}] \in Removal
         /\ \A failed \in BOOLEAN : EndRemoval(entry, failed) => rm' \in Removal
<1>1. rm \in Removal /\ entry \in Entry
  BY DEF TypeOK, Removal
<1>2. [rm EXCEPT !.stopped = {entry}] \in Removal
  BY <1>1 DEF Removal
<1>3. ASSUME NEW failed \in BOOLEAN, EndRemoval(entry, failed) PROVE rm' \in Removal
  BY <1>1, <1>3, NoRemovalTyping DEF EndRemoval, Removal
<1> QED
  BY <1>1, <1>2, <1>3

LEMMA StartTyping ==
  ASSUME TypeOK, NEW todo \in SUBSET Entry, NEW mode \in {"one", "all"}, StartRemoval(todo, mode)
  PROVE  /\ rm' \in Removal
         /\ removals' \in 0 .. MaxRemovals
         /\ contested' \subseteq Indices
<1>1. rm' \in Removal
  BY DEF StartRemoval, Removal
<1>2. removals' \in 0 .. MaxRemovals
  BY DEF StartRemoval, TypeOK
<1>3. {entry[1] : entry \in {e \in todo : BeingCreated(e[2])}} \subseteq Indices
  BY DEF Entry
<1> QED
  BY <1>1, <1>2, <1>3 DEF StartRemoval, TypeOK

LEMMA InitCreationInv == Init => CreationInv
<1> SUFFICES ASSUME Init PROVE CreationInv
  OBVIOUS
<1> USE DEF Init
<1>1. TypeOK
  <2>1. shared \in BOOLEAN
    BY Zenon
  <2>2. lock \in LockFile /\ port_lock \in [Ports -> LockFile] /\ rm \in Removal
    BY NoFileTyping, NoRemovalTyping
  <2>3. index \in [Runs -> Indices] /\ port \in [Runs -> Ports] /\ removals \in 0 .. MaxRemovals
    BY DEF Indices, Ports
  <2>4. pc \in [Runs -> Stage]
    BY DEF Stage, Locking
  <2> QED
    BY <2>1, <2>2, <2>3, <2>4 DEF TypeOK
<1>2. GuardInv /\ PortInv /\ RecordInv
  BY DEF GuardInv, PortInv, RecordInv, Critical, Reserving
<1>3. PidInv /\ RemovalInv
  BY DEF PidInv, RemovalInv, NoRemoval
<1>4. OwnDirectory /\ RecordedVmIsKept
  BY DEF OwnDirectory, RecordedVmIsKept, Building
<1> QED
  BY <1>1, <1>2, <1>3, <1>4 DEF CreationInv

LEMMA NextStage == TypeOK /\ [Next]_vars => pc' \in [Runs -> Stage]
<1> SUFFICES ASSUME TypeOK, [Next]_vars PROVE pc' \in [Runs -> Stage]
  OBVIOUS
<1> USE DEF TypeOK, At, Goto, Stage, Locking, Reserving, Building, Over
<1>1. ASSUME NEW r \in Runs, MakeLockDir(r) \/ TryLock(r) \/ InspectLock(r)
      PROVE  pc' \in [Runs -> Stage]
  BY <1>1 DEF MakeLockDir, TryLock, InspectLock
<1>2. ASSUME NEW r \in Runs, ReclaimLock(r) \/ StampLock(r) \/ Allocate(r)
      PROVE  pc' \in [Runs -> Stage]
  BY <1>2 DEF ReclaimLock, StampLock, Allocate
<1>3. ASSUME NEW r \in Runs, InspectPortLock(r) \/ ReclaimPortLock(r)
      PROVE  pc' \in [Runs -> Stage]
  BY <1>3 DEF InspectPortLock, ReclaimPortLock
<1>4. ASSUME NEW r \in Runs, CreatePortLock(r)
      PROVE  pc' \in [Runs -> Stage]
  BY <1>4 DEF CreatePortLock, TryNextPort
<1>5. ASSUME NEW r \in Runs, ProbePort(r)
      PROVE  pc' \in [Runs -> Stage]
  BY <1>5 DEF ProbePort, TryNextPort
<1>6. ASSUME NEW r \in Runs, StampPortLock(r) \/ MakeDir(r) \/ Unlock(r)
      PROVE  pc' \in [Runs -> Stage]
  BY <1>6 DEF StampPortLock, MakeDir, Unlock
<1>7. ASSUME NEW r \in Runs, PrepareFails(r) \/ SpawnQemu(r) \/ PollPidFile(r)
      PROVE  pc' \in [Runs -> Stage]
  BY <1>7 DEF PrepareFails, SpawnQemu, PollPidFile
<1>8. ASSUME NEW r \in Runs, WaitForParent(r) \/ CheckRunning(r) \/ WriteRecord(r)
      PROVE  pc' \in [Runs -> Stage]
  BY <1>8 DEF WaitForParent, CheckRunning, WriteRecord
<1>9. ASSUME NEW r \in Runs, VerifySucceeds(r) \/ VerifyFails(r)
      PROVE  pc' \in [Runs -> Stage]
  BY <1>9 DEF VerifySucceeds, VerifyFails
<1>10. ASSUME NEW r \in Runs, Return(r) \/ Crash(r)
      PROVE  pc' \in [Runs -> Stage]
  BY <1>10 DEF Return, Crash
<1>11. ASSUME NEW r \in Runs, QemuComesUp(r) \/ QemuEnds(r)
      PROVE  pc' \in [Runs -> Stage]
  BY <1>11 DEF QemuComesUp, QemuEnds
<1>12. CASE RemoveVm \/ ClearVms \/ Remover
  BY <1>12 DEF RemoveVm, ClearVms, StartRemoval, Remover, StopVm, RemoveInstance, RemovalFails,
              Wipe, GiveUpClearing
<1>13. CASE UNCHANGED vars
  BY <1>13 DEF vars
<1> QED
  BY <1>1, <1>2, <1>3, <1>4, <1>5, <1>6, <1>7, <1>8, <1>9, <1>10, <1>11, <1>12, <1>13
     DEF Next, Run, Lock, Reserve, Start, Qemu

LEMMA NextType == TypeOK /\ [Next]_vars => TypeOK'
<1> SUFFICES ASSUME TypeOK, [Next]_vars PROVE TypeOK'
  OBVIOUS
<1> USE DEF TypeOK, lockVars, fileVars, guardVars, runVars, rmVars
<1>1. pc' \in [Runs -> Stage]
  BY NextStage
<1>2. ASSUME NEW r \in Runs, MakeLockDir(r) PROVE TypeOK'
  BY <1>1, <1>2 DEF MakeLockDir
<1>3. ASSUME NEW r \in Runs, TryLock(r) PROVE TypeOK'
  BY <1>1, <1>3, CreatedTyping DEF TryLock
<1>4. ASSUME NEW r \in Runs, InspectLock(r) PROVE TypeOK'
  BY <1>1, <1>4 DEF InspectLock
<1>5. ASSUME NEW r \in Runs, ReclaimLock(r) PROVE TypeOK'
  BY <1>1, <1>5, NoFileTyping DEF ReclaimLock
<1>6. ASSUME NEW r \in Runs, StampLock(r) PROVE TypeOK'
  BY <1>1, <1>6, StampedTyping DEF StampLock, Stamped
<1>7. ASSUME NEW r \in Runs, Allocate(r) PROVE TypeOK'
  <2>1. ASSUME NEW n \in Indices, index' = [index EXCEPT ![r] = n], port' = [port EXCEPT ![r] = n],
               lock_dirs' = lock_dirs \union {"port"}
        PROVE  /\ index' \in [Runs -> Indices] /\ port' \in [Runs -> Ports]
               /\ lock_dirs' \subseteq {"vm", "port"}
    BY <2>1, IndexIsPort
  <2>2. /\ index' \in [Runs -> Indices] /\ port' \in [Runs -> Ports]
        /\ lock_dirs' \subseteq {"vm", "port"}
    BY <1>7, <2>1 DEF Allocate
  <2> QED
    BY <1>1, <1>7, <2>2 DEF Allocate
<1>8. ASSUME NEW r \in Runs, InspectPortLock(r) PROVE TypeOK'
  BY <1>1, <1>8 DEF InspectPortLock
<1>9. ASSUME NEW r \in Runs, ReclaimPortLock(r) PROVE TypeOK'
  BY <1>1, <1>9, NoFileTyping DEF ReclaimPortLock, SetPortFile
<1>10. ASSUME NEW r \in Runs, CreatePortLock(r) PROVE TypeOK'
  <2>1. port' \in [Runs -> Ports]
    BY <1>10, NextPortTyping DEF CreatePortLock
  <2>2. port_lock' \in [Ports -> LockFile]
    BY <1>10, CreatedTyping DEF CreatePortLock, SetPortFile
  <2> QED
    BY <1>1, <1>10, <2>1, <2>2 DEF CreatePortLock
<1>11. ASSUME NEW r \in Runs, ProbePort(r) PROVE TypeOK'
  <2>1. port' \in [Runs -> Ports]
    BY <1>11, NextPortTyping DEF ProbePort
  <2>2. port_lock' \in [Ports -> LockFile]
    BY <1>11, NoFileTyping DEF ProbePort, SetPortFile
  <2> QED
    BY <1>1, <1>11, <2>1, <2>2 DEF ProbePort
<1>12. ASSUME NEW r \in Runs, StampPortLock(r) PROVE TypeOK'
  BY <1>1, <1>12, StampedTyping DEF StampPortLock, SetPortFile, Stamped, PortFile
<1>13. ASSUME NEW r \in Runs, MakeDir(r) PROVE TypeOK'
  BY <1>1, <1>13 DEF MakeDir
<1>14. ASSUME NEW r \in Runs, Unlock(r) PROVE TypeOK'
  BY <1>1, <1>14, NoFileTyping DEF Unlock, DropLock
<1>15. ASSUME NEW r \in Runs, PrepareFails(r) PROVE TypeOK'
  BY <1>1, <1>15 DEF PrepareFails, RemoveDir, KeepDir
<1>16. ASSUME NEW r \in Runs, SpawnQemu(r) PROVE TypeOK'
  BY <1>1, <1>16 DEF SpawnQemu
<1>17. ASSUME NEW r \in Runs, PollPidFile(r) PROVE TypeOK'
  BY <1>1, <1>17 DEF PollPidFile, TakePid
<1>18. ASSUME NEW r \in Runs, WaitForParent(r) PROVE TypeOK'
  BY <1>1, <1>18 DEF WaitForParent
<1>19. ASSUME NEW r \in Runs, CheckRunning(r) PROVE TypeOK'
  BY <1>1, <1>19 DEF CheckRunning, RemoveDir, KeepDir
<1>20. ASSUME NEW r \in Runs, WriteRecord(r) PROVE TypeOK'
  BY <1>1, <1>20 DEF WriteRecord, PutRecord
<1>21. ASSUME NEW r \in Runs, VerifySucceeds(r) PROVE TypeOK'
  BY <1>1, <1>21 DEF VerifySucceeds
<1>22. ASSUME NEW r \in Runs, VerifyFails(r) PROVE TypeOK'
  BY <1>1, <1>22 DEF VerifyFails, RemoveDir
<1>23. ASSUME NEW r \in Runs, Return(r) PROVE TypeOK'
  BY <1>1, <1>23, NoFileTyping DEF Return, DropPort, DropLock, SetPortFile
<1>24. ASSUME NEW r \in Runs, Crash(r) PROVE TypeOK'
  BY <1>1, <1>24 DEF Crash
<1>25. ASSUME NEW r \in Runs, QemuComesUp(r) PROVE TypeOK'
  BY <1>1, <1>25 DEF QemuComesUp
<1>26. ASSUME NEW r \in Runs, QemuEnds(r) PROVE TypeOK'
  BY <1>1, <1>26 DEF QemuEnds
<1>27. CASE RemoveVm
  <2>1. PICK entry \in Records : StartRemoval({entry}, "one")
    BY <1>27 DEF RemoveVm
  <2>2. rm' \in Removal /\ removals' \in 0 .. MaxRemovals /\ contested' \subseteq Indices
    BY <2>1, RecordsTyping, StartTyping
  <2> QED
    BY <1>1, <2>1, <2>2 DEF StartRemoval
<1>28. CASE ClearVms
  <2>1. StartRemoval(Records, "all")
    BY <1>28 DEF ClearVms
  <2>2. rm' \in Removal /\ removals' \in 0 .. MaxRemovals /\ contested' \subseteq Indices
    BY <2>1, RecordsTyping, StartTyping
  <2> QED
    BY <1>1, <2>1, <2>2 DEF StartRemoval
<1>29. CASE Wipe
  BY <1>1, <1>29, NoFileTyping, NoRemovalTyping DEF Wipe
<1>30. CASE GiveUpClearing
  BY <1>1, <1>30, NoFileTyping, NoRemovalTyping DEF GiveUpClearing
<1>31. ASSUME NEW entry \in rm.todo, StopVm(entry) PROVE TypeOK'
  <2>1. rm' \in Removal /\ entry[1] \in Indices /\ entry[2] \in Runs
    BY <1>31, RemovalTyping DEF StopVm, Entry
  <2>2. qemu' \in [Runs -> {"none", "booting", "up", "dead"}] /\ unstopped' \subseteq Runs
    BY <1>31 DEF StopVm
  <2> QED
    BY <1>1, <1>31, <2>1, <2>2 DEF StopVm, PutRecord
<1>32. ASSUME NEW entry \in rm.todo, RemoveInstance(entry) PROVE TypeOK'
  <2>1. rm' \in Removal
    BY <1>32, RemovalTyping DEF RemoveInstance
  <2> QED
    BY <1>1, <1>32, <2>1 DEF RemoveInstance, RemoveDir
<1>33. ASSUME NEW entry \in rm.todo, RemovalFails(entry) PROVE TypeOK'
  <2>1. rm' \in Removal
    BY <1>33, RemovalTyping DEF RemovalFails
  <2> QED
    BY <1>1, <1>33, <2>1 DEF RemovalFails, KeepDir
<1>34. CASE UNCHANGED vars
  BY <1>34 DEF vars
<1> QED
  BY <1>1, <1>2, <1>3, <1>4, <1>5, <1>6, <1>7, <1>8, <1>9, <1>10, <1>11, <1>12, <1>13, <1>14, <1>15, <1>16, <1>17, <1>18, <1>19, <1>20, <1>21, <1>22, <1>23, <1>24, <1>25, <1>26, <1>27, <1>28, <1>29, <1>30, <1>31, <1>32, <1>33, <1>34
     DEF Next, Run, Lock, Reserve, Start, Qemu, Remover

-----------------------------------------------------------------------------
(* A step of one run leaves where the others are, and what they hold.       *)
LEMMA OthersStay ==
  ASSUME TypeOK, NEW r \in Runs, Run(r) \/ Crash(r) \/ Qemu(r)
  PROVE  \A s \in Runs : s # r =>
           /\ pc'[s] = pc[s] /\ index'[s] = index[s] /\ port'[s] = port[s] /\ pid'[s] = pid[s]
           /\ qemu'[s] = qemu[s]
           /\ s \in holds_lock' <=> s \in holds_lock
           /\ s \in holds_port' <=> s \in holds_port
           /\ s \in recorded' <=> s \in recorded
           /\ s \in unstopped' <=> s \in unstopped
<1> USE DEF TypeOK, At, Goto, fileVars, runVars, guardVars
<1>1. CASE Lock(r)
  BY <1>1 DEF Lock, MakeLockDir, TryLock, InspectLock, ReclaimLock, StampLock
<1>2. CASE Allocate(r)
  BY <1>2 DEF Allocate
<1>3. CASE Reserve(r)
  BY <1>3 DEF Reserve, InspectPortLock, ReclaimPortLock, CreatePortLock, ProbePort, StampPortLock,
              TryNextPort
<1>4. CASE MakeDir(r) \/ Unlock(r)
  BY <1>4 DEF MakeDir, Unlock, DropLock
<1>5. CASE Start(r)
  <2>1. CASE PrepareFails(r) \/ SpawnQemu(r) \/ PollPidFile(r) \/ WaitForParent(r)
    BY <2>1 DEF PrepareFails, SpawnQemu, PollPidFile, TakePid, WaitForParent
  <2>2. CASE CheckRunning(r) \/ WriteRecord(r)
    BY <2>2 DEF CheckRunning, WriteRecord
  <2>3. CASE VerifySucceeds(r) \/ VerifyFails(r)
    BY <2>3 DEF VerifySucceeds, VerifyFails
  <2> QED
    BY <1>5, <2>1, <2>2, <2>3 DEF Start
<1>6. CASE Return(r)
  BY <1>6 DEF Return, DropPort, DropLock
<1>7. CASE Crash(r) \/ Qemu(r)
  BY <1>7 DEF Crash, Qemu, QemuComesUp, QemuEnds
<1> QED
  BY <1>1, <1>2, <1>3, <1>4, <1>5, <1>6, <1>7 DEF Run

LEMMA RunsLeaveRemoval ==
  ASSUME NEW r \in Runs, Run(r) \/ Crash(r) \/ Qemu(r)
  PROVE  UNCHANGED rm
BY DEF Run, Lock, MakeLockDir, TryLock, InspectLock, ReclaimLock, StampLock, Allocate, Reserve,
       InspectPortLock, ReclaimPortLock, CreatePortLock, ProbePort, StampPortLock, MakeDir, Unlock,
       Start, PrepareFails, SpawnQemu, PollPidFile, WaitForParent, CheckRunning, WriteRecord,
       VerifySucceeds, VerifyFails, Return, Crash, Qemu, QemuComesUp, QemuEnds, runVars, rmVars

(* The steps of `vm rm' leave the runs where they are.                      *)
LEMMA RunsStay ==
  ASSUME TypeOK, RemoveVm \/ ClearVms \/ Remover
  PROVE  /\ UNCHANGED <<pc, runVars, taken, shared, recorded>>
         /\ contested \subseteq contested'
         /\ UNCHANGED port_lock \/ Wipe
<1>1. CASE RemoveVm \/ ClearVms
  BY <1>1 DEF RemoveVm, ClearVms, StartRemoval, fileVars, lockVars
<1>2. ASSUME NEW entry \in rm.todo, StopVm(entry) \/ RemoveInstance(entry) \/ RemovalFails(entry)
      PROVE  UNCHANGED <<pc, runVars, taken, shared, recorded, contested, port_lock>>
  BY <1>2 DEF StopVm, RemoveInstance, RemovalFails, lockVars
<1>3. CASE Wipe \/ GiveUpClearing
  BY <1>3 DEF Wipe, GiveUpClearing, fileVars, lockVars
<1> QED
  BY <1>1, <1>2, <1>3 DEF Remover

(* What was contested or shared stays so.                                   *)
LEMMA HistoryGrows ==
  TypeOK /\ [Next]_vars => contested \subseteq contested' /\ (shared => shared')
<1> SUFFICES ASSUME TypeOK, [Next]_vars
             PROVE  contested \subseteq contested' /\ (shared => shared')
  OBVIOUS
<1>1. ASSUME NEW r \in Runs, Lock(r) \/ Allocate(r)
      PROVE  contested \subseteq contested' /\ (shared => shared')
  <2>1. CASE StampLock(r)
    <3>1. shared => shared'
      BY <2>1, Zenon DEF StampLock
    <3>2. UNCHANGED contested
      BY <2>1 DEF StampLock, rmVars
    <3> QED
      BY <3>1, <3>2
  <2>2. CASE MakeLockDir(r) \/ TryLock(r) \/ InspectLock(r) \/ ReclaimLock(r) \/ Allocate(r)
    BY <2>2 DEF MakeLockDir, TryLock, InspectLock, ReclaimLock, Allocate, rmVars
  <2> QED
    BY <1>1, <2>1, <2>2 DEF Lock
<1>2. ASSUME NEW r \in Runs, Reserve(r) \/ MakeDir(r) \/ Unlock(r)
      PROVE  UNCHANGED <<contested, shared>>
  BY <1>2 DEF Reserve, InspectPortLock, ReclaimPortLock, CreatePortLock, ProbePort, StampPortLock,
              MakeDir, Unlock, rmVars
<1>3. ASSUME NEW r \in Runs, Start(r) PROVE UNCHANGED <<contested, shared>>
  BY <1>3 DEF Start, PrepareFails, SpawnQemu, PollPidFile, WaitForParent, CheckRunning,
              WriteRecord, VerifySucceeds, VerifyFails, rmVars
<1>4. ASSUME NEW r \in Runs, Return(r) \/ Crash(r) \/ Qemu(r) PROVE UNCHANGED <<contested, shared>>
  BY <1>4 DEF Return, Crash, Qemu, QemuComesUp, QemuEnds, rmVars
<1>5. CASE RemoveVm \/ ClearVms \/ Remover
  BY <1>5, RunsStay
<1>6. CASE UNCHANGED vars
  BY <1>6 DEF vars, rmVars
<1> QED
  BY <1>1, <1>2, <1>3, <1>4, <1>5, <1>6 DEF Next, Run

-----------------------------------------------------------------------------
(* Guards are taken and dropped by the run that has them.                   *)
LEMMA NextGuardInv == TypeOK /\ GuardInv /\ [Next]_vars => GuardInv'
<1> SUFFICES ASSUME TypeOK, GuardInv, [Next]_vars PROVE GuardInv'
  OBVIOUS
<1>1. ASSUME NEW r \in Runs, Run(r) \/ Crash(r) \/ Qemu(r) PROVE GuardInv'
  <2> USE DEF TypeOK, GuardInv, Critical, Reserving, Building, Over, At, Goto, runVars, guardVars
  <2>1. CASE MakeLockDir(r) \/ TryLock(r) \/ InspectLock(r) \/ ReclaimLock(r)
    BY <2>1 DEF MakeLockDir, TryLock, InspectLock, ReclaimLock
  <2>2. CASE StampLock(r)
    BY <2>2 DEF StampLock
  <2>3. CASE Allocate(r) \/ InspectPortLock(r) \/ ReclaimPortLock(r)
    BY <2>3 DEF Allocate, InspectPortLock, ReclaimPortLock
  <2>4. CASE CreatePortLock(r) \/ ProbePort(r)
    BY <2>4 DEF CreatePortLock, ProbePort, TryNextPort
  <2>5. CASE StampPortLock(r) \/ MakeDir(r)
    BY <2>5 DEF StampPortLock, MakeDir
  <2>6. CASE Unlock(r)
    BY <2>6 DEF Unlock, DropLock
  <2>7. CASE PrepareFails(r) \/ SpawnQemu(r) \/ PollPidFile(r) \/ WaitForParent(r)
    BY <2>7 DEF PrepareFails, SpawnQemu, PollPidFile, WaitForParent
  <2>8. CASE CheckRunning(r) \/ WriteRecord(r) \/ VerifySucceeds(r) \/ VerifyFails(r)
    BY <2>8 DEF CheckRunning, WriteRecord, VerifySucceeds, VerifyFails
  <2>9. CASE Return(r)
    BY <2>9 DEF Return, DropPort, DropLock
  <2>10. CASE Crash(r) \/ Qemu(r)
    BY <2>10 DEF Crash, Qemu, QemuComesUp, QemuEnds
  <2> QED
    BY <1>1, <2>1, <2>2, <2>3, <2>4, <2>5, <2>6, <2>7, <2>8, <2>9, <2>10
       DEF Run, Lock, Reserve, Start
<1>2. CASE RemoveVm \/ ClearVms \/ Remover
  BY <1>2, RunsStay DEF GuardInv, runVars, guardVars
<1>3. CASE UNCHANGED vars
  BY <1>3 DEF GuardInv, vars, runVars, guardVars
<1> QED
  BY <1>1, <1>2, <1>3 DEF Next

(* A run in the critical section is the only one there.                     *)
LEMMA Exclusion ==
  ASSUME GuardInv, ~shared, NEW r \in Runs, NEW s \in Runs, pc[r] \in Critical, pc[s] \in Critical
  PROVE  r = s
BY DEF GuardInv

(* The file of a port is created, stamped or removed by a run that holds    *)
(* the lock or has the port.                                                *)
LEMMA NextPortInv ==
  TypeOK /\ GuardInv /\ PortInv /\ RemovalInv /\ [Next]_vars => PortInv'
<1> SUFFICES ASSUME TypeOK, GuardInv, PortInv, RemovalInv, [Next]_vars, contested' = {}, ~shared'
             PROVE  PortInv'
  BY DEF PortInv
<1>0. contested = {} /\ ~shared
  BY HistoryGrows
<1>1. ASSUME NEW r \in Runs, Run(r) \/ Crash(r) \/ Qemu(r) PROVE PortInv'
  <2> USE DEF TypeOK, PortInv, PortFile, At, Goto, lockVars, fileVars, runVars, guardVars
  <2>1. CASE MakeLockDir(r) \/ TryLock(r) \/ InspectLock(r) \/ ReclaimLock(r) \/ StampLock(r)
    BY <1>0, <2>1 DEF MakeLockDir, TryLock, InspectLock, ReclaimLock, StampLock
  <2>2. CASE Allocate(r)
    BY <1>0, <2>2 DEF Allocate, GuardInv, Building
  <2>3. CASE InspectPortLock(r)
    BY <1>0, <2>3 DEF InspectPortLock, GuardInv, Building, Stale
  <2>4. CASE ReclaimPortLock(r)
    BY <1>0, <2>4, Exclusion DEF ReclaimPortLock, SetPortFile, Critical, Reserving
  <2>5. CASE CreatePortLock(r)
    <3>1. r \notin holds_port /\ pc[r] \in Critical
      BY <2>5 DEF CreatePortLock, GuardInv, Building, Critical, Reserving
    <3>2. CASE Exists(PortFile(r)) \/ "port" \notin lock_dirs
      BY <1>0, <2>5, <3>1, <3>2 DEF CreatePortLock, TryNextPort
    <3>3. CASE ~(Exists(PortFile(r)) \/ "port" \notin lock_dirs)
      <4>1. \A s \in holds_port : port[s] # port[r]
        BY <1>0, <3>3 DEF Exists
      <4>2. \A s \in Runs : s # r => pc[s] \notin {"port_probe", "port_stamp", "port_reclaim"}
        BY <1>0, <3>1, Exclusion DEF Critical, Reserving
      <4>3. /\ pc' = [pc EXCEPT ![r] = "port_probe"]
            /\ port_lock' = [port_lock EXCEPT ![port[r]] = Created(r)]
            /\ UNCHANGED <<port, holds_port>>
        BY <2>5, <3>3 DEF CreatePortLock, SetPortFile
      <4> QED
        BY <1>0, <4>1, <4>2, <4>3, CreatedTyping
    <3> QED
      BY <3>2, <3>3
  <2>6. CASE ProbePort(r)
    <3>1. r \notin holds_port /\ pc[r] \in Critical
      BY <2>6 DEF ProbePort, GuardInv, Building, Critical, Reserving
    <3>2. CASE ~Bound(port[r])
      BY <1>0, <2>6, <3>1, <3>2 DEF ProbePort
    <3>3. CASE Bound(port[r])
      <4>1. \A s \in holds_port : port[s] # port[r]
        BY <1>0, <2>6, <3>1 DEF ProbePort
      <4>2. \A s \in Runs : s # r => pc[s] \notin {"port_probe", "port_stamp", "port_reclaim"}
        BY <1>0, <3>1, Exclusion DEF Critical, Reserving
      <4>3. /\ TryNextPort(r)
            /\ port_lock' = [port_lock EXCEPT ![port[r]] = NoFile]
            /\ UNCHANGED holds_port
        BY <2>6, <3>3 DEF ProbePort, SetPortFile
      <4> QED
        BY <1>0, <3>1, <4>1, <4>2, <4>3 DEF TryNextPort
    <3> QED
      BY <3>2, <3>3
  <2>7. CASE StampPortLock(r)
    <3>1. /\ PortFile(r).by = r
          /\ pc[r] \in Critical
          /\ \A s \in holds_port : port[s] # port[r]
      BY <1>0, <2>7 DEF StampPortLock, GuardInv, Building, Critical, Reserving
    <3>2. \A s \in Runs : s # r => pc[s] \notin {"port_probe", "port_stamp", "port_reclaim"}
      BY <1>0, <3>1, Exclusion DEF Critical, Reserving
    <3>3. /\ pc' = [pc EXCEPT ![r] = "mkdir"]
          /\ port_lock' = [port_lock EXCEPT ![port[r]] = Stamped(PortFile(r), r)]
          /\ holds_port' = holds_port \union {r}
          /\ UNCHANGED port
      BY <2>7 DEF StampPortLock, SetPortFile
    <3> QED
      BY <1>0, <3>1, <3>2, <3>3, StampedTyping
  <2>8. CASE MakeDir(r)
    BY <1>0, <2>8 DEF MakeDir
  <2>9. CASE Unlock(r)
    BY <1>0, <2>9 DEF Unlock, DropLock
  <2>10. CASE Start(r)
    BY <1>0, <2>10 DEF Start, PrepareFails, SpawnQemu, PollPidFile, TakePid, WaitForParent,
                CheckRunning, WriteRecord, VerifySucceeds, VerifyFails
  <2>11. CASE Return(r)
    BY <1>0, <2>11 DEF Return, DropPort, DropLock, SetPortFile
  <2>12. CASE Crash(r) \/ Qemu(r)
    BY <1>0, <2>12 DEF Crash, Qemu, QemuComesUp, QemuEnds
  <2> QED
    BY <1>1, <2>1, <2>2, <2>3, <2>4, <2>5, <2>6, <2>7, <2>8, <2>9, <2>10, <2>11, <2>12
       DEF Run, Lock, Reserve
<1>2. CASE RemoveVm \/ ClearVms \/ Remover
  <2>1. ~Wipe
    BY <1>0 DEF Wipe, RemovalInv, Indices
  <2> QED
    BY <1>0, <1>2, <2>1, RunsStay DEF PortInv, PortFile, runVars, guardVars
<1>3. CASE UNCHANGED vars
  BY <1>0, <1>3 DEF PortInv, PortFile, vars, fileVars, lockVars, runVars, guardVars
<1> QED
  BY <1>1, <1>2, <1>3 DEF Next

-----------------------------------------------------------------------------
(* A run reads the daemon's pid from the file QEMU wrote when it came up.   *)
LEMMA NextPidInv == TypeOK /\ PidInv /\ [Next]_vars => PidInv'
<1> SUFFICES ASSUME TypeOK, PidInv, [Next]_vars PROVE PidInv'
  OBVIOUS
<1>1. ASSUME NEW r \in Runs, Run(r) \/ Crash(r) \/ Qemu(r) PROVE PidInv'
  <2> DEFINE Ok(s) ==
        /\ pid[s] = "daemon" => qemu[s] \in {"up", "dead"}
        /\ pc[s] \in Locking \union Critical \union {"prepare", "poll", "wait"} => pid[s] = "none"
        /\ pc[s] \in Locking \union Critical \union {"prepare"} => qemu[s] = "none"
        /\ s \in recorded => pc[s] \in {"verify", "failing", "succeeding"} \union Over
        /\ pc[s] \in {"verify", "succeeding", "done"} => s \in recorded
        /\ pc[s] \in {"succeeding", "done"} => pid[s] = "daemon"
        /\ s \in unstopped => pc[s] \in {"failing", "failed", "crashed"}
  <2>0. \A s \in Runs : s # r => Ok(s)'
    BY <1>1, OthersStay DEF PidInv
  <2>a. Ok(r)
    BY DEF PidInv
  <2> USE DEF TypeOK, Locking, Critical, Reserving, Over, At, Goto, runVars
  <2>1. ASSUME Lock(r) PROVE Ok(r)'
    BY <2>a, <2>1 DEF Lock, MakeLockDir, TryLock, InspectLock, ReclaimLock, StampLock
  <2>2. ASSUME Allocate(r) PROVE Ok(r)'
    BY <2>a, <2>2 DEF Allocate
  <2>3. ASSUME InspectPortLock(r) \/ ReclaimPortLock(r) \/ StampPortLock(r) PROVE Ok(r)'
    BY <2>a, <2>3 DEF InspectPortLock, ReclaimPortLock, StampPortLock
  <2>4. ASSUME CreatePortLock(r) \/ ProbePort(r) PROVE Ok(r)'
    BY <2>a, <2>4 DEF CreatePortLock, ProbePort, TryNextPort
  <2>5. ASSUME MakeDir(r) \/ Unlock(r) PROVE Ok(r)'
    BY <2>a, <2>5 DEF MakeDir, Unlock
  <2>6. ASSUME PrepareFails(r) \/ SpawnQemu(r) PROVE Ok(r)'
    BY <2>a, <2>6 DEF PrepareFails, SpawnQemu
  <2>7. ASSUME PollPidFile(r) \/ WaitForParent(r) PROVE Ok(r)'
    BY <2>a, <2>7 DEF PollPidFile, TakePid, WaitForParent
  <2>8. ASSUME CheckRunning(r) \/ WriteRecord(r) PROVE Ok(r)'
    BY <2>a, <2>8 DEF CheckRunning, WriteRecord
  <2>9. ASSUME VerifySucceeds(r) \/ VerifyFails(r) PROVE Ok(r)'
    BY <2>a, <2>9 DEF VerifySucceeds, VerifyFails, PidAlive
  <2>10. ASSUME Return(r) \/ Crash(r) PROVE Ok(r)'
    BY <2>a, <2>10 DEF Return, Crash
  <2>11. ASSUME Qemu(r) PROVE Ok(r)'
    BY <2>a, <2>11 DEF Qemu, QemuComesUp, QemuEnds, QemuAlive
  <2>12. Ok(r)'
    BY <1>1, <2>1, <2>2, <2>3, <2>4, <2>5, <2>6, <2>7, <2>8, <2>9, <2>10, <2>11
       DEF Run, Reserve, Start
  <2> QED
    BY <2>0, <2>12 DEF PidInv
<1>2. CASE RemoveVm \/ ClearVms \/ Remover
  <2>1. UNCHANGED <<pc, pid, recorded>>
    BY <1>2, RunsStay DEF runVars
  <2>2. /\ \A s \in Runs : qemu'[s] = qemu[s] \/ (qemu[s] # "none" /\ qemu'[s] = "dead")
        /\ unstopped' \subseteq unstopped
    <3>1. CASE RemoveVm \/ ClearVms
      BY <3>1 DEF RemoveVm, ClearVms, StartRemoval
    <3>2. CASE Remover
      BY <3>2 DEF Remover, StopVm, Resolved, PidAlive, QemuAlive, RemoveInstance, RemovalFails, Wipe,
                  GiveUpClearing, TypeOK
    <3> QED
      BY <1>2, <3>1, <3>2
  <2> QED
    BY <2>1, <2>2 DEF PidInv
<1>3. CASE UNCHANGED vars
  BY <1>3 DEF PidInv, vars, runVars
<1> QED
  BY <1>1, <1>2, <1>3 DEF Next

-----------------------------------------------------------------------------
(***************************************************************************)
(* Directories and records.                                                *)
(***************************************************************************)
DirInv == RecordInv /\ RemovalInv /\ OwnDirectory /\ RecordedVmIsKept

(* What a run in its directory knows about it: nobody else's VM is there,   *)
(* and no removal is for it.                                                *)
LEMMA OwnerAlone ==
  ASSUME TypeOK, PidInv, DirInv, NEW r \in Runs, pc[r] \in Building, index[r] \notin contested
  PROVE  /\ dir[index[r]] = r
         /\ \A entry \in rm.todo \union rm.stopped : entry[1] # index[r]
         /\ \A s \in Runs : s # r /\ index[s] = index[r] =>
              /\ pc[s] \notin Building
              /\ ~(s \in recorded \ unstopped /\ QemuAlive(s) /\ pid[s] = "daemon")
<1>1. dir[index[r]] = r /\ index[r] \in Indices
  BY DEF DirInv, OwnDirectory, TypeOK
<1>2. \A entry \in rm.todo \union rm.stopped : entry[1] # index[r]
  BY <1>1 DEF DirInv, RemovalInv, Building, Over
<1>3. ASSUME NEW s \in Runs, s # r, index[s] = index[r]
      PROVE  /\ pc[s] \notin Building
             /\ ~(s \in recorded \ unstopped /\ QemuAlive(s) /\ pid[s] = "daemon")
  BY <1>1, <1>3 DEF DirInv, OwnDirectory, RecordedVmIsKept, RecordInv, TypeOK
<1> QED
  BY <1>1, <1>2, <1>3

(* What holds of the directory that a removal is about.                     *)
LEMMA RemovedAlone ==
  ASSUME TypeOK, PidInv, DirInv, NEW entry \in rm.todo \union rm.stopped, entry[1] \notin contested
  PROVE  /\ entry[1] \in Indices /\ entry[2] \in Runs
         /\ dir[entry[1]] = entry[2] /\ record[entry[1]] = entry[2] /\ pc[entry[2]] \in Over
         /\ \A s \in Runs : index[s] = entry[1] =>
              /\ pc[s] \notin Building
              /\ s \in recorded \ unstopped /\ QemuAlive(s) /\ pid[s] = "daemon" =>
                   s = entry[2]
<1>1. entry[1] \in Indices /\ entry[2] \in Runs
  BY DEF TypeOK, Removal, Entry
<1>2. dir[entry[1]] = entry[2] /\ record[entry[1]] = entry[2] /\ pc[entry[2]] \in Over
  BY DEF DirInv, RemovalInv
<1> QED
  BY <1>1, <1>2 DEF DirInv, OwnDirectory, RecordedVmIsKept, RecordInv, Building, Over

(* A step of a run that leaves the files alone.                             *)
LEMMA DirKept ==
  ASSUME TypeOK, PidInv, DirInv, NEW r \in Runs, Run(r) \/ Crash(r) \/ Qemu(r),
         UNCHANGED <<dir, record, rm, contested>>,
         pc[r] \notin Over \/ UNCHANGED pc,
         pc'[r] \in Building => pc[r] \in Building /\ index'[r] = index[r],
         r \in recorded' => r \in recorded /\ index'[r] = index[r],
         QemuAlive(r)' /\ pid'[r] = "daemon" /\ (r \in recorded \/ pc[r] \in Over) =>
           /\ QemuAlive(r) /\ pid[r] = "daemon"
           /\ r \in unstopped => r \in unstopped'
  PROVE  DirInv'
<1>1. RecordInv'
  BY DEF DirInv, RecordInv
<1>2. OwnDirectory'
  BY OthersStay DEF DirInv, OwnDirectory
<1>3. RecordedVmIsKept'
  <2> SUFFICES ASSUME NEW s \in recorded' \ unstopped', QemuAlive(s)', pid'[s] = "daemon",
                      index'[s] \notin contested
               PROVE  record[index'[s]] = s
    BY DEF RecordedVmIsKept
  <2>1. s \in Runs /\ s \in recorded /\ index'[s] = index[s]
    BY OthersStay, NextType DEF Next, TypeOK
  <2>2. QemuAlive(s) /\ pid[s] = "daemon" /\ s \notin unstopped
    BY <2>1, OthersStay DEF QemuAlive
  <2> QED
    BY <2>1, <2>2 DEF DirInv, RecordedVmIsKept
<1>4. RemovalInv'
  BY OthersStay, RemovedAlone DEF DirInv, RemovalInv, QemuAlive
<1> QED
  BY <1>1, <1>2, <1>3, <1>4 DEF DirInv

(* A run that removes its directory.                                        *)
LEMMA DirRemoved ==
  ASSUME TypeOK, PidInv, DirInv, NEW r \in Runs, Run(r), pc[r] \in Building, RemoveDir(index[r]),
         UNCHANGED <<rm, contested, index, pid, recorded>>, pc'[r] = "failing",
         QemuAlive(r)' => QemuAlive(r),
         r \in unstopped' \/ ~(r \in recorded /\ QemuAlive(r)' /\ pid[r] = "daemon")
  PROVE  DirInv'
<1>0. index[r] \in Indices
  BY DEF TypeOK
<1>1. RecordInv'
  BY DEF DirInv, RecordInv, RemoveDir, TypeOK
<1>2. OwnDirectory'
  BY <1>0, OthersStay, OwnerAlone DEF DirInv, OwnDirectory, RemoveDir, TypeOK, Building
<1>3. RecordedVmIsKept'
  BY <1>0, OthersStay, OwnerAlone DEF DirInv, RecordedVmIsKept, QemuAlive, RemoveDir, TypeOK
<1>4. RemovalInv'
  <2>1. \A entry \in rm.todo \union rm.stopped :
          entry[1] \notin contested => entry[2] # r /\ entry[1] # index[r] /\ entry[2] \in Runs
    BY OwnerAlone, RemovedAlone DEF Building, Over
  <2> QED
    BY <1>0, <2>1, OthersStay DEF DirInv, RemovalInv, QemuAlive, RemoveDir, TypeOK
<1> QED
  BY <1>1, <1>2, <1>3, <1>4 DEF DirInv

(* A run that makes its directory, or writes its record into it.            *)
LEMMA DirTaken ==
  ASSUME TypeOK, PidInv, DirInv, NEW r \in Runs, Run(r),
         \/ dir[index[r]] = Nobody /\ pc[r] = "mkdir" /\ UNCHANGED <<record, recorded>>
         \/ pc[r] = "record" /\ record' = [record EXCEPT ![index[r]] = r]
            /\ recorded' = recorded \union {r},
         dir' = [dir EXCEPT ![index[r]] = IF @ = Nobody THEN r ELSE @],
         UNCHANGED <<rm, contested, index, pid, qemu, unstopped>>, pc'[r] \in Building
  PROVE  DirInv'
<1>0. index[r] \in Indices /\ Nobody \notin Runs
  BY DEF TypeOK
<1>1. CASE pc[r] = "mkdir"
  <2>1. index[r] \notin contested =>
          /\ record[index[r]] = Nobody
          /\ \A s \in Runs : index[s] = index[r] => pc[s] \notin Building
          /\ \A entry \in rm.todo \union rm.stopped : entry[1] # index[r]
    BY <1>0, <1>1, RemovedAlone DEF DirInv, RecordInv, OwnDirectory, TypeOK
  <2>2. RecordInv'
    BY <1>0, <1>1, <2>1 DEF DirInv, RecordInv, TypeOK
  <2>3. OwnDirectory'
    BY <1>0, <1>1, <2>1, OthersStay DEF DirInv, OwnDirectory, TypeOK
  <2>4. RecordedVmIsKept'
    BY <1>0, <1>1, OthersStay DEF DirInv, RecordedVmIsKept, QemuAlive
  <2>5. RemovalInv'
    <3>1. \A entry \in rm.todo \union rm.stopped :
            entry[1] \notin contested => entry[2] # r /\ entry[1] # index[r] /\ entry[2] \in Runs
      BY <1>1, <2>1, RemovedAlone DEF Over
    <3> QED
      BY <1>0, <1>1, <3>1, OthersStay DEF DirInv, RemovalInv, QemuAlive, TypeOK
  <2> QED
    BY <2>2, <2>3, <2>4, <2>5 DEF DirInv
<1>2. CASE pc[r] = "record"
  <2>1. /\ record' = [record EXCEPT ![index[r]] = r]
        /\ recorded' = recorded \union {r}
    BY <1>2
  <2>2. RecordInv'
    BY <1>0, <1>2, <2>1, OwnerAlone DEF DirInv, RecordInv, TypeOK, Building
  <2>3. OwnDirectory'
    BY <1>0, <1>2, <2>1, OthersStay, OwnerAlone DEF DirInv, OwnDirectory, TypeOK, Building
  <2>4. RecordedVmIsKept'
    BY <1>0, <1>2, <2>1, OthersStay, OwnerAlone
       DEF DirInv, RecordedVmIsKept, QemuAlive, TypeOK, Building
  <2>5. RemovalInv'
    <3>1. \A entry \in rm.todo \union rm.stopped :
            entry[1] \notin contested => entry[2] # r /\ entry[1] # index[r] /\ entry[2] \in Runs
      BY <1>2, OwnerAlone, RemovedAlone DEF Over, Building
    <3> QED
      BY <1>0, <2>1, <3>1, OthersStay DEF DirInv, RemovalInv, QemuAlive, TypeOK
  <2> QED
    BY <2>2, <2>3, <2>4, <2>5 DEF DirInv
<1> QED
  BY <1>1, <1>2

(* Every step of a run, or of its QEMU.                                     *)
LEMMA RunDirInv ==
  ASSUME TypeOK, PidInv, DirInv, NEW r \in Runs, Run(r) \/ Crash(r) \/ Qemu(r)
  PROVE  DirInv'
<1> DEFINE Kept ==
      /\ UNCHANGED <<dir, record, rm, contested>>
      /\ pc[r] \notin Over \/ UNCHANGED pc
      /\ pc'[r] \in Building => pc[r] \in Building /\ index'[r] = index[r]
      /\ r \in recorded' => r \in recorded /\ index'[r] = index[r]
      /\ QemuAlive(r)' /\ pid'[r] = "daemon" /\ (r \in recorded \/ pc[r] \in Over) =>
           /\ QemuAlive(r) /\ pid[r] = "daemon"
           /\ r \in unstopped => r \in unstopped'
<1>0. /\ pid[r] = "daemon" => qemu[r] \in {"up", "dead"}
      /\ r \in recorded => pc[r] \in {"verify", "failing", "succeeding"} \union Over
  BY DEF PidInv
<1> USE DEF TypeOK, Locking, Reserving, Building, Over, At, Goto, lockVars, fileVars, runVars, rmVars, QemuAlive
<1>1. ASSUME Lock(r) PROVE Kept
  BY <1>0, <1>1 DEF Lock, MakeLockDir, TryLock, InspectLock, ReclaimLock, StampLock
<1>2. ASSUME Allocate(r) PROVE Kept
  BY <1>0, <1>2 DEF Allocate
<1>3. ASSUME InspectPortLock(r) \/ ReclaimPortLock(r) \/ StampPortLock(r) PROVE Kept
  BY <1>0, <1>3 DEF InspectPortLock, ReclaimPortLock, StampPortLock
<1>4. ASSUME CreatePortLock(r) \/ ProbePort(r) PROVE Kept
  BY <1>0, <1>4 DEF CreatePortLock, ProbePort, TryNextPort
<1>5. ASSUME Unlock(r) PROVE Kept
  BY <1>0, <1>5 DEF Unlock
<1>6. ASSUME SpawnQemu(r) \/ PollPidFile(r) \/ WaitForParent(r) PROVE Kept
  BY <1>0, <1>6 DEF SpawnQemu, PollPidFile, TakePid, WaitForParent
<1>7. ASSUME VerifySucceeds(r) PROVE Kept
  BY <1>0, <1>7 DEF VerifySucceeds
<1>8. ASSUME Return(r) \/ Crash(r) PROVE Kept
  BY <1>0, <1>8 DEF Return, Crash
<1>9. ASSUME Qemu(r) PROVE Kept
  BY <1>0, <1>9 DEF Qemu, QemuComesUp, QemuEnds
<1>10. ASSUME MakeDir(r) PROVE DirInv'
  <2>1. CASE dir[index[r]] = Nobody /\ InstancesDirExists
    BY <1>10, <2>1, DirTaken DEF MakeDir, Run
  <2>2. CASE ~(dir[index[r]] = Nobody /\ InstancesDirExists)
    <3>1. Kept
      BY <1>0, <1>10, <2>2 DEF MakeDir
    <3> QED
      BY <1>10, <3>1, DirKept DEF Run
  <2> QED
    BY <2>1, <2>2
<1>11. ASSUME PrepareFails(r) \/ CheckRunning(r) PROVE DirInv'
  <2>1. CASE KeepDir
    <3>1. Kept
      BY <1>0, <1>11, <2>1 DEF PrepareFails, CheckRunning, KeepDir
    <3> QED
      BY <1>11, <3>1, DirKept DEF Run, Start
  <2>2. CASE ~KeepDir
    BY <1>0, <1>11, <2>2, DirRemoved DEF PrepareFails, CheckRunning, Run, Start
  <2> QED
    BY <2>1, <2>2
<1>12. ASSUME WriteRecord(r) PROVE DirInv'
  <2>1. CASE pc'[r] = "verify"
    BY <1>12, <2>1, DirTaken DEF WriteRecord, PutRecord, Run, Start
  <2>2. CASE pc'[r] # "verify"
    <3>1. Kept
      BY <1>0, <1>12, <2>2 DEF WriteRecord
    <3> QED
      BY <1>12, <3>1, DirKept DEF Run, Start
  <2> QED
    BY <2>1, <2>2
<1>13. ASSUME VerifyFails(r) PROVE DirInv'
  BY <1>0, <1>13, DirRemoved DEF VerifyFails, PidAlive, Run, Start
<1>14. Kept => DirInv'
  BY DirKept
<1> QED
  BY <1>1, <1>2, <1>3, <1>4, <1>5, <1>6, <1>7, <1>8, <1>9, <1>10, <1>11, <1>12, <1>13, <1>14
     DEF Run, Reserve, Start

(* A removal that is called for a VM being created contests its id.         *)
LEMMA StartRemovalDirInv ==
  TypeOK /\ PidInv /\ DirInv /\ (RemoveVm \/ ClearVms) => DirInv'
<1> SUFFICES ASSUME TypeOK, PidInv, DirInv, RemoveVm \/ ClearVms PROVE DirInv'
  OBVIOUS
<1>0. /\ UNCHANGED <<dir, record, pc, index, pid, qemu, recorded, unstopped>>
      /\ contested \subseteq contested'
      /\ rm'.stopped = {}
  BY RunsStay DEF RemoveVm, ClearVms, StartRemoval, fileVars, runVars
<1>1. RecordInv' /\ OwnDirectory' /\ RecordedVmIsKept'
  BY <1>0 DEF DirInv, RecordInv, OwnDirectory, RecordedVmIsKept, QemuAlive
<1>2. CASE RemoveVm
  <2>1. PICK entry \in Records : StartRemoval({entry}, "one")
    BY <1>2 DEF RemoveVm
  <2>2. PICK i \in Indices : entry = <<i, record[i]>> /\ record[i] # Nobody
    BY <2>1 DEF Records
  <2>3. /\ rm' = [todo |-> {entry}, stopped |-> {}, mode |-> "one"]
        /\ BeingCreated(record[i]) => i \in contested'
    BY <2>1, <2>2 DEF StartRemoval
  <2>4. i \notin contested' => pc[record[i]] \in Over /\ dir[i] = record[i]
    BY <1>0, <2>2, <2>3 DEF BeingCreated, DirInv, RecordInv
  <2>5. RemovalInv'
    BY <1>0, <2>2, <2>3, <2>4 DEF RemovalInv
  <2> QED
    BY <1>1, <2>5 DEF DirInv
<1>3. CASE ClearVms
  <2>1. /\ rm' = [todo |-> Records, stopped |-> {}, mode |-> "all"]
        /\ contested' = Indices
    BY <1>3 DEF ClearVms, StartRemoval, TypeOK
  <2>2. RemovalInv'
    BY <2>1, RecordsTyping DEF RemovalInv, Entry
  <2> QED
    BY <1>1, <2>2 DEF DirInv
<1> QED
  BY <1>2, <1>3

(* A removal that ends, or goes on with its next VM, keeps what it knows of *)
(* the others.                                                              *)
LEMMA EndRemovalInv ==
  ASSUME TypeOK, DirInv, NEW entry \in rm.todo, NEW failed \in BOOLEAN, EndRemoval(entry, failed)
  PROVE  /\ rm'.stopped = {}
         /\ rm'.todo \subseteq rm.todo \ {entry}
         /\ rm'.mode = "idle" => rm'.todo = {}
         /\ rm'.mode \in {"all", "all_failed"} => contested = Indices
<1>1. rm.mode # "idle"
  BY DEF DirInv, RemovalInv
<1>2. rm \in Removal
  BY DEF TypeOK
<1>3. CASE rm.mode = "one"
  BY <1>3 DEF EndRemoval, NoRemoval
<1>4. CASE rm.mode \in {"all", "all_failed"}
  BY <1>4 DEF EndRemoval, DirInv, RemovalInv
<1> QED
  BY <1>1, <1>2, <1>3, <1>4 DEF Removal

(* The steps of a removal touch the directory of the VM they are about.     *)
LEMMA RemoverDirInv == TypeOK /\ PidInv /\ DirInv /\ Remover => DirInv'
<1> SUFFICES ASSUME TypeOK, PidInv, DirInv, Remover PROVE DirInv'
  OBVIOUS
<1>0. UNCHANGED <<pc, index, pid, recorded>>
  BY RunsStay DEF runVars
<1>1. ASSUME NEW entry \in rm.todo, StopVm(entry) PROVE DirInv'
  <2>0. entry[1] \in Indices /\ entry[2] \in Runs /\ UNCHANGED contested
    BY <1>1, RemovalTyping DEF StopVm, Entry
  <2>1. /\ rm' = [rm EXCEPT !.stopped = {entry}]
        /\ dir' = [dir EXCEPT ![entry[1]] = IF @ = Nobody THEN entry[2] ELSE @]
        /\ record' = [record EXCEPT ![entry[1]] = entry[2]]
    BY <1>1 DEF StopVm, PutRecord
  <2>2. rm'.stopped = {entry} /\ rm'.todo = rm.todo /\ rm'.mode = rm.mode
    BY <2>1 DEF TypeOK, Removal
  <2>3. \A s \in Runs : /\ qemu'[s] \in {qemu[s], "dead"}
                        /\ QemuAlive(s)' => (s \in unstopped' <=> s \in unstopped)
    BY <1>1 DEF StopVm, TypeOK, QemuAlive
  <2>4. entry[1] \notin contested =>
          /\ dir[entry[1]] = entry[2]
          /\ pc[entry[2]] \in Over
          /\ \A s \in Runs : index[s] = entry[1] =>
               (s \in recorded \ unstopped /\ QemuAlive(s) /\ pid[s] = "daemon" =>
                  s = entry[2])
    BY RemovedAlone
  <2>5. RecordInv'
    BY <2>0, <2>1, <2>4 DEF DirInv, RecordInv, TypeOK
  <2>6. OwnDirectory'
    BY <1>0, <2>0, <2>1, <2>4 DEF DirInv, OwnDirectory, TypeOK
  <2>7. RecordedVmIsKept'
    BY <1>0, <2>0, <2>1, <2>3, <2>4 DEF DirInv, RecordedVmIsKept, QemuAlive, TypeOK
  <2>8. ~(QemuAlive(entry[2])' /\ pid[entry[2]] = "daemon")
    <3>1. CASE PidAlive(entry[2])
      BY <1>1, <2>0, <3>1 DEF StopVm, Resolved, QemuAlive, TypeOK
    <3>2. CASE ~PidAlive(entry[2])
      BY <2>0, <2>3, <3>2 DEF PidAlive, QemuAlive, PidInv
    <3> QED
      BY <3>1, <3>2
  <2>9. RemovalInv'
    BY <1>0, <2>0, <2>1, <2>2, <2>4, <2>8 DEF DirInv, RemovalInv, TypeOK
  <2> QED
    BY <2>5, <2>6, <2>7, <2>9 DEF DirInv
<1>2. ASSUME NEW entry \in rm.todo, RemoveInstance(entry) PROVE DirInv'
  <2>0. entry[1] \in Indices /\ entry[2] \in Runs /\ UNCHANGED <<contested, qemu, unstopped>>
    BY <1>2, RemovalTyping DEF RemoveInstance, Entry
  <2>1. entry \in rm.stopped /\ EndRemoval(entry, FALSE) /\ RemoveDir(entry[1])
    BY <1>2 DEF RemoveInstance
  <2>2. entry[1] \notin contested =>
          /\ dir[entry[1]] = entry[2]
          /\ \A s \in Runs : index[s] = entry[1] =>
               /\ pc[s] \notin Building
               /\ ~(s \in recorded \ unstopped /\ QemuAlive(s) /\ pid[s] = "daemon")
    BY RemovedAlone, <2>1 DEF DirInv, RemovalInv
  <2>3. RecordInv'
    BY <2>0, <2>1 DEF DirInv, RecordInv, RemoveDir, TypeOK
  <2>4. OwnDirectory'
    BY <1>0, <2>0, <2>1, <2>2 DEF DirInv, OwnDirectory, RemoveDir, TypeOK
  <2>5. RecordedVmIsKept'
    BY <1>0, <2>0, <2>1, <2>2 DEF DirInv, RecordedVmIsKept, QemuAlive, RemoveDir, TypeOK
  <2>6. \A e \in rm.todo : e # entry /\ e[1] \notin contested => e[1] # entry[1]
    BY <2>0, RemovedAlone DEF TypeOK, Removal, Entry
  <2>7. RemovalInv'
    <3>1. /\ rm'.stopped = {}
          /\ rm'.todo \subseteq rm.todo \ {entry}
          /\ rm'.mode = "idle" => rm'.todo = {}
          /\ rm'.mode \in {"all", "all_failed"} => contested = Indices
      BY <2>1, EndRemovalInv
    <3>2. ASSUME NEW e \in rm'.todo, e[1] \notin contested
          PROVE  pc[e[2]] \in Over /\ dir'[e[1]] = e[2] /\ record'[e[1]] = e[2]
      <4>1. e \in rm.todo /\ e[1] # entry[1]
        BY <2>6, <3>1, <3>2
      <4>2. /\ e[1] \in Indices /\ pc[e[2]] \in Over
            /\ dir[e[1]] = e[2] /\ record[e[1]] = e[2]
        BY <3>2, <4>1, RemovedAlone
      <4> QED
        BY <2>1, <4>1, <4>2 DEF RemoveDir, TypeOK
    <3> QED
      BY <1>0, <2>0, <3>1, <3>2 DEF RemovalInv
  <2> QED
    BY <2>3, <2>4, <2>5, <2>7 DEF DirInv
<1>3. ASSUME NEW entry \in rm.todo, RemovalFails(entry) PROVE DirInv'
  <2>0. entry[1] \in Indices /\ entry[2] \in Runs /\ UNCHANGED <<contested, qemu, unstopped, dir>>
    BY <1>3, RemovalTyping DEF RemovalFails, Entry, KeepDir
  <2>1. EndRemoval(entry, TRUE)
    BY <1>3 DEF RemovalFails
  <2>2. RemovalInv'
    <3>1. /\ rm'.stopped = {}
          /\ rm'.todo \subseteq rm.todo \ {entry}
          /\ rm'.mode = "idle" => rm'.todo = {}
          /\ rm'.mode \in {"all", "all_failed"} => contested = Indices
      BY <2>1, EndRemovalInv
    <3>2. ASSUME NEW e \in rm'.todo, e[1] \notin contested
          PROVE  pc[e[2]] \in Over /\ dir[e[1]] = e[2] /\ record'[e[1]] = e[2]
      <4>1. e \in rm.todo /\ e # entry
        BY <3>1
      <4>2. /\ e[1] \in Indices /\ pc[e[2]] \in Over
            /\ dir[e[1]] = e[2] /\ record[e[1]] = e[2]
        BY <3>2, <4>1, RemovedAlone
      <4>3. e[1] # entry[1]
        BY <3>2, <4>1, RemovedAlone DEF TypeOK, Removal, Entry
      <4>4. record'[e[1]] = record[e[1]]
        BY <1>3, <4>2, <4>3 DEF RemovalFails, KeepDir, TypeOK
      <4> QED
        BY <4>2, <4>4
    <3> QED
      BY <1>0, <2>0, <3>1, <3>2 DEF RemovalInv
  <2>3. OwnDirectory'
    BY <1>0, <2>0 DEF DirInv, OwnDirectory
  <2>4. CASE UNCHANGED record
    BY <1>0, <2>0, <2>2, <2>3, <2>4 DEF DirInv, RecordInv, RecordedVmIsKept, QemuAlive
  <2>5. CASE entry \in rm.stopped /\ record' = [record EXCEPT ![entry[1]] = Nobody]
    <3>1. RecordInv'
      BY <2>0, <2>5 DEF DirInv, RecordInv, TypeOK
    <3>2. entry[1] \notin contested => \A s \in Runs :
            index[s] = entry[1] =>
              ~(s \in recorded \ unstopped /\ QemuAlive(s) /\ pid[s] = "daemon")
      BY <2>5, RemovedAlone DEF DirInv, RemovalInv
    <3>3. RecordedVmIsKept'
      BY <1>0, <2>0, <2>5, <3>2 DEF DirInv, RecordedVmIsKept, QemuAlive, TypeOK
    <3> QED
      BY <2>2, <2>3, <3>1, <3>3 DEF DirInv
  <2> QED
    BY <1>3, <2>4, <2>5 DEF RemovalFails, KeepDir
<1>4. CASE Wipe
  <2>1. contested' = Indices /\ rm' = NoRemoval
    BY <1>4 DEF Wipe, DirInv, RemovalInv
  <2>2. RecordInv' /\ OwnDirectory' /\ RecordedVmIsKept'
    BY <1>0, <2>1 DEF RecordInv, OwnDirectory, RecordedVmIsKept, TypeOK
  <2> QED
    BY <2>1, <2>2 DEF DirInv, RemovalInv, NoRemoval
<1>5. CASE GiveUpClearing
  BY <1>0, <1>5 DEF GiveUpClearing, DirInv, RecordInv, OwnDirectory, RecordedVmIsKept, RemovalInv,
                    NoRemoval, QemuAlive, fileVars
<1> QED
  BY <1>1, <1>2, <1>3, <1>4, <1>5 DEF Remover

LEMMA NextDirInv == TypeOK /\ PidInv /\ DirInv /\ [Next]_vars => DirInv'
<1> SUFFICES ASSUME TypeOK, PidInv, DirInv, [Next]_vars PROVE DirInv'
  OBVIOUS
<1>1. CASE UNCHANGED vars
  BY <1>1 DEF vars, fileVars, runVars, rmVars, DirInv, RecordInv, OwnDirectory, RecordedVmIsKept,
              RemovalInv, QemuAlive
<1> QED
  BY <1>1, RunDirInv, StartRemovalDirInv, RemoverDirInv DEF Next

-----------------------------------------------------------------------------
(***************************************************************************)
(* The ids of VMs.                                                         *)
(***************************************************************************)
Owner  == Undisputed(dir)
Listed == Undisputed(record)
Stages == [r \in Runs |-> IdStage(r)]

Asking == Locking \union {"allocate", "mkdir"} \union Reserving

LEMMA InitIds == Init => Instances!Init
<1> SUFFICES ASSUME Init PROVE Instances!Init
  OBVIOUS
<1>1. Undisputed(dir) = [i \in Indices |-> Nobody] /\ Undisputed(record) = [i \in Indices |-> Nobody]
  BY DEF Init, Undisputed
<1>2. [r \in Runs |-> IdStage(r)] = [r \in Runs |-> "asking"]
  BY DEF Init, IdStage, Over, Locking
<1>3. KnownAlive = {} /\ contested = {} /\ unstopped = {}
  BY DEF Init, KnownAlive
<1> QED
  BY <1>1, <1>2, <1>3 DEF Instances!Init

(* A step of a run moves that run alone, and its QEMU.                      *)
LEMMA RunMovesItself ==
  ASSUME TypeOK, NEW r \in Runs, Run(r) \/ Crash(r) \/ Qemu(r)
  PROVE  /\ Stages' = [Stages EXCEPT ![r] = IdStage(r)']
         /\ KnownAlive' \ {r} = KnownAlive \ {r}
<1>1. \A s \in Runs : s # r => pc'[s] = pc[s] /\ pid'[s] = pid[s] /\ qemu'[s] = qemu[s]
  BY OthersStay
<1>2. \A s \in Runs : s # r => IdStage(s)' = IdStage(s)
  BY <1>1 DEF IdStage
<1> QED
  BY <1>1, <1>2 DEF Stages, KnownAlive, QemuAlive

LEMMA FilesStay ==
  ASSUME UNCHANGED <<dir, record, contested>>
  PROVE  Owner' = Owner /\ Listed' = Listed
BY DEF Owner, Listed, Undisputed

(* A step that leaves the files alone.                                      *)
LEMMA QuietStep ==
  ASSUME TypeOK, NEW r \in Runs, Run(r) \/ Crash(r) \/ Qemu(r),
         UNCHANGED <<dir, record, contested, unstopped>>,
         \/ /\ IdStage(r)' = IdStage(r) \/ (IdStage(r) = "asking" /\ IdStage(r)' = "building")
              \/ (IdStage(r) # "over" /\ IdStage(r)' = "over")
            /\ r \in KnownAlive' <=> r \in KnownAlive
         \/ IdStage(r)' = IdStage(r) /\ IdStage(r) = "building" /\ (r \in KnownAlive => r \in KnownAlive')
  PROVE  [Instances!Next]_(Instances!vars)
<1>1. Owner' = Owner /\ Listed' = Listed
  BY FilesStay
<1>2. Stages' = [Stages EXCEPT ![r] = IdStage(r)'] /\ Stages[r] = IdStage(r)
  BY RunMovesItself DEF Stages
<1>3. KnownAlive' \ {r} = KnownAlive \ {r}
  BY RunMovesItself
<1>4. IdStage(r)' = IdStage(r) => Stages' = Stages
  BY <1>2 DEF Stages
<1>5. KnownAlive' = KnownAlive \/ KnownAlive' = KnownAlive \union {r}
  BY <1>3
<1> USE DEF Owner, Listed, Stages
<1>6. CASE IdStage(r)' = IdStage(r)
  <2>1. CASE KnownAlive' = KnownAlive
    BY <1>1, <1>4, <1>6, <2>1 DEF Instances!vars
  <2>2. CASE KnownAlive' = KnownAlive \union {r} /\ KnownAlive' # KnownAlive
    <3>1. IdStage(r) = "building"
      BY <2>2
    <3>2. Instances!Boot(r)
      BY <1>1, <1>2, <1>4, <1>6, <2>2, <3>1 DEF Instances!Boot
    <3> QED
      BY <3>2 DEF Instances!Next
  <2> QED
    BY <1>5, <2>1, <2>2
<1>7. CASE IdStage(r)' # IdStage(r)
  <2>1. KnownAlive' = KnownAlive
    BY <1>5, <1>7
  <2>2. CASE IdStage(r)' = "building"
    <3>1. Instances!Proceed(r)
      BY <1>1, <1>2, <1>7, <2>1, <2>2 DEF Instances!Proceed
    <3> QED
      BY <3>1 DEF Instances!Next
  <2>3. CASE IdStage(r)' = "over"
    <3>1. Instances!End(r)
      BY <1>1, <1>2, <1>7, <2>1, <2>3 DEF Instances!End
    <3> QED
      BY <3>1 DEF Instances!Next
  <2> QED
    BY <1>7, <2>2, <2>3
<1> QED
  BY <1>6, <1>7

(* A run that makes its directory gets an id that nobody has.               *)
LEMMA MakeDirIds ==
  ASSUME TypeOK, PidInv, DirInv, NEW r \in Runs, MakeDir(r)
  PROVE  [Instances!Next]_(Instances!vars)
<1>1. /\ pc[r] = "mkdir" /\ index[r] \in Indices
      /\ UNCHANGED <<record, contested, qemu, pid, unstopped>>
      /\ pc'[r] \in {"unlock", "failing"}
  BY DEF MakeDir, Goto, runVars, rmVars, TypeOK
<1>2. IdStage(r) = "asking" /\ IdStage(r)' = "building"
  BY <1>1 DEF IdStage, Over, Locking, Reserving
<1>3. KnownAlive' = KnownAlive
  BY <1>1 DEF KnownAlive, QemuAlive
<1>4. CASE UNCHANGED dir
  BY <1>1, <1>2, <1>3, <1>4, QuietStep DEF Run
<1>5. CASE dir[index[r]] = Nobody /\ dir' = [dir EXCEPT ![index[r]] = r]
  <2>1. Stages' = [Stages EXCEPT ![r] = "building"] /\ Stages[r] = "asking"
    BY <1>2, RunMovesItself DEF Stages, Run
  <2>2. Listed' = Listed
    BY <1>1 DEF Listed, Undisputed
  <2>3. CASE index[r] \in contested
    <3>1. Owner' = Owner
      BY <1>1, <1>5, <2>3 DEF Owner, Undisputed, TypeOK
    <3>2. Instances!Proceed(r)
      BY <1>1, <1>3, <2>1, <2>2, <3>1 DEF Instances!Proceed, Owner, Listed, Stages
    <3> QED
      BY <3>2 DEF Instances!Next
  <2>4. CASE index[r] \notin contested
    <3>1. Owner' = [Owner EXCEPT ![index[r]] = r] /\ Owner[index[r]] = Nobody
      <4>1. DOMAIN dir = Indices
        BY DEF TypeOK
      <4> QED
        BY <1>1, <1>5, <2>4, <4>1 DEF Owner, Undisputed
    <3>2. Instances!Claim(r, index[r])
      BY <1>1, <1>3, <2>1, <2>2, <2>4, <3>1 DEF Instances!Claim, Owner, Listed, Stages
    <3> QED
      BY <1>1, <3>2 DEF Instances!Next
  <2> QED
    BY <2>3, <2>4
<1> QED
  BY <1>4, <1>5 DEF MakeDir

(* A run whose VM does not run, or does not stop, removes the directory, if *)
(* that is its own.                                                         *)
LEMMA GiveBackIds ==
  ASSUME TypeOK, PidInv, DirInv, NEW r \in Runs, Run(r), pc[r] \in Building, pc'[r] = "failing",
         RemoveDir(index[r]), UNCHANGED contested,
         \/ UNCHANGED unstopped /\ r \notin KnownAlive'
         \/ unstopped' = unstopped \union {r} /\ KnownAlive' = KnownAlive
  PROVE  [Instances!Next]_(Instances!vars)
<1>1. index[r] \in Indices
  BY DEF TypeOK
<1>2. IdStage(r) = "building" /\ IdStage(r)' = "building"
  BY DEF IdStage, Over, Locking, Reserving, Building
<1>3. /\ Stages' = Stages /\ Stages[r] = "building"
      /\ r \notin KnownAlive' => KnownAlive' = KnownAlive \ {r}
  BY <1>2, RunMovesItself DEF Stages
<1>4. CASE index[r] \in contested
  <2>1. /\ Owner' = Owner /\ Listed' = Listed
        /\ Owner' = [Owner EXCEPT ![index[r]] = Nobody]
        /\ Listed' = [Listed EXCEPT ![index[r]] = Nobody]
    <3>1. Owner' = Owner /\ Listed' = Listed
      BY <1>1, <1>4 DEF Owner, Listed, Undisputed, RemoveDir, TypeOK
    <3>2. /\ Owner = [Owner EXCEPT ![index[r]] = Nobody]
          /\ Listed = [Listed EXCEPT ![index[r]] = Nobody]
      BY <1>1, <1>4 DEF Owner, Listed, Undisputed
    <3> QED
      BY <3>1, <3>2
  <2>2. CASE unstopped' = unstopped \union {r} /\ KnownAlive' = KnownAlive
    <3>1. Instances!Abandon(r, index[r])
      BY <1>3, <1>4, <2>1, <2>2 DEF Instances!Abandon, Owner, Listed, Stages
    <3> QED
      BY <1>1, <3>1 DEF Instances!Next
  <2>3. CASE UNCHANGED unstopped /\ r \notin KnownAlive'
    <3>1. unstopped' = unstopped \ {r}
      BY <2>3 DEF PidInv, Building
    <3>2. Instances!Die(r)
      BY <1>3, <2>1, <2>3, <3>1 DEF Instances!Die, Owner, Listed, Stages
    <3> QED
      BY <3>2 DEF Instances!Next
  <2> QED
    BY <2>2, <2>3
<1>5. CASE index[r] \notin contested
  <2>1. dir[index[r]] = r
    BY <1>5, OwnerAlone
  <2>2. /\ Owner' = [Owner EXCEPT ![index[r]] = Nobody]
        /\ Listed' = [Listed EXCEPT ![index[r]] = Nobody]
        /\ Owner[index[r]] = r
    BY <1>1, <1>5, <2>1 DEF Owner, Listed, Undisputed, RemoveDir, TypeOK
  <2>3. CASE unstopped' = unstopped \union {r} /\ KnownAlive' = KnownAlive
    <3>1. Instances!Abandon(r, index[r])
      BY <1>3, <2>2, <2>3 DEF Instances!Abandon, Owner, Listed, Stages
    <3> QED
      BY <1>1, <3>1 DEF Instances!Next
  <2>4. CASE UNCHANGED unstopped /\ r \notin KnownAlive'
    <3>1. Instances!GiveBack(r, index[r])
      BY <1>3, <2>2, <2>4 DEF Instances!GiveBack, Owner, Listed, Stages
    <3> QED
      BY <1>1, <3>1 DEF Instances!Next
  <2> QED
    BY <2>3, <2>4
<1> QED
  BY <1>4, <1>5

(* A run that writes its record does so in its own directory.               *)
LEMMA ListIds ==
  ASSUME TypeOK, PidInv, DirInv, NEW r \in Runs, WriteRecord(r)
  PROVE  [Instances!Next]_(Instances!vars)
<1>1. /\ pc[r] = "record" /\ index[r] \in Indices
      /\ UNCHANGED <<contested, qemu, pid, unstopped>>
      /\ pc'[r] \in {"verify", "failing"}
  BY DEF WriteRecord, Goto, runVars, rmVars, TypeOK
<1>2. IdStage(r) = "building" /\ IdStage(r)' = "building"
  BY <1>1 DEF IdStage, Over, Locking, Reserving
<1>3. Stages' = Stages /\ Stages[r] = "building"
  BY <1>2, RunMovesItself DEF Stages, Run, Start
<1>4. KnownAlive' = KnownAlive
  BY <1>1 DEF KnownAlive, QemuAlive
<1>5. CASE UNCHANGED <<dir, record>>
  BY <1>1, <1>2, <1>4, <1>5, QuietStep DEF Run, Start
<1>6. CASE PutRecord(index[r], r)
  <2>1. CASE index[r] \in contested
    <3>1. Owner' = Owner /\ Listed' = Listed
      BY <1>1, <1>6, <2>1 DEF Owner, Listed, Undisputed, PutRecord, TypeOK
    <3> QED
      BY <1>1, <1>3, <1>4, <3>1 DEF Instances!vars, Owner, Listed, Stages
  <2>2. CASE index[r] \notin contested
    <3>1. dir[index[r]] = r
      BY <1>1, <2>2, OwnerAlone DEF Building
    <3>2. Owner' = Owner /\ Listed' = [Listed EXCEPT ![index[r]] = r] /\ Owner[index[r]] = r
      <4>1. DOMAIN dir = Indices /\ DOMAIN record = Indices /\ r # Nobody
        BY DEF TypeOK
      <4>2. dir' = [dir EXCEPT ![index[r]] = r] /\ record' = [record EXCEPT ![index[r]] = r]
        BY <1>6, <3>1, <4>1 DEF PutRecord
      <4>3. Owner' = Owner
        BY <1>1, <3>1, <4>1, <4>2 DEF Owner, Undisputed
      <4>4. Listed' = [Listed EXCEPT ![index[r]] = r]
        BY <1>1, <2>2, <4>1, <4>2 DEF Listed, Undisputed
      <4> QED
        BY <1>1, <2>2, <3>1, <4>3, <4>4 DEF Owner, Undisputed
    <3>3. Instances!List(r, index[r])
      BY <1>1, <1>3, <1>4, <3>2 DEF Instances!List, Owner, Listed, Stages
    <3> QED
      BY <1>1, <3>3 DEF Instances!Next
  <2> QED
    BY <2>1, <2>2
<1> QED
  BY <1>5, <1>6 DEF WriteRecord

LEMMA RunIds ==
  ASSUME TypeOK, PidInv, DirInv, NEW r \in Runs, Run(r) \/ Crash(r) \/ Qemu(r)
  PROVE  [Instances!Next]_(Instances!vars)
<1> DEFINE Quiet ==
      /\ UNCHANGED <<dir, record, contested, unstopped>>
      /\ \/ /\ IdStage(r)' = IdStage(r) \/ (IdStage(r) = "asking" /\ IdStage(r)' = "building")
              \/ (IdStage(r) # "over" /\ IdStage(r)' = "over")
            /\ r \in KnownAlive' <=> r \in KnownAlive
         \/ IdStage(r)' = IdStage(r) /\ IdStage(r) = "building" /\ (r \in KnownAlive => r \in KnownAlive')
<1>0. Quiet => [Instances!Next]_(Instances!vars)
  BY QuietStep
<1>a. ASSUME UNCHANGED <<qemu, pid>> PROVE KnownAlive' = KnownAlive
  BY <1>a DEF KnownAlive, QemuAlive
<1>b. pid[r] = "daemon" => qemu[r] \in {"up", "dead"}
  BY DEF PidInv
<1> USE DEF At, Goto, fileVars, lockVars, runVars, rmVars
<1>1. ASSUME Lock(r) \/ Allocate(r) \/ Reserve(r) PROVE Quiet
  <2>1. /\ pc[r] \in Asking /\ pc'[r] \in Asking \union {"failing"}
        /\ UNCHANGED <<dir, record, contested, qemu, pid, unstopped>>
    <3>1. CASE Lock(r)
      BY <3>1 DEF Lock, MakeLockDir, TryLock, InspectLock, ReclaimLock, StampLock, Asking, Locking,
           TypeOK
    <3>2. CASE Allocate(r)
      BY <3>2 DEF Allocate, Asking, Reserving, TypeOK
    <3>3. CASE Reserve(r)
      BY <3>3 DEF Reserve, InspectPortLock, ReclaimPortLock, CreatePortLock, ProbePort, StampPortLock,
           TryNextPort, Asking, Reserving, TypeOK
    <3> QED
      BY <1>1, <3>1, <3>2, <3>3
  <2>2. IdStage(r) = "asking" /\ IdStage(r)' \in {"asking", "building"}
    BY <2>1 DEF IdStage, Asking, Over, Locking, Reserving
  <2> QED
    BY <1>a, <2>1, <2>2
<1>2. ASSUME Unlock(r) \/ SpawnQemu(r) \/ PollPidFile(r) \/ WaitForParent(r) \/ VerifySucceeds(r)
      PROVE  Quiet
  <2>1. /\ pc[r] \in Building /\ pc'[r] \in Building \union {"failing", "succeeding"}
        /\ UNCHANGED <<dir, record, contested, unstopped>>
        /\ r \in KnownAlive => r \in KnownAlive'
    BY <1>b, <1>2 DEF Unlock, SpawnQemu, PollPidFile, TakePid, WaitForParent, VerifySucceeds, Building,
                      TypeOK, KnownAlive, QemuAlive, PidInv
  <2>2. IdStage(r) = "building" /\ IdStage(r)' = "building"
    BY <2>1 DEF IdStage, Over, Locking, Reserving, Building
  <2> QED
    BY <2>1, <2>2
<1>3. ASSUME Return(r) PROVE Quiet
  <2>1. /\ pc[r] \in {"failing", "succeeding"}
        /\ pc'[r] = pc[r] \/ pc'[r] \in {"failed", "done"}
        /\ UNCHANGED <<dir, record, contested, qemu, pid, unstopped>>
    BY <1>3 DEF Return, TypeOK
  <2>2. IdStage(r) = "building" /\ IdStage(r)' \in {"building", "over"}
    BY <2>1 DEF IdStage, Over, Locking, Reserving
  <2> QED
    BY <1>a, <2>1, <2>2
<1>4. ASSUME Crash(r) PROVE Quiet
  <2>1. /\ pc[r] \notin Over /\ pc'[r] = "crashed"
        /\ UNCHANGED <<dir, record, contested, qemu, pid, unstopped>>
    BY <1>4 DEF Crash, TypeOK
  <2>2. IdStage(r) # "over" /\ IdStage(r)' = "over"
    BY <2>1 DEF IdStage, Over
  <2> QED
    BY <1>a, <2>1, <2>2
<1>5. ASSUME QemuComesUp(r) PROVE Quiet
  <2>1. /\ UNCHANGED <<dir, record, contested, pc, pid, unstopped>>
        /\ r \notin KnownAlive /\ r \notin KnownAlive'
    BY <1>b, <1>5 DEF QemuComesUp, KnownAlive, QemuAlive, TypeOK
  <2>2. IdStage(r)' = IdStage(r)
    BY <2>1 DEF IdStage
  <2> QED
    BY <2>1, <2>2
<1>9. ASSUME QemuEnds(r) PROVE [Instances!Next]_(Instances!vars)
  <2>1. /\ UNCHANGED <<dir, record, contested, pc, pid>> /\ unstopped' = unstopped \ {r}
        /\ r \notin KnownAlive'
    BY <1>9 DEF QemuEnds, KnownAlive, QemuAlive, TypeOK
  <2>2. KnownAlive' = KnownAlive \ {r} /\ Stages' = Stages
    BY <1>9, <2>1, RunMovesItself DEF Qemu, Stages, IdStage
  <2>3. Instances!Die(r)
    BY <2>1, <2>2, FilesStay DEF Instances!Die, Owner, Listed, Stages
  <2> QED
    BY <2>3 DEF Instances!Next
<1>6. ASSUME PrepareFails(r) \/ CheckRunning(r) PROVE [Instances!Next]_(Instances!vars)
  <2>1. /\ pc[r] \in {"prepare", "settle"} /\ pc'[r] \in {"failing", "record"}
        /\ UNCHANGED <<contested, qemu, pid, unstopped>>
        /\ KeepDir \/ (RemoveDir(index[r]) /\ pc'[r] = "failing")
        /\ RemoveDir(index[r]) => KeepDir \/ ~PidAlive(r) \/ pid[r] = "none"
    BY <1>6 DEF PrepareFails, CheckRunning, TypeOK, PidInv
  <2>2. IdStage(r) = "building" /\ IdStage(r)' = "building"
    BY <2>1 DEF IdStage, Over, Locking, Reserving
  <2>3. CASE KeepDir
    BY <1>0, <1>a, <2>1, <2>2, <2>3 DEF KeepDir
  <2>4. CASE ~KeepDir
    <3>1. r \notin KnownAlive'
      BY <1>b, <2>1, <2>4 DEF KnownAlive, QemuAlive, PidAlive
    <3> QED
      BY <1>6, <2>1, <2>4, <3>1, GiveBackIds DEF Building, Run, Start
  <2> QED
    BY <2>3, <2>4
<1>7. ASSUME VerifyFails(r) PROVE [Instances!Next]_(Instances!vars)
  <2>1. /\ pc[r] = "verify" /\ pc'[r] = "failing" /\ RemoveDir(index[r])
        /\ UNCHANGED <<contested, pid>>
        /\ \/ qemu'[r] = (IF PidAlive(r) THEN "dead" ELSE qemu[r]) /\ UNCHANGED unstopped
           \/ UNCHANGED qemu /\ unstopped' = unstopped \union {r}
    BY <1>7 DEF VerifyFails, TypeOK
  <2>2. \/ r \notin KnownAlive' /\ UNCHANGED unstopped
        \/ KnownAlive' = KnownAlive /\ unstopped' = unstopped \union {r}
    BY <1>a, <1>b, <2>1 DEF KnownAlive, QemuAlive, PidAlive
  <2> QED
    BY <1>7, <2>1, <2>2, GiveBackIds DEF Building, Run, Start
<1>8. MakeDir(r) \/ WriteRecord(r) => [Instances!Next]_(Instances!vars)
  BY MakeDirIds, ListIds
<1> HIDE DEF Quiet
<1> QED
  BY <1>0, <1>1, <1>2, <1>3, <1>4, <1>5, <1>6, <1>7, <1>8, <1>9 DEF Run, Start, Qemu

(* A removal disputes ids, or removes a VM that is over and stopped.        *)
LEMMA RemovalIds ==
  ASSUME TypeOK, PidInv, DirInv, RemoveVm \/ ClearVms \/ Remover
  PROVE  [Instances!Next]_(Instances!vars)
<1>0. UNCHANGED <<pc, pid>> /\ Stages' = Stages
  BY RunsStay DEF runVars, Stages, IdStage
<1>1. ASSUME RemoveVm \/ ClearVms PROVE [Instances!Next]_(Instances!vars)
  <2>1. PICK ids \in SUBSET Indices : contested' = contested \union ids
    <3>1. contested \subseteq contested' /\ contested' \subseteq Indices
      BY <1>1, RunsStay, NextType DEF Next, TypeOK
    <3>2. contested' = contested \union contested'
      BY <3>1
    <3> QED
      BY <3>1, <3>2
  <2>2. UNCHANGED <<dir, record, qemu, unstopped>>
    BY <1>1 DEF RemoveVm, ClearVms, StartRemoval, fileVars
  <2>3. /\ Owner' = [i \in Indices |-> IF i \in ids THEN Nobody ELSE Owner[i]]
        /\ Listed' = [i \in Indices |-> IF i \in ids THEN Nobody ELSE Listed[i]]
    BY <2>1, <2>2 DEF Owner, Listed, Undisputed
  <2>4. KnownAlive' = KnownAlive
    BY <1>0, <2>2 DEF KnownAlive, QemuAlive
  <2>5. Instances!Dispute(ids)
    BY <1>0, <2>1, <2>2, <2>3, <2>4 DEF Instances!Dispute, Owner, Listed, Stages
  <2> QED
    BY <2>5 DEF Instances!Next
<1>2. ASSUME NEW entry \in rm.todo, StopVm(entry) PROVE [Instances!Next]_(Instances!vars)
  <2>1. entry[1] \in Indices /\ entry[2] \in Runs /\ UNCHANGED contested
    BY <1>2, RemovalTyping DEF StopVm, Entry
  <2>2. PutRecord(entry[1], entry[2])
    BY <1>2 DEF StopVm
  <2>3. entry[1] \notin contested => dir[entry[1]] = entry[2] /\ record[entry[1]] = entry[2]
    BY RemovedAlone
  <2>4. Owner' = Owner /\ Listed' = Listed
    BY <2>1, <2>2, <2>3 DEF PutRecord, Owner, Listed, Undisputed, TypeOK
  <2>5. CASE UNCHANGED <<qemu, unstopped>>
    <3>1. KnownAlive' = KnownAlive
      BY <1>0, <2>5 DEF KnownAlive, QemuAlive
    <3> QED
      BY <1>0, <2>1, <2>4, <2>5, <3>1 DEF Instances!vars, Owner, Listed, Stages
  <2>6. CASE \E s \in Resolved(entry[1], entry[2]) :
               qemu' = [qemu EXCEPT ![s] = "dead"] /\ unstopped' = unstopped \ {s}
    <3>1. PICK s \in Runs : qemu' = [qemu EXCEPT ![s] = "dead"] /\ unstopped' = unstopped \ {s}
      BY <2>1, <2>6 DEF Resolved
    <3>2. KnownAlive' = KnownAlive \ {s}
      BY <1>0, <3>1 DEF KnownAlive, QemuAlive, TypeOK
    <3>3. Instances!Die(s)
      BY <1>0, <2>1, <2>4, <3>1, <3>2 DEF Instances!Die, Owner, Listed, Stages
    <3> QED
      BY <3>3 DEF Instances!Next
  <2> QED
    BY <1>2, <2>5, <2>6 DEF StopVm
<1>3. ASSUME NEW entry \in rm.todo, RemoveInstance(entry) \/ RemovalFails(entry)
      PROVE  [Instances!Next]_(Instances!vars)
  <2> DEFINE i == entry[1]
  <2>1. i \in Indices /\ entry[2] \in Runs /\ UNCHANGED <<contested, qemu, unstopped>>
    BY <1>3, RemovalTyping DEF RemoveInstance, RemovalFails, Entry
  <2>2. KnownAlive' = KnownAlive
    BY <1>0, <2>1 DEF KnownAlive, QemuAlive
  <2>3. \/ KeepDir
        \/ entry \in rm.stopped /\ RemoveDir(i)
        \/ entry \in rm.stopped /\ record' = [record EXCEPT ![i] = Nobody] /\ UNCHANGED dir
    BY <1>3 DEF RemoveInstance, RemovalFails
  <2>4. CASE KeepDir \/ i \in contested
    <3>1. Owner' = Owner /\ Listed' = Listed
      BY <2>1, <2>3, <2>4 DEF KeepDir, RemoveDir, Owner, Listed, Undisputed, TypeOK
    <3> QED
      BY <1>0, <2>1, <2>2, <3>1 DEF Instances!vars, Owner, Listed, Stages
  <2>5. CASE ~KeepDir /\ i \notin contested
    <3>1. /\ record[i] = entry[2] /\ pc[entry[2]] \in Over /\ entry[2] # Nobody
          /\ entry[2] \notin KnownAlive
      BY <2>1, <2>3, <2>5, RemovedAlone DEF KnownAlive, DirInv, RemovalInv
    <3>2. Instances!Removable(i)
      BY <2>1, <2>5, <3>1 DEF Instances!Removable, Undisputed, IdStage
    <3>3. CASE RemoveDir(i)
      <4>1. /\ Owner' = [Owner EXCEPT ![i] = Nobody]
            /\ Listed' = [Listed EXCEPT ![i] = Nobody]
        BY <2>1, <2>5, <3>3 DEF RemoveDir, Owner, Listed, Undisputed, TypeOK
      <4>2. Instances!Remove(i)
        BY <1>0, <2>1, <2>2, <3>2, <4>1 DEF Instances!Remove, Owner, Listed, Stages
      <4> QED
        BY <2>1, <4>2 DEF Instances!Next
    <3>4. CASE record' = [record EXCEPT ![i] = Nobody] /\ UNCHANGED dir
      <4>1. Owner' = Owner /\ Listed' = [Listed EXCEPT ![i] = Nobody]
        BY <2>1, <2>5, <3>4 DEF Owner, Listed, Undisputed, TypeOK
      <4>2. Instances!Unlist(i)
        BY <1>0, <2>1, <2>2, <3>2, <4>1 DEF Instances!Unlist, Owner, Listed, Stages
      <4> QED
        BY <2>1, <4>2 DEF Instances!Next
    <3> QED
      BY <2>3, <2>5, <3>3, <3>4
  <2> QED
    BY <2>4, <2>5
<1>4. ASSUME Wipe \/ GiveUpClearing PROVE [Instances!Next]_(Instances!vars)
  <2>1. contested = Indices \/ UNCHANGED <<dir, record>>
    BY <1>4 DEF Wipe, GiveUpClearing, DirInv, RemovalInv, fileVars
  <2>2. UNCHANGED <<contested, qemu, unstopped>>
    BY <1>4 DEF Wipe, GiveUpClearing
  <2>3. Owner' = Owner /\ Listed' = Listed
    BY <2>1, <2>2 DEF Owner, Listed, Undisputed
  <2>4. KnownAlive' = KnownAlive
    BY <1>0, <2>2 DEF KnownAlive, QemuAlive
  <2> QED
    BY <1>0, <2>2, <2>3, <2>4 DEF Instances!vars, Owner, Listed, Stages
<1> QED
  BY <1>1, <1>2, <1>3, <1>4 DEF Remover

LEMMA NextIds ==
  TypeOK /\ PidInv /\ DirInv /\ [Next]_vars => [Instances!Next]_(Instances!vars)
<1> SUFFICES ASSUME TypeOK, PidInv, DirInv, [Next]_vars PROVE [Instances!Next]_(Instances!vars)
  OBVIOUS
<1>1. CASE UNCHANGED vars
  BY <1>1 DEF vars, fileVars, runVars, rmVars, Instances!vars, Undisputed, IdStage, KnownAlive,
              QemuAlive
<1> QED
  BY <1>1, RunIds, RemovalIds DEF Next

-----------------------------------------------------------------------------
(* The invariant the properties below follow from: guards, port files,      *)
(* pids, directories, records and the removal under way agree, whatever the *)
(* runs, `vm rm`, crashes and QEMU do, and in any order.                    *)
THEOREM CreationInvariance == Spec => []CreationInv
<1>1. CreationInv /\ [Next]_vars => CreationInv'
  <2> SUFFICES ASSUME CreationInv, [Next]_vars PROVE CreationInv'
    OBVIOUS
  <2>1. TypeOK /\ GuardInv /\ PortInv /\ PidInv /\ DirInv /\ RemovalInv
    BY DEF CreationInv, DirInv
  <2>2. TypeOK' /\ GuardInv' /\ PortInv' /\ PidInv' /\ DirInv'
    BY <2>1, NextType, NextGuardInv, NextPortInv, NextPidInv, NextDirInv
  <2> QED
    BY <2>2 DEF CreationInv, DirInv
<1> QED
  BY <1>1, InitCreationInv, PTL DEF Spec

(* Every variable keeps its type.                                           *)
THEOREM CreationTypeCorrect == Spec => []TypeOK
<1>1. CreationInv => TypeOK
  BY DEF CreationInv
<1> QED
  BY <1>1, CreationInvariance, PTL

(* create_dir gives a run its id for good although the creation lock does   *)
(* not exclude: nobody takes the directory, except a removal of a VM that   *)
(* was still being created.                                                 *)
THEOREM DirectoryIsOwn == Spec => []OwnDirectory
<1>1. CreationInv => OwnDirectory
  BY DEF CreationInv
<1> QED
  BY <1>1, CreationInvariance, PTL

(* Two runs reserve the same port only if the creation lock failed to keep  *)
(* them apart, or all lock files were removed by a call that clears all.    *)
THEOREM PortsStayDistinct == Spec => []PortsDistinct
<1>1. CreationInv => PortsDistinct
  BY DEF CreationInv, TypeOK, PortInv, PortFile, PortsDistinct
<1> QED
  BY <1>1, CreationInvariance, PTL

(* A recorded VM whose QEMU runs stays on record under its id, unless the   *)
(* run gave it up when SSH failed and could not stop it.                    *)
THEOREM RecordedVmsAreKept == Spec => []RecordedVmIsKept
<1>1. CreationInv => RecordedVmIsKept
  BY DEF CreationInv
<1> QED
  BY <1>1, CreationInvariance, PTL

(* A removal never stops the VM of a run that is creating it or returned    *)
(* it, unless that is the VM to remove: any other QEMU with its id was left *)
(* behind by a run that failed or was killed.                               *)
THEOREM RemovalsStopTheirVm == Spec => RemovalStopsItsVm
<1> DEFINE Spared ==
      \A entry \in rm'.stopped \ rm.stopped, s \in Runs :
        /\ entry[1] \notin contested
        /\ QemuAlive(s) /\ ~QemuAlive(s)'
        => s = entry[2] \/ pc[s] \in {"failing", "failed", "crashed"}
<1>1. CreationInv /\ [Next]_vars => [Spared]_vars
  <2> SUFFICES ASSUME CreationInv, Next, NEW entry \in rm'.stopped \ rm.stopped, NEW s \in Runs,
                      entry[1] \notin contested, QemuAlive(s), ~QemuAlive(s)'
               PROVE  s = entry[2] \/ pc[s] \in {"failing", "failed", "crashed"}
    OBVIOUS
  <2>1. TypeOK /\ PidInv /\ DirInv
    BY DEF CreationInv, DirInv
  <2>2. entry \in rm.todo /\ StopVm(entry)
    <3>1. ASSUME NEW r \in Runs, Run(r) \/ Crash(r) \/ Qemu(r) PROVE UNCHANGED rm
      BY <3>1, RunsLeaveRemoval
    <3>2. ~(RemoveVm \/ ClearVms)
      BY DEF RemoveVm, ClearVms, StartRemoval
    <3>3. \E e \in rm.todo : StopVm(e) \/ RemoveInstance(e) \/ RemovalFails(e)
      BY <3>1, <3>2 DEF Next, Remover, Wipe, GiveUpClearing, NoRemoval
    <3>4. ASSUME NEW e \in rm.todo, RemoveInstance(e) \/ RemovalFails(e) PROVE FALSE
      BY <3>4 DEF RemoveInstance, RemovalFails, EndRemoval, NoRemoval
    <3>5. PICK e \in rm.todo : StopVm(e)
      BY <3>3, <3>4
    <3>6. rm'.stopped = {e}
      BY <2>1, <3>5 DEF StopVm, TypeOK, Removal
    <3> QED
      BY <3>5, <3>6
  <2>3. entry[1] \in Indices /\ entry[2] \in Runs
    BY <2>1, <2>2, RemovalTyping DEF Entry
  <2>4. s = entry[2] \/ index[s] = entry[1]
    BY <2>1, <2>2 DEF StopVm, Resolved, QemuAlive, TypeOK
  <2>5. dir[entry[1]] = entry[2] /\ record[entry[1]] = entry[2]
    BY <2>1, <2>2, RemovedAlone
  <2>6. CASE pc[s] \in Building
    BY <2>4, <2>5, <2>6 DEF CreationInv, OwnDirectory
  <2>7. CASE pc[s] \in {"succeeding", "done"}
    <3>1. s \in recorded \ unstopped /\ pid[s] = "daemon"
      BY <2>1, <2>7 DEF PidInv
    <3> QED
      BY <2>4, <2>5, <3>1 DEF CreationInv, RecordedVmIsKept
  <2>8. pc[s] \notin Locking \union {"allocate"} \union Reserving \union {"mkdir"}
    BY <2>1 DEF PidInv, Critical, QemuAlive
  <2> QED
    BY <2>1, <2>6, <2>7, <2>8 DEF TypeOK, Stage, Over
<1> QED
  BY <1>1, CreationInvariance, PTL DEF Spec, RemovalStopsItsVm

(* The directories and records are those of VmIds: whatever the runs, their *)
(* lock, crashes, QEMU and `vm rm` do, each id that is not disputed is of   *)
(* one run, which alone gives it back, or of a stopped VM that is removed;  *)
(* a VM that runs on without an id is one that its run could not stop.      *)
THEOREM IdsAreKept == Spec => ImplementsIds
<1>1. CreationInv /\ [Next]_vars => [Instances!Next]_(Instances!vars)
  BY NextIds DEF CreationInv, DirInv
<1> QED
  BY <1>1, InitIds, CreationInvariance, PTL DEF Spec, ImplementsIds, Instances!Spec
=============================================================================
