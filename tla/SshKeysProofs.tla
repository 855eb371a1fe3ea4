--------------------------- MODULE SshKeysProofs ---------------------------
(***************************************************************************)
(* Theorems about module SshKeys, for any number of runs, of attempts and  *)
(* of calls of `vm rm`.                                                    *)
(***************************************************************************)
EXTENDS SshKeys, TLAPS

USE RunsAssumption, KeyAssumption

LEMMA NoRemovalTyping == NoRemoval \in Removals
BY DEF NoRemoval, Removals

LEMMA ContinueTyping ==
  ASSUME rm \in Removals, NEW vms \in SUBSET Vms
  PROVE  Continue(vms) \in Removals
BY DEF Continue, Removals, NoRemoval

LEMMA InitKeyInv == KeyInit => KeyInv
<1> SUFFICES ASSUME KeyInit PROVE KeyInv
  OBVIOUS
<1> USE DEF KeyInit, NoRemoval
<1>1. KeyTypeOK
  <2>1. /\ keys_dir \in BOOLEAN /\ lost \in BOOLEAN /\ cleared \in BOOLEAN
        /\ early \subseteq Runs /\ late \subseteq Runs
    BY Zenon
  <2>2. /\ private \in Keys \union {NoKey}
        /\ public \in Keys \union {NoKey, Blank}
        /\ recorded \subseteq Vms
        /\ authorized \in [Vms -> Keys \union {NoKey, Blank}]
    BY DEF Keys, Vms
  <2>3. /\ key_lock \in Runs \union {Nobody}
        /\ stage \in [Runs -> Stages]
        /\ removals \in 0 .. MaxRemovals
    BY DEF Stages
  <2>4. /\ attempts \in [Runs -> Nat]
        /\ \A r \in Runs : attempts[r] = 0
    OBVIOUS
  <2> QED
    BY <2>1, <2>2, <2>3, <2>4, NoRemovalTyping DEF KeyTypeOK
<1>2. RemovalInv /\ LockInv
  BY DEF RemovalInv, LockInv, Locked
<1>3. PairInv
  BY DEF PairInv, HasKey
<1>4. VerifiedVmKeepsKey
  <2> SUFFICES ASSUME NEW r \in recorded PROVE Accepts(r)
    BY DEF VerifiedVmKeepsKey
  <2>1. r = Before /\ private = Before /\ authorized[r] = Before
    BY DEF Vms
  <2> QED
    BY <2>1 DEF Accepts, Keys, Vms
<1> QED
  BY <1>1, <1>2, <1>3, <1>4 DEF KeyInv

LEMMA NextType == KeyTypeOK /\ [KeyNext]_sshVars => KeyTypeOK'
<1> SUFFICES ASSUME KeyTypeOK, [KeyNext]_sshVars PROVE KeyTypeOK'
  OBVIOUS
<1> USE DEF KeyTypeOK, keyVars, runVars, rmVars, histVars, At, Authorize, Keys, Vms, Stages
<1>1. ASSUME NEW r \in Runs, LookForKey(r) PROVE KeyTypeOK'
  BY <1>1 DEF LookForKey
<1>2. ASSUME NEW r \in Runs, ReadPublic(r) PROVE KeyTypeOK'
  BY <1>2 DEF ReadPublic
<1>3. ASSUME NEW r \in Runs, TakeLock(r) PROVE KeyTypeOK'
  <2>1. /\ attempts' \in [Runs -> Nat]
        /\ \A s \in Runs : s # r => attempts'[s] = attempts[s] /\ stage'[s] = stage[s]
        /\ stage'[r] \in {"recheck", "lock", "err"}
    BY <1>3 DEF TakeLock
  <2>2. stage'[r] = "lock" => attempts'[r] < MaxAttempts
    BY <1>3 DEF TakeLock
  <2> QED
    BY <1>3, <2>1, <2>2 DEF TakeLock
<1>4. ASSUME NEW r \in Runs, LookAgain(r) PROVE KeyTypeOK'
  BY <1>4 DEF LookAgain
<1>5. ASSUME NEW r \in Runs, ReadLocked(r) PROVE KeyTypeOK'
  BY <1>5 DEF ReadLocked
<1>6. ASSUME NEW r \in Runs, WritePrivate(r) PROVE KeyTypeOK'
  BY <1>6 DEF WritePrivate
<1>7. ASSUME NEW r \in Runs, CreatePublic(r) PROVE KeyTypeOK'
  BY <1>7 DEF CreatePublic
<1>8. ASSUME NEW r \in Runs, WritePublic(r) PROVE KeyTypeOK'
  BY <1>8 DEF WritePublic
<1>9. ASSUME NEW r \in Runs, Unlock(r) PROVE KeyTypeOK'
  BY <1>9 DEF Unlock
<1>10. ASSUME NEW r \in Runs, RecordVm(r) PROVE KeyTypeOK'
  BY <1>10 DEF RecordVm
<1>11. ASSUME NEW r \in Runs, VerifyVm(r) PROVE KeyTypeOK'
  <2>1. stage' \in [Runs -> Stages]
    BY <1>11 DEF VerifyVm
  <2>2. /\ recorded' \subseteq Vms
        /\ \A s \in Runs : s # r => stage'[s] = stage[s]
        /\ stage'[r] \in {"up", "err"}
    BY <1>11 DEF VerifyVm
  <2> QED
    BY <1>11, <2>1, <2>2 DEF VerifyVm
<1>12. ASSUME NEW r \in Runs, RequireVm(r) PROVE KeyTypeOK'
  BY <1>12 DEF RequireVm
<1>13. ASSUME NEW r \in Runs, Connect(r) PROVE KeyTypeOK'
  <2>1. /\ attempts' \in [Runs -> Nat]
        /\ \A s \in Runs : s # r => attempts'[s] = attempts[s] /\ stage'[s] = stage[s]
        /\ stage'[r] \in {"in", "connect", "refused"}
    BY <1>13 DEF Connect
  <2>2. stage'[r] = "connect" => attempts'[r] < MaxRetries
    BY <1>13 DEF Connect
  <2> QED
    BY <1>13, <2>1, <2>2 DEF Connect
<1>14. ASSUME NEW r \in Runs, KillRun(r) PROVE KeyTypeOK'
  BY <1>14 DEF KillRun
<1>15. CASE ListRecords
  <2>1. rm' \in Removals
    <3>1. ASSUME NEW vm \in recorded, NEW keep \in BOOLEAN, ListOne(vm, keep)
          PROVE  rm' \in Removals
      BY <3>1 DEF ListOne, Removals
    <3>2. CASE ListAll
      BY <3>2 DEF ListAll, Removals
    <3> QED
      BY <1>15, <3>1, <3>2 DEF ListRecords
  <2>2. removals' \in 0 .. MaxRemovals
    BY <1>15 DEF ListRecords
  <2>3. cleared' \in BOOLEAN
    BY <1>15, Zenon DEF ListRecords, ListOne, ListAll
  <2> QED
    BY <1>15, <2>1, <2>2, <2>3 DEF ListRecords
<1>16. CASE RemoveVm
  <2>1. rm' \in Removals
    <3>1. PICK vm \in rm.vms :
            \/ rm' = Continue(rm.vms \ {vm})
            \/ rm' = [rm EXCEPT !.stage = "private", !.vms = @ \ {vm}]
            \/ rm' = NoRemoval
            \/ rm' = [rm EXCEPT !.vms = @ \ {vm}, !.all = FALSE]
      BY <1>16 DEF RemoveVm
    <3>2. rm.vms \ {vm} \in SUBSET Vms
      BY DEF Removals
    <3>3. CASE rm' = [rm EXCEPT !.stage = "private", !.vms = @ \ {vm}]
      BY <3>2, <3>3 DEF Removals
    <3>4. CASE rm' = [rm EXCEPT !.vms = @ \ {vm}, !.all = FALSE]
      BY <3>2, <3>4 DEF Removals
    <3>5. CASE rm' = Continue(rm.vms \ {vm})
      <4>1. rm \in Removals
        OBVIOUS
      <4> QED
        BY <3>2, <3>5, <4>1, ContinueTyping
    <3> QED
      BY <3>1, <3>3, <3>4, <3>5, NoRemovalTyping
  <2> QED
    BY <1>16, <2>1 DEF RemoveVm
<1>17. CASE RemovePrivate
  BY <1>17 DEF RemovePrivate, Removals
<1>18. CASE RemovePublic
  BY <1>18 DEF RemovePublic, Removals, Continue, NoRemoval
<1>19. CASE WipeInstances
  BY <1>19 DEF WipeInstances, Removals
<1>20. CASE WipeKeys
  BY <1>20 DEF WipeKeys, Removals, NoRemoval
<1>21. CASE UNCHANGED sshVars
  BY <1>21 DEF sshVars
<1> QED
  BY <1>1, <1>2, <1>3, <1>4, <1>5, <1>6, <1>7, <1>8, <1>9, <1>10, <1>11, <1>12, <1>13, <1>14,
     <1>15, <1>16, <1>17, <1>18, <1>19, <1>20, <1>21 DEF KeyNext, KeyStep, RemovalStep

-----------------------------------------------------------------------------
(***************************************************************************)
(* Frames: what the steps of a run and those of `vm rm` do not touch.      *)
(***************************************************************************)
LEMMA RunFrame ==
  ASSUME KeyTypeOK, NEW r \in Runs, KeyStep(r) \/ KillRun(r)
  PROVE  /\ UNCHANGED <<rm, removals, lost, cleared>>
         /\ \A s \in Runs : s # r => stage'[s] = stage[s]
         /\ \A s \in Vms : s # r => authorized'[s] = authorized[s]
<1> USE DEF KeyTypeOK, keyVars, rmVars, histVars, At, Authorize, Vms
<1>1. CASE LookForKey(r) \/ ReadPublic(r) \/ TakeLock(r) \/ LookAgain(r) \/ ReadLocked(r)
  BY <1>1 DEF LookForKey, ReadPublic, TakeLock, LookAgain, ReadLocked
<1>2. CASE WritePrivate(r) \/ CreatePublic(r) \/ WritePublic(r) \/ Unlock(r)
  BY <1>2 DEF WritePrivate, CreatePublic, WritePublic, Unlock
<1>3. CASE RecordVm(r) \/ VerifyVm(r) \/ RequireVm(r) \/ Connect(r) \/ KillRun(r)
  BY <1>3 DEF RecordVm, VerifyVm, RequireVm, Connect, KillRun
<1> QED
  BY <1>1, <1>2, <1>3 DEF KeyStep

(* A VM that comes on record under a removal of the last one is late.       *)
LEMMA RecordFrame ==
  ASSUME KeyTypeOK, NEW r \in Runs, KeyStep(r) \/ KillRun(r)
  PROVE  /\ late \subseteq late'
         /\ recorded' \subseteq recorded \union {r}
         /\ rm.stage # "none" /\ ~rm.keep => recorded' \subseteq recorded \union late'
<1> USE DEF KeyTypeOK, keyVars, rmVars, histVars
<1>1. CASE LookForKey(r) \/ ReadPublic(r) \/ TakeLock(r) \/ LookAgain(r) \/ ReadLocked(r)
  BY <1>1 DEF LookForKey, ReadPublic, TakeLock, LookAgain, ReadLocked
<1>2. CASE WritePrivate(r) \/ CreatePublic(r) \/ WritePublic(r) \/ Unlock(r)
  BY <1>2 DEF WritePrivate, CreatePublic, WritePublic, Unlock
<1>3. CASE RecordVm(r)
  BY <1>3 DEF RecordVm
<1>4. CASE VerifyVm(r) \/ RequireVm(r) \/ Connect(r) \/ KillRun(r)
  BY <1>4 DEF VerifyVm, RequireVm, Connect, KillRun
<1> QED
  BY <1>1, <1>2, <1>3, <1>4 DEF KeyStep

LEMMA RemovalFrame ==
  ASSUME KeyTypeOK, RemovalStep
  PROVE  /\ UNCHANGED <<stage, authorized, late>>
         /\ recorded' \subseteq recorded
         /\ lost => lost'
         /\ cleared => cleared'
<1> USE DEF keyVars, runVars
<1>1. CASE ListRecords
  BY <1>1 DEF ListRecords, ListOne, ListAll
<1>2. CASE RemoveVm
  BY <1>2 DEF RemoveVm, histVars
<1>3. CASE RemovePrivate \/ RemovePublic
  BY <1>3 DEF RemovePrivate, RemovePublic, histVars
<1>4. CASE WipeInstances \/ WipeKeys
  BY <1>4 DEF WipeInstances, WipeKeys, histVars, KeyTypeOK
<1> QED
  BY <1>1, <1>2, <1>3, <1>4 DEF RemovalStep

-----------------------------------------------------------------------------
(* Before `vm rm --all', a removal is of one VM; if it takes the key, it    *)
(* has found no other on record.                                            *)
LEMMA NextRemovalInv == KeyTypeOK /\ RemovalInv /\ [KeyNext]_sshVars => RemovalInv'
<1> SUFFICES ASSUME KeyTypeOK, RemovalInv, [KeyNext]_sshVars PROVE RemovalInv'
  OBVIOUS
<1>1. ASSUME NEW r \in Runs, KeyStep(r) \/ KillRun(r) PROVE RemovalInv'
  BY <1>1, RunFrame, RecordFrame DEF RemovalInv
<1>2. CASE ListRecords
  <2>1. rm.stage = "none" /\ UNCHANGED <<recorded, late, lost>>
    BY <1>2 DEF ListRecords, runVars
  <2>2. ASSUME NEW vm \in recorded, ListOne(vm, recorded # {vm}) PROVE RemovalInv'
    BY <2>1, <2>2 DEF RemovalInv, ListOne, KeyTypeOK
  <2>3. CASE ListAll
    BY <2>1, <2>3 DEF RemovalInv, ListAll
  <2> QED
    BY <1>2, <2>2, <2>3 DEF ListRecords
<1>3. CASE RemoveVm
  <2>1. rm \in Removals /\ rm.stage = "listed" /\ UNCHANGED histVars
    BY <1>3 DEF RemoveVm, KeyTypeOK
  <2>2. ASSUME NEW vm \in rm.vms, rm' = Continue(rm.vms \ {vm}), rm.keep PROVE RemovalInv'
    <3>1. ~cleared => rm' = NoRemoval
      BY <2>1, <2>2 DEF RemovalInv, Continue
    <3>2. rm'.all \/ rm'.stage \in {"wipe", "wipe_keys"} => rm.all
      BY <2>1, <2>2 DEF Continue, NoRemoval, Removals
    <3>3. rm'.stage \in {"listed", "wipe", "none"}
      BY <2>1, <2>2 DEF Continue, NoRemoval, Removals
    <3> QED
      BY <2>1, <3>1, <3>2, <3>3 DEF RemovalInv, NoRemoval, histVars
  <2>3. ASSUME NEW vm \in rm.vms, ~rm.keep, recorded' = recorded \ {vm},
               rm' = [rm EXCEPT !.stage = "private", !.vms = @ \ {vm}]
        PROVE  RemovalInv'
    BY <2>1, <2>3 DEF RemovalInv, Removals, histVars
  <2>4. ASSUME NEW vm \in rm.vms, UNCHANGED recorded,
               rm' = IF rm.vms = {vm} THEN NoRemoval
                     ELSE [rm EXCEPT !.vms = @ \ {vm}, !.all = FALSE]
        PROVE  RemovalInv'
    <3>1. CASE rm.vms = {vm}
      BY <2>1, <2>4, <3>1 DEF RemovalInv, NoRemoval, histVars
    <3>2. CASE rm.vms # {vm}
      BY <2>1, <2>4, <3>2 DEF RemovalInv, Removals, histVars
    <3> QED
      BY <3>1, <3>2
  <2> QED
    BY <1>3, <2>2, <2>3, <2>4 DEF RemoveVm
<1>4. CASE RemovePrivate
  BY <1>4 DEF RemovalInv, RemovePrivate, Removals, KeyTypeOK, runVars
<1>5. CASE RemovePublic
  BY <1>5 DEF RemovalInv, RemovePublic, Continue, NoRemoval, Removals, KeyTypeOK, runVars, histVars
<1>6. CASE WipeInstances
  BY <1>6 DEF RemovalInv, WipeInstances, Removals, KeyTypeOK, histVars
<1>7. CASE WipeKeys
  BY <1>7 DEF RemovalInv, WipeKeys, NoRemoval, runVars
<1>8. CASE UNCHANGED sshVars
  BY <1>8 DEF RemovalInv, sshVars, runVars, rmVars, histVars
<1> QED
  BY <1>1, <1>2, <1>3, <1>4, <1>5, <1>6, <1>7, <1>8 DEF KeyNext, RemovalStep

(* The lock is created by one run, and goes with its guard or with the      *)
(* directory.                                                               *)
LEMMA NextLockInv ==
  KeyTypeOK /\ RemovalInv /\ LockInv /\ [KeyNext]_sshVars => LockInv'
<1> SUFFICES ASSUME KeyTypeOK, RemovalInv, LockInv, [KeyNext]_sshVars PROVE LockInv'
  OBVIOUS
<1> USE DEF LockInv, Locked
<1>1. ASSUME NEW r \in Runs, TakeLock(r) PROVE LockInv'
  BY <1>1 DEF TakeLock, At, keyVars, rmVars, histVars, KeyTypeOK
<1>2. ASSUME NEW r \in Runs, Unlock(r) PROVE LockInv'
  BY <1>2 DEF Unlock, At, rmVars, histVars, KeyTypeOK
<1>3. ASSUME NEW r \in Runs, LookForKey(r) \/ ReadPublic(r) PROVE LockInv'
  BY <1>3 DEF LookForKey, ReadPublic, At, keyVars, rmVars, histVars, KeyTypeOK
<1>4. ASSUME NEW r \in Runs, LookAgain(r) \/ ReadLocked(r) PROVE LockInv'
  BY <1>4 DEF LookAgain, ReadLocked, At, keyVars, rmVars, histVars, KeyTypeOK
<1>5. ASSUME NEW r \in Runs, WritePrivate(r) \/ CreatePublic(r) \/ WritePublic(r) PROVE LockInv'
  BY <1>5 DEF WritePrivate, CreatePublic, WritePublic, At, rmVars, histVars, KeyTypeOK
<1>6. ASSUME NEW r \in Runs, RecordVm(r) \/ VerifyVm(r) PROVE LockInv'
  BY <1>6 DEF RecordVm, VerifyVm, At, keyVars, rmVars, histVars, KeyTypeOK
<1>7. ASSUME NEW r \in Runs, RequireVm(r) \/ Connect(r) \/ KillRun(r) PROVE LockInv'
  BY <1>7 DEF RequireVm, Connect, KillRun, Ended, At, keyVars, rmVars, histVars, KeyTypeOK
<1>8. CASE ListRecords \/ RemoveVm \/ RemovePrivate \/ RemovePublic \/ WipeInstances
  <2>1. UNCHANGED <<stage, key_lock>>
    BY <1>8 DEF ListRecords, RemoveVm, RemovePrivate, RemovePublic, WipeInstances, keyVars, runVars
  <2>2. (lost => lost') /\ (cleared => cleared')
    BY <1>8, RemovalFrame DEF RemovalStep
  <2> QED
    BY <2>1, <2>2
<1>9. CASE WipeKeys
  BY <1>9 DEF WipeKeys, RemovalInv, runVars
<1>10. CASE UNCHANGED sshVars
  BY <1>10 DEF sshVars, keyVars, runVars, histVars
<1> QED
  BY <1>1, <1>2, <1>3, <1>4, <1>5, <1>6, <1>7, <1>8, <1>9, <1>10
     DEF KeyNext, KeyStep, RemovalStep

(* A removal step that leaves `lost' down touches neither key.              *)
LEMMA NextPairInv ==
  KeyTypeOK /\ RemovalInv /\ LockInv /\ PairInv /\ [KeyNext]_sshVars => PairInv'
<1> SUFFICES ASSUME KeyTypeOK, RemovalInv, LockInv, PairInv, [KeyNext]_sshVars, ~lost'
             PROVE  PairInv'
  BY DEF PairInv
<1> USE DEF PairInv, Generating, HasKey, keyVars, histVars
<1>1. ~lost
  BY RunFrame, RemovalFrame DEF KeyNext, sshVars, histVars
<1>2. ASSUME NEW r \in Runs, LookForKey(r) PROVE PairInv'
  BY <1>1, <1>2 DEF LookForKey, At, KeyTypeOK
<1>3. ASSUME NEW r \in Runs, ReadPublic(r) PROVE PairInv'
  BY <1>1, <1>3 DEF ReadPublic, Authorize, At, KeyTypeOK, Vms
<1>4. ASSUME NEW r \in Runs, TakeLock(r) PROVE PairInv'
  BY <1>1, <1>4 DEF TakeLock, At, KeyTypeOK
<1>5. ASSUME NEW r \in Runs, LookAgain(r) PROVE PairInv'
  BY <1>1, <1>5 DEF LookAgain, At, KeyTypeOK, LockInv, Locked
<1>6. ASSUME NEW r \in Runs, ReadLocked(r) PROVE PairInv'
  BY <1>1, <1>6 DEF ReadLocked, Authorize, At, KeyTypeOK, Vms
<1>7. ASSUME NEW r \in Runs, WritePrivate(r) PROVE PairInv'
  BY <1>1, <1>7 DEF WritePrivate, At, KeyTypeOK, LockInv, Locked
<1>8. ASSUME NEW r \in Runs, CreatePublic(r) PROVE PairInv'
  <2>1. stage[r] = "create_pub" /\ private = r /\ keys_dir
    BY <1>1, <1>8 DEF CreatePublic, At
  <2>2. key_lock = r /\ \A s \in Runs : s # r => stage[s] \notin Locked
    BY <1>1, <2>1 DEF LockInv, Locked
  <2>3. public' = Blank /\ stage' = [stage EXCEPT ![r] = "write_pub"]
    BY <1>8, <2>1 DEF CreatePublic, At
  <2>4. UNCHANGED <<keys_dir, private, key_lock, authorized, early>>
    BY <1>8 DEF CreatePublic
  <2> QED
    BY <1>1, <2>1, <2>2, <2>3, <2>4 DEF KeyTypeOK, Locked, Keys, Vms
<1>9. ASSUME NEW r \in Runs, WritePublic(r) PROVE PairInv'
  BY <1>1, <1>9 DEF WritePublic, At, KeyTypeOK, LockInv, Locked
<1>10. ASSUME NEW r \in Runs, Unlock(r) PROVE PairInv'
  BY <1>1, <1>10 DEF Unlock, At, KeyTypeOK, LockInv, Locked
<1>11. ASSUME NEW r \in Runs, RecordVm(r) \/ VerifyVm(r) PROVE PairInv'
  BY <1>1, <1>11 DEF RecordVm, VerifyVm, At, KeyTypeOK
<1>12. ASSUME NEW r \in Runs, RequireVm(r) \/ Connect(r) PROVE PairInv'
  BY <1>1, <1>12 DEF RequireVm, Connect, At, KeyTypeOK
<1>13. ASSUME NEW r \in Runs, KillRun(r) PROVE PairInv'
  BY <1>1, <1>13 DEF KillRun, KeyTypeOK
<1>14. CASE RemovalStep
  <2>1. ~RemovePrivate /\ ~RemovePublic /\ ~WipeKeys
    BY <1>1 DEF RemovePrivate, RemovePublic, WipeKeys, RemovalInv
  <2>2. UNCHANGED <<keyVars, stage, authorized, early>>
    BY <1>14, <2>1 DEF RemovalStep, ListRecords, RemoveVm, WipeInstances, runVars, histVars
  <2> QED
    BY <1>1, <2>2 DEF keyVars
<1>15. CASE UNCHANGED sshVars
  BY <1>1, <1>15 DEF sshVars, keyVars, runVars, histVars
<1> QED
  BY <1>2, <1>3, <1>4, <1>5, <1>6, <1>7, <1>8, <1>9, <1>10, <1>11, <1>12, <1>13, <1>14, <1>15
     DEF KeyNext, KeyStep

(* The private key changes only when there is none, which no verified VM    *)
(* accepts, or when a removal takes it, which has left only late VMs.       *)
LEMMA NextVerifiedInv ==
  KeyTypeOK /\ RemovalInv /\ VerifiedVmKeepsKey /\ [KeyNext]_sshVars => VerifiedVmKeepsKey'
<1> SUFFICES ASSUME KeyTypeOK, RemovalInv, VerifiedVmKeepsKey, [KeyNext]_sshVars, ~cleared'
             PROVE  VerifiedVmKeepsKey'
  BY DEF VerifiedVmKeepsKey
<1> USE DEF VerifiedVmKeepsKey, Accepts
<1>1. ~cleared
  BY RunFrame, RemovalFrame DEF KeyNext, sshVars, histVars
<1>2. ASSUME NEW r \in Runs, LookForKey(r) \/ ReadPublic(r) \/ TakeLock(r) \/ LookAgain(r)
                               \/ ReadLocked(r)
      PROVE  VerifiedVmKeepsKey'
  <2>1. UNCHANGED <<private, recorded, late>> /\ stage'[r] \notin {"up", "connect", "in"}
    BY <1>2 DEF LookForKey, ReadPublic, TakeLock, LookAgain, ReadLocked, At, KeyTypeOK,
                keyVars, histVars
  <2>2. /\ \A s \in Runs : s # r => stage'[s] = stage[s]
        /\ \A s \in Vms : s # r => authorized'[s] = authorized[s]
    BY <1>2, RunFrame DEF KeyStep
  <2> QED
    BY <1>1, <2>1, <2>2 DEF KeyTypeOK, Vms
<1>3. ASSUME NEW r \in Runs, WritePrivate(r) PROVE VerifiedVmKeepsKey'
  BY <1>1, <1>3 DEF WritePrivate, At, KeyTypeOK, Vms, histVars
<1>4. ASSUME NEW r \in Runs, CreatePublic(r) \/ WritePublic(r) \/ Unlock(r)
      PROVE  VerifiedVmKeepsKey'
  BY <1>1, <1>4 DEF CreatePublic, WritePublic, Unlock, At, KeyTypeOK, Vms, histVars
<1>5. ASSUME NEW r \in Runs, RecordVm(r) PROVE VerifiedVmKeepsKey'
  BY <1>1, <1>5 DEF RecordVm, At, KeyTypeOK, Vms, keyVars, histVars
<1>6. ASSUME NEW r \in Runs, VerifyVm(r) PROVE VerifiedVmKeepsKey'
  BY <1>1, <1>6 DEF VerifyVm, At, KeyTypeOK, Vms, keyVars, histVars
<1>7. ASSUME NEW r \in Runs, RequireVm(r) \/ Connect(r) \/ KillRun(r) PROVE VerifiedVmKeepsKey'
  BY <1>1, <1>7 DEF RequireVm, Connect, KillRun, At, KeyTypeOK, Vms, keyVars, histVars
<1>8. CASE RemovePrivate
  BY <1>1, <1>8 DEF RemovePrivate, RemovalInv, runVars
<1>9. CASE ListRecords \/ RemoveVm \/ RemovePublic \/ WipeInstances
  <2>1. UNCHANGED private
    BY <1>9 DEF ListRecords, RemoveVm, RemovePublic, WipeInstances, keyVars
  <2>2. UNCHANGED <<stage, authorized, late>> /\ recorded' \subseteq recorded
    BY <1>9, RemovalFrame DEF RemovalStep
  <2> QED
    BY <1>1, <2>1, <2>2
<1>10. ~WipeKeys
  BY <1>1 DEF WipeKeys, RemovalInv
<1>11. CASE UNCHANGED sshVars
  BY <1>1, <1>11 DEF sshVars, keyVars, runVars, histVars
<1> QED
  BY <1>2, <1>3, <1>4, <1>5, <1>6, <1>7, <1>8, <1>9, <1>10, <1>11
     DEF KeyNext, KeyStep, RemovalStep

-----------------------------------------------------------------------------
(* Every reachable state satisfies the inductive invariant.                 *)
THEOREM KeyInvariance == KeySpec => []KeyInv
<1>1. KeyInv /\ [KeyNext]_sshVars => KeyInv'
  BY NextType, NextRemovalInv, NextLockInv, NextPairInv, NextVerifiedInv DEF KeyInv
<1> QED
  BY InitKeyInv, <1>1, PTL DEF KeySpec

(* Keys, lock, runs and removals stay within their types; attempts are      *)
(* counted.                                                                 *)
THEOREM KeyTypeCorrect == KeySpec => []KeyTypeOK
<1>1. KeyInv => KeyTypeOK
  BY DEF KeyInv
<1> QED
  BY KeyInvariance, <1>1, PTL

(* The lock belongs to the run that has it until `vm rm --all' is called,   *)
(* and only a killed run leaves it behind.                                  *)
THEOREM LockIsHeldByOne == KeySpec => []LockIsOwn
<1>1. KeyInv => LockIsOwn
  BY DEF KeyInv, LockInv, LockIsOwn
<1> QED
  BY KeyInvariance, <1>1, PTL

(* Runs that took the lock agree on the key, as long as none is removed,    *)
(* wherever runs are killed.                                                *)
THEOREM KeyIsAgreedOn == KeySpec => []LockedRunsAgree
<1>1. KeyInv => LockedRunsAgree
  BY DEF KeyInv, PairInv, LockedRunsAgree
<1> QED
  BY KeyInvariance, <1>1, PTL

(* `vm rm' does not take the key from a VM that was verified and on record. *)
THEOREM VerifiedVmsKeepTheirKey == KeySpec => []VerifiedVmKeepsKey
<1>1. KeyInv => VerifiedVmKeepsKey
  BY DEF KeyInv
<1> QED
  BY KeyInvariance, <1>1, PTL
=============================================================================
