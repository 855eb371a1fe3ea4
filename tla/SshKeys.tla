------------------------------ MODULE SshKeys ------------------------------
(***************************************************************************)
(* The SSH key pair all VMs share: SshKeyManager (vm/src/ssh/key.rs), who  *)
(* uses it (vm/src/ops.rs, vm/src/ssh/client.rs) and who removes it (`vm   *)
(* rm`, vm/src/vm/record.rs).                                              *)
(*                                                                         *)
(* Every run takes the host name "vm", so that all use one private key,    *)
(* its .pub file and one lock file.  A run looks for the private key       *)
(* without the lock, and generates it under the lock; the VM it then       *)
(* creates accepts the public key the run has read.  `vm rm` removes the   *)
(* pair with the last VM on record, and `vm rm --all` the directory.       *)
(***************************************************************************)
EXTENDS VmRuns, Naturals

CONSTANTS
  NoKey,        \* there is no file of that name
  Blank,        \* the file is there, with nothing in it
  Nobody,       \* nobody holds the lock
  MaxAttempts,  \* attempts to take the lock, 100 in the code
  MaxRetries,   \* attempts to connect, 10 in the code
  MaxRemovals   \* bound: calls of `vm rm`

VARIABLES
  (* the directory of keys *)
  keys_dir,     \* it exists
  private,      \* the private key, named for whoever generated it
  public,       \* the .pub file
  key_lock,     \* who created the lock file that is there
  (* a run and its VM *)
  stage,        \* where each run is
  attempts,     \* attempts at the lock, then at connecting
  authorized,   \* the key its VM accepts
  recorded,     \* the VMs on record
  (* `vm rm` *)
  rm,           \* what the removal that is going on has to do
  removals,     \* calls of it so far
  (* history, for the properties only *)
  early,        \* runs that did not take the lock
  late,         \* VMs recorded after a removal had read the records
  lost,         \* a key was removed
  cleared       \* `vm rm --all` was called

keyVars == <<keys_dir, private, public, key_lock>>
runVars == <<stage, attempts, authorized, recorded>>
rmVars  == <<rm, removals>>
histVars == <<early, late, lost, cleared>>
sshVars == <<keyVars, runVars, rmVars, histVars>>

Vms  == Runs \union {Before}
Keys == Vms

Stages == {"start", "read", "lock", "recheck", "reread", "generate", "create_pub",
           "write_pub", "unlock", "give_up", "ready", "verify", "up", "connect", "in",
           "refused", "err", "killed"}
(* The lock file is the run's, and its guard alive.                         *)
Locked == {"recheck", "reread", "generate", "create_pub", "write_pub", "unlock", "give_up"}
Ended  == {"in", "refused", "err", "killed"}

ASSUME KeyAssumption ==
  /\ NoKey \notin Keys \union {Blank}
  /\ Blank \notin Keys
  /\ Nobody \notin Runs
  /\ MaxAttempts \in Nat \ {0}
  /\ MaxRetries \in Nat \ {0}
  /\ MaxRemovals \in Nat

NoRemoval == [stage |-> "none", vms |-> {}, keep |-> TRUE, all |-> FALSE]
Removals  == [stage : {"none", "listed", "private", "public", "wipe",
                      "wipe_keys"}, vms : SUBSET Vms,
              keep : BOOLEAN, all : BOOLEAN]

KeyTypeOK ==
  /\ keys_dir \in BOOLEAN
  /\ private \in Keys \union {NoKey}
  /\ public \in Keys \union {NoKey, Blank}
  /\ key_lock \in Runs \union {Nobody}
  /\ stage \in [Runs -> Stages]
  /\ attempts \in [Runs -> Nat]
  /\ \A r \in Runs : /\ stage[r] \in {"start", "lock"} => attempts[r] < MaxAttempts
                     /\ stage[r] = "connect" => attempts[r] < MaxRetries
  /\ authorized \in [Vms -> Keys \union {NoKey, Blank}]
  /\ recorded \subseteq Vms
  /\ rm \in Removals
  /\ removals \in 0 .. MaxRemovals
  /\ early \subseteq Runs
  /\ late \subseteq Runs
  /\ lost \in BOOLEAN
  /\ cleared \in BOOLEAN

(* A VM that was created before, and its key; or nothing yet.               *)
KeyInit ==
  /\ recorded \in SUBSET {Before}
  /\ keys_dir = (recorded # {})
  /\ private = (IF recorded # {} THEN Before ELSE NoKey)
  /\ public = private
  /\ key_lock = Nobody
  /\ stage = [r \in Runs |-> "start"]
  /\ attempts = [r \in Runs |-> 0]
  /\ authorized = [v \in Vms |-> IF v \in recorded THEN Before ELSE NoKey]
  /\ rm = NoRemoval
  /\ removals = 0
  /\ early = {}
  /\ late = {}
  /\ lost = FALSE
  /\ cleared = FALSE

-----------------------------------------------------------------------------
(***************************************************************************)
(* generate_key_pair.                                                      *)
(***************************************************************************)
At(r, from, to) ==
  /\ stage[r] = from
  /\ stage' = [stage EXCEPT ![r] = to]

Authorize(r, key) == authorized' = [authorized EXCEPT ![r] = key]

(* create_dir_all, then private_key_path.exists(), without the lock.  Before *)
(* it waits for the lock a run makes the directory once more; that is this  *)
(* step, since nothing was decided in between.                              *)
LookForKey(r) ==
  /\ \/ private # NoKey /\ At(r, "start", "read") /\ early' = early \union {r}
     \/ private = NoKey /\ At(r, "start", "lock") /\ UNCHANGED early
  /\ keys_dir' = TRUE
  /\ UNCHANGED <<private, public, key_lock, attempts, authorized, recorded, rmVars, late, lost, cleared>>

(* read_public_key.                                                         *)
ReadPublic(r) ==
  /\ \/ public # NoKey /\ At(r, "read", "ready") /\ Authorize(r, public)
     \/ public = NoKey /\ At(r, "read", "err") /\ UNCHANGED authorized
  /\ UNCHANGED <<keyVars, attempts, recorded, rmVars, histVars>>

(* Had the attempts not been counted. *)
TakeLock_ForEver(r) ==
  /\ \/ keys_dir /\ key_lock = Nobody /\ At(r, "lock", "recheck") /\ key_lock' = r
     \/ keys_dir /\ key_lock # Nobody /\ At(r, "lock", "lock") /\ UNCHANGED key_lock
     \/ ~keys_dir /\ At(r, "lock", "err") /\ UNCHANGED key_lock
  /\ UNCHANGED <<keys_dir, private, public, attempts, authorized, recorded, rmVars, histVars>>

(* Had the file been opened, whoever created it. *)
TakeLock_Any(r) ==
  /\ \/ keys_dir /\ At(r, "lock", "recheck") /\ key_lock' = r
     \/ ~keys_dir /\ At(r, "lock", "err") /\ UNCHANGED key_lock
  /\ UNCHANGED <<keys_dir, private, public, attempts, authorized, recorded, rmVars, histVars>>

(* Had it tried once more than it counts. *)
TakeLock_OnceMore(r) ==
  \/ /\ keys_dir /\ key_lock = Nobody
     /\ At(r, "lock", "recheck")
     /\ key_lock' = r
     /\ UNCHANGED <<keys_dir, private, public, attempts, authorized, recorded, rmVars, histVars>>
  \/ /\ keys_dir /\ key_lock # Nobody
     /\ At(r, "lock", IF attempts[r] < MaxAttempts THEN "lock" ELSE "err")
     /\ attempts' = [attempts EXCEPT ![r] = @ + 1]
     /\ UNCHANGED <<keyVars, authorized, recorded, rmVars, histVars>>
  \/ /\ ~keys_dir
     /\ At(r, "lock", "err")
     /\ UNCHANGED <<keyVars, attempts, authorized, recorded, rmVars, histVars>>

(* acquire_file_lock: an attempt to create the file.                        *)
TakeLock(r) ==
  \/ /\ keys_dir /\ key_lock = Nobody
     /\ At(r, "lock", "recheck")
     /\ key_lock' = r
     /\ attempts' = [attempts EXCEPT ![r] = 0]
     /\ UNCHANGED <<keys_dir, private, public, authorized, recorded, rmVars, histVars>>
  \/ /\ keys_dir /\ key_lock # Nobody
     /\ At(r, "lock", IF attempts[r] + 1 < MaxAttempts THEN "lock" ELSE "err")
     /\ attempts' = [attempts EXCEPT ![r] = @ + 1]
     /\ UNCHANGED <<keyVars, authorized, recorded, rmVars, histVars>>
  \/ /\ ~keys_dir
     /\ At(r, "lock", "err")
     /\ UNCHANGED <<keyVars, attempts, authorized, recorded, rmVars, histVars>>

(* Double-check after acquiring the lock.                                   *)
LookAgain(r) ==
  /\ \/ private # NoKey /\ At(r, "recheck", "reread")
     \/ private = NoKey /\ At(r, "recheck", "generate")
  /\ UNCHANGED <<keyVars, attempts, authorized, recorded, rmVars, histVars>>

ReadLocked(r) ==
  /\ \/ public # NoKey /\ At(r, "reread", "unlock") /\ Authorize(r, public)
     \/ public = NoKey /\ At(r, "reread", "give_up") /\ UNCHANGED authorized
  /\ UNCHANGED <<keyVars, attempts, recorded, rmVars, histVars>>

(* ssh-keygen does not overwrite a key it cannot ask about, and needs the   *)
(* directory; otherwise it writes the private key, then the public one,     *)
(* which others see as soon as it is opened.                                *)
WritePrivate(r) ==
  /\ \/ /\ keys_dir /\ private = NoKey
        /\ At(r, "generate", "create_pub")
        /\ private' = r
     \/ /\ At(r, "generate", "give_up")
        /\ UNCHANGED private
  /\ UNCHANGED <<keys_dir, public, key_lock, attempts, authorized, recorded, rmVars, histVars>>

CreatePublic(r) ==
  /\ \/ keys_dir /\ At(r, "create_pub", "write_pub") /\ public' = Blank
     \/ ~keys_dir /\ At(r, "create_pub", "give_up") /\ UNCHANGED public
  /\ UNCHANGED <<keys_dir, private, key_lock, attempts, authorized, recorded, rmVars, histVars>>

(* The run reads what was written when ssh-keygen has ended.                *)
WritePublic(r) ==
  /\ At(r, "write_pub", "reread")
  /\ public' = (IF public = Blank THEN r ELSE public)
  /\ UNCHANGED <<keys_dir, private, key_lock, attempts, authorized, recorded, rmVars, histVars>>

(* Had the lock only been released on success. *)
Unlock_OnSuccess(r) ==
  /\ \/ At(r, "unlock", "ready") /\ key_lock' = Nobody
     \/ At(r, "give_up", "err") /\ UNCHANGED key_lock
  /\ UNCHANGED <<keys_dir, private, public, attempts, authorized, recorded, rmVars, histVars>>

(* LockGuard::drop removes the file of that name.                           *)
Unlock(r) ==
  /\ At(r, "unlock", "ready") \/ At(r, "give_up", "err")
  /\ key_lock' = Nobody
  /\ UNCHANGED <<keys_dir, private, public, attempts, authorized, recorded, rmVars, histVars>>

-----------------------------------------------------------------------------
(***************************************************************************)
(* run_vm_inner with the key, and the use of the VM.                       *)
(***************************************************************************)

(* The VM is started with the public key and its record written; or that    *)
(* fails.                                                                   *)
RecordVm(r) ==
  \/ /\ At(r, "ready", "verify")
     /\ recorded' = recorded \union {r}
     /\ late' = (IF rm.stage # "none" /\ ~rm.keep THEN late \union {r} ELSE late)
     /\ UNCHANGED <<keyVars, attempts, authorized, rmVars, early, lost, cleared>>
  \/ /\ At(r, "ready", "err")
     /\ UNCHANGED <<keyVars, attempts, authorized, recorded, rmVars, histVars>>

(* The guest accepts the private key that is there.                         *)
Accepts(vm) == private # NoKey /\ authorized[vm] = private

(* verify_ssh_connection: on failure the VM and its record go.              *)
VerifyVm(r) ==
  /\ \/ r \in recorded /\ Accepts(r) /\ At(r, "verify", "up") /\ UNCHANGED recorded
     \/ At(r, "verify", "err") /\ recorded' = recorded \ {r}
  /\ UNCHANGED <<keyVars, attempts, authorized, rmVars, histVars>>

(* require_running_vm of `vm ssh` and `vm cp`: the record, then the key.    *)
RequireVm(r) ==
  /\ \/ r \in recorded /\ private # NoKey /\ At(r, "up", "connect")
     \/ ~(r \in recorded /\ private # NoKey) /\ At(r, "up", "refused")
  /\ attempts' = [attempts EXCEPT ![r] = 0]
  /\ UNCHANGED <<keyVars, authorized, recorded, rmVars, histVars>>

(* connect_with_retry.                                                      *)
Connect(r) ==
  \/ /\ r \in recorded /\ Accepts(r)
     /\ At(r, "connect", "in")
     /\ UNCHANGED <<keyVars, attempts, authorized, recorded, rmVars, histVars>>
  \/ /\ ~(r \in recorded /\ Accepts(r))
     /\ At(r, "connect", IF attempts[r] + 1 < MaxRetries THEN "connect" ELSE "refused")
     /\ attempts' = [attempts EXCEPT ![r] = @ + 1]
     /\ UNCHANGED <<keyVars, authorized, recorded, rmVars, histVars>>

(* The process of the run is killed; its VM, if it is there, goes on.       *)
KillRun(r) ==
  /\ stage[r] \notin Ended
  /\ stage' = [stage EXCEPT ![r] = "killed"]
  /\ UNCHANGED <<keyVars, attempts, authorized, recorded, rmVars, histVars>>

-----------------------------------------------------------------------------
(***************************************************************************)
(* `vm rm`.                                                                *)
(***************************************************************************)

ListOne(vm, keep) ==
  /\ rm' = [stage |-> "listed", vms |-> {vm}, keep |-> keep, all |-> FALSE]
  /\ UNCHANGED cleared

ListAll ==
  /\ rm' = [stage |-> "listed", vms |-> recorded, keep |-> FALSE, all |-> TRUE]
  /\ cleared' = TRUE

(* Had rm_with_config kept the keys of no other VM. *)
ListRecords_KeepsNone ==
  /\ rm.stage = "none"
  /\ removals < MaxRemovals
  /\ recorded # {}
  /\ (\E vm \in recorded : ListOne(vm, FALSE)) \/ ListAll
  /\ removals' = removals + 1
  /\ UNCHANGED <<keyVars, runVars, early, late, lost>>

(* rm_with_config lists the records and keeps the keys of the other VMs;    *)
(* clear_vms keeps none.                                                    *)
ListRecords ==
  /\ rm.stage = "none"
  /\ removals < MaxRemovals
  /\ recorded # {}
  /\ (\E vm \in recorded : ListOne(vm, recorded # {vm})) \/ ListAll
  /\ removals' = removals + 1
  /\ UNCHANGED <<keyVars, runVars, early, late, lost>>

(* What comes after the VM that has just been removed.                      *)
Continue(vms) ==
  IF vms # {} THEN [rm EXCEPT !.stage = "listed", !.vms = vms]
  ELSE IF rm.all THEN [rm EXCEPT !.stage = "wipe", !.vms = {}]
  ELSE NoRemoval

(* remove_vm_instance stops the VM and removes its directory, or fails;     *)
(* `vm rm --all` goes on to the next one, and leaves the keys in the end.   *)
RemoveVm ==
  /\ rm.stage = "listed"
  /\ \E vm \in rm.vms :
       \/ /\ recorded' = recorded \ {vm}
          /\ rm' = IF rm.keep THEN Continue(rm.vms \ {vm})
                   ELSE [rm EXCEPT !.stage = "private", !.vms = @ \ {vm}]
       \/ /\ rm' = IF rm.vms = {vm} THEN NoRemoval
                   ELSE [rm EXCEPT !.vms = @ \ {vm}, !.all = FALSE]
          /\ UNCHANGED recorded
  /\ UNCHANGED <<keyVars, stage, attempts, authorized, removals, histVars>>

(* The private key and the public one go in two steps.                      *)
RemovePrivate ==
  /\ rm.stage = "private"
  /\ private' = NoKey
  /\ lost' = TRUE
  /\ rm' = [rm EXCEPT !.stage = "public"]
  /\ UNCHANGED <<keys_dir, public, key_lock, runVars, removals, early, late, cleared>>

RemovePublic ==
  /\ rm.stage = "public"
  /\ public' = NoKey
  /\ rm' = Continue(rm.vms)
  /\ UNCHANGED <<keys_dir, private, key_lock, runVars, removals, histVars>>

(* clear_vms removes the directory of instances, with the records of VMs    *)
(* that came late, then the directory of keys, the lock file with it.       *)
WipeInstances ==
  /\ rm.stage = "wipe"
  /\ recorded' = {}
  /\ rm' = [rm EXCEPT !.stage = "wipe_keys"]
  /\ UNCHANGED <<keyVars, stage, attempts, authorized, removals, histVars>>

WipeKeys ==
  /\ rm.stage = "wipe_keys"
  /\ keys_dir' = FALSE
  /\ private' = NoKey
  /\ public' = NoKey
  /\ key_lock' = Nobody
  /\ lost' = TRUE
  /\ rm' = NoRemoval
  /\ UNCHANGED <<runVars, removals, early, late, cleared>>

KeyStep(r) ==
  \/ LookForKey(r) \/ ReadPublic(r) \/ TakeLock(r) \/ LookAgain(r) \/ ReadLocked(r)
  \/ WritePrivate(r) \/ CreatePublic(r) \/ WritePublic(r) \/ Unlock(r)
  \/ RecordVm(r) \/ VerifyVm(r) \/ RequireVm(r) \/ Connect(r)

RemovalStep ==
  \/ ListRecords \/ RemoveVm \/ RemovePrivate \/ RemovePublic
  \/ WipeInstances \/ WipeKeys

KeyNext == (\E r \in Runs : KeyStep(r) \/ KillRun(r)) \/ RemovalStep

KeySpec == KeyInit /\ [][KeyNext]_sshVars

(* Runs and ssh-keygen are scheduled; nobody has to remove a VM.            *)
KeyFairSpec == KeySpec /\ \A r \in Runs : WF_sshVars(KeyStep(r))
-----------------------------------------------------------------------------
(* A lock file is left behind only by a run that was killed with it; and    *)
(* without `vm rm --all` it belongs to the run that has the lock: two runs  *)
(* never generate at once, and no other run removes it.                     *)
LockIsOwn ==
  /\ key_lock # Nobody => stage[key_lock] \in Locked \union {"killed"}
  /\ ~cleared => \A r \in Runs : stage[r] \in Locked => key_lock = r

HasKey == {"unlock", "ready", "verify", "up", "connect", "in", "refused"}

(* As long as no key was removed, every run that took the lock has the key  *)
(* all others will have, whole, even when a run was killed generating it:   *)
(* that is what looking again under the lock is for.                        *)
LockedRunsAgree ==
  ~lost => \A r \in Runs : stage[r] \in HasKey /\ r \notin early => authorized[r] = private

(* A VM that was verified can be logged into for as long as it is on        *)
(* record, unless it came on record while a `vm rm` of the only VM listed   *)
(* was going on, or `vm rm --all` was called, which also removes the key of *)
(* a VM it fails to stop.                                                   *)
VerifiedVmKeepsKey ==
  ~cleared => \A r \in recorded \ late :
    r = Before \/ stage[r] \in {"up", "connect", "in"} => Accepts(r)

(* Every run comes to an end: one that waits for a lock nobody releases     *)
(* gives up.                                                                *)
KeyRunEnds == \A r \in Runs : <>(stage[r] \in Ended)

-----------------------------------------------------------------------------
(***************************************************************************)
(* The inductive invariant.                                                *)
(***************************************************************************)

(* What a removal that has come so far has listed and done.  One that goes  *)
(* on to the key has left no VM on record but late ones.                    *)
RemovalInv ==
  /\ rm.all \/ rm.stage \in {"wipe", "wipe_keys"} => cleared
  /\ rm.stage = "public" => lost
  /\ ~cleared =>
       /\ rm.stage = "listed" => \E vm \in Vms : rm.vms = {vm}
       /\ rm.stage \in {"private", "public"} => rm.vms = {} /\ ~rm.keep
       /\ rm.stage # "none" /\ ~rm.keep => recorded \subseteq rm.vms \union late

(* The lock excludes until the directory is wiped.                          *)
LockInv ==
  /\ key_lock # Nobody => stage[key_lock] \in Locked \union {"killed"}
  /\ ~cleared \/ ~lost => \A r \in Runs : stage[r] \in Locked => key_lock = r

(* Generating, or killed while it was.                                      *)
Generating == {"create_pub", "write_pub", "killed"}

(* As long as no key was removed: there is one private key at most, and a   *)
(* public one that differs is being written under the lock, or was.         *)
PairInv ==
  ~lost =>
    /\ private = NoKey => public = NoKey
    /\ private # NoKey => \/ public = private
                          \/ key_lock # Nobody /\ stage[key_lock] \in Generating
    /\ \A r \in Runs :
         /\ stage[r] \notin {"start", "killed"} => keys_dir
         /\ stage[r] = "read" => r \in early
         /\ stage[r] \in {"create_pub", "write_pub"} => private = r
         /\ stage[r] = "write_pub" => public = Blank
         /\ stage[r] = "reread" => private # NoKey /\ public = private
         /\ stage[r] \in HasKey /\ r \notin early => private # NoKey /\ authorized[r] = private

KeyInv ==
  KeyTypeOK /\ RemovalInv /\ LockInv /\ PairInv /\ VerifiedVmKeepsKey
=============================================================================
