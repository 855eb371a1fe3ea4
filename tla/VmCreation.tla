------------------------------ MODULE VmCreation ------------------------------
(***************************************************************************)
(* Creating and removing VMs in one instances directory: run_vm_inner,     *)
(* rm_with_config and clear_vms of vm/src/ops.rs with the creation lock    *)
(* and the port reservation of vm/src/vm/port.rs, the records of           *)
(* vm/src/vm/record.rs and the start of QEMU of vm/src/qemu/runner.rs.     *)
(*                                                                         *)
(* Every run and the remover are processes that share nothing but files    *)
(* and the process table, so each access to a file is an action.  A lock   *)
(* file is created empty and its owner's pid is written into it by a       *)
(* second call; a file without a pid, or with the pid of a dead process,   *)
(* is stale and whoever sees it removes it, by name, in a later step.      *)
(* Removing a lock by name removes whichever file has the name by then;    *)
(* writing through a handle does not reach a file that replaced it.        *)
(*                                                                         *)
(* Images and keys are ready when a run begins here.  A pid is not reused. *)
(***************************************************************************)
EXTENDS FiniteSets, Naturals

CONSTANTS
  Runs,         \* bound: runs of `vm run`, each a process of its own
  Nobody,       \* no run
  MaxVms,       \* MAX_VMS, 10 in the code
  NumPorts,     \* bound: ports from SSH_PORT_BASE; the code goes up to 65535
  MaxTaken,     \* bound: ports that other programs listen on
  MaxCrashes,   \* bound: runs that are killed
  MaxRemovals   \* bound: calls of `vm rm`

ASSUME CreationAssumption ==
  /\ Nobody \notin Runs
  /\ MaxVms \in Nat \ {0}
  /\ NumPorts \in Nat
  /\ MaxVms <= NumPorts
  /\ {MaxTaken, MaxCrashes, MaxRemovals} \subseteq Nat

VARIABLES
  (* files *)
  lock_dirs,    \* which of .vm-locks and .ssh-port-locks exist
  lock,         \* creation.lock
  port_lock,    \* .ssh-port-locks/<port>.lock
  dir,          \* the directories vm0, vm1, ..: who made each
  record,       \* vm.json in them: the run whose VM it describes
  (* a run *)
  pc,
  index,        \* vm_index
  port,         \* ssh_port
  holds_lock,   \* runs that have a VmCreationLock guard
  holds_port,   \* runs that have an SshPortReservation guard
  pid,          \* the pid it took for QEMU's
  qemu,         \* its QEMU process
  (* the host, and a user who removes VMs *)
  taken,        \* ports that other programs listen on
  rm,
  removals,
  (* history, for the properties only *)
  shared,       \* two runs had the creation lock at once
  contested,    \* ids whose VM was to be removed while it was being created
  recorded,     \* runs that wrote their record
  unstopped     \* runs that failed and whose QEMU runs on, as it did not stop

lockVars == <<lock_dirs, lock, port_lock>>
fileVars == <<lockVars, dir, record>>
guardVars == <<holds_lock, holds_port>>
runVars  == <<index, port, guardVars, pid>>
rmVars   == <<rm, removals, contested>>
vars == <<fileVars, pc, runVars, qemu, taken, rmVars, shared, recorded, unstopped>>

Indices == 0 .. (MaxVms - 1)
Ports   == 0 .. (NumPorts - 1)

LockFile == [by : Runs \union {Nobody}, written : BOOLEAN]
NoFile   == [by |-> Nobody, written |-> FALSE]

Locking   == {"begin", "acquire", "inspect", "reclaim", "stamp"}
Reserving == {"port_inspect", "port_reclaim", "port_create", "port_probe", "port_stamp"}
Building  == {"unlock", "prepare", "poll", "wait", "settle", "record", "verify"}
Over      == {"done", "failed", "crashed"}
Stage == Locking \union {"allocate"} \union Reserving \union {"mkdir"} \union Building
           \union {"failing", "succeeding"} \union Over

Entry   == Indices \X Runs
Removal == [todo : SUBSET Entry, stopped : SUBSET Entry,
            mode : {"idle", "one", "all", "all_failed"}]
NoRemoval == [todo |-> {}, stopped |-> {}, mode |-> "idle"]

TypeOK ==
  /\ lock_dirs \subseteq {"vm", "port"}
  /\ lock \in LockFile
  /\ port_lock \in [Ports -> LockFile]
  /\ dir \in [Indices -> Runs \union {Nobody}]
  /\ record \in [Indices -> Runs \union {Nobody}]
  /\ pc \in [Runs -> Stage]
  /\ index \in [Runs -> Indices]
  /\ port \in [Runs -> Ports]
  /\ holds_lock \subseteq Runs
  /\ holds_port \subseteq Runs
  /\ pid \in [Runs -> {"none", "parent", "daemon"}]
  /\ qemu \in [Runs -> {"none", "booting", "up", "dead"}]
  /\ taken \subseteq Ports
  /\ rm \in Removal
  /\ removals \in 0 .. MaxRemovals
  /\ shared \in BOOLEAN
  /\ contested \subseteq Indices
  /\ recorded \subseteq Runs
  /\ unstopped \subseteq Runs

Init ==
  /\ lock_dirs = {}
  /\ lock = NoFile
  /\ port_lock = [p \in Ports |-> NoFile]
  /\ dir = [i \in Indices |-> Nobody]
  /\ record = [i \in Indices |-> Nobody]
  /\ pc = [r \in Runs |-> "begin"]
  /\ index = [r \in Runs |-> 0]
  /\ port = [r \in Runs |-> 0]
  /\ holds_lock = {}
  /\ holds_port = {}
  /\ pid = [r \in Runs |-> "none"]
  /\ qemu = [r \in Runs |-> "none"]
  /\ taken \in {ps \in SUBSET Ports : Cardinality(ps) <= MaxTaken}
  /\ rm = NoRemoval
  /\ removals = 0
  /\ shared = FALSE
  /\ contested = {}
  /\ recorded = {}
  /\ unstopped = {}

Goto(r, stage) == pc' = [pc EXCEPT ![r] = stage]

At(r, stage, next) == pc[r] = stage /\ Goto(r, next)

-----------------------------------------------------------------------------
(***************************************************************************)
(* Lock files.                                                             *)
(***************************************************************************)
Exists(file) == file.by # Nobody

Created(r) == [by |-> r, written |-> FALSE]

(* The owner's pid, unless the file it opened is no longer the one there.   *)
Stamped(file, r) == IF file.by = r THEN [file EXCEPT !.written = TRUE] ELSE file

Stale_OnlyEmpty(file) == ~file.written

(* is_stale_pid_lock, also TRUE of a file that is gone. *)
Stale(file) ==
  \/ ~Exists(file)
  \/ ~file.written
  \/ pc[file.by] = "crashed"

(***************************************************************************)
(* acquire_vm_creation_lock.                                               *)
(***************************************************************************)
MakeLockDir(r) ==
  /\ At(r, "begin", "acquire")
  /\ lock_dirs' = lock_dirs \union {"vm"}
  /\ UNCHANGED <<lock, port_lock, dir, record, runVars, qemu, taken, unstopped,
                 rmVars, shared, recorded>>

(* create_new *)
TryLock(r) ==
  /\ pc[r] = "acquire"
  /\ IF "vm" \notin lock_dirs THEN Goto(r, "failing") /\ UNCHANGED lock
     ELSE IF Exists(lock) THEN Goto(r, "inspect") /\ UNCHANGED lock
     ELSE Goto(r, "stamp") /\ lock' = Created(r)
  /\ UNCHANGED <<lock_dirs, port_lock, dir, record, runVars, qemu, taken, unstopped,
                 rmVars, shared, recorded>>

(* Not stale: sleep and try again, or time out. *)
InspectLock(r) ==
  /\ pc[r] = "inspect"
  /\ IF Stale(lock)
     THEN Goto(r, "reclaim")
     ELSE Goto(r, "acquire") \/ Goto(r, "failing")
  /\ UNCHANGED <<fileVars, runVars, qemu, taken, unstopped, rmVars, shared,
                 recorded>>

ReclaimLock(r) ==
  /\ At(r, "reclaim", "acquire")
  /\ lock' = NoFile
  /\ UNCHANGED <<lock_dirs, port_lock, dir, record, runVars, qemu, taken, unstopped,
                 rmVars, shared, recorded>>

StampLock(r) ==
  /\ At(r, "stamp", "allocate")
  /\ lock' = Stamped(lock, r)
  /\ holds_lock' = holds_lock \union {r}
  /\ shared' = (shared \/ holds_lock # {})
  /\ UNCHANGED <<lock_dirs, port_lock, dir, record, index, port, holds_port, pid,
                 qemu, taken, unstopped, rmVars, recorded>>

-----------------------------------------------------------------------------
(***************************************************************************)
(* Under the lock: validate_vm_capacity, reserve_ssh_port, create_dir.     *)
(***************************************************************************)

(* next_vm_id: one more than the largest id in use. *)
IsNextIndex(n) ==
  /\ \A i \in Indices : dir[i] # Nobody => i < n
  /\ n > 0 => dir[n - 1] # Nobody

Allocate(r) ==
  /\ \/ \E n \in Indices :
          /\ At(r, "allocate", "port_inspect")
          /\ IsNextIndex(n)
          /\ index' = [index EXCEPT ![r] = n]
          /\ port' = [port EXCEPT ![r] = n]
          /\ lock_dirs' = lock_dirs \union {"port"}
     \/ /\ At(r, "allocate", "failing")
        /\ IsNextIndex(MaxVms)
        /\ UNCHANGED <<index, port, lock_dirs>>
  /\ UNCHANGED <<lock, port_lock, dir, record, guardVars, pid, qemu, taken,
                 unstopped, rmVars, shared, recorded>>

PortFile(r) == port_lock[port[r]]

SetPortFile(r, file) == port_lock' = [port_lock EXCEPT ![port[r]] = file]

InspectPortLock(r) ==
  /\ pc[r] = "port_inspect"
  /\ Goto(r, IF Exists(PortFile(r)) /\ Stale(PortFile(r)) THEN "port_reclaim"
             ELSE "port_create")
  /\ UNCHANGED <<fileVars, runVars, qemu, taken, unstopped, rmVars, shared,
                 recorded>>

ReclaimPortLock(r) ==
  /\ At(r, "port_reclaim", "port_create")
  /\ SetPortFile(r, NoFile)
  /\ UNCHANGED <<lock_dirs, lock, dir, record, runVars, qemu, taken, unstopped,
                 rmVars, shared, recorded>>

TryNextPort_PastTheLast(r) ==
  IF port[r] < NumPorts
  THEN Goto(r, "port_inspect") /\ port' = [port EXCEPT ![r] = @ + 1]
  ELSE Goto(r, "failing") /\ UNCHANGED port

(* The next port of the loop, or none is left. *)
TryNextPort(r) ==
  IF port[r] + 1 < NumPorts
  THEN Goto(r, "port_inspect") /\ port' = [port EXCEPT ![r] = @ + 1]
  ELSE Goto(r, "failing") /\ UNCHANGED port

CreatePortLock(r) ==
  /\ pc[r] = "port_create"
  /\ IF "port" \notin lock_dirs
     THEN Goto(r, "failing") /\ UNCHANGED <<port, port_lock>>
     ELSE IF Exists(PortFile(r)) THEN TryNextPort(r) /\ UNCHANGED port_lock
     ELSE Goto(r, "port_probe") /\ SetPortFile(r, Created(r)) /\ UNCHANGED port
  /\ UNCHANGED <<lock_dirs, lock, dir, record, index, guardVars, pid, qemu, taken,
                 unstopped, rmVars, shared, recorded>>

Bound(p) == p \in taken \/ \E s \in Runs : qemu[s] = "up" /\ port[s] = p

(* is_port_free *)
ProbePort(r) ==
  /\ pc[r] = "port_probe"
  /\ IF Bound(port[r])
     THEN TryNextPort(r) /\ SetPortFile(r, NoFile)
     ELSE Goto(r, "port_stamp") /\ UNCHANGED <<port, port_lock>>
  /\ UNCHANGED <<lock_dirs, lock, dir, record, index, guardVars, pid, qemu, taken,
                 unstopped, rmVars, shared, recorded>>

StampPortLock_WithoutPid(r) ==
  /\ At(r, "port_stamp", "mkdir")
  /\ holds_port' = holds_port \union {r}
  /\ UNCHANGED <<fileVars, index, port, holds_lock, pid, qemu, taken, unstopped,
                 rmVars, shared, recorded>>

StampPortLock(r) ==
  /\ At(r, "port_stamp", "mkdir")
  /\ SetPortFile(r, Stamped(PortFile(r), r))
  /\ holds_port' = holds_port \union {r}
  /\ UNCHANGED <<lock_dirs, lock, dir, record, index, port, holds_lock, pid, qemu,
                 taken, unstopped, rmVars, shared, recorded>>

(* Had it been create_dir_all. *)
MakeDir_OrUseIt(r) ==
  /\ At(r, "mkdir", "unlock")
  /\ dir' = [dir EXCEPT ![index[r]] = r]
  /\ UNCHANGED <<lockVars, record, runVars, qemu, taken, unstopped, rmVars, shared,
                 recorded>>

(* It holds the lock directories and those of the VMs. *)
InstancesDirExists == lock_dirs # {} \/ \E i \in Indices : dir[i] # Nobody

(* create_dir fails on a directory that exists, or below one that does not. *)
MakeDir(r) ==
  /\ pc[r] = "mkdir"
  /\ IF dir[index[r]] = Nobody /\ InstancesDirExists
     THEN Goto(r, "unlock") /\ dir' = [dir EXCEPT ![index[r]] = r]
     ELSE Goto(r, "failing") /\ UNCHANGED dir
  /\ UNCHANGED <<lockVars, record, runVars, qemu, taken, unstopped, rmVars, shared,
                 recorded>>

(* Dropping a guard removes the file of its name, whoever made it.          *)
DropLock(r) == lock' = NoFile /\ holds_lock' = holds_lock \ {r}

DropPort(r) == SetPortFile(r, NoFile) /\ holds_port' = holds_port \ {r}

Unlock(r) ==
  /\ At(r, "unlock", "prepare")
  /\ DropLock(r)
  /\ UNCHANGED <<lock_dirs, port_lock, dir, record, index, port, holds_port, pid,
                 qemu, taken, unstopped, rmVars, shared, recorded>>

-----------------------------------------------------------------------------
(***************************************************************************)
(* After the lock: files for the VM, QEMU, the record, SSH.                *)
(***************************************************************************)

(* remove_dir_all, on whatever has the name by now. *)
RemoveDir(i) ==
  /\ dir' = [dir EXCEPT ![i] = Nobody]
  /\ record' = [record EXCEPT ![i] = Nobody]

KeepDir == UNCHANGED <<dir, record>>

(* A failure of the seed, the ISO, the disk or QEMU's spawn leaves the      *)
(* directory; one of virtiofsd removes it.                                  *)
PrepareFails(r) ==
  /\ At(r, "prepare", "failing")
  /\ KeepDir \/ RemoveDir(index[r])
  /\ UNCHANGED <<lockVars, runVars, qemu, taken, unstopped, rmVars, shared,
                 recorded>>

SpawnQemu(r) ==
  /\ At(r, "prepare", "poll")
  /\ dir[index[r]] # Nobody
  /\ qemu' = [qemu EXCEPT ![r] = "booting"]
  /\ UNCHANGED <<fileVars, runVars, taken, unstopped, rmVars, shared, recorded>>

TakePid(r, which) == pid' = [pid EXCEPT ![r] = which]

(* QemuRunner::start: the daemon's pid file, or the parent's pid after 3 s. *)
PollPidFile(r) ==
  /\ pc[r] = "poll"
  /\ IF qemu[r] = "up"
     THEN Goto(r, "settle") /\ TakePid(r, "daemon")
     ELSE \/ Goto(r, "wait") /\ UNCHANGED pid
          \/ Goto(r, "settle") /\ TakePid(r, "parent")
  /\ UNCHANGED <<fileVars, index, port, guardVars, qemu, taken, unstopped, rmVars,
                 shared, recorded>>

(* try_wait: the parent exits when the daemon is up, or when it failed.     *)
WaitForParent(r) ==
  /\ pc[r] = "wait"
  /\ Goto(r, IF qemu[r] = "booting" THEN "poll" ELSE "failing")
  /\ UNCHANGED <<fileVars, runVars, qemu, taken, unstopped, rmVars, shared,
                 recorded>>

(* The process with the pid the run took is alive. *)
PidAlive(r) ==
  \/ pid[r] = "daemon" /\ qemu[r] = "up"
  \/ pid[r] = "parent" /\ qemu[r] = "booting"

(* runtime_status, half a second later. *)
CheckRunning(r) ==
  /\ pc[r] = "settle"
  /\ IF PidAlive(r)
     THEN Goto(r, "record") /\ KeepDir
     ELSE Goto(r, "failing") /\ RemoveDir(index[r])
  /\ UNCHANGED <<lockVars, runVars, qemu, taken, unstopped, rmVars, shared,
                 recorded>>

(* write_vm_record: it makes the directory if that is gone.                 *)
PutRecord(i, r) ==
  /\ dir' = [dir EXCEPT ![i] = IF @ = Nobody THEN r ELSE @]
  /\ record' = [record EXCEPT ![i] = r]

WriteRecord(r) ==
  /\ pc[r] = "record"
  /\ \/ /\ Goto(r, "verify")
        /\ PutRecord(index[r], r)
        /\ recorded' = recorded \union {r}
     \/ Goto(r, "failing") /\ UNCHANGED <<dir, record, recorded>>
  /\ UNCHANGED <<lockVars, runVars, qemu, taken, unstopped, rmVars, shared>>

VerifySucceeds(r) ==
  /\ At(r, "verify", "succeeding")
  /\ PidAlive(r)
  /\ qemu[r] = "up"
  /\ UNCHANGED <<fileVars, runVars, qemu, taken, unstopped, rmVars, shared,
                 recorded>>

VerifyFails_KeepsQemu(r) ==
  /\ At(r, "verify", "failing")
  /\ RemoveDir(index[r])
  /\ UNCHANGED <<lockVars, runVars, qemu, taken, unstopped, rmVars, shared,
                 recorded>>

(* stop_qemu_and_wait refuses a pid that is not QEMU's any more, and fails  *)
(* if QEMU has not ended after five seconds: either is logged, and the      *)
(* directory and the record are removed all the same.                       *)
VerifyFails(r) ==
  /\ At(r, "verify", "failing")
  /\ \/ /\ qemu' = [qemu EXCEPT ![r] = IF PidAlive(r) THEN "dead" ELSE @]
        /\ UNCHANGED unstopped
     \/ /\ PidAlive(r)
        /\ unstopped' = unstopped \union {r}
        /\ UNCHANGED qemu
  /\ RemoveDir(index[r])
  /\ UNCHANGED <<lockVars, runVars, taken, rmVars, shared, recorded>>

(* The guards still held are dropped, the reservation first.                *)
Return(r) ==
  /\ pc[r] \in {"failing", "succeeding"}
  /\ IF r \in holds_port
     THEN DropPort(r) /\ UNCHANGED <<pc, lock, holds_lock>>
     ELSE /\ UNCHANGED <<port_lock, holds_port>>
          /\ IF r \in holds_lock
             THEN DropLock(r) /\ UNCHANGED pc
             ELSE /\ Goto(r, IF pc[r] = "failing" THEN "failed" ELSE "done")
                  /\ UNCHANGED <<lock, holds_lock>>
  /\ UNCHANGED <<lock_dirs, dir, record, index, port, pid, qemu, taken, unstopped,
                 rmVars, shared, recorded>>

(* The process is killed: no guard is dropped, QEMU runs on. *)
Crash(r) ==
  /\ pc[r] \notin Over
  /\ Cardinality({s \in Runs : pc[s] = "crashed"}) < MaxCrashes
  /\ Goto(r, "crashed")
  /\ holds_lock' = holds_lock \ {r}
  /\ holds_port' = holds_port \ {r}
  /\ UNCHANGED <<fileVars, index, port, pid, qemu, taken, unstopped, rmVars, shared,
                 recorded>>

-----------------------------------------------------------------------------
(***************************************************************************)
(* QEMU: the daemon listens on its port, writes its pid file and lets its  *)
(* parent exit; a port that is bound is an error.  It ends when it will.   *)
(***************************************************************************)
QemuComesUp(r) ==
  /\ qemu[r] = "booting"
  /\ ~Bound(port[r])
  /\ qemu' = [qemu EXCEPT ![r] = "up"]
  /\ UNCHANGED <<fileVars, pc, runVars, taken, unstopped, rmVars, shared, recorded>>

QemuAlive(r) == qemu[r] \in {"booting", "up"}

QemuEnds(r) ==
  /\ QemuAlive(r)
  /\ qemu' = [qemu EXCEPT ![r] = "dead"]
  /\ unstopped' = unstopped \ {r}
  /\ UNCHANGED <<fileVars, pc, runVars, taken, rmVars, shared, recorded>>

-----------------------------------------------------------------------------
(***************************************************************************)
(* rm_with_config and clear_vms, one call at a time.                       *)
(***************************************************************************)
Records == {<<i, record[i]>> : i \in {j \in Indices : record[j] # Nobody}}

BeingCreated(r) == pc[r] \notin Over

StartRemoval(todo, mode) ==
  /\ rm.mode = "idle"
  /\ todo # {}
  /\ removals < MaxRemovals
  /\ removals' = removals + 1
  /\ rm' = [todo |-> todo, stopped |-> {}, mode |-> mode]
  /\ contested' = contested \union
       IF mode = "all" THEN Indices
       ELSE {entry[1] : entry \in {e \in todo : BeingCreated(e[2])}}
  /\ UNCHANGED <<fileVars, pc, runVars, qemu, taken, unstopped, shared, recorded>>

RemoveVm == \E entry \in Records : StartRemoval({entry}, "one")

ClearVms == StartRemoval(Records, "all")

(* resolve_qemu_pid: the process on record, or else the one in the pid file *)
(* or whose command line has the name, the disk or the seed of the VM: all  *)
(* of them are of its id, so that it may be any QEMU with the id.           *)
Resolved_AnyQemu(i, r) ==
  IF PidAlive(r) THEN {r} ELSE {s \in Runs : QemuAlive(s)}

Resolved(i, r) ==
  IF PidAlive(r) THEN {r} ELSE {s \in Runs : QemuAlive(s) /\ index[s] = i}

(* Had it taken a signal for an end. *)
StopVm_NotAwaited(entry) ==
  LET i == entry[1]
      r == entry[2] IN
  /\ entry \in rm.todo
  /\ rm.stopped = {}
  /\ rm' = [rm EXCEPT !.stopped = {entry}]
  /\ PutRecord(i, r)
  /\ UNCHANGED <<lockVars, pc, runVars, qemu, taken, unstopped, removals, contested,
                 shared, recorded>>

(* stop_record_if_running: it then writes the record it has read.           *)
StopVm(entry) ==
  LET i == entry[1]
      r == entry[2] IN
  /\ entry \in rm.todo
  /\ rm.stopped = {}
  /\ rm' = [rm EXCEPT !.stopped = {entry}]
  /\ IF Resolved(i, r) = {} THEN UNCHANGED <<qemu, unstopped>>
     ELSE \E s \in Resolved(i, r) : /\ qemu' = [qemu EXCEPT ![s] = "dead"]
                                    /\ unstopped' = unstopped \ {s}
  /\ PutRecord(i, r)
  /\ UNCHANGED <<lockVars, pc, runVars, taken, removals, contested, shared, recorded>>

(* The call is over, or goes on with the next VM. *)
EndRemoval(entry, failed) ==
  rm' = IF rm.mode = "one" THEN NoRemoval
        ELSE [todo |-> rm.todo \ {entry}, stopped |-> {},
              mode |-> IF failed THEN "all_failed" ELSE rm.mode]

(* The rest of remove_vm_instance: whoever has the id now loses its files.  *)
RemoveInstance(entry) ==
  /\ entry \in rm.stopped
  /\ EndRemoval(entry, FALSE)
  /\ RemoveDir(entry[1])
  /\ UNCHANGED <<lockVars, pc, runVars, qemu, taken, unstopped, removals, contested,
                 shared, recorded>>

(* QEMU does not stop in time, or not all files can be removed. *)
RemovalFails(entry) ==
  /\ \/ entry \in rm.todo /\ rm.stopped = {} /\ KeepDir
     \/ entry \in rm.stopped /\ KeepDir
     \/ /\ entry \in rm.stopped
        /\ record' = [record EXCEPT ![entry[1]] = Nobody]
        /\ UNCHANGED dir
  /\ EndRemoval(entry, TRUE)
  /\ UNCHANGED <<lockVars, pc, runVars, qemu, taken, unstopped, removals, contested,
                 shared, recorded>>

(* The whole directory goes, lock files and unrecorded VMs with it.         *)
Wipe ==
  /\ rm.mode = "all"
  /\ rm.todo = {}
  /\ rm' = NoRemoval
  /\ lock_dirs' = {}
  /\ lock' = NoFile
  /\ port_lock' = [p \in Ports |-> NoFile]
  /\ dir' = [i \in Indices |-> Nobody]
  /\ record' = [i \in Indices |-> Nobody]
  /\ UNCHANGED <<pc, runVars, qemu, taken, unstopped, removals, contested, shared,
                 recorded>>

GiveUpClearing ==
  /\ rm.mode = "all_failed"
  /\ rm.todo = {}
  /\ rm' = NoRemoval
  /\ UNCHANGED <<fileVars, pc, runVars, qemu, taken, unstopped, removals, contested,
                 shared, recorded>>

-----------------------------------------------------------------------------
Lock(r) == MakeLockDir(r) \/ TryLock(r) \/ InspectLock(r) \/ ReclaimLock(r) \/ StampLock(r)

Reserve(r) ==
  \/ InspectPortLock(r) \/ ReclaimPortLock(r) \/ CreatePortLock(r)
  \/ ProbePort(r) \/ StampPortLock(r)

Start(r) ==
  \/ PrepareFails(r) \/ SpawnQemu(r) \/ PollPidFile(r) \/ WaitForParent(r)
  \/ CheckRunning(r) \/ WriteRecord(r) \/ VerifySucceeds(r) \/ VerifyFails(r)

Run(r) ==
  \/ Lock(r) \/ Allocate(r) \/ Reserve(r) \/ MakeDir(r) \/ Unlock(r)
  \/ Start(r) \/ Return(r)

Qemu(r) == QemuComesUp(r) \/ QemuEnds(r)

Remover ==
  \/ \E entry \in rm.todo : StopVm(entry) \/ RemoveInstance(entry) \/ RemovalFails(entry)
  \/ Wipe
  \/ GiveUpClearing

Next ==
  \/ \E r \in Runs : Run(r) \/ Crash(r) \/ Qemu(r)
  \/ RemoveVm \/ ClearVms \/ Remover

Spec == Init /\ [][Next]_vars

(* A process that is alive goes on, and a QEMU that is starting comes up or *)
(* ends: the operating system schedules them.  No crash, no call of `vm rm` *)
(* and no end of a running QEMU is owed.                                    *)
FairSpec ==
  /\ Spec
  /\ \A r \in Runs : WF_vars(Run(r)) /\ WF_vars(qemu[r] = "booting" /\ Qemu(r))

-----------------------------------------------------------------------------
(***************************************************************************)
(* Properties.                                                             *)
(***************************************************************************)

(* The id of a run is its own once its directory was made, and nobody may   *)
(* take the directory away: neither another run that allocates or cleans    *)
(* up, nor a removal, except one that was called for a VM still being       *)
(* created (its id is contested from then on) or for all VMs.  The creation *)
(* lock does not give this (MutualExclusion is violated): create_dir does.  *)
OwnDirectory ==
  \A r \in Runs :
    pc[r] \in Building /\ index[r] \notin contested => dir[index[r]] = r

(* Two runs hold a reservation on the same port only if they once held the  *)
(* creation lock together.  A port is not bound before QEMU is up, so until *)
(* then the lock file is all that keeps a second run off.                   *)
PortsDistinct ==
  contested = {} /\ ~shared =>
    \A r, s \in holds_port : port[r] = port[s] => r = s

(* A VM that was recorded and whose QEMU runs is found under its id by      *)
(* `vm ps` and `vm rm`, unless its id was contested, the run had to take    *)
(* the pid of QEMU's parent for QEMU's, or SSH failed and QEMU did not stop *)
(* when the run gave the VM up.                                             *)
RecordedVmIsKept ==
  \A r \in recorded \ unstopped :
    QemuAlive(r) /\ pid[r] = "daemon" /\ index[r] \notin contested =>
      record[index[r]] = r

(* A removal that finds the process on record gone stops whatever QEMU has  *)
(* the id.  Unless the id was contested, that is never the VM of a run that *)
(* is still creating it or has returned it: only what a run that failed, or *)
(* was killed, has left behind.                                             *)
RemovalStopsItsVm ==
  [][\A entry \in rm'.stopped \ rm.stopped, s \in Runs :
       /\ entry[1] \notin contested
       /\ QemuAlive(s) /\ ~QemuAlive(s)'
       => s = entry[2] \/ pc[s] \in {"failing", "failed", "crashed"}]_vars

(* The directories and records are those of VmIds: no run gets an id that   *)
(* another has, however the lock fails; a run gives its own id back and no  *)
(* other, when its VM does not run or cannot be stopped; `vm rm` frees only *)
(* the ids of VMs that are on record and stopped, whose runs are over.      *)
Undisputed(files) == [i \in Indices |-> IF i \in contested THEN Nobody ELSE files[i]]

IdStage(r) ==
  IF pc[r] \in Over THEN "over"
  ELSE IF pc[r] \in Locking \union {"allocate", "mkdir"} \union Reserving THEN "asking"
  ELSE "building"

KnownAlive == {r \in Runs : QemuAlive(r) /\ pid[r] = "daemon"}

Instances == INSTANCE VmIds WITH
  Ids <- Indices, owner <- Undisputed(dir), listed <- Undisputed(record),
  stage <- [r \in Runs |-> IdStage(r)], alive <- KnownAlive, astray <- unstopped,
  disputed <- contested

ImplementsIds == Instances!Spec

(* Every run comes to an end: runs that find each other's empty lock files  *)
(* do not go on removing them forever, and a lock whose owner was killed    *)
(* does not keep the others waiting.                                        *)
RunEnds == \A r \in Runs : <>(pc[r] \in Over)

(* vm/src/vm/port.rs, acquire_vm_creation_lock: the lock makes allocation,  *)
(* reservation and directory creation atomic.                               *)
MutualExclusion == Cardinality(holds_lock) <= 1

-----------------------------------------------------------------------------
(***************************************************************************)
(* The inductive invariant.                                                *)
(***************************************************************************)
Critical == {"allocate"} \union Reserving \union {"mkdir", "unlock"}

(* Who allocates, reserves or makes a directory has a guard; a port is      *)
(* reserved until the run that reserved it returns.                         *)
GuardInv ==
  /\ \A r \in Runs : pc[r] \in Critical => r \in holds_lock
  /\ ~shared => \A r, s \in holds_lock : r = s
  /\ \A r \in holds_port : pc[r] \in {"mkdir", "failing", "succeeding"} \union Building

(* While the lock excludes, the file of a reserved port is there and says   *)
(* whose it is, and nobody is about to reclaim it.                          *)
PortInv ==
  contested = {} /\ ~shared =>
    /\ \A r \in holds_port : PortFile(r).by = r /\ PortFile(r).written
    /\ \A r \in Runs : pc[r] \in {"port_probe", "port_stamp"} => PortFile(r).by = r
    /\ \A r \in Runs : pc[r] = "port_reclaim" => \A s \in holds_port : port[s] # port[r]

(* A record is in the directory of the run it is about.                     *)
RecordInv == \A i \in Indices \ contested : record[i] # Nobody => dir[i] = record[i]

(* QEMU wrote the pid file a run has read; a record follows that.  A run    *)
(* succeeds with both; one that gave up a VM that runs on has failed.       *)
PidInv ==
  \A r \in Runs :
    /\ pid[r] = "daemon" => qemu[r] \in {"up", "dead"}
    /\ pc[r] \in Locking \union Critical \union {"prepare", "poll", "wait"} => pid[r] = "none"
    /\ pc[r] \in Locking \union Critical \union {"prepare"} => qemu[r] = "none"
    /\ r \in recorded => pc[r] \in {"verify", "failing", "succeeding"} \union Over
    /\ pc[r] \in {"verify", "succeeding", "done"} => r \in recorded
    /\ pc[r] \in {"succeeding", "done"} => pid[r] = "daemon"
    /\ r \in unstopped => pc[r] \in {"failing", "failed", "crashed"}

(* The VM of a removal that is not contested is one whose run is over, and  *)
(* has its directory; it does not run any more once it is stopped.          *)
RemovalInv ==
  /\ rm.mode = "idle" => rm.todo = {}
  /\ rm.mode \in {"all", "all_failed"} => contested = Indices
  /\ \A entry \in rm.todo \union rm.stopped :
       entry[1] \notin contested =>
         pc[entry[2]] \in Over /\ dir[entry[1]] = entry[2] /\ record[entry[1]] = entry[2]
  /\ \A entry \in rm.stopped :
       entry[1] \notin contested => ~(QemuAlive(entry[2]) /\ pid[entry[2]] = "daemon")

CreationInv ==
  /\ TypeOK /\ GuardInv /\ PortInv /\ RecordInv /\ PidInv /\ RemovalInv
  /\ OwnDirectory /\ RecordedVmIsKept
=============================================================================
