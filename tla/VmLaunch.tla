------------------------------ MODULE VmLaunch ------------------------------
(***************************************************************************)
(* One launch of a VM, from what was asked to a guest that answers: a task *)
(* (worker/src/runner.rs) or a command line (vm/src/main.rs) becomes       *)
(* RunOptions, and run_vm_inner (vm/src/ops.rs) makes of them a seed, a    *)
(* virtiofsd per mount and a QEMU, with `vm rm` removing it again.         *)
(*                                                                         *)
(* QEMU and the virtiofsds are processes of their own, which start, serve  *)
(* and die when they want.  What the run shares with other runs is left to *)
(* ImageCache, SshKeys and VmCreation: each is a step here that may fail.  *)
(***************************************************************************)
EXTENDS TaskSetup

CONSTANTS
  Tasks,        \* definitions of tasks
  Commands,     \* command lines, with mounts as they are written
  Systems,      \* operating systems of hosts
  HostTexts,    \* what the kernel_config file of a task may hold
  GuestTexts,   \* what the guest may answer when asked for its configuration
  MaxMounts,    \* bound: mounts of a request
  MaxPolls,     \* polls of a wait before its deadline
  MaxRetries    \* attempts to connect: 12, or 30 without acceleration

ASSUME LaunchAssumption ==
  /\ \A task \in Tasks :
       /\ task.disk_size \in BOOLEAN
       /\ task.vm.mounts \in Seq([host : HostPaths \union {Gone, "blank", "dot"},
                                 guest : GuestPaths \union {"blank", "relative"},
                                 mode : {"ro", "rw"}])
       /\ Len(task.vm.mounts) <= MaxMounts
  /\ \A command_line \in Commands :
       /\ command_line \in [kernel : Given, rootfs : Given, image_url : BOOLEAN,
                           disk_size : BOOLEAN, mounts : Seq(Written), verbose : BOOLEAN]
       /\ Len(command_line.mounts) <= MaxMounts
  /\ GuestTexts \subseteq Seq(ConfigLine)
  /\ MaxMounts \in Nat
  /\ MaxPolls \in Nat \ {0}
  /\ MaxRetries \in Nat \ {0}

VARIABLES
  (* what is asked *)
  caller,       \* "task" or "cli"
  request,      \* a task or a command line
  os,
  options,      \* RunOptions, once made
  kernel_text,  \* the configuration the guest has answered with
  (* the run *)
  stage,
  polls,        \* polls of the wait, or attempts of the connection, so far
  seed,
  shares,       \* VirtioFsRuntime
  known,        \* what the PID the run has got stands for
  (* the host *)
  sockets,      \* mounts whose socket file is there
  virtiofsd,    \* the process that serves each mount
  qemu,         \* the process that is the VM
  parent,       \* the process that was spawned is alive
  command,      \* the command line it was spawned with
  pid_file,     \* qemu.pid is there
  recorded,     \* vm.json is there
  rm,           \* what `vm rm` is about to do
  (* history, for the properties only *)
  excuses       \* what kept the run from cleaning up

askVars  == <<caller, request, os, options, kernel_text>>
runVars  == <<stage, polls, seed, shares, known>>
vmVars   == <<qemu, parent, command, pid_file>>
hostVars == <<sockets, virtiofsd, recorded>>
launchVars == <<askVars, runVars, vmVars, hostVars, rm, excuses>>

NoOptions == [mounts |-> <<>>]
NoCommand == [drives |-> <<>>]
NoSeed    == [runcmd |-> <<>>]

Mounts == 1 .. MaxMounts

Stages == {"begin", "prepare", "options", "host", "seed", "disk", "spawn", "await_socket",
           "start", "await_pid", "check_exit", "settle", "record", "port", "connect",
           "hostname", "check", "stop", "stop_sidecars", "drop_dir", "up",
           "ready", "unfit", "refused", "err", "killed"}
Ended  == {"up", "ready", "unfit", "refused", "err", "killed"}

Excuses == {"spawn", "late", "lost", "stop", "parent", "record"}

LaunchTypeOK ==
  /\ caller \in {"task", "cli"}
  /\ request \in Tasks \union Commands
  /\ os \in Systems
  /\ options \in RunOptions \union {NoOptions}
  /\ Len(options.mounts) <= MaxMounts
  /\ kernel_text \in GuestTexts \union {<<>>}
  /\ stage \in Stages
  /\ polls \in Nat
  /\ polls <= MaxPolls \/ polls < MaxRetries
  /\ Len(seed.runcmd) <= MaxMounts
  /\ shares \in Seq([tag : {Tag(k) : k \in Mounts}, socket : Mounts, pid : Mounts])
  /\ Len(shares) <= MaxMounts
  /\ known \in {"none", "parent", "qemu"}
  /\ sockets \subseteq Mounts
  /\ virtiofsd \in [Mounts -> {"none", "starting", "serving", "gone"}]
  /\ qemu \in {"none", "starting", "running", "dead"}
  /\ parent \in BOOLEAN
  /\ pid_file \in BOOLEAN
  /\ recorded \in BOOLEAN
  /\ rm \in {"none", "stop", "sidecars", "dir", "done"}
  /\ excuses \subseteq Excuses

LaunchInit ==
  /\ \/ caller = "task" /\ request \in Tasks
     \/ caller = "cli" /\ request \in Commands
  /\ os \in Systems
  /\ options = NoOptions
  /\ kernel_text = <<>>
  /\ stage = "begin"
  /\ polls = 0
  /\ seed = NoSeed
  /\ shares = <<>>
  /\ known = "none"
  /\ sockets = {}
  /\ virtiofsd = [k \in Mounts |-> "none"]
  /\ qemu = "none"
  /\ parent = FALSE
  /\ command = NoCommand
  /\ pid_file = FALSE
  /\ recorded = FALSE
  /\ rm = "none"
  /\ excuses = {}

At(from, to) == stage = from /\ stage' = to

Excuse(excuse, applies) == excuses' = IF applies THEN excuses \union {excuse} ELSE excuses

QemuRuns   == qemu \in {"starting", "running"}
Daemonized == options # NoOptions /\ ~options.verbose

(* is_process_alive of the PID that is known.                               *)
KnownAlive == IF known = "parent" THEN parent ELSE known = "qemu" /\ QemuRuns

-----------------------------------------------------------------------------
(***************************************************************************)
(* From a request to RunOptions.                                           *)
(***************************************************************************)

(* The arguments of `vm run`; clap ends the program at a bad mount.         *)
ParseCommand ==
  /\ caller = "cli"
  /\ LET raw == request.mounts IN
     \/ /\ At("begin", "options")
        /\ \A i \in DOMAIN raw : MountParses(raw[i])
        /\ options' = [request EXCEPT !.mounts = [i \in DOMAIN raw |-> ParsedMount(raw[i])]]
     \/ /\ At("begin", "err")
        /\ \E i \in DOMAIN raw : ~MountParses(raw[i])
        /\ UNCHANGED options
  /\ UNCHANGED <<caller, request, os, kernel_text, polls, seed, shares, known, vmVars, hostVars,
                 rm, excuses>>

LoadTask ==
  /\ caller = "task"
  /\ \/ At("begin", "prepare") /\ Loads(request)
     \/ At("begin", "err") /\ ~Loads(request)
  /\ UNCHANGED <<askVars, polls, seed, shares, known, vmVars, hostVars, rm, excuses>>

(* run_loaded_task_with_ops up to the call of run: the kernel configuration *)
(* on the host, then the launch options.  The copy of the rootfs and its    *)
(* new size, which may fail, are TaskChain's.                               *)
PrepareTask ==
  /\ \/ /\ At("prepare", "options")
        /\ RequirementsParse(KernelRequirements(request.vm))
        /\ \E text \in HostTexts : StaticallyFits(request.vm, text)
        /\ LaunchPrepares(request.vm, request.disk_size)
        /\ options' = LaunchOptions(request.vm, request.disk_size)
     \/ At("prepare", "err") /\ UNCHANGED options
  /\ UNCHANGED <<caller, request, os, kernel_text, polls, seed, shares, known, vmVars, hostVars,
                 rm, excuses>>

(* run_vm_inner.                                                            *)
CheckOptions ==
  /\ \/ At("options", "host") /\ OptionsAccepted(options)
     \/ At("options", "refused") /\ ~OptionsAccepted(options)
  /\ UNCHANGED <<askVars, polls, seed, shares, known, vmVars, hostVars, rm, excuses>>

(* Host profile, directories, image, key, id, port and directory of the VM. *)
(* The download of the image has no deadline.                               *)
PrepareHost ==
  /\ \/ At("host", "seed") /\ Supported(os)
     \/ At("host", "err")
  /\ UNCHANGED <<askVars, polls, seed, shares, known, vmVars, hostVars, rm, excuses>>

(* The seed's files and its ISO.                                            *)
WriteSeed ==
  /\ \/ At("seed", "disk") /\ seed' = Seed("key", options.mounts, Transport(os))
     \/ At("seed", "err") /\ UNCHANGED seed
  /\ UNCHANGED <<askVars, polls, shares, known, vmVars, hostVars, rm, excuses>>

(* detect_disk_format of the rootfs, or a copy of the image.                *)
MakeDisk ==
  /\ \/ /\ At("disk", IF Transport(os) = "virtiofs" /\ options.mounts # <<>>
                      THEN "spawn" ELSE "start")
        /\ options.rootfs # Gone
     \/ At("disk", "err")
  /\ UNCHANGED <<askVars, polls, seed, shares, known, vmVars, hostVars, rm, excuses>>

-----------------------------------------------------------------------------
(***************************************************************************)
(* start_virtiofs_runtime.                                                 *)
(***************************************************************************)

IsNext(k) == Len(shares) + 1 = k /\ k \in DOMAIN options.mounts

Share(k) == [tag |-> Tag(k), socket |-> k, pid |-> k]

(* stop_sidecar_processes ends each of them, with TERM or KILL.             *)
Stopped(started) ==
  [k \in Mounts |-> IF \E i \in DOMAIN started : started[i].pid = k THEN "gone" ELSE virtiofsd[k]]

(* A virtiofsd that cannot be spawned leaves those before it.               *)
SpawnSidecar(k) ==
  /\ stage = "spawn" /\ IsNext(k)
  /\ sockets' = sockets \ {k}
  /\ \/ /\ At("spawn", "await_socket")
        /\ virtiofsd' = [virtiofsd EXCEPT ![k] = "starting"]
        /\ UNCHANGED excuses
     \/ /\ At("spawn", "drop_dir")
        /\ Excuse("spawn", shares # <<>>)
        /\ UNCHANGED virtiofsd
  /\ polls' = 0
  /\ UNCHANGED <<askVars, seed, shares, known, vmVars, recorded, rm>>

ShareServed_TagOfNext(k) ==
  /\ k \in sockets
  /\ shares' = Append(shares, [Share(k) EXCEPT !.tag = Tag(k + 1)])
  /\ At("await_socket", IF k < Len(options.mounts) THEN "spawn" ELSE "start")
  /\ UNCHANGED <<polls, virtiofsd, excuses>>

ShareServed(k) ==
  /\ k \in sockets
  /\ shares' = Append(shares, Share(k))
  /\ At("await_socket", IF k < Len(options.mounts) THEN "spawn" ELSE "start")
  /\ UNCHANGED <<polls, virtiofsd, excuses>>

(* The virtiofsd that did not make its socket in time is not among those    *)
(* that are stopped.                                                        *)
ShareFails(k) ==
  /\ k \notin sockets
  /\ virtiofsd[k] = "gone" \/ polls = MaxPolls
  /\ At("await_socket", "drop_dir")
  /\ virtiofsd' = Stopped(shares)
  /\ Excuse("late", virtiofsd[k] # "gone")
  /\ UNCHANGED <<polls, shares>>

ShareAwaited(k) ==
  /\ k \notin sockets
  /\ virtiofsd[k] # "gone"
  /\ polls < MaxPolls
  /\ At("await_socket", "await_socket")
  /\ polls' = polls + 1
  /\ UNCHANGED <<shares, virtiofsd, excuses>>

(* wait_for_socket_or_exit.                                                 *)
AwaitSocket(k) ==
  /\ stage = "await_socket" /\ IsNext(k)
  /\ ShareServed(k) \/ ShareFails(k) \/ ShareAwaited(k)
  /\ UNCHANGED <<askVars, seed, known, vmVars, sockets, recorded, rm>>

-----------------------------------------------------------------------------
(***************************************************************************)
(* QemuRunner::start, and the check that QEMU stays.                       *)
(***************************************************************************)
Config == QemuConfig(HostProfile(os, FALSE), options, shares)

(* Had the virtiofsds been left to a QEMU that never came. *)
StartQemu_KeepsSidecars ==
  /\ \/ /\ At("start", "await_pid")
        /\ ConfigValid(Config, sockets)
        /\ command' = QemuCommand(Config)
        /\ qemu' = "starting" /\ parent' = TRUE /\ pid_file' = FALSE
        /\ UNCHANGED virtiofsd
     \/ /\ stage = "start"
        /\ stage' = IF ConfigValid(Config, sockets) THEN "err" ELSE "refused"
        /\ UNCHANGED <<vmVars, virtiofsd>>
  /\ polls' = 0
  /\ UNCHANGED <<askVars, seed, shares, known, sockets, recorded, rm, excuses>>

(* A configuration that does not validate, or no QEMU to spawn.             *)
StartQemu ==
  /\ \/ /\ At("start", "await_pid")
        /\ ConfigValid(Config, sockets)
        /\ command' = QemuCommand(Config)
        /\ qemu' = "starting" /\ parent' = TRUE /\ pid_file' = FALSE
        /\ UNCHANGED virtiofsd
     \/ /\ stage = "start"
        /\ stage' = IF ConfigValid(Config, sockets) THEN "err" ELSE "refused"
        /\ virtiofsd' = Stopped(shares)
        /\ UNCHANGED vmVars
  /\ polls' = 0
  /\ UNCHANGED <<askVars, seed, shares, known, sockets, recorded, rm, excuses>>

(* Had the three seconds not been counted. *)
ReadPidFile_ForEver ==
  /\ \/ At("await_pid", "settle") /\ pid_file /\ known' = "qemu"
     \/ At("await_pid", "check_exit") /\ ~pid_file /\ UNCHANGED known
  /\ UNCHANGED <<askVars, polls, seed, shares, vmVars, hostVars, rm, excuses>>

(* The PID of the file, or, past the deadline, of the process that was      *)
(* spawned: QEMU itself unless it daemonises.                               *)
ReadPidFile ==
  /\ \/ pid_file /\ At("await_pid", "settle") /\ known' = "qemu"
     \/ /\ ~pid_file /\ polls = MaxPolls
        /\ At("await_pid", "settle")
        /\ known' = IF Daemonized THEN "parent" ELSE "qemu"
     \/ ~pid_file /\ polls < MaxPolls /\ At("await_pid", "check_exit") /\ UNCHANGED known
  /\ UNCHANGED <<askVars, polls, seed, shares, vmVars, hostVars, rm, excuses>>

(* try_wait.  QEMU may have written its file and daemonised since the file  *)
(* was looked for.                                                          *)
CheckExit ==
  /\ \/ /\ parent
        /\ At("check_exit", "await_pid")
        /\ polls' = polls + 1
        /\ UNCHANGED <<virtiofsd, excuses>>
     \/ /\ ~parent
        /\ At("check_exit", "err")
        /\ virtiofsd' = Stopped(shares)
        /\ Excuse("lost", QemuRuns)
        /\ UNCHANGED polls
  /\ UNCHANGED <<askVars, seed, shares, known, vmVars, sockets, recorded, rm>>

Settle ==
  /\ \/ At("settle", "record") /\ KnownAlive
     \/ At("settle", "stop") /\ ~KnownAlive
  /\ UNCHANGED <<askVars, polls, seed, shares, known, vmVars, hostVars, rm, excuses>>

(* write_vm_record.  Its failure ends the run as it is.                     *)
WriteRecord ==
  /\ \/ At("record", "port") /\ recorded' = TRUE /\ UNCHANGED excuses
     \/ At("record", "err") /\ Excuse("record", TRUE) /\ UNCHANGED recorded
  /\ polls' = 0
  /\ UNCHANGED <<askVars, seed, shares, known, vmVars, sockets, virtiofsd, rm>>

-----------------------------------------------------------------------------
(***************************************************************************)
(* verify_ssh_connection.                                                  *)
(***************************************************************************)

(* wait_for_ssh_port: a connection that is refused ends the wait as well as *)
(* one that is accepted.                                                    *)
WaitForPort ==
  /\ \/ At("port", "connect") /\ KnownAlive /\ polls' = 0
     \/ KnownAlive /\ polls < MaxPolls /\ At("port", "port") /\ polls' = polls + 1
     \/ /\ ~KnownAlive \/ polls = MaxPolls
        /\ At("port", "stop")
        /\ UNCHANGED polls
  /\ UNCHANGED <<askVars, seed, shares, known, vmVars, hostVars, rm, excuses>>

Connect_ForEver ==
  /\ \/ At("connect", "hostname") /\ qemu = "running"
     \/ At("connect", "connect")
  /\ UNCHANGED <<askVars, polls, seed, shares, known, vmVars, hostVars, rm, excuses>>

(* connect_with_retry: a guest that runs may answer, refuse, or do neither, *)
(* and then the attempt lasts: it is this step that no fairness is about.   *)
Connect ==
  /\ \/ At("connect", "hostname") /\ qemu = "running" /\ UNCHANGED polls
     \/ polls + 1 < MaxRetries /\ At("connect", "connect") /\ polls' = polls + 1
     \/ polls + 1 >= MaxRetries /\ At("connect", "stop") /\ UNCHANGED polls
  /\ UNCHANGED <<askVars, seed, shares, known, vmVars, hostVars, rm, excuses>>

(* execute_command, which has no deadline either. *)
AskHostname ==
  /\ \/ At("hostname", "check") /\ qemu = "running"
     \/ At("hostname", "stop")
  /\ UNCHANGED <<askVars, polls, seed, shares, known, vmVars, hostVars, rm, excuses>>

CheckRunning ==
  /\ \/ At("check", "up") /\ KnownAlive
     \/ At("check", "stop") /\ ~KnownAlive
  /\ UNCHANGED <<askVars, polls, seed, shares, known, vmVars, hostVars, rm, excuses>>

-----------------------------------------------------------------------------
(***************************************************************************)
(* Cleaning up.                                                            *)
(***************************************************************************)

(* A signal to the process that was spawned does not reach the QEMU that    *)
(* has daemonised, or is about to.                                          *)
KillParent == parent' = FALSE /\ UNCHANGED <<qemu, command, pid_file>>

KillQemu ==
  /\ qemu' = (IF QemuRuns THEN "dead" ELSE qemu)
  /\ parent' = FALSE
  /\ UNCHANGED <<command, pid_file>>

(* stop_qemu_and_wait: what goes wrong is logged, and the run goes on.      *)
StopQemu ==
  /\ At("stop", "stop_sidecars")
  /\ \/ known = "parent" /\ KillParent /\ Excuse("parent", QemuRuns)
     \/ known = "qemu" /\ KillQemu /\ UNCHANGED excuses
     \/ known = "qemu" /\ Excuse("stop", QemuRuns) /\ UNCHANGED vmVars
  /\ UNCHANGED <<askVars, polls, seed, shares, known, hostVars, rm>>

StopSidecars ==
  /\ At("stop_sidecars", "drop_dir")
  /\ virtiofsd' = Stopped(shares)
  /\ UNCHANGED <<askVars, polls, seed, shares, known, vmVars, sockets, recorded, rm, excuses>>

RemoveFiles == sockets' = {} /\ recorded' = FALSE /\ pid_file' = FALSE

(* remove_dir_all of the VM's directory; that this fails is logged.         *)
DropDir ==
  /\ At("drop_dir", "err")
  /\ RemoveFiles \/ UNCHANGED <<sockets, recorded, pid_file>>
  /\ UNCHANGED <<askVars, polls, seed, shares, known, qemu, parent, command, virtiofsd, rm,
                 excuses>>

-----------------------------------------------------------------------------
(***************************************************************************)
(* After the launch: the task looks at the kernel, and the VM is removed.  *)
(***************************************************************************)
(* verify_kernel_config_runtime_with_ops: the guest may not answer, or have *)
(* no configuration to answer with.                                         *)
ProbeKernel ==
  /\ caller = "task" /\ stage = "up"
  /\ LET required == KernelRequirements(request.vm) IN
     \/ At("up", "ready") /\ required = <<>> /\ UNCHANGED kernel_text
     \/ At("up", "unfit") /\ required # <<>> /\ UNCHANGED kernel_text
     \/ /\ required # <<>>
        /\ qemu = "running"
        /\ \E text \in GuestTexts :
             /\ kernel_text' = text
             /\ At("up", IF Mismatches(text, required) = {} THEN "ready" ELSE "unfit")
  /\ UNCHANGED <<caller, request, os, options, polls, seed, shares, known, vmVars, hostVars, rm,
                 excuses>>

(* `vm rm`, by the worker or by anyone, reads the record.                   *)
BeginRm ==
  /\ rm = "none" /\ recorded
  /\ rm' = "stop"
  /\ UNCHANGED <<askVars, runVars, vmVars, hostVars, excuses>>

(* Had it gone on when QEMU did not stop. *)
RmStop_GoesOn ==
  /\ rm = "stop"
  /\ rm' = "sidecars"
  /\ KillQemu \/ UNCHANGED vmVars
  /\ UNCHANGED <<askVars, runVars, hostVars, excuses>>

(* stop_record_if_running resolves the PID: the recorded one if that is a   *)
(* QEMU, as the process that was spawned is until it is waited for;         *)
(* otherwise the one of the file or of the process table.                   *)
RmStop ==
  /\ rm = "stop"
  /\ \/ /\ known = "parent"
        /\ KillParent
        /\ Excuse("parent", QemuRuns)
        /\ rm' = "sidecars"
     \/ /\ ~(known = "parent" /\ parent)
        /\ KillQemu
        /\ rm' = "sidecars"
        /\ UNCHANGED excuses
     \/ /\ QemuRuns
        /\ rm' = "none"
        /\ UNCHANGED <<vmVars, excuses>>
  /\ UNCHANGED <<askVars, runVars, hostVars>>

(* The record is written once more, which makes its directory anew if the   *)
(* run has removed it.                                                      *)
RmSidecars ==
  /\ rm = "sidecars"
  /\ rm' = "dir"
  /\ virtiofsd' = Stopped(shares)
  /\ recorded' = TRUE
  /\ UNCHANGED <<askVars, runVars, vmVars, sockets, excuses>>

RmDir ==
  /\ rm = "dir"
  /\ rm' = "done"
  /\ RemoveFiles
  /\ UNCHANGED <<askVars, runVars, qemu, parent, command, virtiofsd, excuses>>

-----------------------------------------------------------------------------
(***************************************************************************)
(* The other processes.                                                    *)
(***************************************************************************)

(* QEMU writes its file, and its parent exits when it daemonises.           *)
QemuComesUp ==
  /\ qemu = "starting"
  /\ qemu' = "running"
  /\ pid_file' = TRUE
  /\ parent' = (parent /\ ~Daemonized)
  /\ UNCHANGED <<askVars, runVars, command, hostVars, rm, excuses>>

QemuDies ==
  /\ QemuRuns
  /\ qemu' = "dead"
  /\ parent' = FALSE
  /\ UNCHANGED <<askVars, runVars, command, pid_file, hostVars, rm, excuses>>

SidecarServes(k) ==
  /\ virtiofsd[k] = "starting"
  /\ virtiofsd' = [virtiofsd EXCEPT ![k] = "serving"]
  /\ sockets' = sockets \union {k}
  /\ UNCHANGED <<askVars, runVars, vmVars, recorded, rm, excuses>>

SidecarDies(k) ==
  /\ virtiofsd[k] \in {"starting", "serving"}
  /\ virtiofsd' = [virtiofsd EXCEPT ![k] = "gone"]
  /\ UNCHANGED <<askVars, runVars, vmVars, sockets, recorded, rm, excuses>>

KillRun ==
  /\ stage \notin Ended
  /\ stage' = "killed"
  /\ UNCHANGED <<askVars, polls, seed, shares, known, vmVars, hostVars, rm, excuses>>

RunStep ==
  \/ ParseCommand \/ LoadTask \/ PrepareTask \/ CheckOptions \/ PrepareHost \/ WriteSeed
  \/ MakeDisk \/ (\E k \in Mounts : SpawnSidecar(k) \/ AwaitSocket(k))
  \/ StartQemu \/ ReadPidFile \/ CheckExit \/ Settle \/ WriteRecord
  \/ WaitForPort \/ Connect \/ AskHostname \/ CheckRunning
  \/ StopQemu \/ StopSidecars \/ DropDir \/ ProbeKernel

RmStep == BeginRm \/ RmStop \/ RmSidecars \/ RmDir

OtherStep ==
  \/ QemuComesUp \/ QemuDies \/ KillRun
  \/ \E k \in Mounts : SidecarServes(k) \/ SidecarDies(k)

LaunchNext == RunStep \/ RmStep \/ OtherStep

(* The waits without a deadline: for the server of the image, and for a     *)
(* guest to go through with a connection or to answer a command, which goes *)
(* on as long as QEMU does, that holds the other end.                       *)
Waiting == stage = "host" \/ (stage \in {"connect", "hostname"} /\ QemuRuns)

(* The run is scheduled, and goes on where it has a deadline or waits for   *)
(* nobody.  QEMU, virtiofsd, the server and the user do what they like.     *)
LaunchSpec == LaunchInit /\ [][LaunchNext]_launchVars /\ WF_launchVars(RunStep /\ ~Waiting)
-----------------------------------------------------------------------------
(* What the worker makes of a task that has loaded is never refused by      *)
(* run_vm_inner or by QEMU's configuration: the crates check the same       *)
(* fields separately, and agree.                                            *)
TaskIsAccepted == caller = "task" => stage # "refused"

(* The share of a tag that the command line gives the guest.                *)
Backing(tag) == {device.back : device \in {d \in command.devices : d.tag = tag}}

LeadsTo(back, k) ==
  \/ \E chardev \in command.chardevs : chardev.id = back /\ chardev.socket = k
  \/ \E fsdev \in command.fsdevs : fsdev.id = back /\ fsdev.path = options.mounts[k].host

(* The guest finds what was asked for: each mount its cloud-init runs names *)
(* a tag that leads, by device and channel, to the virtiofsd or directory   *)
(* of that very mount, and root=/dev/vda is the rootfs.                     *)
GuestGetsWhatWasAsked ==
  command # NoCommand =>
    /\ Len(seed.runcmd) = Len(options.mounts)
    /\ \A k \in DOMAIN options.mounts :
         /\ seed.runcmd[k].guest = options.mounts[k].guest
         /\ seed.runcmd[k].read_only <=> options.mounts[k].mode = "ro"
         /\ \E back \in Backing(seed.runcmd[k].tag) :
              Backing(seed.runcmd[k].tag) = {back} /\ LeadsTo(back, k)
    /\ command.append = "root=/dev/vda" => command.drives[1] = options.rootfs

(* A run that returns an error has stopped its QEMU and its virtiofsds,     *)
(* apart from: those before one that could not be spawned, the one whose    *)
(* socket came late, all when the record could not be written, and a QEMU   *)
(* that daemonised between two looks, that the run never knew, or that did  *)
(* not stop.                                                                *)
NoStrayProcess ==
  stage \in {"err", "refused"} =>
    /\ QemuRuns => excuses \intersect {"lost", "stop", "parent", "record"} # {}
    /\ \A k \in Mounts : virtiofsd[k] \in {"starting", "serving"} =>
         \/ "record" \in excuses
         \/ "spawn" \in excuses /\ k <= Len(shares)
         \/ "late" \in excuses /\ k = Len(shares) + 1

(* The run and `vm rm` stop a virtiofsd only when the QEMU it serves has    *)
(* stopped, so that no guest loses a mount while it writes; except that the *)
(* run goes on when QEMU was lost between two looks or did not stop, and    *)
(* both do when what they stopped was the parent of a QEMU that daemonised. *)
SidecarOutlivesQemu ==
  [][\A k \in Mounts :
       virtiofsd[k] = "serving" /\ virtiofsd'[k] = "gone" /\ QemuRuns =>
         SidecarDies(k) \/ excuses' \intersect {"lost", "stop", "parent"} # {}]_launchVars

(* Scripts run only in a guest whose configuration says of each required    *)
(* symbol what the task says, in the last line that says anything of it.    *)
KernelIsAsRequired ==
  stage = "ready" =>
    \A i \in DOMAIN KernelRequirements(request.vm) :
      LET required == KernelRequirements(request.vm)[i]
          said == {n \in DOMAIN kernel_text : /\ kernel_text[n].symbol = required.symbol
                                              /\ kernel_text[n].value \in KernelConfigValue} IN
      \E n \in said :
        kernel_text[n].value = required.expected /\ \A m \in said : m <= n

(* A launch comes to an end, whatever QEMU and virtiofsd do, unless it      *)
(* waits for ever, and then only for the server of the image or for a guest *)
(* whose QEMU runs: polls and attempts are counted, and a QEMU that dies at *)
(* any moment is noticed.                                                   *)
LaunchEnds == <>(stage \in Ended) \/ <>[]Waiting

-----------------------------------------------------------------------------
(***************************************************************************)
(* The inductive invariant.                                                *)
(***************************************************************************)
Asking  == {"begin", "prepare", "options", "host", "seed", "disk"}
Sharing == {"spawn", "await_socket"}
Alive(k) == virtiofsd[k] \in {"starting", "serving"}

(* What the worker makes of a task passes every later check.                *)
AskInv ==
  /\ caller = "task" => request \in Tasks
  /\ caller = "cli" => request \in Commands
  /\ stage = "prepare" => caller = "task"
  /\ stage \notin {"begin", "prepare", "err", "killed"} => options # NoOptions
  /\ caller = "task" /\ options # NoOptions =>
       /\ OptionsAccepted(options) /\ options.kernel # Gone /\ options.rootfs # Gone
       /\ RequirementsParse(KernelRequirements(request.vm))

(* The shares are those of the first mounts, in order, with their sockets;  *)
(* no other virtiofsd lives, but the one that is awaited or came late.      *)
ShareInv ==
  /\ shares = [i \in 1 .. Len(shares) |-> Share(i)]
  /\ stage \in Asking => shares = <<>>
  /\ stage \in Sharing => Len(shares) < Len(options.mounts) /\ Transport(os) = "virtiofs"
  /\ stage = "start" =>
       Len(shares) = IF Transport(os) = "virtiofs" THEN Len(options.mounts) ELSE 0
  /\ stage \in Sharing \union {"start"} => \A k \in Mounts : k <= Len(shares) => k \in sockets
  /\ \A k \in Mounts : Alive(k) =>
       \/ k <= Len(shares)
       \/ k = Len(shares) + 1 /\ (stage \in {"await_socket", "killed"} \/ "late" \in excuses)

(* QEMU starts once, a record follows that, and `vm rm' follows the record. *)
VmInv ==
  /\ stage \in Asking \union Sharing \union {"start", "refused"} => qemu = "none"
  /\ recorded \/ rm # "none" =>
       stage \notin Asking \union Sharing \union {"start", "refused", "await_pid", "check_exit",
                                                  "settle", "record"}
  /\ stage = "check_exit" => polls < MaxPolls
  /\ stage \in {"settle", "record", "port", "connect", "hostname", "check", "stop"} => known # "none"

(* Who is about to stop the virtiofsds has stopped QEMU, or has an excuse.  *)
StrayInv ==
  /\ stage \in {"stop_sidecars", "drop_dir", "err", "refused"} /\ QemuRuns =>
       excuses \intersect {"lost", "stop", "parent", "record"} # {}
  /\ stage = "stop_sidecars" /\ QemuRuns => excuses \intersect {"stop", "parent"} # {}
  /\ rm = "sidecars" /\ QemuRuns => "parent" \in excuses
  /\ stage = "drop_dir" => \A k \in Mounts : Alive(k) =>
       \/ "record" \in excuses
       \/ "spawn" \in excuses /\ k <= Len(shares)
       \/ "late" \in excuses /\ k = Len(shares) + 1
  /\ NoStrayProcess

(* The command line was made of the options and shares the run still has.   *)
GuestInv ==
  /\ stage \in {"disk", "start"} \union Sharing =>
       seed = Seed("key", options.mounts, Transport(os))
  /\ command # NoCommand =>
       /\ options # NoOptions
       /\ seed = Seed("key", options.mounts, Transport(os))
       /\ Len(shares) = IF Transport(os) = "virtiofs" THEN Len(options.mounts) ELSE 0
       /\ command = QemuCommand(Config)
       /\ stage \notin Asking \union Sharing \union {"start"}

LaunchInv ==
  /\ LaunchTypeOK /\ AskInv /\ ShareInv /\ VmInv /\ StrayInv /\ GuestInv /\ TaskIsAccepted
  /\ KernelIsAsRequired
=============================================================================
