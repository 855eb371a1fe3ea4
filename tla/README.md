# vmize in TLA+

vmize runs tasks in throw-away QEMU virtual machines.  This directory holds a
specification of the parts of it that are concurrent or keep shared state, the
configurations that model-check them with TLC and the proofs that the TLA+
proof system checks.  `PROJECT.json` maps every definition to the lines it
models; paths here are relative to the repository.

    tlc -workers 2 -config Dashboard_safety.cfg MCDashboard     # one run
    tlapm DashboardProofs.tla                                   # one proof module

## 1. The system

| Component | State it keeps | Operations | Talks to |
|---|---|---|---|
| Dashboard queue and workers, `dashboard/src/lib.rs` | one mutex over the list of tasks, the next id, the `running` flag and the replay buffer | `add_task`, `remove_task`, `run_tasks`, a worker thread per task and two forwarder threads per worker | task chains (a call per worker), event stream (a push per change) |
| Event stream, same file | replay buffer (100 events), broadcast channel (256), a receiver per connection | `serialize_and_push_event`, `sse_handler` | every page |
| Dashboard page, `dashboard/src/dashboard.html` | the cards, its own `running` flag, requests in flight | `loadStatus`, `handleEvent`, `runAll`, `removeTask`, reload, reconnect | the handlers by HTTP, the stream by SSE |
| Task chains, `worker/src/runner.rs` | the plan, the VM of the step, its temporary rootfs and overlay input; the output directories on the host, which chains share | resolve, prepare, boot, execute, collect, remove, hand off | VM creation and removal, `ssh`/`cp` |
| VM creation and removal, `vm/src/ops.rs`, `vm/port.rs`, `vm/record.rs`, `qemu/runner.rs` | files only: lock files, `vm<N>` directories, `vm.json` records, pid files; the process table | `vm run`, `vm rm`, `vm rm --all` | other processes that do the same |
| SSH keys, `vm/src/ssh/key.rs` | a key pair all VMs share, a lock file | generate, remove with the last VM | VM creation |
| Image cache and disks, `vm/src/image/` | downloaded images, one overlay disk per VM | download, verify, rename, create disk | VM creation |
| Virtiofs side processes, `vm/src/ops.rs` | one `virtiofsd` and socket per mount | start, wait for the socket, stop | VM creation and removal |
| Task loading, `task/src/lib.rs`, and launch, `worker/src/runner.rs`, `vm/src/main.rs`, `vm/src/mount.rs`, `vm/src/platform.rs`, `vm/src/qemu/config.rs`, `vm/src/cloud_init/seed.rs` | none that outlives a call: a task or a command line becomes options, a seed and a command line of QEMU | load, validate, resolve, build, check the kernel | VM creation, virtiofs, QEMU |
| SSH client and copy, configuration, progress bars, printing | none that outlives a call | | |

### What is hard here

* **Threads of the dashboard.**  `run_tasks` takes the lock, leaves it to spawn
  one worker after the other and takes it again at the end; the first workers
  may be finished, and another client may have started the next run, by then.
  Each worker's progress goes through two channels and two more threads, which
  must be empty before the end of the task is announced.  Threads may fail to
  spawn.
* **Subscribe, then copy.**  An SSE connection subscribes to the channel and
  copies the replay buffer in two steps; both overflow.
* **The page** merges four sources (status, replay, live events, replies)
  that arrive in any order.
* **Processes that share nothing but files.**  A lock file is created empty and
  stamped afterwards; staleness is judged in one step and acted on, by name, in
  another.  Runs are killed.  `vm rm` and `vm rm --all` take no lock at all.
* **QEMU daemonises**: its pid file, the end of its parent and a deadline of three
  seconds race.
* **One key pair for all VMs.**  It is looked for without a lock, generated under
  one, written in two files, and removed with the last VM on record by a
  `vm rm` that may have read the records before another VM came.
* **One image for all VMs.**  Runs look, verify, discard, download and rename
  without a lock, what the server sends may be cut, or no image, and what is
  written last is not waited for.
* **A stop may fail.**  A QEMU that does not end in time is given up with its
  directory and record, by a run that only logs it.
* **Side processes.**  A QEMU and a `virtiofsd` per mount outlive whoever started
  them; every path out of a launch has to stop them, in that order.
* **Crates that check the same fields.**  `task`, `worker` and `vm` validate
  separately, and a mount's tag is derived from its index in three places.
* **Every step of a task can fail**, with a VM, a disk and a directory to
  give back, and chains that run at once share output directories.

`PROJECT.json` lists each of these hazards at its line with the properties that
watch it.

## 2. Modules

| Module | What it is |
|---|---|
| `TaskBatch` | what a batch of tasks promises, without a thread or a lock |
| `Dashboard` | `lib.rs`: handlers, workers, forwarders; implements `TaskBatch` |
| `DashboardProofs` | its theorems |
| `EventStream` | replay buffer, broadcast channel and connections |
| `EventStreamProofs` | its theorems |
| `DashboardPage` | one page: composes `TaskBatch` (the server), `EventStream` (the transport) and the JavaScript |
| `DashboardPageProofs` | its theorems; takes those of `EventStreamProofs` over by `INSTANCE` |
| `VmIds` | what the directory of instances promises about ids, without a file, a lock or a pid |
| `VmCreation` | runs of `vm run` and a user of `vm rm` over one instances directory; implements `VmIds` |
| `VmCreationProofs` | its theorems |
| `VmRuns` | what the two modules below share: runs, and who was there before |
| `ImageCache` | runs that need the same cloud image, and the disks they make of it |
| `ImageCacheProofs` | its theorems |
| `SshKeys` | runs that need the key pair, their VMs, and `vm rm` |
| `SshKeysProofs` | its theorems |
| `VmOptions` | options, mounts, cloud-init seed and QEMU's command line, as operators |
| `TaskSetup` | task files, their validators, launch options and kernel checks, as operators |
| `VmLaunch` | one launch from a request to a guest that answers, with its side processes, and `vm rm`; composes the two above |
| `VmLaunchProofs` | its theorems |
| `TaskChain` | chains of tasks over shared output directories |
| `TaskChainProofs` | its theorems |
| `MC*` | symmetry, views and constraints for TLC |

`DashboardPage` talks to `TaskBatch` and not to `Dashboard`: that is justified by
the proof that `Dashboard` implements `TaskBatch`.  `TaskChain` lets a VM start,
fail or fail to go; the details of that are in `VmCreation`, `SshKeys`,
`ImageCache` and `VmLaunch`.  These four look at the same function,
`run_vm_inner`, from four sides, each with the actions that touch what it is
about and the rest as steps that succeed or fail.  A VM's record and its QEMU
appear in more than one: `VmCreation` has them for many runs and ids,
`VmLaunch` for one run with everything that run starts, and for `SshKeys` a record
is what `vm rm` counts.

### Dashboard

An action is one critical section of the mutex, one send on a channel, or one
spawn: what is between two acquisitions of the lock is one step, and nothing
larger is.  `AddTask`, `RemoveTask` and `RunTasks` are handlers;
`SpawnWorker`, `SpawnWorkerFails` and `ReplyToRun` are the loop that runs
without the lock and its end; `MarkRunning`, `CreateForwarders`, `ResolveChain`,
`StartStep`, `SendProgress`, `StepSucceeds`, `StepFails` and `FinishTask` are a
worker, `ForwardChainStep` and `ForwardProgress` its forwarders.  The channel of
step events is kept as two positions (`sent`, `seen`), that of progress
messages as its length (`backlog`).  Names, descriptions, logs and timestamps are left out.

* `RunningCoversWork`: a task a handler or a worker is on is listed, unfinished
  and covered by `running`, hence cannot be removed or launched twice.
* `RunningHasOwner`: `running` never stays up with nobody left to clear it.
* `ChainReportAccurate`: the steps a finished task shows are the steps as they
  went, although another thread puts the report together.
* `FinishedIsLast`: nothing is heard about a task after `finished`.
* `ImplementsBatch`: with `waiting`, `active` and `busy` read off the list and the
  flag, threads and locks come to `TaskBatch`.
* `LaunchedTaskSettles`: every launched task comes to an end, unless the thread
  that was on it panicked.

### EventStream

Events are numbered as they are pushed.  `Push` is `serialize_and_push_event`
(buffer and channel, under the lock); `Subscribe` and `CopyReplay` are the two steps of
`sse_handler`; `SendReplay`, `SendLive` and `SkipOverwritten` are what the stream
does when it is polled.

* `BufferIsRecent`: what a page that loads is replayed is the latest events.
* `StreamHasNoGap`: nothing falls between the replay and the channel: a
  connection goes on with the next event, goes back to where it subscribed, or
  skips what was overwritten.
* `EventReachesClient`: everything else arrives.

### DashboardPage

The server is `TaskBatch` with a log of the events it pushed.  The page has a
card per task, its `running` flag and at most one request of each kind in
flight; a reload loses what is in flight.  `CardsConverge` and
`RunningRecovers` say that once nothing is in flight the page agrees with
the server, apart from named causes of going astray (`overwritten`,
`late_reply`, `misled`, `gap`); section 5 says what each is.

### VmCreation

Every access to a file is an action, because nothing but files connects
processes: create a lock, read it, remove it, stamp it.  Lock files are records
of who made them and whether the pid is in them; `Stale` is
`is_stale_pid_lock`; writing through a handle does not reach a file that has
replaced the one it was opened on.  A run's QEMU is a process with a life of its own
(`booting`, `up`, `dead`).  A removal stops the VM of a record it has read
(`StopVm`) and then removes the directory (`RemoveInstance`), without a lock, for
one VM or for all.  A run whose SSH check fails stops its QEMU (`VerifyFails`) and
removes the directory whether or not that worked; `unstopped` are the runs of which
it did not.

* `OwnDirectory`: what really makes ids exclusive is `create_dir`, not the
  creation lock, which two runs can hold at once (`MutualExclusion` is violated).
* `PortsDistinct`: no port is reserved twice while the lock excludes.
* `RecordedVmIsKept`: a VM that runs and was recorded is found under its id, unless
  its run gave it up and could not stop it.
* `RemovalStopsItsVm`: `resolve_qemu_pid` falls back to any QEMU of the id when the
  process on record is gone; that is never the VM of a run that is still creating it or has
  returned it.
* `ImplementsIds`: with the directories as owners and the records as the list, all
  of this comes to `VmIds`: an id is claimed when nobody has it, listed and given back
  by who has it, and taken away by `vm rm` only from a VM that is stopped and
  whose run is over.  A run that fails before it has a directory claims nothing.
  An id is given back while its VM runs only by a run that could not stop it
  (`Abandon`; `astray` are the `unstopped`).
  Contested ids are disputed, of which `VmIds` promises nothing.
* `RunEnds`: killed holders and mutual reclaiming do not keep a run from ending.

### ImageCache

`Look`, `ReadCached` and `OpenDest`, `ReadDest`, `Discard` are the two looks at the
cached file (`prepare_cloud_image`, `download`), each apart from the step that
relies on it; `Request`, `StreamBreaks`, `StreamEnds` are the transfer, in
`ImageDownloader::download`, to a
`.part` file of the run's own, `Finalize` and `Rename` bring it over, `Settle` and
`Reject` verify what is there by then, whoever put it there.  `CopyDisk` and
`Boot` are the disk.  A file is who wrote it and what it is: a whole image, the
beginning of one, something else, nothing.  The file is written by another thread,
and its last write is neither flushed nor awaited: a file may lack it (`"lacking"`
of an image, `"blank"` of a short body) when it is renamed, and `LastWriteLands` brings
it under whatever name the file has by then, or never.  `Verifies` is `verify_image`, which
depends on `qemu-img` being installed.

* `ImageIsNotLost`: while every file received or found begins as a qcow2 image does, no
  run removes an image from under another.
* `CutImageHasCause`: what Content-Length is compared for: an image ends early only if
  there was none, if it was there before, or if its last write is late or lost.

### SshKeys

`LookForKey` and `ReadPublic` are the check of `generate_key_pair` without the
lock; `TakeLock`, `LookAgain`, `ReadLocked`, `Unlock` the part under it, with
`WritePrivate`, `CreatePublic` and `WritePublic` for `ssh-keygen`, whose public
file others see while it is empty.  `RecordVm` and `VerifyVm` are what
`run_vm_inner` does with the key, `RequireVm` and `Connect` are `vm ssh` and `vm
cp`.  `ListRecords`, `RemoveVm`, `RemovePrivate`, `RemovePublic`, `WipeInstances` and
`WipeKeys` are `vm rm` and `vm rm --all`: what they read at first decides what
they remove last.  A key is named for whoever generated it.

* `LockIsOwn`: two runs never generate at once; only a killed run leaves the lock.
* `LockedRunsAgree`: that is enough for all to have one key, whoever is killed.
* `VerifiedVmKeepsKey`: `vm rm` of one VM does not lock the user out of another.
* `KeyRunEnds`: a lock nobody releases is given up.

### VmOptions, TaskSetup and VmLaunch

`VmOptions` and `TaskSetup` have no variables: `ParsedMount`, `Seed`, `OptionsAccepted`,
`QemuConfig`, `ConfigValid` and `QemuCommand` are the functions of the `vm` crate;
`Loads` is `load_task` with its validators, `LaunchPrepares` and `LaunchOptions` are
`prepare_vm_launch_options`, `ParsedConfig` and `Mismatches` the kernel checks.
A path is the name of what is there, or says what is wrong with it.

`VmLaunch` applies them in the order of the code to a task or a command line
that `Init` chooses, and adds the processes.  `SpawnSidecar` and `AwaitSocket` start
one virtiofsd after the other; `StartQemu`, `ReadPidFile`, `CheckExit` and `Settle`
are `QemuRunner::start`; `WaitForPort`, `Connect`, `AskHostname` and `CheckRunning`
the verification, in which `Waiting` names the steps that have no deadline;
`StopQemu`, `StopSidecars` and `DropDir` the clean-up;
`ProbeKernel` the worker's check of the kernel that runs; `BeginRm` to `RmDir` are
`vm rm`.  QEMU and each virtiofsd come up and die on their own
(`QemuComesUp`, `QemuDies`, `SidecarServes`, `SidecarDies`).

* `TaskIsAccepted`: what a task becomes is never refused further down.
* `GuestGetsWhatWasAsked`: each mount of the guest leads, by tag, device and
  channel, to the directory it was asked for; `/dev/vda` is the rootfs.
* `NoStrayProcess`: a run that fails has stopped what it started, with excuses.
* `SidecarOutlivesQemu`: no virtiofsd is stopped under a QEMU that runs, but where that
  QEMU was lost, did not stop, or was only known by its parent.
* `KernelIsAsRequired`: the guest's text is read with the last line that counts.
* `LaunchEnds`: every launch ends, or waits for ever for the server of the image or
  for the SSH of a guest whose QEMU runs; nothing else may last.

### TaskChain

`Init` chooses every `next_task_dir` and `artifacts` that task files can name, cycles
included.  `Resolve` is a step of `resolve_chain_steps`; then a step is
`MakeInput`, `CheckLaunch`, `CloneRootfs`, `BootVm`, `PrepareVm`, `Execute`,
`Collect`, `ClearArtifact`, `FetchArtifact`, `EndCollection`, `RemoveVm` and
`HandOff`, each of which may fail where the code may.  What is on the host
under an artifact's name is the set of steps that contributed to it, because
copying a directory over another merges them.

* `PlanIsFinite`: no VM is started for a chain with a cycle.
* `HandoffIsOwn`: the input of a step is what the step before it made in this run.
* `HostIsClean`, `CloneOutlivesVm`: VMs, clones and overlays go however a chain
  ends, and the disk not before the VM.  A VM whose removal failed (`"leaked"`) or that
  a failed launch did not stop (`"stray"`) stays, and the chain says it failed.

## 3. Runs

| Run | Instance | Shows |
|---|---|---|
| `Dashboard_safety` | 2 clients, 2 ids, list of 2, chains of up to 2 steps, 1 panic | the safety properties, `ImplementsBatch` and `LaunchedTaskSettles` |
| `EventStream_clients` | 2 connections, buffer 2, channel 3, 6 events | the two safety properties and `EventReachesClient` |
| `DashboardPage_cards` | 1 task, buffer and channel 2, 2 breaks, other clients | `CardsConverge` |
| `DashboardPage_running` | 2 tasks, other clients, no break | `RunningRecovers` |
| `VmCreation_safety` | 2 runs, 1 killed, 1 port taken, 2 VMs, 2 ports, 2 calls of `vm rm`, any QEMU that does not stop for its run | all safety properties, `RemovalStopsItsVm` and `ImplementsIds` |
| `VmCreation_fair` | 2 runs, 1 killed | `RunEnds` |
| `VmCreation_lock` | 2 runs | violated: `MutualExclusion` |
| `ImageCache_safety` | 3 runs, 1 with `--force-download`, any of which may be killed; any file in the cache, any answer, any last write late or lost | all safety properties |
| `SshKeys_fair` | 2 runs, both of which may be killed, with or without a VM before them, 2 calls of `vm rm` | all safety properties and `KeyRunEnds` |
| `VmLaunch_safety` | 17 tasks and 7 command lines, 3 kinds of host, 2 mounts, `vm rm` at any time | all properties |
| `TaskChain_safety` | 2 chains, 3 tasks, 1 artifact, up to 1 command | all safety properties |
| `TaskChain_script` | 1 chain, 1 task | violated: `ScriptFailureIsReported` |

Why these bounds are enough: two ids can be in one run, or in two of which the
tail of the first overlaps the second.  Six events overflow a buffer
of two and a channel of three by at least twice.  Two runs and two ports, one of
them taken, make a run probe past a busy port and past a reserved one, and find
none left.  Three downloads are needed for one that discards, one that renames
and one that relies on the image.  Two runs and a VM that was there before are the
two last VMs on record and one that comes late.  Two mounts make a first
virtiofsd that has to go because the second failed.  The tasks differ from one
that loads in one or two fields, one for each check of the three crates; the
command lines, likewise.  Three tasks
contain every cycle and every shared suffix of two chains; one
artifact suffices because artifacts do not interact, and two commands would only
repeat `Execute`.  Bounds are CONSTANTS and appear in guards (`MaxIds`,
`MaxBacklog`, `MaxPanics`, `MaxEvents`, `MaxBreaks`, `MaxChatter`,
`MaxTaken`, `MaxCrashes`, `MaxRemovals`, `MaxCommands`, `MaxMounts`), or are the
code's own with a smaller value (`MaxVms`, `NumPorts`, `MaxAttempts`, `MaxRetries`,
`MaxPolls`); `Contents` names what a server may send.  Every safety property and refinement
that a run checks is proved for any value of them (section 4).

`DashboardPage_running` uses a state constraint, `Trusted`: without a
reload, a page that has been led astray stays so, and the property says nothing of
it any more.  Views keep out of the comparison of states what no step
and no property of the run looks at any more: `PageView` two history variables of the
stream; `ImageView` the `.part` file and the disk of a run that is over; `CreationView` all
but its files of a run that is over and whose QEMU does not run; `HostView` the plan and the
position of a chain that is over.  What they hide was checked in the state in which it was last
changed.  Symmetry
is used for safety runs only.  `CHECK_DEADLOCK FALSE` stands where the
bounds, or the end of every run or chain, let the system stop.

### Fairness

* `Dashboard`: weak fairness of each thread's next step, whichever way that step
  goes, because the operating system schedules threads.  That a step of a chain
  ends, well or badly, is an assumption: nothing in the code bounds the time a
  script takes.  None for clients, and a script may be silent.
* `EventStream`: weak fairness of serving a connection, which is a task of the
  async runtime that is woken whenever there is something to read.  None for
  subscribing or closing.
* `SshKeys`: weak fairness of each run's next step, `ssh-keygen` included.  The code
  bounds the wait for the lock and nothing else, so that `KeyRunEnds` is about runs whose
  connections to the guest end, well or badly.
* `VmLaunch`: weak fairness of the run, except where it waits without a deadline
  (`Waiting`): for the server of the image (`PrepareHost`), and, as long as QEMU runs, for the
  guest to go through with a connection (`Connect`, `ssh/client.rs:94`) or to answer a command
  (`AskHostname`, `ssh/client.rs:104`).  A QEMU that dies takes its connections with it.
  None for QEMU, a virtiofsd or `vm rm`: whatever they do, `LaunchEnds` allows no other
  wait, because polls and attempts are counted.  Tools that work on local
  files (`qemu-img`, `genisoimage`) are assumed to end.
* `VmCreation`: weak fairness of a run that is alive and of a QEMU that is
  starting.  None for crashes, for `vm rm` or for the end of a running QEMU.  `RunEnds`
  is about the waits for locks and ports: that the image has come
  and that SSH succeeds or fails is assumed.

## 4. What is proved

For every value of the constants that meets the named assumptions (`BoundsAssumption`
and the like), in a module of proofs per module.  Each has an inductive
invariant that TLC checked on the instance first, a lemma per part of it, and
frame lemmas that say what a step of one run leaves to the others.

* **Dashboard.**  `Invariance` (`Spec => []IInv`), from it `TypeCorrect`,
  `WorkIsCovered`, `RunIsOwned`, `ReportIsAccurate`, `FinishedStaysLast` and
  `Implementation` (`Spec => Batch!Spec`).  None of the properties is inductive:
  that `running` covers the work needs to know that a task claimed by a spawn loop is untouched
  and claimed once (`ClaimInv`), that thread and task state agree
  (`WorkerInv`), and that a launched task nobody has started has someone to
  start it (`RunInv`); the report needs the position of the chain against what
  was sent and seen (`ChainInv`) and what the card shows at that position
  (`CardInv`).  `FinishedIsLast` follows because a task whose end was
  announced has no thread and nothing left in its channels (`EventInv`).
  The refinement has one lemma per action: most stutter, the last
  report of a run is `Settle` with `busy` going down.
* **Event stream.**  `StreamInvariance`, and from it `StreamTypeCorrect`,
  `ReplayIsRecent` and `StreamIsContinuous`.  The invariant says where each connection is: in its
  replay, what is left of the copy follows what was sent and reaches at least
  the subscription (`Replaying`); on the channel, the receiver is at the
  subscription, right after the last event, or behind what was overwritten
  (`Following`).  The second and third are why no event falls between replay and channel.
  No run checks the type invariant of the stream by itself: that of the page contains it.
* **Dashboard page.**  `PageInvariance`, and from it `PageTypeCorrect`, `PageConverges`
  and `PageSeesTheEnd`.  The module composes two others, and so does its
  invariant: `PageImplementsParts` says that a step of it is a step or a stutter of
  the queue and of the stream, so that the lemmas of `EventStreamProofs` are taken over as
  they stand.  What has to be added relates the log of the server to the page.
  `LogInv` says what the events so far tell of each task (`Told`), in the only
  order they come in (`Orderly`).  `AnswerInv` says that the answer to a status
  request is what the log told when it was given, or, of the flag, that the end of
  the run has been pushed since.  `CardsInv` puts a card between what the events
  reflected in order tell (`known`) and what the latest event tells (`informed`):
  replay repeats old events to a page that has handled later ones, and a card goes back
  and forth meanwhile, but not past either.  `RunningInv` says that a page that
  still shows a run after its end has yet to hear of the end.
  `CardsConverge` holds without `~gap`, because `known` does not pass a gap;
  `RunningRecovers` needs it, since the end of a run may be what was overwritten.

* **VM creation.**  `CreationInvariance`, and from it `CreationTypeCorrect`,
  `DirectoryIsOwn`, `PortsStayDistinct`, `RecordedVmsAreKept` and `RemovalsStopTheirVm`.  That a directory
  is one's own rests on `create_dir` alone (a run that builds has the directory
  until a removal that is not contested, which is of a run that is over,
  `RemovalInv`), not on the lock, of which `GuardInv` says no more than that it
  excludes while no lock was shared.  Ports need it: while it excludes, the
  file of a reserved port says whose it is and nobody is about to reclaim it
  (`PortInv`).  `IdsAreKept` (`Spec => ImplementsIds`) has a lemma per kind of step:
  what touches no directory is a stutter or moves a run or a process
  (`QuietStep`), and `MakeDirIds`, `ListIds`, `GiveBackIds` and `RemovalIds` are the
  steps that do.  The last needs that a removal of an uncontested id still has the
  record it has read before it (`RemovalInv`), or else it could free an id that
  another run has got meanwhile.  `RemovalsStopTheirVm` needs the same, that an id has one
  run at a time, and `PidInv`, by which a VM that could not be stopped is of a run
  that failed.
* **Image cache.**  `ImageInvariance`, `ImageTypeCorrect`, `CutImagesAreExplained`,
  `ImagesAreKept`.  A `.part` file is its run's, and a complete transfer that was cut
  had no length (`PartInv`); there is nothing of a run before the server has answered it, so
  that what is known of the length of an image does not change later
  (`OriginInv`); and as long as nothing but qcow2 was about, nobody has found a
  file that does not verify (`MagicInv`).
* **SSH keys.**  `KeyInvariance`, `KeyTypeCorrect`, `LockIsHeldByOne`, `KeyIsAgreedOn`,
  `VerifiedVmsKeepTheirKey`.  `PairInv` is the heart: until a key is removed there is one
  private key, and a public one that differs is being written under the lock, or
  was by a run that was killed and left the lock in place, so that nobody who
  takes the lock reads it.  `RemovalInv` says what a removal that keeps no other
  VM's key has left on record.
* **Launch.**  `LaunchInvariance`, `LaunchTypeCorrect`, `TasksAreAccepted`,
  `GuestGetsItsMounts`, `NoProcessStrays`, `SidecarsOutliveQemu`, `KernelsAreAsRequired`, for any
  tasks, command lines, texts of a guest and number of mounts.  `AskInv` carries what the validators of one crate
  established to the checks of the next; `ShareInv` says which virtiofsds may
  live at each stage; `GuestInv` that the command line was made of the options
  and shares the run still has, from which the tags are computed; `StrayInv` that
  whoever is about to stop the virtiofsds has stopped QEMU, or has an excuse.
  `ConfigIsLastSaid` is about the parser of kernel configurations alone: what it finds
  for a symbol in a text of any length is the value of the last line that says
  something of it.  `ParsedConfig` is a recursive function, and the induction on the number
  of lines is the lemma `ByInduction`, which speaks of a set of numbers and not of a
  predicate and rests on the least element of a set (`WFMin`).
* **Task chains.**  `ChainInvariance`, `ChainTypeCorrect`, `PlansAreFinite`, `HandoffsAreOwn`,
  `HostsStayClean`, `ClonesOutliveVms`, for launches that may fail with their QEMU
  running.  `HandoffIsOwn` needs the most: active chains
  that do not count as sharing have disjoint plans (`SharingInv`), so that only the
  chain itself writes where it collects, and what it has collected, handed
  off and is about to put into an input is its own (`CollectedInv`).  `PlanInv` is
  what keeps a chain within its plan: the last task has no link, and no earlier
  one lacks it.

Only model-checked: liveness, which with ENABLED is out of the prover's reach
(`LaunchedTaskSettles`, `EventReachesClient`, `RunEnds`, `KeyRunEnds`, `LaunchEnds`).
No module uses a recursive operator.

## 5. Where code and documentation differ

Two runs in which TLC finds what a comment or a document denies;
`PROJECT.json` quotes the lines.

* `VmCreation_lock`: a lock file that is still empty is taken for stale, so that two
  runs hold the creation lock at once, although it "ensures atomic VM ID
  allocation + port reservation + directory creation".  `OwnDirectory` shows what
  still holds: `create_dir` refuses the second of two runs with the same id.
* `TaskChain_script`: the status of a script is hidden by its pipe to `tee`.

Other behaviours of the code that surprise are conditions of properties that
hold otherwise:

* `RunningHasOwner`, `LaunchedTaskSettles`: a worker whose forwarder threads
  cannot be created panics, and its task stays running for good.
* `CardsConverge` (`overwritten`): a status read before an event and shown after it
  replaces what the event did to the cards.
* `RunningRecovers` (`late_reply`): the reply to a run, handled after the end of the
  run, sets the page's flag again.  (`misled`): no event tells of a removed task,
  whose `loaded` event is replayed to a reloaded page; its card keeps the
  flag up.
* `RecordedVmIsKept`: a QEMU that takes more than three seconds to write its pid
  file.  The run goes on with the pid of the parent, which ends when the
  daemon is up; the run then fails and removes the record of a VM that runs on.
  (`unstopped`): SSH failed and QEMU did not stop in five seconds, or could not be
  killed (`ops.rs:966-975`); that is logged, and directory and record go all the same.
* `RemovalStopsItsVm`: what a run left running without a record, a `vm rm` of a later VM of
  the same id may stop instead of, or after, that VM.
* `OwnDirectory`, `RecordedVmIsKept` (`contested`): `vm rm` of a VM that is still being
  verified frees its id, and the cleanup of its run then removes by id.
* `HandoffIsOwn` (`sharing`): two chains that run the same tasks at once share output
  directories.
* `HostIsClean`: a copy of the rootfs that fails half-way (`"partial"`) has no
  owner; a VM whose removal failed stays, and so does a QEMU that a failed launch
  did not stop (the excuses of `NoStrayProcess`): the worker never calls `rm` for it.
* `CloneOutlivesVm`: such a QEMU loses the clone it runs from (`runner.rs:274`).
* `QueueFull`: finished tasks count against the limit of the queue.
* `LockIsOwn`, `KeyRunEnds`: a run killed while it has the lock on key generation leaves
  it for good; every later run without a key waits for it and gives up.
* `VerifiedVmKeepsKey` (`late`): `vm rm` of what it takes for the last VM removes the
  key of one that came on record meanwhile.  (`cleared`): `vm rm --all` removes the key
  with the first VM it removes, also if it then fails to stop another.
* `CutImageHasCause`: without Content-Length a download that ends early passes for
  whole, and with `qemu-img` installed any file does for an image.  With it, bytes are counted
  as they are received, and the last of them may never have been written.
* `ImageIsNotLost` (`tainted`): a run that found no qcow2 removes by name what another has put
  there meanwhile.
* `LaunchEnds`: the download, a connection attempt and the hostname command have no deadline;
  a guest that takes a connection and then hangs keeps the launch for ever.
  `--force-download` does not replace a cached image that verifies.
* `NoStrayProcess` has the paths that leave processes: `spawn`, the virtiofsds before one
  that cannot be spawned; `late`, one whose socket came after the wait; `lost`, a QEMU
  that daemonised between the look for its pid file and the look at its parent;
  `record`, everything if the record cannot be written; `parent`, a QEMU only
  known by the pid of its parent; `stop`, one that does not stop.
* `WaitForPort`: a refused connection ends the wait for the SSH port as an accepted one
  does; the retries of `connect_with_retry` are what really waits.
* `IsNextIndex`: a directory that a failed run left, without a record, takes an
  id and counts against `MAX_VMS`.

## 6. What is not modelled

* `VmCreation`: a run that gives up its VM does remove the directory (a failure to is
  only logged, and leaves what a killed run leaves); reuse of pids, and runs that share one process
  (threads of a batch) and hence one pid; the match of `resolve_qemu_pid` by disk or seed, both of which
  name the id's directory; several calls of `vm rm` at once; `vm rm --all`'s
  final removal of the directory tree is one step.  Keys, images, virtiofsds and the
  verbose mode are in the other three modules about `run_vm_inner`.
* `SshKeys`: one removal at a time; permissions of the files; the host name of the key
  is always that of the code, `vm`.
* `ImageCache`: what the HTTP client does on the way (it ends in one of
  `Contents` or breaks, or is waited for); resizing (it fails or not); `.part` files are never
  collected, as in the code.
* `VmLaunch`: memory, cpus, user name and display go through unchanged and are left
  out; parsing of JSON; the copy of a rootfs is `TaskChain`'s.
* `DashboardPage`: chain steps, descriptions and logs of a card (a page that is
  reloaded shows log lines twice), the picker of candidates, layout.
* `TaskChain`: resolution of `next_task_dir` and artifact names to paths; progress
  messages (they are in `Dashboard`); what a partial copy of a rootfs leaves is only
  named (`"partial"`).
* SSH and copying are network I/O that succeeds or fails.  Configuration,
  progress bars and printing have no behaviour another part depends on.

## 7. What is left

1. `VmCreation` with several removers at once (a removal that resolves the process of
   a VM by its id may meet the next VM of that id).
2. One module in which a run of `VmCreation` takes its key from `SshKeys` and its
   image from `ImageCache`, to relate a record to the key that opens it while
   ids are reused.
3. More of `VmIds` as theorems of its own: that a run has at most one id, and that
   what is listed under an id is what has it.
