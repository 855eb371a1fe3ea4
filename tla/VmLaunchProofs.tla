--------------------------- MODULE VmLaunchProofs ---------------------------
(***************************************************************************)
(* Theorems about module VmLaunch, for any tasks, command lines, hosts,    *)
(* mounts, and any behaviour of QEMU, the virtiofsds and `vm rm`.          *)
(***************************************************************************)
EXTENDS VmLaunch, WellFoundedInduction, TLAPS

USE OptionsAssumption, CloneAssumption, LaunchAssumption

LEMMA TransportOfHost == \A o : Transport(o) \in {"9p", "virtiofs"}
BY DEF Transport

LEMMA ParsedTyping ==
  ASSUME NEW raw \in Seq(Written), \A i \in DOMAIN raw : MountParses(raw[i])
  PROVE  /\ [i \in DOMAIN raw |-> ParsedMount(raw[i])] \in Seq(MountSpec)
         /\ Len([i \in DOMAIN raw |-> ParsedMount(raw[i])]) = Len(raw)
<1>1. ASSUME NEW i \in DOMAIN raw PROVE ParsedMount(raw[i]) \in MountSpec
  <2>1. raw[i] \in Written /\ MountParses(raw[i])
    OBVIOUS
  <2> QED
    BY <2>1 DEF Written, MountParses, ParsedMount, MountSpec
<1> QED
  BY <1>1

(* prepare_vm_launch_options makes options that run_vm_inner accepts.       *)
LEMMA LaunchOptionsAccepted ==
  ASSUME NEW task \in Tasks, LaunchPrepares(task.vm, task.disk_size)
  PROVE  LET made == LaunchOptions(task.vm, task.disk_size) IN
         /\ made \in RunOptions
         /\ Len(made.mounts) <= MaxMounts
         /\ OptionsAccepted(made)
         /\ made.kernel # Gone /\ made.rootfs # Gone
<1> DEFINE vm == task.vm
           made == LaunchOptions(vm, task.disk_size)
           Requested == [host : HostPaths \union {Gone, "blank", "dot"},
                         guest : GuestPaths \union {"blank", "relative"}, mode : {"ro", "rw"}]
<1>1. vm.mounts \in Seq(Requested) /\ Len(vm.mounts) <= MaxMounts /\ task.disk_size \in BOOLEAN
  OBVIOUS
<1>2. \A i \in DOMAIN vm.mounts : vm.mounts[i] \in MountSpec
  <2> TAKE i \in DOMAIN vm.mounts
  <2>1. vm.mounts[i] \in Requested
    <3> HIDE DEF Requested, vm
    <3> QED
      BY <1>1
  <2>2. vm.mounts[i].host \in HostPaths /\ vm.mounts[i].guest \in GuestPaths
    BY DEF LaunchPrepares, MountsResolve, HostPaths
  <2> QED
    BY <2>1, <2>2 DEF MountSpec
<1>3. vm.mounts \in Seq(MountSpec)
  BY <1>1, <1>2
<1>4. vm.boot = "custom" =>
        /\ vm.kernel \in HostFiles /\ vm.rootfs \in HostFiles /\ CloneOf[vm.rootfs] \in HostFiles
        /\ made.rootfs \in HostFiles /\ made.kernel \in HostFiles
  BY DEF LaunchPrepares, FileResolves, LaunchOptions
<1>5. vm.boot # "custom" => made.kernel = Absent /\ made.rootfs = Absent
  BY DEF LaunchOptions
<1>6. made.kernel \in Given /\ made.rootfs \in Given
  BY <1>4, <1>5 DEF Given, HostPaths
<1>7. /\ made.mounts = vm.mounts /\ made.image_url = FALSE /\ made.verbose = FALSE
      /\ made.disk_size = (task.disk_size /\ ~(vm.boot = "custom"))
      /\ made = [kernel |-> made.kernel, rootfs |-> made.rootfs, image_url |-> made.image_url,
                 disk_size |-> made.disk_size, mounts |-> made.mounts, verbose |-> made.verbose]
  BY DEF LaunchOptions
<1>8. made.disk_size \in BOOLEAN
  BY <1>7
<1>9. made \in RunOptions
  BY <1>3, <1>6, <1>7, <1>8 DEF RunOptions
<1>10. OptionsAccepted(made) /\ made.kernel # Gone /\ made.rootfs # Gone
  <2>1. CASE vm.boot = "custom"
    BY <1>4, <1>7, <2>1 DEF OptionsAccepted, HostPaths
  <2>2. CASE vm.boot # "custom"
    BY <1>5, <2>2 DEF OptionsAccepted
  <2> QED
    BY <2>1, <2>2
<1> QED
  BY <1>1, <1>7, <1>9, <1>10

LEMMA SharesTyping ==
  ASSUME LaunchTypeOK, NEW k \in Mounts, IsNext(k)
  PROVE  /\ Append(shares, Share(k)) \in Seq([tag : {Tag(j) : j \in Mounts},
                                             socket : Mounts, pid : Mounts])
         /\ Len(Append(shares, Share(k))) = Len(shares) + 1
         /\ Len(shares) + 1 <= MaxMounts
         /\ Len(shares) \in Nat
<1>1. Share(k) \in [tag : {Tag(j) : j \in Mounts}, socket : Mounts, pid : Mounts]
  BY DEF Share
<1>2. shares \in Seq([tag : {Tag(j) : j \in Mounts}, socket : Mounts, pid : Mounts])
  BY DEF LaunchTypeOK
<1>3. Len(shares) \in Nat /\ Len(shares) + 1 <= MaxMounts
  BY <1>2 DEF IsNext, Mounts
<1>4. \A S : \A s \in Seq(S), x \in S : Append(s, x) \in Seq(S) /\ Len(Append(s, x)) = Len(s) + 1
  OBVIOUS
<1> QED
  BY <1>1, <1>2, <1>3, <1>4

LEMMA StoppedTyping ==
  ASSUME LaunchTypeOK
  PROVE  Stopped(shares) \in [Mounts -> {"none", "starting", "serving", "gone"}]
BY DEF LaunchTypeOK, Stopped

LEMMA InitLaunchInv == LaunchInit => LaunchInv
<1> SUFFICES ASSUME LaunchInit PROVE LaunchInv
  OBVIOUS
<1> USE DEF LaunchInit
<1>1. LaunchTypeOK
  <2>1. parent \in BOOLEAN /\ pid_file \in BOOLEAN /\ recorded \in BOOLEAN
    BY Zenon
  <2>2. Len(seed.runcmd) <= MaxMounts /\ Len(options.mounts) <= MaxMounts /\ Len(shares) <= MaxMounts
    BY DEF NoSeed, NoOptions
  <2>3. shares \in Seq([tag : {Tag(k) : k \in Mounts}, socket : Mounts, pid : Mounts])
    OBVIOUS
  <2>4. stage \in Stages
    BY DEF Stages
  <2> QED
    BY <2>1, <2>2, <2>3, <2>4 DEF LaunchTypeOK
<1>2. AskInv /\ VmInv /\ TaskIsAccepted
  BY DEF AskInv, VmInv, TaskIsAccepted, Asking, Sharing
<1>3. ShareInv
  BY DEF ShareInv, Asking, Sharing, Alive
<1>4. StrayInv /\ GuestInv
  BY DEF StrayInv, GuestInv, NoStrayProcess, QemuRuns, Asking, Sharing
<1>5. KernelIsAsRequired
  BY DEF KernelIsAsRequired
<1> QED
  BY <1>1, <1>2, <1>3, <1>4, <1>5 DEF LaunchInv

-----------------------------------------------------------------------------
(***************************************************************************)
(* The configuration of a kernel.                                          *)
(***************************************************************************)

(* Induction for a set of numbers: a number outside it would have a least.  *)
LEMMA ByInduction ==
  ASSUME NEW S, 0 \in S, \A n \in Nat : n \in S => n + 1 \in S
  PROVE  Nat \subseteq S
<1> SUFFICES ASSUME Nat \ S # {} PROVE FALSE
  OBVIOUS
<1> DEFINE T == Nat \ S
<1>1. T \subseteq Nat /\ T # {}
  OBVIOUS
<1>2. PICK x \in T : \A y \in T : ~(<<y, x>> \in OpToRel(<, Nat))
  <2> HIDE DEF T
  <2> QED
    BY <1>1, NatLessThanWellFounded, WFMin, Zenon
<1>3. \A y \in T : ~(y < x)
  BY <1>2, Zenon DEF OpToRel
<1>4. x - 1 \in Nat /\ x - 1 < x /\ (x - 1) + 1 = x
  OBVIOUS
<1> QED
  BY <1>3, <1>4

(* The lines up to n that say something of a symbol, and what is known of   *)
(* it after them.                                                           *)
Saying(text, symbol, n) ==
  {m \in 1 .. n : text[m].symbol = symbol /\ text[m].value \in KernelConfigValue}

SaidLast(text, symbol, n, value) ==
  \/ Saying(text, symbol, n) = {} /\ value = Absent
  \/ \E last \in Saying(text, symbol, n) :
       /\ \A m \in Saying(text, symbol, n) : m <= last
       /\ text[last].value = value

(* No two values are said last.                                             *)
LEMMA SaidLastOnce ==
  ASSUME NEW text, NEW symbol, NEW n \in Nat, NEW v, NEW w,
         SaidLast(text, symbol, n, v), SaidLast(text, symbol, n, w)
  PROVE  v = w
<1>1. Saying(text, symbol, n) \subseteq Nat
  BY DEF Saying
<1>2. ASSUME NEW i \in Saying(text, symbol, n), NEW j \in Saying(text, symbol, n),
             \A m \in Saying(text, symbol, n) : m <= i,
             \A m \in Saying(text, symbol, n) : m <= j
      PROVE  i = j
  BY <1>1, <1>2
<1> QED
  BY <1>2 DEF SaidLast

(* One line more.                                                           *)
LEMMA SaidByNextLine ==
  ASSUME NEW text, NEW symbol \in Symbols, NEW n \in Nat,
         NEW values, DOMAIN values = Symbols,
         SaidLast(text, symbol, n, values[symbol])
  PROVE  SaidLast(text, symbol, n + 1, InsertLine(values, text[n + 1])[symbol])
<1> DEFINE line  == text[n + 1]
           said  == Saying(text, symbol, n)
           after == Saying(text, symbol, n + 1)
           next  == InsertLine(values, line)
<1>1. CASE line.symbol = symbol /\ line.value \in KernelConfigValue
  <2>1. n + 1 \in after /\ \A m \in after : m <= n + 1
    BY <1>1 DEF Saying
  <2>2. next[symbol] = line.value
    BY <1>1 DEF InsertLine
  <2> QED
    BY <2>1, <2>2 DEF SaidLast
<1>2. CASE ~(line.symbol = symbol /\ line.value \in KernelConfigValue)
  <2>1. after = said
    BY <1>2 DEF Saying
  <2>2. next[symbol] = values[symbol]
    BY <1>2 DEF InsertLine
  <2> QED
    BY <2>1, <2>2 DEF SaidLast
<1> QED
  BY <1>1, <1>2

LEMMA InsertKeepsDomain ==
  ASSUME NEW values, NEW line, DOMAIN values = Symbols
  PROVE  DOMAIN InsertLine(values, line) = Symbols
BY DEF InsertLine

LEMMA NothingSaidAtFirst ==
  ASSUME NEW text, NEW symbol \in Symbols
  PROVE  SaidLast(text, symbol, 0, [s \in Symbols |-> Absent][symbol])
BY DEF SaidLast, Saying

(* After any number of lines some value is the last.                        *)
LEMMA SomethingSaidLast ==
  ASSUME NEW text, NEW symbol \in Symbols
  PROVE  \A n \in Nat : \E value : SaidLast(text, symbol, n, value)
<1> DEFINE S == {n \in Nat : \E value : SaidLast(text, symbol, n, value)}
<1>1. 0 \in S
  BY NothingSaidAtFirst
<1>2. ASSUME NEW n \in Nat, n \in S PROVE n + 1 \in S
  <2>1. PICK value : SaidLast(text, symbol, n, value)
    BY <1>2
  <2>2. SaidLast(text, symbol, n, [s \in Symbols |-> value][symbol])
    BY <2>1
  <2>3. SaidLast(text, symbol, n + 1, InsertLine([s \in Symbols |-> value], text[n + 1])[symbol])
    BY <2>2, SaidByNextLine
  <2> QED
    BY <2>3
<1> HIDE DEF S
<1>3. Nat \subseteq S
  BY <1>1, <1>2, ByInduction
<1> QED
  BY <1>3 DEF S

(* What parse_kernel_config_text finds is, for each symbol, the value of    *)
(* the last line that says something of it, for a text of any length: the   *)
(* recursion has a solution, and every solution is that.                    *)
THEOREM ConfigIsLastSaid ==
  ASSUME NEW text \in Seq(ConfigLine), NEW symbol \in Symbols
  PROVE  SaidLast(text, symbol, Len(text), ParsedConfig(text)[symbol])
<1> DEFINE Step(v, n) == IF n = 0 THEN [s \in Symbols |-> Absent]
                         ELSE InsertLine(v[n - 1], text[n])
           Solves(v) == v = [n \in 0 .. Len(text) |-> Step(v, n)]
           values == CHOOSE v : Solves(v)
           Known(n) == [s \in Symbols |-> CHOOSE value : SaidLast(text, s, n, value)]
           S == {n \in Nat : n <= Len(text) =>
                   /\ DOMAIN values[n] = Symbols
                   /\ SaidLast(text, symbol, n, values[n][symbol])}
<1>0. Len(text) \in Nat
  OBVIOUS
<1>1. ParsedConfig(text) = values[Len(text)]
  BY DEF ParsedConfig
<1>2. ASSUME NEW n \in Nat, NEW s \in Symbols PROVE SaidLast(text, s, n, Known(n)[s])
  BY SomethingSaidLast
<1>3. Known(0) = [s \in Symbols |-> Absent]
  <2>1. ASSUME NEW s \in Symbols PROVE Known(0)[s] = [t \in Symbols |-> Absent][s]
    BY <1>2, NothingSaidAtFirst, SaidLastOnce
  <2> QED
    BY <2>1
<1>4. ASSUME NEW n \in Nat PROVE Known(n + 1) = InsertLine(Known(n), text[n + 1])
  <2>1. DOMAIN InsertLine(Known(n), text[n + 1]) = Symbols
    BY InsertKeepsDomain
  <2>2. ASSUME NEW s \in Symbols PROVE Known(n + 1)[s] = InsertLine(Known(n), text[n + 1])[s]
    <3>1. DOMAIN Known(n) = Symbols /\ SaidLast(text, s, n, Known(n)[s]) /\ n + 1 \in Nat
      BY <1>2
    <3>2. SaidLast(text, s, n + 1, Known(n + 1)[s])
      BY <1>2, <3>1
    <3> HIDE DEF Known
    <3>3. SaidLast(text, s, n + 1, InsertLine(Known(n), text[n + 1])[s])
      BY <3>1, SaidByNextLine
    <3> QED
      BY <3>1, <3>2, <3>3, SaidLastOnce
  <2> QED
    BY <2>1, <2>2 DEF InsertLine
<1>5. Solves([n \in 0 .. Len(text) |-> Known(n)])
  <2> DEFINE solution == [n \in 0 .. Len(text) |-> Known(n)]
  <2>1. ASSUME NEW n \in 0 .. Len(text) PROVE Known(n) = Step(solution, n)
    <3>1. CASE n = 0
      BY <1>3, <3>1
    <3>2. CASE n # 0
      <4>1. n - 1 \in Nat /\ n - 1 \in 0 .. Len(text) /\ (n - 1) + 1 = n
        BY <1>0, <3>2
      <4>2. Known(n) = InsertLine(Known(n - 1), text[n])
        <5> HIDE DEF Known
        <5> QED
          BY <1>4, <4>1
      <4> HIDE DEF Known
      <4> QED
        BY <3>2, <4>1, <4>2
    <3> QED
      BY <3>1, <3>2
  <2> HIDE DEF Known, Step
  <2> QED
    BY <2>1
<1>6. Solves(values)
  <2> HIDE DEF Solves, Known
  <2> QED
    BY <1>5
<1>7. ASSUME NEW n \in 0 .. Len(text) PROVE values[n] = Step(values, n)
  <2> HIDE DEF values, Step
  <2> QED
    BY <1>6
<1> HIDE DEF values
<1>8. 0 \in S
  <2>1. 0 \in 0 .. Len(text)
    BY <1>0
  <2> QED
    BY <1>7, <2>1, NothingSaidAtFirst
<1>9. ASSUME NEW n \in Nat, n \in S PROVE n + 1 \in S
  <2>1. SUFFICES ASSUME n + 1 <= Len(text)
                 PROVE  /\ DOMAIN values[n + 1] = Symbols
                        /\ SaidLast(text, symbol, n + 1, values[n + 1][symbol])
    OBVIOUS
  <2>2. /\ DOMAIN values[n] = Symbols
        /\ SaidLast(text, symbol, n, values[n][symbol])
    BY <1>0, <1>9, <2>1
  <2>3. n + 1 \in 0 .. Len(text) /\ n + 1 # 0 /\ (n + 1) - 1 = n
    BY <1>0, <2>1
  <2>4. values[n + 1] = InsertLine(values[n], text[n + 1])
    BY <1>7, <2>3
  <2> QED
    BY <2>2, <2>4, InsertKeepsDomain, SaidByNextLine
<1>10. Len(text) \in S
  <2> HIDE DEF S
  <2> QED
    BY <1>0, <1>8, <1>9, ByInduction
<1> QED
  BY <1>0, <1>1, <1>10

-----------------------------------------------------------------------------
LEMMA NextStage == LaunchTypeOK /\ [LaunchNext]_launchVars => stage' \in Stages
<1> SUFFICES ASSUME LaunchTypeOK, [LaunchNext]_launchVars PROVE stage' \in Stages
  OBVIOUS
<1>0. stage \in Stages
  BY DEF LaunchTypeOK
<1> USE DEF At, Stages
<1>1. CASE ParseCommand \/ LoadTask \/ PrepareTask \/ CheckOptions \/ PrepareHost \/ WriteSeed \/ MakeDisk
  BY <1>1 DEF ParseCommand, LoadTask, PrepareTask, CheckOptions, PrepareHost, WriteSeed, MakeDisk
<1>2. ASSUME NEW k \in Mounts, SpawnSidecar(k) \/ AwaitSocket(k) PROVE stage' \in Stages
  BY <1>2 DEF SpawnSidecar, AwaitSocket, ShareServed, ShareFails, ShareAwaited
<1>3. CASE StartQemu \/ ReadPidFile \/ CheckExit \/ Settle \/ WriteRecord
  BY <1>3 DEF StartQemu, ReadPidFile, CheckExit, Settle, WriteRecord
<1>4. CASE WaitForPort \/ Connect \/ AskHostname \/ CheckRunning
  BY <1>4 DEF WaitForPort, Connect, AskHostname, CheckRunning
<1>5. CASE StopQemu \/ StopSidecars \/ DropDir \/ ProbeKernel \/ KillRun
  BY <1>5 DEF StopQemu, StopSidecars, DropDir, ProbeKernel, KillRun
<1>6. CASE RmStep
  BY <1>0, <1>6 DEF RmStep, BeginRm, RmStop, RmSidecars, RmDir, runVars
<1>7. CASE QemuComesUp \/ QemuDies \/ \E k \in Mounts : SidecarServes(k) \/ SidecarDies(k)
  BY <1>0, <1>7 DEF QemuComesUp, QemuDies, SidecarServes, SidecarDies, runVars
<1>8. CASE UNCHANGED launchVars
  BY <1>0, <1>8 DEF launchVars, runVars
<1> QED
  BY <1>1, <1>2, <1>3, <1>4, <1>5, <1>6, <1>7, <1>8 DEF LaunchNext, RunStep, OtherStep

LEMMA NextType ==
  LaunchTypeOK /\ AskInv /\ VmInv /\ [LaunchNext]_launchVars => LaunchTypeOK'
<1> SUFFICES ASSUME LaunchTypeOK, AskInv, VmInv, [LaunchNext]_launchVars PROVE LaunchTypeOK'
  OBVIOUS
<1>0. stage' \in Stages
  BY NextStage
<1> USE DEF LaunchTypeOK, askVars, runVars, vmVars, hostVars, At
<1>1. CASE ParseCommand
  <2>1. stage' = "err" => UNCHANGED options
    BY <1>1 DEF ParseCommand
  <2>2. ASSUME stage' = "options" PROVE options' \in RunOptions /\ Len(options'.mounts) <= MaxMounts
    <3> DEFINE raw == request.mounts
               parsed == [i \in DOMAIN raw |-> ParsedMount(raw[i])]
    <3>1. /\ request \in Commands
          /\ \A i \in DOMAIN raw : MountParses(raw[i])
          /\ options' = [request EXCEPT !.mounts = parsed]
      BY <1>1, <2>2 DEF ParseCommand, AskInv
    <3>2. /\ request \in [kernel : Given, rootfs : Given, image_url : BOOLEAN, disk_size : BOOLEAN,
                          mounts : Seq(Written), verbose : BOOLEAN]
          /\ Len(raw) <= MaxMounts
      BY <3>1
    <3>3. parsed \in Seq(MountSpec) /\ Len(parsed) = Len(raw)
      BY <3>1, <3>2, ParsedTyping
    <3> HIDE DEF parsed
    <3> QED
      BY <3>1, <3>2, <3>3 DEF RunOptions
  <2>3. stage' \in {"err", "options"}
    BY <1>1 DEF ParseCommand
  <2> QED
    BY <1>0, <1>1, <2>1, <2>2, <2>3 DEF ParseCommand
<1>2. CASE PrepareTask
  <2>1. stage' = "err" => UNCHANGED options
    BY <1>2 DEF PrepareTask
  <2>2. stage' = "options" => options' \in RunOptions /\ Len(options'.mounts) <= MaxMounts
    <3> SUFFICES ASSUME stage' = "options"
                 PROVE  options' \in RunOptions /\ Len(options'.mounts) <= MaxMounts
      OBVIOUS
    <3>1. /\ caller = "task" => request \in Tasks
          /\ LaunchPrepares(request.vm, request.disk_size)
          /\ options' = LaunchOptions(request.vm, request.disk_size)
      BY <1>2 DEF PrepareTask, AskInv
    <3>2. request \in Tasks
      BY <1>2, <3>1 DEF AskInv, PrepareTask
    <3> QED
      BY <3>1, <3>2, LaunchOptionsAccepted
  <2>3. stage' \in {"err", "options"}
    BY <1>2 DEF PrepareTask
  <2> QED
    BY <1>0, <1>2, <2>1, <2>2, <2>3 DEF PrepareTask
<1>3. CASE LoadTask \/ CheckOptions \/ PrepareHost \/ MakeDisk \/ Settle \/ AskHostname \/ CheckRunning \/ KillRun
  BY <1>0, <1>3 DEF LoadTask, CheckOptions, PrepareHost, MakeDisk, Settle, AskHostname, CheckRunning, KillRun
<1>4. CASE WriteSeed
  <2>1. Len(Seed("key", options.mounts, Transport(os)).runcmd) = Len(options.mounts)
    <3>1. options.mounts \in Seq(MountSpec)
      <4>1. <<>> \in Seq(MountSpec) /\ NoOptions.mounts = <<>>
        BY DEF NoOptions
      <4> QED
        BY <4>1 DEF RunOptions
    <3>2. \A S, s : s \in Seq(S) => \A t : Len([i \in DOMAIN s |-> MountCommand(i, s[i], t)]) = Len(s)
      OBVIOUS
    <3> QED
      BY <3>1, <3>2 DEF Seed
  <2> QED
    BY <1>0, <1>4, <2>1 DEF WriteSeed
<1>5. ASSUME NEW k \in Mounts, SpawnSidecar(k) PROVE LaunchTypeOK'
  <2>1. /\ sockets' \subseteq Mounts /\ polls' = 0 /\ excuses' \subseteq Excuses
        /\ virtiofsd' \in [Mounts -> {"none", "starting", "serving", "gone"}]
    BY <1>5 DEF SpawnSidecar, Excuse, Excuses
  <2> QED
    BY <1>0, <1>5, <2>1 DEF SpawnSidecar
<1>6. ASSUME NEW k \in Mounts, AwaitSocket(k) PROVE LaunchTypeOK'
  <2>0. IsNext(k)
    BY <1>6 DEF AwaitSocket
  <2>1. /\ shares' \in Seq([tag : {Tag(j) : j \in Mounts}, socket : Mounts, pid : Mounts])
        /\ Len(shares') <= MaxMounts
    BY <1>6, <2>0, SharesTyping DEF AwaitSocket, ShareServed, ShareFails, ShareAwaited
  <2>2. /\ virtiofsd' \in [Mounts -> {"none", "starting", "serving", "gone"}]
        /\ excuses' \subseteq Excuses
    BY <1>6, StoppedTyping
       DEF AwaitSocket, ShareServed, ShareFails, ShareAwaited, Excuse, Excuses
  <2>3. polls' \in Nat /\ (polls' <= MaxPolls \/ polls' < MaxRetries)
    BY <1>6 DEF AwaitSocket, ShareServed, ShareFails, ShareAwaited
  <2> QED
    BY <1>0, <1>6, <2>1, <2>2, <2>3 DEF AwaitSocket
<1>7. CASE StartQemu
  <2>1. virtiofsd' \in [Mounts -> {"none", "starting", "serving", "gone"}]
    BY <1>7, StoppedTyping DEF StartQemu
  <2>2. /\ qemu' \in {"none", "starting", "running", "dead"}
        /\ parent' \in BOOLEAN /\ pid_file' \in BOOLEAN
    BY <1>7 DEF StartQemu
  <2> QED
    BY <1>0, <1>7, <2>1, <2>2 DEF StartQemu
<1>8. CASE ReadPidFile
  BY <1>0, <1>8 DEF ReadPidFile
<1>9. CASE CheckExit
  <2>1. /\ virtiofsd' \in [Mounts -> {"none", "starting", "serving", "gone"}]
        /\ excuses' \subseteq Excuses
    BY <1>9, StoppedTyping DEF CheckExit, Excuse, Excuses
  <2>2. polls' \in Nat /\ (polls' <= MaxPolls \/ polls' < MaxRetries)
    BY <1>9 DEF CheckExit, VmInv
  <2> QED
    BY <1>0, <1>9, <2>1, <2>2 DEF CheckExit
<1>10. CASE WriteRecord
  <2>1. recorded' \in BOOLEAN
    BY <1>10, Zenon DEF WriteRecord
  <2>2. excuses' \subseteq Excuses
    BY <1>10 DEF WriteRecord, Excuse, Excuses
  <2> QED
    BY <1>0, <1>10, <2>1, <2>2 DEF WriteRecord
<1>11. CASE WaitForPort \/ Connect
  BY <1>0, <1>11 DEF WaitForPort, Connect
<1>12. CASE StopQemu
  <2>1. excuses' \subseteq Excuses
    BY <1>12 DEF StopQemu, Excuse, Excuses
  <2>2. qemu' \in {"none", "starting", "running", "dead"} /\ parent' \in BOOLEAN /\ pid_file' \in BOOLEAN
    BY <1>12 DEF StopQemu, KillParent, KillQemu
  <2> QED
    BY <1>0, <1>12, <2>1, <2>2 DEF StopQemu
<1>13. CASE StopSidecars
  BY <1>0, <1>13, StoppedTyping DEF StopSidecars
<1>14. CASE DropDir
  <2>1. recorded' \in BOOLEAN /\ pid_file' \in BOOLEAN
    BY <1>14, Zenon DEF DropDir, RemoveFiles
  <2>2. sockets' \subseteq Mounts
    BY <1>14 DEF DropDir, RemoveFiles
  <2> QED
    BY <1>0, <1>14, <2>1, <2>2 DEF DropDir
<1>15. CASE ProbeKernel
  BY <1>0, <1>15 DEF ProbeKernel
<1>16. CASE BeginRm
  BY <1>0, <1>16 DEF BeginRm
<1>17. CASE RmStop
  <2>1. excuses' \subseteq Excuses
    BY <1>17 DEF RmStop, Excuse, Excuses
  <2>2. qemu' \in {"none", "starting", "running", "dead"} /\ parent' \in BOOLEAN /\ pid_file' \in BOOLEAN
    BY <1>17 DEF RmStop, KillParent, KillQemu
  <2>3. rm' \in {"none", "stop", "sidecars", "dir", "done"}
    BY <1>17 DEF RmStop
  <2> QED
    BY <1>0, <1>17, <2>1, <2>2, <2>3 DEF RmStop
<1>18. CASE RmSidecars
  BY <1>0, <1>18, StoppedTyping DEF RmSidecars
<1>19. CASE RmDir
  <2>1. sockets' = {} /\ recorded' = FALSE /\ pid_file' = FALSE /\ rm' = "done"
    BY <1>19 DEF RmDir, RemoveFiles
  <2> QED
    BY <1>0, <1>19, <2>1 DEF RmDir
<1>20. CASE QemuComesUp
  <2>1. parent' \in BOOLEAN
    BY <1>20, Zenon DEF QemuComesUp
  <2> QED
    BY <1>0, <1>20, <2>1 DEF QemuComesUp
<1>21. CASE QemuDies
  <2>1. qemu' = "dead" /\ parent' = FALSE
    BY <1>21 DEF QemuDies
  <2>2. qemu' \in {"none", "starting", "running", "dead"} /\ parent' \in BOOLEAN
    BY <2>1
  <2> QED
    BY <1>0, <1>21, <2>2 DEF QemuDies
<1>22. ASSUME NEW k \in Mounts, SidecarServes(k) \/ SidecarDies(k) PROVE LaunchTypeOK'
  BY <1>0, <1>22 DEF SidecarServes, SidecarDies
<1>23. CASE UNCHANGED launchVars
  BY <1>23 DEF launchVars
<1> QED
  BY <1>1, <1>2, <1>3, <1>4, <1>5, <1>6, <1>7, <1>8, <1>9, <1>10, <1>11, <1>12, <1>13, <1>14,
     <1>15, <1>16, <1>17, <1>18, <1>19, <1>20, <1>21, <1>22, <1>23
     DEF LaunchNext, RunStep, RmStep, OtherStep

-----------------------------------------------------------------------------
(***************************************************************************)
(* Frames.                                                                 *)
(***************************************************************************)
Parsing == ParseCommand \/ PrepareTask

(* What the run alone writes.                                               *)
LEMMA OthersFrame ==
  ASSUME RmStep \/ OtherStep
  PROVE  /\ UNCHANGED <<askVars, polls, seed, shares, known, command>>
         /\ stage' = stage \/ KillRun
         /\ KillRun => UNCHANGED <<vmVars, hostVars, rm, excuses>> /\ stage' = "killed"
BY DEF RmStep, OtherStep, BeginRm, RmStop, RmSidecars, RmDir, QemuComesUp, QemuDies, KillRun,
       SidecarServes, SidecarDies, KillParent, KillQemu, runVars, vmVars

LEMMA AskFrame ==
  ASSUME RunStep
  PROVE  /\ UNCHANGED <<caller, request, os, rm>>
         /\ UNCHANGED options \/ Parsing
BY DEF RunStep, ParseCommand, LoadTask, PrepareTask, CheckOptions, PrepareHost, WriteSeed, MakeDisk,
       SpawnSidecar, AwaitSocket, StartQemu, ReadPidFile, CheckExit, Settle, WriteRecord,
       WaitForPort, Connect, AskHostname, CheckRunning, StopQemu, StopSidecars, DropDir,
       ProbeKernel, Parsing, askVars

-----------------------------------------------------------------------------
LEMMA NextAskInv == LaunchTypeOK /\ AskInv /\ [LaunchNext]_launchVars => AskInv'
<1> SUFFICES ASSUME LaunchTypeOK, AskInv, [LaunchNext]_launchVars PROVE AskInv'
  OBVIOUS
<1> USE DEF AskInv, At
<1>1. CASE ParseCommand
  <2>1. ASSUME stage' = "options" PROVE options' # NoOptions
    <3> DEFINE raw == request.mounts
               parsed == [i \in DOMAIN raw |-> ParsedMount(raw[i])]
    <3>1. request \in Commands /\ options' = [request EXCEPT !.mounts = parsed]
      BY <1>1, <2>1 DEF ParseCommand, At
    <3>2. "kernel" \in DOMAIN options'
      <4> HIDE DEF parsed
      <4> QED
        BY <3>1
    <3> QED
      BY <3>2 DEF NoOptions
  <2>2. stage' = "options" \/ (stage' = "err" /\ UNCHANGED options)
    BY <1>1 DEF ParseCommand
  <2>3. UNCHANGED <<caller, request>> /\ caller = "cli"
    BY <1>1 DEF ParseCommand
  <2> QED
    BY <2>1, <2>2, <2>3 DEF LaunchTypeOK
<1>2. CASE PrepareTask
  <2>1. \/ stage' = "err" /\ UNCHANGED options
        \/ /\ stage' = "options"
           /\ LaunchPrepares(request.vm, request.disk_size)
           /\ options' = LaunchOptions(request.vm, request.disk_size)
           /\ RequirementsParse(KernelRequirements(request.vm))
    BY <1>2 DEF PrepareTask, At
  <2>2. UNCHANGED <<caller, request>> /\ caller = "task" /\ request \in Tasks
    BY <1>2 DEF PrepareTask, At
  <2>3. ASSUME stage' = "options"
        PROVE  /\ OptionsAccepted(options') /\ options'.kernel # Gone /\ options'.rootfs # Gone
               /\ options' # NoOptions
    <3>1. options' \in RunOptions /\ OptionsAccepted(options')
          /\ options'.kernel # Gone /\ options'.rootfs # Gone
      BY <2>1, <2>2, <2>3, LaunchOptionsAccepted
    <3>2. "kernel" \in DOMAIN options'
      BY <3>1 DEF RunOptions
    <3> QED
      BY <3>1, <3>2 DEF NoOptions
  <2> QED
    BY <2>1, <2>2, <2>3 DEF OptionsAccepted
<1>3. CASE RunStep /\ ~Parsing
  <2>1. UNCHANGED <<caller, request, options>>
    BY <1>3, AskFrame
  <2>2. /\ stage' = "prepare" => caller = "task"
        /\ stage' \notin {"begin", "prepare", "err", "killed"} => options # NoOptions
    BY <1>3 DEF RunStep, Parsing, LoadTask, CheckOptions, PrepareHost, WriteSeed, MakeDisk,
         SpawnSidecar, AwaitSocket, ShareServed, ShareFails, ShareAwaited, StartQemu, ReadPidFile,
         CheckExit, Settle, WriteRecord, WaitForPort, Connect, AskHostname, CheckRunning, StopQemu,
         StopSidecars, DropDir, ProbeKernel, At
  <2> QED
    BY <2>1, <2>2 DEF OptionsAccepted
<1>4. CASE RmStep \/ OtherStep
  BY <1>4, OthersFrame DEF askVars, OptionsAccepted
<1>5. CASE UNCHANGED launchVars
  BY <1>5 DEF launchVars, askVars, runVars, OptionsAccepted
<1> QED
  BY <1>1, <1>2, <1>3, <1>4, <1>5 DEF LaunchNext, Parsing

LEMMA NextVmInv == LaunchTypeOK /\ VmInv /\ [LaunchNext]_launchVars => VmInv'
<1> SUFFICES ASSUME LaunchTypeOK, VmInv, [LaunchNext]_launchVars PROVE VmInv'
  OBVIOUS
<1> USE DEF VmInv, Asking, Sharing, At, vmVars, hostVars
<1>1. CASE ParseCommand \/ LoadTask \/ PrepareTask \/ CheckOptions \/ PrepareHost \/ WriteSeed \/ MakeDisk
  BY <1>1 DEF ParseCommand, LoadTask, PrepareTask, CheckOptions, PrepareHost, WriteSeed, MakeDisk
<1>2. ASSUME NEW k \in Mounts, SpawnSidecar(k) \/ AwaitSocket(k) PROVE VmInv'
  BY <1>2 DEF SpawnSidecar, AwaitSocket, ShareServed, ShareFails, ShareAwaited
<1>3. CASE StartQemu
  BY <1>3 DEF StartQemu
<1>4. CASE ReadPidFile
  BY <1>4 DEF ReadPidFile, LaunchTypeOK
<1>5. CASE CheckExit \/ Settle \/ WriteRecord
  <2>1. CASE CheckExit
    BY <2>1 DEF CheckExit
  <2>2. CASE Settle
    BY <2>2 DEF Settle
  <2>3. CASE WriteRecord
    <3>1. /\ stage = "record" /\ stage' \in {"port", "err"}
          /\ UNCHANGED <<qemu, known, rm>>
      BY <2>3 DEF WriteRecord
    <3> QED
      BY <3>1
  <2> QED
    BY <1>5, <2>1, <2>2, <2>3
<1>6. CASE WaitForPort \/ Connect \/ AskHostname \/ CheckRunning
  BY <1>6 DEF WaitForPort, Connect, AskHostname, CheckRunning
<1>7. CASE StopQemu \/ StopSidecars
  BY <1>7 DEF StopQemu, StopSidecars
<1>8. CASE DropDir \/ ProbeKernel
  BY <1>8 DEF DropDir, ProbeKernel, RemoveFiles
<1>9. CASE RmStep
  <2>1. recorded \/ rm # "none"
    BY <1>9 DEF RmStep, BeginRm, RmStop, RmSidecars, RmDir
  <2>2. UNCHANGED <<stage, polls, known>>
    BY <1>9 DEF RmStep, BeginRm, RmStop, RmSidecars, RmDir, runVars
  <2> QED
    BY <2>1, <2>2
<1>10. CASE QemuComesUp \/ QemuDies \/ KillRun
  BY <1>10 DEF QemuComesUp, QemuDies, QemuRuns, KillRun, runVars
<1>11. ASSUME NEW k \in Mounts, SidecarServes(k) \/ SidecarDies(k) PROVE VmInv'
  BY <1>11 DEF SidecarServes, SidecarDies, runVars
<1>12. CASE UNCHANGED launchVars
  BY <1>12 DEF launchVars, runVars
<1> QED
  BY <1>1, <1>2, <1>3, <1>4, <1>5, <1>6, <1>7, <1>8, <1>9, <1>10, <1>11, <1>12
     DEF LaunchNext, RunStep, OtherStep

-----------------------------------------------------------------------------
(* Stopping the shares leaves no virtiofsd of theirs, and wakes no other.   *)
LEMMA StoppedShares ==
  ASSUME LaunchTypeOK, ShareInv, virtiofsd' = Stopped(shares)
  PROVE  \A k \in Mounts : Alive(k)' => Alive(k) /\ k > Len(shares)
<1> TAKE k \in Mounts
<1>1. virtiofsd'[k] = IF \E i \in DOMAIN shares : shares[i].pid = k THEN "gone" ELSE virtiofsd[k]
  BY DEF Stopped
<1>2. Len(shares) \in Nat /\ k \in Nat
  BY DEF LaunchTypeOK, Mounts
<1>3. ASSUME k <= Len(shares) PROVE \E i \in DOMAIN shares : shares[i].pid = k
  <2>1. k \in 1 .. Len(shares)
    BY <1>2, <1>3 DEF Mounts
  <2>2. shares[k] = Share(k) /\ k \in DOMAIN shares
    BY <2>1 DEF ShareInv
  <2> QED
    BY <2>2 DEF Share
<1> QED
  BY <1>1, <1>2, <1>3 DEF Alive

LEMMA NextShareInv ==
  LaunchTypeOK /\ AskInv /\ ShareInv /\ VmInv /\ [LaunchNext]_launchVars => ShareInv'
<1> SUFFICES ASSUME LaunchTypeOK, AskInv, ShareInv, VmInv, [LaunchNext]_launchVars PROVE ShareInv'
  OBVIOUS
<1>0. Len(shares) \in Nat
  BY DEF LaunchTypeOK
<1> USE DEF Asking, Sharing, At, vmVars, hostVars
<1>1. ASSUME ParseCommand \/ LoadTask \/ PrepareTask \/ CheckOptions \/ PrepareHost \/ WriteSeed
      PROVE  ShareInv'
  <2>1. /\ stage \in Asking /\ stage' \in Asking \union {"err", "refused"}
        /\ UNCHANGED <<shares, os, sockets, virtiofsd, excuses>>
    BY <1>1 DEF ParseCommand, LoadTask, PrepareTask, CheckOptions, PrepareHost, WriteSeed, askVars
  <2> QED
    BY <2>1 DEF ShareInv, Alive
<1>2. ASSUME MakeDisk PROVE ShareInv'
  <2>1. Len(options.mounts) \in Nat /\ (options.mounts # <<>> => 0 < Len(options.mounts))
    BY DEF LaunchTypeOK, RunOptions, NoOptions
  <2>2. options.mounts = <<>> => Len(options.mounts) = 0
    OBVIOUS
  <2>3. /\ shares = <<>> /\ Len(shares) = 0 /\ stage = "disk"
        /\ UNCHANGED <<shares, os, sockets, virtiofsd, excuses, options>>
        /\ \/ stage' = "spawn" /\ Transport(os) = "virtiofs" /\ options.mounts # <<>>
           \/ stage' = "start" /\ ~(Transport(os) = "virtiofs" /\ options.mounts # <<>>)
           \/ stage' = "err"
    BY <1>2 DEF MakeDisk, ShareInv, askVars
  <2>4. \A k \in Mounts : ~(k <= 0)
    BY DEF Mounts
  <2> QED
    BY <2>1, <2>2, <2>3, <2>4 DEF ShareInv, Alive
<1>3. ASSUME NEW k \in Mounts, SpawnSidecar(k) PROVE ShareInv'
  <2>1. k = Len(shares) + 1 /\ k \in Nat
    BY <1>3 DEF SpawnSidecar, IsNext, Mounts
  <2>2. /\ stage = "spawn" /\ stage' \in {"await_socket", "drop_dir"}
        /\ UNCHANGED <<shares, options, os>>
        /\ sockets' = sockets \ {k}
        /\ excuses \subseteq excuses'
    BY <1>3 DEF SpawnSidecar, Excuse, askVars
  <2>3. \A j \in Mounts : Alive(j)' => Alive(j) \/ (j = k /\ stage' = "await_socket")
    BY <1>3 DEF SpawnSidecar, Alive, LaunchTypeOK
  <2>4. \A j \in Mounts : j <= Len(shares) => j # k
    BY <1>0, <2>1
  <2> QED
    BY <2>1, <2>2, <2>3, <2>4 DEF ShareInv
<1>4. ASSUME NEW k \in Mounts, AwaitSocket(k), ShareServed(k) PROVE ShareInv'
  <2>1. /\ k = Len(shares) + 1 /\ k \in DOMAIN options.mounts /\ options.mounts \in Seq(MountSpec)
        /\ shares \in Seq([tag : {Tag(j) : j \in Mounts}, socket : Mounts, pid : Mounts])
    <3>1. <<>> \in Seq(MountSpec) /\ NoOptions.mounts = <<>>
      BY DEF NoOptions
    <3> QED
      BY <1>4, <3>1 DEF AwaitSocket, IsNext, LaunchTypeOK, RunOptions
  <2>2. /\ shares' = Append(shares, Share(k)) /\ k \in sockets
        /\ UNCHANGED <<options, os, sockets, virtiofsd, excuses>>
        /\ stage = "await_socket"
        /\ stage' = IF k < Len(options.mounts) THEN "spawn" ELSE "start"
    BY <1>4 DEF AwaitSocket, ShareServed, askVars
  <2>3. /\ Len(shares') = k /\ k \in Nat /\ k <= Len(options.mounts) /\ Len(options.mounts) \in Nat
        /\ DOMAIN shares' = 1 .. k
        /\ shares'[k] = Share(k)
        /\ \A i \in 1 .. Len(shares) : shares'[i] = shares[i]
    BY <2>1, <2>2
  <2>4. shares' = [i \in 1 .. Len(shares') |-> Share(i)]
    <3>1. \A i \in 1 .. k : shares'[i] = Share(i)
      BY <1>0, <2>1, <2>3 DEF ShareInv
    <3>2. shares' = [i \in DOMAIN shares' |-> shares'[i]]
      BY <2>1, <2>2
    <3> QED
      BY <2>3, <3>1, <3>2
  <2>5. \A j \in Mounts : j <= k => j <= Len(shares) \/ j = k
    BY <1>0, <2>1 DEF Mounts
  <2>6. Transport(os) = "virtiofs"
    BY <2>2 DEF ShareInv
  <2>7. \A j \in Mounts : Alive(j)' => j <= k \/ (j = k + 1 /\ "late" \in excuses)
    BY <1>0, <2>1, <2>2, SMTT(30) DEF ShareInv, Alive, Mounts
  <2> QED
    BY <2>1, <2>2, <2>3, <2>4, <2>5, <2>6, <2>7 DEF ShareInv
<1>5. ASSUME NEW k \in Mounts, AwaitSocket(k), ShareFails(k) PROVE ShareInv'
  <2>1. \A j \in Mounts : Alive(j)' => Alive(j) /\ j > Len(shares)
    BY <1>5, StoppedShares DEF ShareFails
  <2>2. /\ stage' = "drop_dir" /\ UNCHANGED <<shares, os>> /\ k = Len(shares) + 1
        /\ excuses' = IF virtiofsd[k] # "gone" THEN excuses \union {"late"} ELSE excuses
    BY <1>5 DEF ShareFails, AwaitSocket, IsNext, Excuse, askVars
  <2>3. Alive(k) => virtiofsd[k] # "gone"
    BY DEF Alive
  <2> QED
    BY <1>0, <2>1, <2>2, <2>3 DEF ShareInv, Mounts
<1>6. ASSUME NEW k \in Mounts, AwaitSocket(k), ShareAwaited(k) PROVE ShareInv'
  BY <1>6 DEF AwaitSocket, ShareAwaited, ShareInv, Alive, askVars
<1>7. ASSUME StartQemu PROVE ShareInv'
  <2>1. /\ stage = "start" /\ stage' \in {"await_pid", "err", "refused"}
        /\ UNCHANGED <<shares, os, excuses>>
        /\ UNCHANGED virtiofsd \/ virtiofsd' = Stopped(shares)
    BY <1>7 DEF StartQemu, askVars
  <2>2. \A k \in Mounts : Alive(k)' => Alive(k)
    BY <2>1, StoppedShares DEF Alive
  <2> QED
    BY <2>1, <2>2 DEF ShareInv
<1>8. ASSUME ReadPidFile \/ CheckExit \/ Settle \/ WriteRecord PROVE ShareInv'
  <2>1. /\ stage' \in {"settle", "check_exit", "await_pid", "err", "record", "stop", "port"}
        /\ stage \notin {"await_socket", "killed"}
        /\ UNCHANGED <<shares, os>> /\ excuses \subseteq excuses'
        /\ UNCHANGED virtiofsd \/ virtiofsd' = Stopped(shares)
    BY <1>8 DEF ReadPidFile, CheckExit, Settle, WriteRecord, Excuse, askVars
  <2>2. \A k \in Mounts : Alive(k)' => Alive(k)
    BY <2>1, StoppedShares DEF Alive
  <2> QED
    BY <2>1, <2>2 DEF ShareInv
<1>9. ASSUME WaitForPort \/ Connect \/ AskHostname \/ CheckRunning PROVE ShareInv'
  <2>1. /\ stage' \in {"port", "connect", "hostname", "check", "up", "stop"}
        /\ stage \notin {"await_socket", "killed"}
        /\ UNCHANGED <<shares, os, virtiofsd, excuses>>
    BY <1>9 DEF WaitForPort, Connect, AskHostname, CheckRunning, askVars
  <2> QED
    BY <2>1 DEF ShareInv, Alive
<1>10. ASSUME StopQemu \/ StopSidecars \/ DropDir \/ ProbeKernel PROVE ShareInv'
  <2>1. /\ stage' \in {"stop_sidecars", "drop_dir", "err", "ready", "unfit"}
        /\ stage \notin {"await_socket", "killed"}
        /\ UNCHANGED <<shares, os>> /\ excuses \subseteq excuses'
        /\ UNCHANGED virtiofsd \/ virtiofsd' = Stopped(shares)
    BY <1>10 DEF StopQemu, StopSidecars, DropDir, ProbeKernel, Excuse, askVars
  <2>2. \A k \in Mounts : Alive(k)' => Alive(k)
    BY <2>1, StoppedShares DEF Alive
  <2> QED
    BY <2>1, <2>2 DEF ShareInv
<1>11. ASSUME RmStep PROVE ShareInv'
  <2>1. /\ stage \notin Asking \union Sharing \union {"start"}
        /\ UNCHANGED <<stage, shares, os>> /\ excuses \subseteq excuses'
        /\ UNCHANGED virtiofsd \/ virtiofsd' = Stopped(shares)
    BY <1>11 DEF RmStep, BeginRm, RmStop, RmSidecars, RmDir, Excuse, runVars, askVars, VmInv
  <2>2. \A k \in Mounts : Alive(k)' => Alive(k)
    BY <2>1, StoppedShares DEF Alive
  <2> QED
    BY <2>1, <2>2 DEF ShareInv
<1>12. ASSUME QemuComesUp \/ QemuDies PROVE ShareInv'
  BY <1>12 DEF QemuComesUp, QemuDies, ShareInv, Alive, runVars, askVars
<1>13. ASSUME KillRun PROVE ShareInv'
  BY <1>13 DEF KillRun, ShareInv, Alive, askVars
<1>14. ASSUME NEW k \in Mounts, SidecarServes(k) \/ SidecarDies(k) PROVE ShareInv'
  <2>1. \A j \in Mounts : Alive(j)' => Alive(j)
    BY <1>14 DEF SidecarServes, SidecarDies, Alive, LaunchTypeOK
  <2>2. UNCHANGED <<stage, shares, os, options, excuses>> /\ sockets \subseteq sockets'
    BY <1>14 DEF SidecarServes, SidecarDies, runVars, askVars
  <2> QED
    BY <2>1, <2>2 DEF ShareInv
<1>15. ASSUME UNCHANGED launchVars PROVE ShareInv'
  BY <1>15 DEF launchVars, runVars, askVars, ShareInv, Alive
<1> QED
  BY <1>1, <1>2, <1>3, <1>4, <1>5, <1>6, <1>7, <1>8, <1>9, <1>10, <1>11, <1>12, <1>13, <1>14, <1>15
     DEF LaunchNext, RunStep, OtherStep, AwaitSocket

-----------------------------------------------------------------------------
(* What validate looks at is there, for the options of a task.              *)
LEMMA TaskConfigValid ==
  ASSUME LaunchTypeOK, AskInv, ShareInv, caller = "task", stage = "start"
  PROVE  ConfigValid(Config, sockets)
<1> DEFINE conf == Config
<1>1. /\ options \in RunOptions /\ options.kernel # Gone /\ options.rootfs # Gone
      /\ options.mounts \in Seq(MountSpec)
  BY DEF LaunchTypeOK, AskInv, RunOptions
<1>2. conf.disk # Gone /\ conf.kernel # Gone
  BY <1>1 DEF Config, QemuConfig
<1>3. conf.virtiofs_shares = shares
  BY DEF Config, QemuConfig
<1>4. \A i \in DOMAIN shares : shares[i].socket \in sockets
  <2> TAKE i \in DOMAIN shares
  <2>1. i \in 1 .. Len(shares) /\ Len(shares) \in Nat /\ Len(shares) <= MaxMounts
    BY DEF LaunchTypeOK
  <2>2. i \in Mounts /\ i <= Len(shares)
    BY <2>1 DEF Mounts
  <2>3. shares[i] = Share(i)
    BY <2>1 DEF ShareInv
  <2> QED
    BY <2>2, <2>3 DEF ShareInv, Share
<1>5. \A i \in DOMAIN conf.virtio_9p_shares : conf.virtio_9p_shares[i].path \in HostPaths
  <2>1. CASE Transport(HostProfile(os, FALSE).os) = "9p"
    <3>1. conf.virtio_9p_shares =
            [i \in DOMAIN options.mounts |-> [tag |-> Tag(i), path |-> options.mounts[i].host]]
      BY <2>1 DEF Config, QemuConfig
    <3>2. \A i \in DOMAIN options.mounts : options.mounts[i] \in MountSpec
      BY <1>1
    <3> QED
      BY <3>1, <3>2 DEF MountSpec
  <2>2. CASE Transport(HostProfile(os, FALSE).os) # "9p"
    <3>1. conf.virtio_9p_shares = <<>>
      BY <2>2 DEF Config, QemuConfig
    <3> QED
      BY <3>1
  <2> QED
    BY <2>1, <2>2
<1> HIDE DEF conf
<1>6. ConfigValid(conf, sockets)
  BY <1>2, <1>3, <1>4, <1>5 DEF ConfigValid
<1> QED
  BY <1>6 DEF conf

LEMMA NextTaskIsAccepted ==
  LaunchTypeOK /\ AskInv /\ ShareInv /\ TaskIsAccepted /\ [LaunchNext]_launchVars => TaskIsAccepted'
<1> SUFFICES ASSUME LaunchTypeOK, AskInv, ShareInv, TaskIsAccepted, [LaunchNext]_launchVars,
                    caller' = "task", stage' = "refused"
             PROVE  FALSE
  BY DEF TaskIsAccepted
<1> USE DEF At
<1>0. caller = "task" /\ stage # "refused"
  BY AskFrame, OthersFrame DEF LaunchNext, launchVars, askVars, TaskIsAccepted
<1>1. CASE CheckOptions
  BY <1>0, <1>1 DEF CheckOptions, AskInv
<1>2. CASE StartQemu
  <2>1. stage = "start" /\ ~ConfigValid(Config, sockets)
    BY <1>2 DEF StartQemu
  <2> QED
    BY <1>0, <2>1, TaskConfigValid
<1>3. CASE RunStep /\ ~CheckOptions /\ ~StartQemu
  BY <1>3 DEF RunStep, ParseCommand, LoadTask, PrepareTask, PrepareHost, WriteSeed, MakeDisk,
       SpawnSidecar, AwaitSocket, ShareServed, ShareFails, ShareAwaited, ReadPidFile, CheckExit,
       Settle, WriteRecord, WaitForPort, Connect, AskHostname, CheckRunning, StopQemu,
       StopSidecars, DropDir, ProbeKernel
<1>4. CASE RmStep \/ OtherStep
  BY <1>0, <1>4, OthersFrame
<1>5. CASE UNCHANGED launchVars
  BY <1>0, <1>5 DEF launchVars, runVars
<1> QED
  BY <1>1, <1>2, <1>3, <1>4, <1>5 DEF LaunchNext

-----------------------------------------------------------------------------
(* Why a virtiofsd may be alive when the run is over.                       *)
Excused(k) ==
  \/ "record" \in excuses
  \/ "spawn" \in excuses /\ k <= Len(shares)
  \/ "late" \in excuses /\ k = Len(shares) + 1

LEMMA StraySidecars ==
  ASSUME LaunchTypeOK, ShareInv, virtiofsd' = Stopped(shares), stage \notin {"await_socket", "killed"}
  PROVE  \A k \in Mounts : Alive(k)' => "late" \in excuses /\ k = Len(shares) + 1
<1>1. Len(shares) \in Nat
  BY DEF LaunchTypeOK
<1> QED
  BY <1>1, StoppedShares DEF ShareInv, Mounts

LEMMA NextStrayInv ==
  LaunchTypeOK /\ ShareInv /\ VmInv /\ StrayInv /\ [LaunchNext]_launchVars => StrayInv'
<1> SUFFICES ASSUME LaunchTypeOK, ShareInv, VmInv, StrayInv, [LaunchNext]_launchVars PROVE StrayInv'
  OBVIOUS
<1> DEFINE Over   == {"drop_dir", "err", "refused"}
           Kept   == excuses \intersect {"lost", "stop", "parent", "record"} # {}
<1>0. /\ Len(shares) \in Nat
      /\ stage \in Over => \A k \in Mounts : Alive(k) => Excused(k)
  BY DEF LaunchTypeOK, StrayInv, NoStrayProcess, Alive, Excused
<1>a. ASSUME /\ stage' \in Over \union {"stop_sidecars"} /\ QemuRuns' => Kept'
             /\ stage' = "stop_sidecars" /\ QemuRuns' => excuses' \intersect {"stop", "parent"} # {}
             /\ rm' = "sidecars" /\ QemuRuns' => "parent" \in excuses'
             /\ stage' \in Over => \A k \in Mounts : Alive(k)' => Excused(k)'
      PROVE  StrayInv'
  BY <1>a DEF StrayInv, NoStrayProcess, Alive, Excused
<1> HIDE DEF Kept
<1> USE DEF Asking, Sharing, At, vmVars, hostVars
<1>1. ASSUME ParseCommand \/ LoadTask \/ PrepareTask \/ CheckOptions \/ PrepareHost \/ WriteSeed \/ MakeDisk
      PROVE  StrayInv'
  <2>1. /\ stage \in Asking
        /\ UNCHANGED <<virtiofsd, qemu, rm, excuses, shares>>
    BY <1>1 DEF ParseCommand, LoadTask, PrepareTask, CheckOptions, PrepareHost, WriteSeed, MakeDisk
  <2>2. qemu = "none" /\ rm = "none" /\ shares = <<>>
    BY <2>1 DEF VmInv, ShareInv
  <2>3. \A k \in Mounts : Alive(k) => Excused(k)
    BY <1>0, <2>1, <2>2 DEF ShareInv, Excused, Mounts
  <2> QED
    BY <1>a, <2>1, <2>2, <2>3 DEF QemuRuns, Alive, Excused
<1>2. ASSUME NEW k \in Mounts, SpawnSidecar(k) \/ AwaitSocket(k) PROVE StrayInv'
  <2>1. stage \in Sharing /\ UNCHANGED <<qemu, rm>>
    BY <1>2 DEF SpawnSidecar, AwaitSocket
  <2>2. qemu = "none" /\ rm = "none"
    BY <2>1 DEF VmInv
  <2>3. ASSUME stage' \in Over PROVE \A j \in Mounts : Alive(j)' => Excused(j)'
    <3>1. CASE SpawnSidecar(k)
      <4>1. /\ UNCHANGED <<virtiofsd, shares>> /\ stage = "spawn"
            /\ excuses' = IF shares # <<>> THEN excuses \union {"spawn"} ELSE excuses
        BY <2>3, <3>1 DEF SpawnSidecar, Excuse
      <4>2. \A j \in Mounts : j <= Len(shares) => shares # <<>>
        BY <1>0 DEF Mounts
      <4> QED
        BY <4>1, <4>2 DEF ShareInv, Alive, Excused
    <3>2. CASE AwaitSocket(k)
      <4>1. /\ virtiofsd' = Stopped(shares) /\ UNCHANGED shares /\ k = Len(shares) + 1
            /\ excuses' = IF virtiofsd[k] # "gone" THEN excuses \union {"late"} ELSE excuses
        BY <2>3, <3>2 DEF AwaitSocket, ShareServed, ShareFails, ShareAwaited, IsNext, Excuse
      <4>2. \A j \in Mounts : Alive(j)' => Alive(j) /\ j > Len(shares)
        BY <4>1, StoppedShares
      <4>3. \A j \in Mounts : Alive(j) => virtiofsd[j] # "gone"
        BY DEF Alive
      <4> QED
        BY <1>0, <4>1, <4>2, <4>3 DEF ShareInv, Excused, Mounts
    <3> QED
      BY <1>2, <3>1, <3>2
  <2> QED
    BY <1>a, <2>1, <2>2, <2>3 DEF QemuRuns, SpawnSidecar, AwaitSocket, ShareServed, ShareFails,
                                  ShareAwaited
<1>3. ASSUME StartQemu PROVE StrayInv'
  <2>1. stage = "start" /\ UNCHANGED <<rm, excuses, shares>>
    BY <1>3 DEF StartQemu
  <2>2. qemu = "none" /\ rm = "none"
    BY <2>1 DEF VmInv
  <2>3. \/ stage' = "await_pid"
        \/ stage' \in {"err", "refused"} /\ qemu' = qemu /\ virtiofsd' = Stopped(shares)
    BY <1>3 DEF StartQemu
  <2>4. stage' # "await_pid" => \A j \in Mounts : Alive(j)' => Excused(j)'
    BY <2>1, <2>3, StraySidecars DEF Excused
  <2> QED
    BY <1>a, <2>1, <2>2, <2>3, <2>4 DEF QemuRuns
<1>4. ASSUME ReadPidFile \/ Settle PROVE StrayInv'
  <2>1. /\ stage' \in {"settle", "check_exit", "record", "stop"} /\ UNCHANGED <<qemu, rm, excuses>>
    BY <1>4 DEF ReadPidFile, Settle
  <2> QED
    BY <1>a, <2>1 DEF QemuRuns, StrayInv
<1>5. ASSUME CheckExit PROVE StrayInv'
  <2>1. /\ stage = "check_exit" /\ UNCHANGED <<qemu, rm, shares>> /\ rm = "none"
        /\ \/ stage' = "await_pid" /\ UNCHANGED <<virtiofsd, excuses>>
           \/ /\ stage' = "err" /\ virtiofsd' = Stopped(shares)
              /\ excuses' = IF QemuRuns THEN excuses \union {"lost"} ELSE excuses
    BY <1>5 DEF CheckExit, Excuse, VmInv
  <2>2. stage' = "err" => \A j \in Mounts : Alive(j)' => Excused(j)'
    BY <2>1, StraySidecars DEF Excused
  <2>3. stage' = "err" /\ QemuRuns' => Kept'
    BY <2>1 DEF QemuRuns, Kept
  <2> QED
    BY <1>a, <2>1, <2>2, <2>3
<1>6. ASSUME WriteRecord PROVE StrayInv'
  <2>1. /\ UNCHANGED <<qemu, rm, virtiofsd, shares>> /\ stage = "record" /\ rm = "none"
        /\ stage' = "port" \/ (stage' = "err" /\ "record" \in excuses')
    BY <1>6 DEF WriteRecord, Excuse, VmInv
  <2> QED
    BY <1>a, <2>1 DEF Excused, Kept
<1>7. ASSUME WaitForPort \/ Connect \/ AskHostname \/ CheckRunning PROVE StrayInv'
  <2>1. /\ stage' \in {"port", "connect", "hostname", "check", "up", "stop"}
        /\ UNCHANGED <<qemu, rm, excuses>>
    BY <1>7 DEF WaitForPort, Connect, AskHostname, CheckRunning
  <2> QED
    BY <1>a, <2>1 DEF QemuRuns, StrayInv
<1>8. ASSUME StopQemu PROVE StrayInv'
  <2>1. stage' = "stop_sidecars" /\ UNCHANGED rm /\ excuses \subseteq excuses'
    BY <1>8 DEF StopQemu, Excuse
  <2>2. QemuRuns' => excuses' \intersect {"stop", "parent"} # {}
    BY <1>8 DEF StopQemu, KillParent, KillQemu, Excuse, QemuRuns
  <2>3. rm' = "sidecars" /\ QemuRuns' => "parent" \in excuses'
    BY <1>8, <2>1 DEF StopQemu, KillParent, KillQemu, QemuRuns, StrayInv
  <2> QED
    BY <1>a, <2>1, <2>2, <2>3 DEF Kept
<1>9. ASSUME StopSidecars PROVE StrayInv'
  <2>1. /\ stage = "stop_sidecars" /\ stage' = "drop_dir" /\ UNCHANGED <<qemu, rm, excuses, shares>>
        /\ virtiofsd' = Stopped(shares)
    BY <1>9 DEF StopSidecars
  <2>2. \A j \in Mounts : Alive(j)' => Excused(j)'
    BY <2>1, StraySidecars DEF Excused
  <2> QED
    BY <1>a, <2>1, <2>2 DEF QemuRuns, StrayInv, Kept
<1>10. ASSUME DropDir \/ ProbeKernel PROVE StrayInv'
  <2>1. /\ stage' \in {"ready", "unfit"} \/ (stage = "drop_dir" /\ stage' = "err")
        /\ UNCHANGED <<qemu, rm, excuses, shares, virtiofsd>>
    BY <1>10 DEF DropDir, ProbeKernel
  <2> QED
    BY <1>0, <1>a, <2>1 DEF QemuRuns, StrayInv, Kept, Alive, Excused
<1>11. ASSUME RmStep PROVE StrayInv'
  <2>1. /\ UNCHANGED <<stage, shares>> /\ excuses \subseteq excuses'
        /\ UNCHANGED virtiofsd \/ virtiofsd' = Stopped(shares)
        /\ QemuRuns' => QemuRuns
    BY <1>11 DEF RmStep, BeginRm, RmStop, RmSidecars, RmDir, Excuse, runVars, KillParent, KillQemu,
         QemuRuns
  <2>2. rm' = "sidecars" /\ QemuRuns' => "parent" \in excuses'
    BY <1>11 DEF RmStep, BeginRm, RmStop, RmSidecars, RmDir, Excuse, KillParent, KillQemu, QemuRuns
  <2>3. \A k \in Mounts : Alive(k)' => Alive(k)
    BY <2>1, StoppedShares DEF Alive
  <2> QED
    BY <1>0, <1>a, <2>1, <2>2, <2>3 DEF StrayInv, Kept, Excused
<1>12. ASSUME OtherStep PROVE StrayInv'
  <2>1. /\ UNCHANGED <<shares, rm, excuses>> /\ stage' \in {stage, "killed"}
        /\ QemuRuns' => QemuRuns
    BY <1>12 DEF OtherStep, QemuComesUp, QemuDies, KillRun, SidecarServes, SidecarDies, runVars,
         QemuRuns
  <2>2. \A k \in Mounts : Alive(k)' => Alive(k)
    BY <1>12 DEF OtherStep, QemuComesUp, QemuDies, KillRun, SidecarServes, SidecarDies, Alive,
         LaunchTypeOK
  <2> QED
    BY <1>0, <1>a, <2>1, <2>2 DEF StrayInv, Kept, Excused
<1>13. ASSUME UNCHANGED launchVars PROVE StrayInv'
  BY <1>0, <1>13, <1>a DEF launchVars, runVars, StrayInv, Kept, Excused, Alive, QemuRuns
<1> QED
  BY <1>1, <1>2, <1>3, <1>4, <1>5, <1>6, <1>7, <1>8, <1>9, <1>10, <1>11, <1>12, <1>13
     DEF LaunchNext, RunStep

-----------------------------------------------------------------------------
LEMMA NextGuestInv ==
  LaunchTypeOK /\ AskInv /\ ShareInv /\ GuestInv /\ [LaunchNext]_launchVars => GuestInv'
<1> SUFFICES ASSUME LaunchTypeOK, AskInv, ShareInv, GuestInv, [LaunchNext]_launchVars
             PROVE  GuestInv'
  OBVIOUS
<1> DEFINE Early == Asking \union Sharing \union {"start"}
           Seeded == {"disk", "start"} \union Sharing
           Made == /\ options # NoOptions
                   /\ seed = Seed("key", options.mounts, Transport(os))
                   /\ Len(shares) = IF Transport(os) = "virtiofs" THEN Len(options.mounts) ELSE 0
                   /\ command = QemuCommand(Config)
<1>0. /\ stage \in Seeded => seed = Seed("key", options.mounts, Transport(os))
      /\ command # NoCommand => Made /\ stage \notin Early
  BY DEF GuestInv
<1>a. ASSUME /\ stage' \in Seeded => seed' = Seed("key", options'.mounts, Transport(os'))
             /\ command' # NoCommand => Made' /\ stage' \notin Early
      PROVE  GuestInv'
  BY <1>a DEF GuestInv
<1>b. ASSUME UNCHANGED <<options, os, seed, shares, command>>,
             stage' \in Seeded => stage \in Seeded,
             stage' \in Early => stage \in Early
      PROVE  GuestInv'
  <2>1. Made => Made'
    BY <1>b DEF Config
  <2> HIDE DEF Made
  <2> QED
    BY <1>0, <1>a, <1>b, <2>1
<1> HIDE DEF Made
<1> USE DEF Asking, Sharing, At, askVars, vmVars
<1>1. ASSUME Parsing PROVE GuestInv'
  <2>1. stage \in {"begin", "prepare"} /\ stage' \in {"options", "err"} /\ UNCHANGED command
    BY <1>1 DEF Parsing, ParseCommand, PrepareTask
  <2> QED
    BY <1>0, <1>a, <2>1
<1>2. ASSUME LoadTask \/ CheckOptions \/ PrepareHost \/ MakeDisk PROVE GuestInv'
  <2>1. /\ UNCHANGED <<options, os, seed, shares, command>>
        /\ stage \in Early
        /\ stage' \in Seeded => stage = "disk"
    BY <1>2 DEF LoadTask, CheckOptions, PrepareHost, MakeDisk
  <2> QED
    BY <1>b, <2>1
<1>3. ASSUME WriteSeed PROVE GuestInv'
  <2>1. /\ UNCHANGED <<options, os, command>> /\ stage = "seed"
        /\ stage' = "err" \/ (stage' = "disk" /\ seed' = Seed("key", options.mounts, Transport(os)))
    BY <1>3 DEF WriteSeed
  <2> QED
    BY <1>0, <1>a, <2>1
<1>4. ASSUME NEW k \in Mounts, SpawnSidecar(k) \/ AwaitSocket(k) PROVE GuestInv'
  <2>1. /\ UNCHANGED <<options, os, seed, command>> /\ stage \in Sharing
        /\ stage' \in {"spawn", "await_socket", "start", "drop_dir"}
    BY <1>4 DEF SpawnSidecar, AwaitSocket, ShareServed, ShareFails, ShareAwaited
  <2> QED
    BY <1>0, <1>a, <2>1
<1>5. ASSUME StartQemu PROVE GuestInv'
  <2>1. /\ UNCHANGED <<options, os, seed, shares>> /\ stage = "start"
        /\ \/ stage' = "await_pid" /\ command' = QemuCommand(Config)
           \/ stage' \in {"err", "refused"} /\ UNCHANGED command
    BY <1>5 DEF StartQemu
  <2>2. command = NoCommand
    BY <1>0, <2>1
  <2>3. command' = QemuCommand(Config) => Made'
    BY <1>0, <2>1 DEF Made, Config, AskInv, ShareInv
  <2> QED
    BY <1>a, <2>1, <2>2, <2>3
<1>6. ASSUME ReadPidFile \/ CheckExit \/ Settle \/ WriteRecord PROVE GuestInv'
  <2>1. /\ UNCHANGED <<options, os, seed, shares, command>>
        /\ stage' \in {"settle", "check_exit", "await_pid", "err", "record", "stop", "port"}
    BY <1>6 DEF ReadPidFile, CheckExit, Settle, WriteRecord
  <2> QED
    BY <1>b, <2>1
<1>7. ASSUME WaitForPort \/ Connect \/ AskHostname \/ CheckRunning PROVE GuestInv'
  <2>1. /\ UNCHANGED <<options, os, seed, shares, command>>
        /\ stage' \in {"port", "connect", "hostname", "check", "up", "stop"}
    BY <1>7 DEF WaitForPort, Connect, AskHostname, CheckRunning
  <2> QED
    BY <1>b, <2>1
<1>8. ASSUME StopQemu \/ StopSidecars \/ DropDir \/ ProbeKernel PROVE GuestInv'
  <2>1. /\ UNCHANGED <<options, os, seed, shares, command>>
        /\ stage' \in {"stop_sidecars", "drop_dir", "err", "ready", "unfit"}
    BY <1>8 DEF StopQemu, StopSidecars, DropDir, ProbeKernel, KillParent, KillQemu
  <2> QED
    BY <1>b, <2>1
<1>9. ASSUME RmStep \/ OtherStep PROVE GuestInv'
  BY <1>9, <1>b, OthersFrame
<1>10. ASSUME UNCHANGED launchVars PROVE GuestInv'
  BY <1>10, <1>b DEF launchVars, runVars
<1> QED
  BY <1>1, <1>2, <1>3, <1>4, <1>5, <1>6, <1>7, <1>8, <1>9, <1>10
     DEF LaunchNext, RunStep, Parsing

(* The command line leads from each tag of the seed to its own share.       *)
LEMMA GuestGets ==
  LaunchTypeOK /\ ShareInv /\ GuestInv => GuestGetsWhatWasAsked
<1> SUFFICES ASSUME LaunchTypeOK, ShareInv, GuestInv, command # NoCommand
             PROVE  /\ Len(seed.runcmd) = Len(options.mounts)
                    /\ \A k \in DOMAIN options.mounts :
                         /\ seed.runcmd[k].guest = options.mounts[k].guest
                         /\ seed.runcmd[k].read_only <=> options.mounts[k].mode = "ro"
                         /\ \E back \in Backing(seed.runcmd[k].tag) :
                              Backing(seed.runcmd[k].tag) = {back} /\ LeadsTo(back, k)
                    /\ command.append = "root=/dev/vda" => command.drives[1] = options.rootfs
  BY DEF GuestGetsWhatWasAsked
<1> DEFINE mounts == options.mounts
           n == Len(options.mounts)
           paths == Config.virtio_9p_shares
<1>1. /\ options \in RunOptions /\ mounts \in Seq(MountSpec) /\ n \in Nat /\ DOMAIN mounts = 1 .. n
      /\ seed = Seed("key", mounts, Transport(os))
      /\ Len(shares) = IF Transport(os) = "virtiofs" THEN n ELSE 0
      /\ command = QemuCommand(Config)
  BY DEF GuestInv, LaunchTypeOK, RunOptions
<1>2. /\ seed.runcmd = [i \in 1 .. n |-> MountCommand(i, mounts[i], Transport(os))]
      /\ Len(seed.runcmd) = n
  BY <1>1 DEF Seed
<1>3. ASSUME NEW k \in 1 .. n
      PROVE  /\ seed.runcmd[k].guest = mounts[k].guest /\ seed.runcmd[k].tag = Tag(k)
             /\ seed.runcmd[k].read_only = (mounts[k].mode = "ro")
  BY <1>2 DEF MountCommand
<1>4. /\ Config.virtiofs_shares = shares
      /\ paths = IF Transport(os) = "9p"
                 THEN [i \in 1 .. n |-> [tag |-> Tag(i), path |-> mounts[i].host]] ELSE <<>>
      /\ Config.disk = IF CustomKernel(options) THEN options.rootfs ELSE "disk"
      /\ Config.append = IF CustomKernel(options) THEN "root=/dev/vda" ELSE Absent
  BY <1>1 DEF Config, QemuConfig, HostProfile
<1>5. /\ command.chardevs = {[id |-> <<"virtiofsch", i>>, socket |-> shares[i].socket] : i \in DOMAIN shares}
      /\ command.fsdevs = {[id |-> <<"fsdev", i>>, path |-> paths[i].path] : i \in DOMAIN paths}
      /\ command.devices =
           {[back |-> <<"virtiofsch", i>>, tag |-> shares[i].tag] : i \in DOMAIN shares}
             \union {[back |-> <<"fsdev", i>>, tag |-> paths[i].tag] : i \in DOMAIN paths}
      /\ command.append = Config.append
      /\ command.drives = <<Config.disk, "seed.iso">>
  BY <1>1, <1>4 DEF QemuCommand, Drives
<1>6. command.append = "root=/dev/vda" => command.drives[1] = options.rootfs
  BY <1>4, <1>5
<1>7. \A i, j : Tag(i) = Tag(j) => i = j
  BY DEF Tag
<1>8. ASSUME NEW k \in 1 .. n
      PROVE  \E back \in Backing(Tag(k)) : Backing(Tag(k)) = {back} /\ LeadsTo(back, k)
  <2>1. CASE Transport(os) = "virtiofs"
    <3>1. paths = <<>> /\ Len(shares) = n
      BY <1>1, <1>4, <2>1
    <3>2. DOMAIN shares = 1 .. n /\ DOMAIN paths = {}
      BY <3>1 DEF LaunchTypeOK
    <3>3. \A i \in 1 .. n : shares[i].tag = Tag(i) /\ shares[i].socket = i
      BY <3>1, <1>1 DEF ShareInv, Share
    <3>4. command.devices = {[back |-> <<"virtiofsch", i>>, tag |-> Tag(i)] : i \in 1 .. n}
      BY <1>5, <3>2, <3>3
    <3>5. Backing(Tag(k)) = {<<"virtiofsch", k>>}
      <4>1. \A d \in command.devices : d.tag = Tag(k) => d.back = <<"virtiofsch", k>>
        BY <1>7, <3>4
      <4>2. [back |-> <<"virtiofsch", k>>, tag |-> Tag(k)] \in command.devices
        BY <3>4
      <4>3. \E d \in command.devices : d.tag = Tag(k)
        BY <4>2
      <4> QED
        BY <4>1, <4>3 DEF Backing
    <3>6. [id |-> <<"virtiofsch", k>>, socket |-> k] \in command.chardevs
      BY <1>5, <3>2, <3>3
    <3>7. LeadsTo(<<"virtiofsch", k>>, k)
      BY <3>6 DEF LeadsTo
    <3> QED
      BY <3>5, <3>7
  <2>2. CASE Transport(os) = "9p"
    <3>1. /\ paths = [i \in 1 .. n |-> [tag |-> Tag(i), path |-> mounts[i].host]]
          /\ Len(shares) = 0
      BY <1>1, <1>4, <2>2
    <3>2. DOMAIN shares = {} /\ DOMAIN paths = 1 .. n
      BY <3>1 DEF LaunchTypeOK
    <3>3. \A i \in 1 .. n : paths[i].tag = Tag(i) /\ paths[i].path = mounts[i].host
      BY <3>1
    <3>4. command.devices = {[back |-> <<"fsdev", i>>, tag |-> Tag(i)] : i \in 1 .. n}
      BY <1>5, <3>2, <3>3
    <3>5. Backing(Tag(k)) = {<<"fsdev", k>>}
      <4>1. \A d \in command.devices : d.tag = Tag(k) => d.back = <<"fsdev", k>>
        BY <1>7, <3>4
      <4>2. [back |-> <<"fsdev", k>>, tag |-> Tag(k)] \in command.devices
        BY <3>4
      <4>3. \E d \in command.devices : d.tag = Tag(k)
        BY <4>2
      <4> QED
        BY <4>1, <4>3 DEF Backing
    <3>6. [id |-> <<"fsdev", k>>, path |-> mounts[k].host] \in command.fsdevs
      BY <1>5, <3>2, <3>3
    <3>7. LeadsTo(<<"fsdev", k>>, k)
      BY <3>6 DEF LeadsTo
    <3> QED
      BY <3>5, <3>7
  <2> QED
    BY <2>1, <2>2, TransportOfHost
<1> QED
  BY <1>1, <1>2, <1>3, <1>6, <1>8

-----------------------------------------------------------------------------
(* A configuration without a mismatch says last of each required symbol     *)
(* what is required of it.                                                  *)
LEMMA NoMismatchIsRequired ==
  ASSUME NEW text \in Seq(ConfigLine), NEW required, RequirementsParse(required),
         Mismatches(text, required) = {}, NEW i \in DOMAIN required
  PROVE  LET said == {n \in DOMAIN text : /\ text[n].symbol = required[i].symbol
                                          /\ text[n].value \in KernelConfigValue} IN
         \E n \in said : text[n].value = required[i].expected /\ \A m \in said : m <= n
<1> DEFINE symbol == required[i].symbol
           said == {n \in DOMAIN text : text[n].symbol = symbol /\ text[n].value \in KernelConfigValue}
<1>1. symbol \in Symbols /\ required[i].expected # Absent
  BY ConfigAssumption DEF RequirementsParse, RequirementValid
<1>2. ParsedConfig(text)[symbol] = required[i].expected
  BY DEF Mismatches
<1>3. SaidLast(text, symbol, Len(text), required[i].expected)
  BY <1>1, <1>2, ConfigIsLastSaid
<1>4. said = Saying(text, symbol, Len(text))
  BY DEF Saying
<1> QED
  BY <1>1, <1>3, <1>4 DEF SaidLast

(* Only a guest that was asked and has no mismatch makes a task ready.      *)
LEMMA NextKernel ==
  LaunchTypeOK /\ AskInv /\ KernelIsAsRequired /\ [LaunchNext]_launchVars => KernelIsAsRequired'
<1> SUFFICES ASSUME LaunchTypeOK, AskInv, KernelIsAsRequired, [LaunchNext]_launchVars,
                    stage' = "ready"
             PROVE  KernelIsAsRequired'
  BY DEF KernelIsAsRequired
<1>1. CASE ProbeKernel
  <2> DEFINE required == KernelRequirements(request.vm)
  <2>1. UNCHANGED request /\ RequirementsParse(required)
    BY <1>1 DEF ProbeKernel, AskInv, At
  <2>2. CASE required = <<>>
    BY <2>1, <2>2 DEF KernelIsAsRequired
  <2>3. CASE required # <<>>
    <3>1. kernel_text' \in GuestTexts /\ Mismatches(kernel_text', required) = {}
      BY <1>1, <2>3 DEF ProbeKernel, At
    <3>2. kernel_text' \in Seq(ConfigLine)
      BY <3>1
    <3> DEFINE text == kernel_text'
    <3>3. text \in Seq(ConfigLine) /\ Mismatches(text, required) = {}
      BY <3>1, <3>2
    <3> HIDE DEF text, required
    <3>4. ASSUME NEW i \in DOMAIN required
          PROVE  LET said == {n \in DOMAIN text : /\ text[n].symbol = required[i].symbol
                                                  /\ text[n].value \in KernelConfigValue} IN
                 \E n \in said : text[n].value = required[i].expected /\ \A m \in said : m <= n
      BY <2>1, <3>3, NoMismatchIsRequired
    <3> QED
      BY <2>1, <3>4 DEF KernelIsAsRequired, text, required
  <2> QED
    BY <2>2, <2>3
<1>2. CASE ~ProbeKernel
  <2>1. UNCHANGED <<stage, request, kernel_text>>
    <3>1. CASE RunStep
      BY <1>2, <3>1 DEF RunStep, ParseCommand, LoadTask, PrepareTask, CheckOptions, PrepareHost,
           WriteSeed, MakeDisk, SpawnSidecar, AwaitSocket, ShareServed, ShareFails, ShareAwaited,
           StartQemu, ReadPidFile, CheckExit, Settle, WriteRecord, WaitForPort, Connect,
           AskHostname, CheckRunning, StopQemu, StopSidecars, DropDir, At
    <3>2. CASE RmStep \/ OtherStep
      BY <3>2, OthersFrame DEF askVars
    <3>3. CASE UNCHANGED launchVars
      BY <3>3 DEF launchVars, askVars, runVars
    <3> QED
      BY <3>1, <3>2, <3>3 DEF LaunchNext
  <2> QED
    BY <2>1 DEF KernelIsAsRequired
<1> QED
  BY <1>1, <1>2

-----------------------------------------------------------------------------
(* A step that stops a virtiofsd that serves finds QEMU stopped, has an     *)
(* excuse, or is the virtiofsd's own end.                                   *)
LEMMA SidecarsOutlive ==
  ASSUME LaunchTypeOK, VmInv, StrayInv, LaunchNext, NEW k \in Mounts,
         virtiofsd[k] = "serving", virtiofsd'[k] = "gone", QemuRuns
  PROVE  SidecarDies(k) \/ excuses' \intersect {"lost", "stop", "parent"} # {}
<1> USE DEF Asking, Sharing, At, hostVars
<1>1. CASE ParseCommand \/ LoadTask \/ PrepareTask \/ CheckOptions \/ PrepareHost \/ WriteSeed
           \/ MakeDisk \/ ReadPidFile \/ Settle \/ WriteRecord
  BY <1>1 DEF ParseCommand, LoadTask, PrepareTask, CheckOptions, PrepareHost, WriteSeed, MakeDisk,
              ReadPidFile, Settle, WriteRecord
<1>2. CASE (\E j \in Mounts : SpawnSidecar(j) \/ AwaitSocket(j)) \/ StartQemu
  <2>1. stage \in {"spawn", "await_socket", "start"}
    BY <1>2 DEF SpawnSidecar, AwaitSocket, StartQemu
  <2> QED
    BY <2>1 DEF VmInv, QemuRuns
<1>3. CASE CheckExit
  BY <1>3 DEF CheckExit, Excuse
<1>4. CASE WaitForPort \/ Connect \/ AskHostname \/ CheckRunning \/ StopQemu \/ DropDir \/ ProbeKernel
  BY <1>4 DEF WaitForPort, Connect, AskHostname, CheckRunning, StopQemu, DropDir, ProbeKernel
<1>5. CASE StopSidecars
  BY <1>5 DEF StopSidecars, StrayInv
<1>6. CASE RmStep
  BY <1>6 DEF RmStep, BeginRm, RmStop, RmSidecars, RmDir, StrayInv
<1>7. CASE QemuComesUp \/ QemuDies \/ KillRun
  BY <1>7 DEF QemuComesUp, QemuDies, KillRun
<1>8. ASSUME NEW j \in Mounts, SidecarServes(j) \/ SidecarDies(j)
      PROVE  SidecarDies(k) \/ excuses' \intersect {"lost", "stop", "parent"} # {}
  BY <1>8 DEF SidecarServes, SidecarDies, LaunchTypeOK
<1> QED
  BY <1>1, <1>2, <1>3, <1>4, <1>5, <1>6, <1>7, <1>8 DEF LaunchNext, RunStep, OtherStep

-----------------------------------------------------------------------------
(* The invariant the properties below follow from, and each of its parts.   *)
THEOREM LaunchInvariance == LaunchSpec => []LaunchInv
<1>1. LaunchInv /\ [LaunchNext]_launchVars => LaunchInv'
  BY NextType, NextAskInv, NextShareInv, NextVmInv, NextStrayInv, NextGuestInv,
     NextTaskIsAccepted, NextKernel DEF LaunchInv
<1> QED
  BY <1>1, InitLaunchInv, PTL DEF LaunchSpec

(* The options, the processes and the history stay within their types.      *)
THEOREM LaunchTypeCorrect == LaunchSpec => []LaunchTypeOK
<1>1. LaunchInv => LaunchTypeOK
  BY DEF LaunchInv
<1> QED
  BY <1>1, LaunchInvariance, PTL

(* No task that loads is refused by run_vm_inner or by validate.            *)
THEOREM TasksAreAccepted == LaunchSpec => []TaskIsAccepted
<1>1. LaunchInv => TaskIsAccepted
  BY DEF LaunchInv
<1> QED
  BY <1>1, LaunchInvariance, PTL

(* Every mount of the guest leads to the share it was asked for, and the    *)
(* root of a kernel of its own is the rootfs, for any number of mounts.     *)
THEOREM GuestGetsItsMounts == LaunchSpec => []GuestGetsWhatWasAsked
<1>1. LaunchInv => GuestGetsWhatWasAsked
  BY GuestGets DEF LaunchInv
<1> QED
  BY <1>1, LaunchInvariance, PTL

(* A run that returned an error left no process but those it had no way,    *)
(* or failed, to stop.  Of a VM that came up this says nothing.             *)
THEOREM NoProcessStrays == LaunchSpec => []NoStrayProcess
<1>1. LaunchInv => NoStrayProcess
  BY DEF LaunchInv, StrayInv
<1> QED
  BY <1>1, LaunchInvariance, PTL

(* A guest that runs does not lose a mount to a cleaning up, but for a QEMU *)
(* that was lost, did not stop, or was known by its parent alone.           *)
THEOREM SidecarsOutliveQemu == LaunchSpec => SidecarOutlivesQemu
<1>1. LaunchInv /\ [LaunchNext]_launchVars =>
        [\A k \in Mounts :
           virtiofsd[k] = "serving" /\ virtiofsd'[k] = "gone" /\ QemuRuns =>
             SidecarDies(k) \/ excuses' \intersect {"lost", "stop", "parent"} # {}]_launchVars
  BY SidecarsOutlive DEF LaunchInv
<1> QED
  BY <1>1, LaunchInvariance, PTL DEF LaunchSpec, SidecarOutlivesQemu

(* Scripts run only in a guest whose configuration says last of each        *)
(* required symbol what the task requires, however long it is.              *)
THEOREM KernelsAreAsRequired == LaunchSpec => []KernelIsAsRequired
<1>1. LaunchInv => KernelIsAsRequired
  BY DEF LaunchInv
<1> QED
  BY <1>1, LaunchInvariance, PTL
=============================================================================
