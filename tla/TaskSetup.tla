----------------------------- MODULE TaskSetup -----------------------------
(***************************************************************************)
(* A task file and what it asks of `vm run`: load_task and its validators  *)
(* (task/src/lib.rs), and the launch options and kernel checks the worker  *)
(* makes of it (worker/src/runner.rs).                                     *)
(*                                                                         *)
(* Both crates check the same fields, each in its own way.  A value is     *)
(* "blank", "dot" (with a `.` component), or the name of a file.           *)
(***************************************************************************)
EXTENDS VmOptions

CONSTANTS
  Symbols,      \* kernel options
  CloneOf       \* CloneOf[f]: a copy of the file in the temporary directory

ASSUME CloneAssumption == CloneOf \in [HostFiles -> HostFiles]

(* Absent also stands for an option that a configuration says nothing of.   *)
ASSUME ConfigAssumption == Absent \notin {"y", "m", "n"}

-----------------------------------------------------------------------------
(***************************************************************************)
(* task.json.                                                              *)
(***************************************************************************)

(* A path within a task: absolute or not, and its components.               *)
Uses(path, part) == \E i \in DOMAIN path.parts : path.parts[i] = part

(* validate_relative_task_path *)
NextTaskValid(path) == path.parts # <<>> /\ ~path.absolute /\ ~Uses(path, ".")

(* validate_artifact_path *)
ArtifactValid(path) == NextTaskValid(path) /\ ~Uses(path, "..")

FileValueValid(value) == value \notin {"blank", "dot"}

(* validate_vm_mount *)
MountValid(mount) ==
  /\ FileValueValid(mount.host)
  /\ mount.guest \in GuestPaths

RequirementValid(requirement) ==
  /\ requirement.symbol \in Symbols
  /\ requirement.expected \in {"y", "m", "n"}

(* validate_vm_config.  Memory and cpus go unchanged to QEMU; a value that  *)
(* does not validate is as any other that does not.                         *)
VmConfigValid(vm) ==
  /\ vm.sized
  /\ \A i \in DOMAIN vm.mounts : MountValid(vm.mounts[i])
  /\ vm.boot = "ubuntu" =>
       {vm.kernel, vm.rootfs, vm.kernel_config, vm.required} = {Absent}
  /\ vm.boot = "custom" =>
       /\ vm.kernel # Absent /\ FileValueValid(vm.kernel)
       /\ vm.rootfs # Absent /\ FileValueValid(vm.rootfs)
       /\ FileValueValid(vm.kernel_config)
       /\ vm.required # Absent =>
            /\ vm.required # <<>>
            /\ vm.kernel_config # Absent
            /\ \A i \in DOMAIN vm.required : RequirementValid(vm.required[i])

(* load_task; what is no JSON does not become a task.                       *)
Loads(task) ==
  /\ task.input = "dir"
  /\ \A i \in DOMAIN task.commands : task.commands[i] = "file"
  /\ task.next_task_dir # Absent => NextTaskValid(task.next_task_dir)
  /\ \A i \in DOMAIN task.artifacts : ArtifactValid(task.artifacts[i])
  /\ VmConfigValid(task.vm)

-----------------------------------------------------------------------------
(***************************************************************************)
(* The worker's own checks.                                                *)
(***************************************************************************)

(* resolve_vm_mounts: a host path is joined to the directory of the task.   *)
MountsResolve(mounts) ==
  \A i \in DOMAIN mounts : mounts[i].host \in HostDirs /\ mounts[i].guest \in GuestPaths

(* resolve_vm_config_path *)
FileResolves(value) == value \in HostFiles

(* resolve_kernel_config_requirements; the worker parses each once more.    *)
KernelRequirements(vm) == IF vm.required = Absent THEN <<>> ELSE vm.required

RequirementsParse(required) == \A i \in DOMAIN required : RequirementValid(required[i])

KernelConfigValue == {"y", "m", "n"}

(* What a guest or a file says of an option in a line; "other" is neither   *)
(* of the values nor "is not set", which is n.                              *)
ConfigLine == [symbol : Symbols, value : KernelConfigValue \union {"other"}]

(* A later line replaces an earlier one for the same symbol, unless its     *)
(* value is of another kind.                                                *)
InsertLine(values, line) ==
  IF line.value \in KernelConfigValue
  THEN [values EXCEPT ![line.symbol] = line.value] ELSE values

(* parse_kernel_config_text: what is known after each line.                 *)
ParsedConfig(text) ==
  LET values[n \in 0 .. Len(text)] ==
        IF n = 0 THEN [s \in Symbols |-> Absent] ELSE InsertLine(values[n - 1], text[n])
  IN values[Len(text)]

Mismatches_OfPresent(text, required) ==
  LET actual(i) == ParsedConfig(text)[required[i].symbol] IN
  {i \in DOMAIN required : actual(i) \notin {Absent, required[i].expected}}

(* collect_kernel_config_mismatches *)
Mismatches(text, required) ==
  {i \in DOMAIN required : ParsedConfig(text)[required[i].symbol] # required[i].expected}

(* verify_kernel_config_static, for a file with that text.                  *)
StaticallyFits(vm, text) ==
  LET required == KernelRequirements(vm) IN
  required # <<>> =>
    /\ vm.kernel_config # Absent
    /\ FileResolves(vm.kernel_config)
    /\ Mismatches(text, required) = {}

(* The errors of prepare_vm_launch_options; "sized" is a disk size of the   *)
(* task or of the caller.                                                   *)
LaunchPrepares(vm, sized) ==
  /\ MountsResolve(vm.mounts)
  /\ vm.boot = "custom" =>
       /\ FileResolves(vm.kernel)
       /\ FileResolves(vm.rootfs)
       /\ sized => vm.clone_rootfs

LaunchOptions_SizePassed(vm, sized) ==
  LET custom == vm.boot = "custom" IN
  [kernel    |-> IF custom THEN vm.kernel ELSE Absent,
   rootfs    |-> IF ~custom THEN Absent
                 ELSE IF vm.clone_rootfs THEN CloneOf[vm.rootfs] ELSE vm.rootfs,
   image_url |-> FALSE,
   disk_size |-> sized,
   mounts    |-> vm.mounts,
   verbose   |-> FALSE]

(* VmLaunchOptions, as RealVmOps passes them on: the image of the host, and *)
(* no output of QEMU.  A custom rootfs is resized before, when it is a      *)
(* clone.                                                                   *)
LaunchOptions(vm, sized) ==
  LET custom == vm.boot = "custom" IN
  [kernel    |-> IF custom THEN vm.kernel ELSE Absent,
   rootfs    |-> IF ~custom THEN Absent
                 ELSE IF vm.clone_rootfs THEN CloneOf[vm.rootfs] ELSE vm.rootfs,
   image_url |-> FALSE,
   disk_size |-> sized /\ ~custom,
   mounts    |-> vm.mounts,
   verbose   |-> FALSE]
=============================================================================
