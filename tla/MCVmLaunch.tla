----------------------------- MODULE MCVmLaunch -----------------------------
(* One task that loads and boots a kernel of its own, one that boots the    *)
(* image, others that differ from them in one or two fields; and commands.  *)
EXTENDS VmLaunch

Mount(host, mode) == [host |-> host, guest |-> "/mnt", mode |-> mode]

RawMount(host, mode) == [host |-> host, guest |-> "/mnt", mode |-> mode, too_long |-> FALSE]

Need(symbol, expected) == [symbol |-> symbol, expected |-> expected]
Line(symbol, value)    == [symbol |-> symbol, value |-> value]
Path(parts)            == [absolute |-> FALSE, parts |-> parts]

CustomVm ==
  [sized |-> TRUE, boot |-> "custom", kernel |-> "bzImage", rootfs |-> "rootfs",
   kernel_config |-> "config", required |-> <<Need("FUSE", "y"), Need("NFS", "n")>>,
   mounts |-> <<Mount("src", "ro"), Mount("out", "rw")>>, clone_rootfs |-> TRUE]

UbuntuVm ==
  [CustomVm EXCEPT !.boot = "ubuntu", !.kernel = Absent, !.rootfs = Absent,
                   !.kernel_config = Absent, !.required = Absent]

Task(vm) ==
  [input |-> "dir", commands |-> <<"file">>, next_task_dir |-> Path(<<"..", "next">>),
   artifacts |-> <<Path(<<"a">>)>>, disk_size |-> TRUE, vm |-> vm]

MCTasks ==
  {Task(UbuntuVm), Task(CustomVm)}
  \union {[Task(CustomVm) EXCEPT !.disk_size = FALSE, !.vm.clone_rootfs = c] : c \in BOOLEAN}
  \union {Task([UbuntuVm EXCEPT !.kernel = k]) : k \in {"bzImage", Gone}}
  \union {Task([CustomVm EXCEPT !.kernel = k]) : k \in {Absent, Gone, "dot"}}
  \union {Task([CustomVm EXCEPT !.kernel_config = Absent]),
          Task([CustomVm EXCEPT !.rootfs = Absent]),
          Task([CustomVm EXCEPT !.required = <<>>]),
          Task([CustomVm EXCEPT !.mounts[1].host = "rootfs"]),
          Task([CustomVm EXCEPT !.clone_rootfs = FALSE]),
          [Task(UbuntuVm) EXCEPT !.artifacts = <<Path(<<"..", "a">>)>>],
          [Task(UbuntuVm) EXCEPT !.next_task_dir = Path(<<".">>)],
          [Task(UbuntuVm) EXCEPT !.commands = <<"dir">>]}

Command(kernel, rootfs, image_url, disk_size, verbose) ==
  [kernel |-> kernel, rootfs |-> rootfs, image_url |-> image_url, disk_size |-> disk_size,
   verbose |-> verbose, mounts |-> <<RawMount("src", "blank"), RawMount("rootfs", "rw")>>]

MCCommands ==
  {Command(Absent, Absent, TRUE, TRUE, TRUE), Command("bzImage", "rootfs", FALSE, FALSE, FALSE),
   Command("bzImage", Absent, FALSE, FALSE, FALSE), Command("bzImage", "rootfs", FALSE, TRUE, FALSE),
   Command(Gone, "rootfs", FALSE, FALSE, FALSE), Command("bzImage", Gone, FALSE, FALSE, FALSE),
   [Command(Absent, Absent, FALSE, FALSE, FALSE) EXCEPT !.mounts[2].too_long = TRUE]}

MCHostTexts  == {<<Line("FUSE", "y"), Line("NFS", "n")>>, <<Line("FUSE", "m")>>}
MCGuestTexts ==
  {<<Line("FUSE", "y"), Line("NFS", "n")>>, <<Line("FUSE", "y"), Line("NFS", "other")>>,
   <<Line("FUSE", "n"), Line("NFS", "n"), Line("FUSE", "y"), Line("FUSE", "other")>>,
   <<Line("FUSE", "y"), Line("NFS", "n"), Line("FUSE", "n")>>}
MCCloneOf == [f \in HostFiles |-> "clone"]
=============================================================================
