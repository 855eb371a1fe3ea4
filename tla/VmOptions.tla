----------------------------- MODULE VmOptions -----------------------------
(***************************************************************************)
(* What a run of `vm run` is asked for, and the command line of QEMU and   *)
(* the cloud-init seed it makes of that: vm/src/platform.rs, mount.rs,     *)
(* qemu/config.rs, cloud_init/seed.rs and the helpers of ops.rs.           *)
(*                                                                         *)
(* A path is the name of what is there.  Mounts, tags, sockets and devices *)
(* are numbered from 1.                                                    *)
(***************************************************************************)
EXTENDS Naturals, Sequences

CONSTANTS
  HostDirs,     \* directories of the host
  HostFiles,    \* files of the host
  Gone,         \* a path with nothing there
  Absent,       \* an option that is not given
  GuestPaths    \* absolute paths of the guest

HostPaths == HostDirs \union HostFiles

(* "disk" is the disk that is made for the VM, append a kernel's arguments. *)
ASSUME OptionsAssumption ==
  /\ Gone \notin HostPaths \union {"disk"}
  /\ Absent \notin HostPaths \union {Gone, "root=/dev/vda"}

-----------------------------------------------------------------------------
(***************************************************************************)
(* Hosts.                                                                  *)
(***************************************************************************)

(* for_target *)
Supported(os) == os \in {"linux", "macos"}

(* apply_accel_override *)
HostProfile(os, tcg) ==
  [os |-> os,
   accel |-> IF tcg THEN "tcg" ELSE IF os = "linux" THEN "kvm" ELSE "hvf",
   bios |-> os = "macos"]

(* virtiofsd on Linux; on macOS QEMU serves the directory itself.           *)
Transport(os) == IF os = "macos" THEN "9p" ELSE "virtiofs"

-----------------------------------------------------------------------------
(***************************************************************************)
(* Mounts.                                                                 *)
(***************************************************************************)
MountSpec == [host : HostPaths, guest : GuestPaths, mode : {"ro", "rw"}]

(* A mount as it is written, which may not be one.                          *)
Written == [host : HostPaths \union {Gone, "blank", "dot"},
            guest : GuestPaths \union {"blank", "relative"},
            mode : {"blank", "ro", "rw", "other"},
            too_long : BOOLEAN]

(* parse_mount_spec of a command line argument, of which a field may be     *)
(* missing, "blank", "relative" or one too many.                            *)
MountParses(raw) ==
  /\ ~raw.too_long
  /\ raw.mode \in {"blank", "ro", "rw"}
  /\ raw.host \in HostPaths
  /\ raw.guest \in GuestPaths

ParsedMount(raw) ==
  [host |-> raw.host, guest |-> raw.guest, mode |-> IF raw.mode = "rw" THEN "rw" ELSE "ro"]

(* virtiofs_tag_for_index *)
Tag(i) == <<"vmizefs", i>>

(* mount_runcmd_for_spec: what the guest runs when it boots.                *)
MountCommand(i, mount, transport) ==
  [type |-> transport, read_only |-> mount.mode = "ro", tag |-> Tag(i), guest |-> mount.guest]

(* CloudInitSeed: the key, then runcmd, where the mounts come last.         *)
Seed(key, mounts, transport) ==
  [authorized |-> key,
   runcmd |-> [i \in DOMAIN mounts |-> MountCommand(i, mounts[i], transport)]]

-----------------------------------------------------------------------------
(***************************************************************************)
(* Options and QEMU.                                                       *)
(***************************************************************************)

Given == HostPaths \union {Gone, Absent}

RunOptions == [kernel : Given, rootfs : Given, image_url : BOOLEAN, disk_size : BOOLEAN,
               mounts : Seq(MountSpec), verbose : BOOLEAN]

(* The checks run_vm_inner begins with.                                     *)
OptionsAccepted(options) ==
  /\ options.kernel = Absent <=> options.rootfs = Absent
  /\ options.kernel # Absent => ~options.image_url /\ ~options.disk_size

CustomKernel(options) == options.kernel # Absent

(* The builder calls of run_vm_inner.  "disk" is the disk made for the VM.  *)
QemuConfig(profile, options, shares) ==
  LET custom == CustomKernel(options) IN
  [accel  |-> profile.accel,
   bios   |-> profile.bios /\ ~custom,
   disk   |-> IF custom THEN options.rootfs ELSE "disk",
   kernel |-> options.kernel,
   append |-> IF custom THEN "root=/dev/vda" ELSE Absent,
   virtiofs_shares |-> shares,
   virtio_9p_shares |->
     IF Transport(profile.os) = "9p"
     THEN [i \in DOMAIN options.mounts |-> [tag |-> Tag(i), path |-> options.mounts[i].host]]
     ELSE <<>>,
   daemonize |-> ~options.verbose]

(* validate, given the sockets that are there.  That sockets and shared     *)
(* directories are named by absolute paths is left out: the former are      *)
(* under the home of the user, who has one, the latter come from            *)
(* parse_mount_spec or from the canonicalized directory of a task.          *)
ConfigValid(config, sockets) ==
  /\ config.disk # Gone
  /\ config.kernel # Gone
  /\ \A i \in DOMAIN config.virtiofs_shares : config.virtiofs_shares[i].socket \in sockets
  /\ \A i \in DOMAIN config.virtio_9p_shares : config.virtio_9p_shares[i].path \in HostPaths

Drives_SeedFirst(config) == <<"seed.iso", config.disk>>

(* The order of the drives names them: /dev/vda, /dev/vdb.                  *)
Drives(config) == <<config.disk, "seed.iso">>

(* build_command.  A device names the channel or directory it is for by an  *)
(* id made of its own index.                                                *)
QemuCommand(config) ==
  LET sockets == config.virtiofs_shares
      paths   == config.virtio_9p_shares IN
  [machine  |-> config.accel,
   bios     |-> config.bios,
   drives   |-> Drives(config),
   kernel   |-> config.kernel,
   append   |-> config.append,
   chardevs |-> {[id |-> <<"virtiofsch", i>>, socket |-> sockets[i].socket] : i \in DOMAIN sockets},
   fsdevs   |-> {[id |-> <<"fsdev", i>>, path |-> paths[i].path] : i \in DOMAIN paths},
   devices  |-> {[back |-> <<"virtiofsch", i>>, tag |-> sockets[i].tag] : i \in DOMAIN sockets}
         \union {[back |-> <<"fsdev", i>>, tag |-> paths[i].tag] : i \in DOMAIN paths},
   serial   |-> IF config.daemonize THEN "null" ELSE "stdio",
   daemonize |-> config.daemonize]
=============================================================================
