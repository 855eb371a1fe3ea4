\* Tasks and command lines of MCVmLaunch on each kind of host; `vm rm` at any time.
CONSTANTS
  HostDirs = {"src", "out"}
  HostFiles = {"bzImage", "rootfs", "config", "clone"}
  Gone = Gone
  Absent = Absent
  GuestPaths = {"/mnt"}
  Symbols = {"FUSE", "NFS"}
  CloneOf <- MCCloneOf
  Tasks <- MCTasks
  Commands <- MCCommands
  Systems = {"linux", "macos", "other"}
  HostTexts <- MCHostTexts
  GuestTexts <- MCGuestTexts
  MaxMounts = 2
  MaxPolls = 2
  MaxRetries = 3
SPECIFICATION LaunchSpec
INVARIANTS LaunchTypeOK TaskIsAccepted GuestGetsWhatWasAsked NoStrayProcess KernelIsAsRequired
PROPERTIES SidecarOutlivesQemu LaunchEnds
\* The launch is over and its VM removed.
CHECK_DEADLOCK FALSE
