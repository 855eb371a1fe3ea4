------------------------------- MODULE VmRuns -------------------------------
(* What the modules about concurrent calls of `vm run` have in common.      *)

CONSTANTS
  Runs,     \* calls of `vm run`, each in a process or thread of its own
  Before    \* whoever was there before them

ASSUME RunsAssumption == Before \notin Runs
=============================================================================
