---------------------------- MODULE MCVmCreation ----------------------------
(* VmCreation on small instances.  Runs are interchangeable. *)
EXTENDS VmCreation, TLC

RunSymmetry == Permutations(Runs)

(* Of a run that is over and whose QEMU does not run nothing matters but    *)
(* whether it was killed, of which there is a number.  That two runs shared *)
(* the lock only matters until an id is contested, and who wrote a record   *)
(* only while the id is not.                                                *)
RunView(r) ==
  IF pc[r] \in Over /\ ~QemuAlive(r) THEN <<pc[r] = "crashed">>
  ELSE <<pc[r], index[r], port[r], r \in holds_lock, r \in holds_port, pid[r], qemu[r],
         r \in recorded /\ index[r] \notin contested, r \in unstopped>>

CreationView ==
  <<fileVars, [r \in Runs |-> RunView(r)], taken, rmVars, shared /\ contested = {}>>
=============================================================================
