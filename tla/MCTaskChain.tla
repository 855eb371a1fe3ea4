----------------------------- MODULE MCTaskChain -----------------------------
(* TaskChain on small instances.  Chains, and tasks, are interchangeable. *)
EXTENDS TaskChain, TLC

TaskSymmetry == Permutations(Chains) \union Permutations(Dirs)

(* Of a chain that is over nothing matters but what it left on the host; no *)
(* step, and no property of this run, looks at the exit codes.              *)
ChainView(c) ==
  IF pc[c] \in Over THEN <<pc[c], overlay[c], clone[c], vm[c]>>
  ELSE <<pc[c], overlay[c], clone[c], plan[c], step[c], handoff[c], vm[c], commands[c],
         todo[c], run_error[c], c \in sharing>>

HostView == <<taskVars, output, [c \in Chains |-> ChainView(c)]>>
=============================================================================
