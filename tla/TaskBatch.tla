------------------------------ MODULE TaskBatch ------------------------------
(***************************************************************************)
(* What the dashboard promises about a batch of tasks, with no thread, no  *)
(* handler and no lock in sight.  Tasks are submitted and withdrawn while   *)
(* nothing runs; launching takes every waiting task at once; each launched  *)
(* task settles exactly once, as a success or as a failure; and the batch   *)
(* is busy exactly as long as a launched task has not settled.              *)
(*                                                                         *)
(* Module Dashboard, the model of dashboard/src/lib.rs, implements this    *)
(* specification.                                                          *)
(***************************************************************************)
EXTENDS FiniteSets, Naturals

CONSTANTS
  Ids,       \* the task ids that may ever be handed out
  Capacity   \* how many tasks the list holds, settled ones included

VARIABLES
  used,       \* ids handed out so far, those of withdrawn tasks included
  waiting,    \* tasks submitted and not launched
  active,     \* tasks launched and not settled
  succeeded,  \* tasks that settled with a success, still listed
  failed,     \* tasks that settled with a failure, still listed
  busy        \* the flag a client sees

vars == <<used, waiting, active, succeeded, failed, busy>>

Listed == waiting \union active \union succeeded \union failed

Init ==
  /\ used = {}
  /\ waiting = {}
  /\ active = {}
  /\ succeeded = {}
  /\ failed = {}
  /\ busy = FALSE

Submit(id) ==
  /\ ~busy
  /\ id \notin used
  /\ Cardinality(Listed) < Capacity
  /\ used' = used \union {id}
  /\ waiting' = waiting \union {id}
  /\ UNCHANGED <<active, succeeded, failed, busy>>

Withdraw(id) ==
  /\ ~busy
  /\ id \in Listed
  /\ waiting' = waiting \ {id}
  /\ succeeded' = succeeded \ {id}
  /\ failed' = failed \ {id}
  /\ UNCHANGED <<used, active, busy>>

Launch ==
  /\ ~busy
  /\ waiting # {}
  /\ active' = waiting
  /\ waiting' = {}
  /\ busy' = TRUE
  /\ UNCHANGED <<used, succeeded, failed>>

Settle(id) ==
  /\ id \in active
  /\ active' = active \ {id}
  /\ \/ /\ succeeded' = succeeded \union {id}
        /\ UNCHANGED failed
     \/ /\ failed' = failed \union {id}
        /\ UNCHANGED succeeded
  /\ busy' = (active' # {})
  /\ UNCHANGED <<used, waiting>>

Next ==
  \/ Launch
  \/ \E id \in Ids : Submit(id) \/ Withdraw(id) \/ Settle(id)

Spec == Init /\ [][Next]_vars
=============================================================================
