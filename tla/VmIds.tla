-------------------------------- MODULE VmIds --------------------------------
(***************************************************************************)
(* What the directory of instances promises about the ids of VMs, with no  *)
(* file, no lock and no pid in sight.  A run gets an id that nobody has,   *)
(* once; it lists its VM under it, or gives it back when its VM does not   *)
(* run, or is known not to stop; and a VM is removed when the run that     *)
(* made it is over and it has been stopped.                                *)
(*                                                                         *)
(* An id is disputed once the removal of a VM that was still being made    *)
(* was called for; it is then of nobody, and nothing is promised about it. *)
(*                                                                         *)
(* Module VmCreation, the model of vm/src/ops.rs, implements this.         *)
(***************************************************************************)
CONSTANTS
  Runs,     \* calls of `vm run`
  Nobody,
  Ids

VARIABLES
  owner,    \* the run that has each id
  listed,   \* the run whose VM is listed under it
  stage,    \* where each run is
  alive,    \* runs whose VM runs, and is known to
  astray,   \* runs that gave up a VM that runs on, as it did not stop
  disputed

vars == <<owner, listed, stage, alive, astray, disputed>>

Init ==
  /\ owner = [i \in Ids |-> Nobody]
  /\ listed = [i \in Ids |-> Nobody]
  /\ stage = [r \in Runs |-> "asking"]
  /\ alive = {}
  /\ astray = {}
  /\ disputed = {}

Claim(r, i) ==
  /\ stage[r] = "asking"
  /\ owner[i] = Nobody /\ i \notin disputed
  /\ owner' = [owner EXCEPT ![i] = r]
  /\ stage' = [stage EXCEPT ![r] = "building"]
  /\ UNCHANGED <<listed, alive, astray, disputed>>

(* It has failed already, or its id is disputed. *)
Proceed(r) ==
  /\ stage[r] = "asking"
  /\ stage' = [stage EXCEPT ![r] = "building"]
  /\ UNCHANGED <<owner, listed, alive, astray, disputed>>

Boot(r) ==
  /\ stage[r] = "building"
  /\ alive' = alive \union {r}
  /\ UNCHANGED <<owner, listed, stage, astray, disputed>>

List(r, i) ==
  /\ stage[r] = "building"
  /\ owner[i] = r
  /\ listed' = [listed EXCEPT ![i] = r]
  /\ UNCHANGED <<owner, stage, alive, astray, disputed>>

GiveBack(r, i) ==
  /\ stage[r] = "building"
  /\ owner[i] = r
  /\ owner' = [owner EXCEPT ![i] = Nobody]
  /\ listed' = [listed EXCEPT ![i] = Nobody]
  /\ alive' = alive \ {r}
  /\ UNCHANGED <<stage, astray, disputed>>

(* The id is given back, if it is still the run's, while its VM runs on.    *)
Abandon(r, i) ==
  /\ stage[r] = "building"
  /\ owner[i] = r \/ i \in disputed
  /\ astray' = astray \union {r}
  /\ owner' = [owner EXCEPT ![i] = Nobody]
  /\ listed' = [listed EXCEPT ![i] = Nobody]
  /\ UNCHANGED <<stage, alive, disputed>>

End(r) ==
  /\ stage[r] # "over"
  /\ stage' = [stage EXCEPT ![r] = "over"]
  /\ UNCHANGED <<owner, listed, alive, astray, disputed>>

Die(r) ==
  /\ alive' = alive \ {r}
  /\ astray' = astray \ {r}
  /\ UNCHANGED <<owner, listed, stage, disputed>>

Removable(i) == listed[i] # Nobody /\ listed[i] \notin alive /\ stage[listed[i]] = "over"

Remove(i) ==
  /\ Removable(i)
  /\ owner' = [owner EXCEPT ![i] = Nobody]
  /\ listed' = [listed EXCEPT ![i] = Nobody]
  /\ UNCHANGED <<stage, alive, astray, disputed>>

(* A removal that fails half-way leaves the id taken. *)
Unlist(i) ==
  /\ Removable(i)
  /\ listed' = [listed EXCEPT ![i] = Nobody]
  /\ UNCHANGED <<owner, stage, alive, astray, disputed>>

Dispute(ids) ==
  /\ disputed' = disputed \union ids
  /\ owner' = [i \in Ids |-> IF i \in ids THEN Nobody ELSE owner[i]]
  /\ listed' = [i \in Ids |-> IF i \in ids THEN Nobody ELSE listed[i]]
  /\ UNCHANGED <<stage, alive, astray>>

Next ==
  \/ \E r \in Runs : Proceed(r) \/ Boot(r) \/ End(r) \/ Die(r)
  \/ \E r \in Runs, i \in Ids : Claim(r, i) \/ List(r, i) \/ GiveBack(r, i) \/ Abandon(r, i)
  \/ \E i \in Ids : Remove(i) \/ Unlist(i)
  \/ \E ids \in SUBSET Ids : Dispute(ids)

Spec == Init /\ [][Next]_vars
=============================================================================
