------------------------------- MODULE TaskChain -------------------------------
(***************************************************************************)
(* Running chains of tasks: run_task_chain_blocking_with_progress and      *)
(* run_loaded_task_with_ops of worker/src/runner.rs.                       *)
(*                                                                         *)
(* Each chain runs on a thread of its own (`vmize --batch`, the dashboard) *)
(* or after another.  What chains share are the output directories of the  *)
(* tasks: a step copies its artifacts from the VM to the output directory  *)
(* of its task, and the next step's input is made from what is there by    *)
(* then.  An artifact on the host is the set of steps that contributed to  *)
(* it, because copying a directory over another merges them.               *)
(***************************************************************************)
EXTENDS Naturals, Sequences, SequencesExt

CONSTANTS
  Chains,       \* bound: chains that are run
  Dirs,         \* bound: task directories
  NoDir,        \* next_task_dir is absent
  Artifacts,    \* names of artifacts
  MaxCommands   \* bound: commands of a task

ASSUME ChainAssumption ==
  /\ NoDir \notin Dirs
  /\ MaxCommands \in Nat

VARIABLES
  (* task.json of each task *)
  next_task_dir,
  artifacts,
  (* the host *)
  output,         \* the artifacts in each output_dir
  overlay,        \* the overlay input directory of each chain, while it exists
  clone,          \* its temporary rootfs: "none", "ready", "partial"
  (* a chain *)
  pc,
  plan,           \* chain_steps
  step,           \* step_index
  handoff,        \* pending_handoff: the artifacts to put into the next input
  vm,             \* the VM of the step: one that `rm` did not remove is leaked,
                  \* a QEMU that a failed `run` left behind is a stray
  commands,       \* commands of the step left to run
  todo,           \* its artifacts left to collect
  run_error,
  (* history, for the properties only *)
  exit_codes,     \* scripts of the chain that exited non-zero
  sharing         \* chains that ran while another one used a task of theirs

taskVars == <<next_task_dir, artifacts>>
stepVars == <<vm, commands, todo, run_error>>
histVars == <<exit_codes, sharing>>
vars == <<taskVars, output, overlay, clone, pc, plan, step, handoff, stepVars, histVars>>

Tag      == Chains \X Nat
Contents == [Artifacts -> SUBSET Tag]
Empty    == [a \in Artifacts |-> {}]

NoOverlay == [made |-> FALSE, content |-> Empty]

Stage == {"idle", "resolve", "input", "launch", "clone", "boot", "prepare", "execute",
          "collect", "clear", "fetch", "rm", "hand_off", "ok", "err"}
Over  == {"ok", "err"}

TypeOK ==
  /\ next_task_dir \in [Dirs -> Dirs \union {NoDir}]
  /\ artifacts \in [Dirs -> SUBSET Artifacts]
  /\ output \in [Dirs -> Contents]
  /\ overlay \in [Chains -> [made : BOOLEAN, content : Contents]]
  /\ clone \in [Chains -> {"none", "ready", "partial"}]
  /\ pc \in [Chains -> Stage]
  /\ plan \in [Chains -> Seq(Dirs)]
  /\ step \in [Chains -> Nat]
  /\ \A c \in Chains : step[c] <= Len(plan[c])
  /\ handoff \in [Chains -> SUBSET Artifacts]
  /\ vm \in [Chains -> {"none", "running", "leaked", "stray"}]
  /\ commands \in [Chains -> 0 .. MaxCommands]
  /\ todo \in [Chains -> SUBSET Artifacts]
  /\ run_error \in [Chains -> BOOLEAN]
  /\ exit_codes \in [Chains -> BOOLEAN]
  /\ sharing \subseteq Chains

Init ==
  /\ next_task_dir \in [Dirs -> Dirs \union {NoDir}]
  /\ artifacts \in [Dirs -> SUBSET Artifacts]
  /\ output = [d \in Dirs |-> Empty]
  /\ overlay = [c \in Chains |-> NoOverlay]
  /\ clone = [c \in Chains |-> "none"]
  /\ pc = [c \in Chains |-> "idle"]
  /\ plan = [c \in Chains |-> <<>>]
  /\ step = [c \in Chains |-> 0]
  /\ handoff = [c \in Chains |-> {}]
  /\ vm = [c \in Chains |-> "none"]
  /\ commands = [c \in Chains |-> 0]
  /\ todo = [c \in Chains |-> {}]
  /\ run_error = [c \in Chains |-> FALSE]
  /\ exit_codes = [c \in Chains |-> FALSE]
  /\ sharing = {}

Goto(c, stage) == pc' = [pc EXCEPT ![c] = stage]

At(c, stage, next) == pc[c] = stage /\ Goto(c, next)

Task(c) == plan[c][step[c]]

-----------------------------------------------------------------------------
(***************************************************************************)
(* resolve_chain_steps, one task at a time.                                *)
(***************************************************************************)
Begin(c, d) ==
  /\ At(c, "idle", "resolve")
  /\ plan' = [plan EXCEPT ![c] = <<d>>]
  /\ UNCHANGED <<taskVars, output, overlay, clone, step, handoff, stepVars, histVars>>

UsedBy(c) == IF pc[c] \in {"idle", "resolve"} \union Over THEN {} ELSE ToSet(plan[c])

(* The plan is complete: step 1 is next. *)
StartPlan(c) ==
  LET others == {d \in Chains \ {c} : UsedBy(d) \intersect ToSet(plan[c]) # {}} IN
  /\ Goto(c, "input")
  /\ step' = [step EXCEPT ![c] = 1]
  /\ sharing' = IF others = {} THEN sharing ELSE sharing \union others \union {c}
  /\ UNCHANGED <<plan, exit_codes>>

Resolve_NoVisitedSet(c) ==
  LET next == next_task_dir[Last(plan[c])] IN
  /\ pc[c] = "resolve"
  /\ \/ next = NoDir /\ StartPlan(c)
     \/ /\ next # NoDir
        /\ plan' = [plan EXCEPT ![c] = Append(@, next)]
        /\ UNCHANGED <<pc, step, histVars>>
  /\ UNCHANGED <<taskVars, output, overlay, clone, handoff, stepVars>>

(* A cycle, a directory that does not resolve, a task that does not load.   *)
Resolve(c) ==
  LET next == next_task_dir[Last(plan[c])] IN
  /\ pc[c] = "resolve"
  /\ \/ next = NoDir /\ StartPlan(c)
     \/ /\ next \in Dirs \ ToSet(plan[c])
        /\ plan' = [plan EXCEPT ![c] = Append(@, next)]
        /\ UNCHANGED <<pc, step, histVars>>
     \/ Goto(c, "err") /\ UNCHANGED <<plan, step, histVars>>
  /\ UNCHANGED <<taskVars, output, overlay, clone, handoff, stepVars>>

-----------------------------------------------------------------------------
(***************************************************************************)
(* A step: its input, its VM.                                              *)
(***************************************************************************)

(* create_overlay_input_dir; it removes what it began when it fails, as it  *)
(* must when a source is gone.                                              *)
MakeInput(c) ==
  /\ pc[c] = "input"
  /\ handoff' = [handoff EXCEPT ![c] = {}]
  /\ IF handoff[c] = {}
     THEN Goto(c, "launch") /\ UNCHANGED overlay
     ELSE LET source == output[plan[c][step[c] - 1]] IN
          \/ /\ \A a \in handoff[c] : source[a] # {}
             /\ Goto(c, "launch")
             /\ overlay' = [overlay EXCEPT ![c] =
                  [made |-> TRUE,
                   content |-> [a \in Artifacts |-> IF a \in handoff[c] THEN source[a] ELSE {}]]]
          \/ Goto(c, "err") /\ UNCHANGED overlay
  /\ UNCHANGED <<taskVars, output, clone, plan, step, stepVars, histVars>>

(* run_loaded_task_with_ops returned an error: the overlay is removed, and  *)
(* the guard of the rootfs removes the clone.                               *)
StepFails(c) ==
  /\ Goto(c, "err")
  /\ overlay' = [overlay EXCEPT ![c] = NoOverlay]
  /\ clone' = [clone EXCEPT ![c] = IF @ = "ready" THEN "none" ELSE @]

(* Kernel requirements, mounts and paths are checked before anything is     *)
(* made.                                                                    *)
CheckLaunch(c) ==
  /\ pc[c] = "launch"
  /\ \/ Goto(c, "clone") /\ UNCHANGED <<overlay, clone>>
     \/ Goto(c, "boot") /\ UNCHANGED <<overlay, clone>>
     \/ StepFails(c)
  /\ UNCHANGED <<taskVars, output, plan, step, handoff, stepVars, histVars>>

(* clone_rootfs_for_task leaves what it copied when it fails; a failure of  *)
(* resize_rootfs_image removes the clone.                                   *)
CloneRootfs(c) ==
  /\ pc[c] = "clone"
  /\ \/ Goto(c, "boot") /\ clone' = [clone EXCEPT ![c] = "ready"] /\ UNCHANGED overlay
     \/ /\ Goto(c, "err")
        /\ overlay' = [overlay EXCEPT ![c] = NoOverlay]
        /\ clone' = [clone EXCEPT ![c] = "partial"]
     \/ StepFails(c)
  /\ UNCHANGED <<taskVars, output, plan, step, handoff, stepVars, histVars>>

(* Had the guard been a temporary, dropped at the end of its statement. *)
BootVm_GuardDropped(c) ==
  /\ At(c, "boot", "prepare")
  /\ vm' = [vm EXCEPT ![c] = "running"]
  /\ clone' = [clone EXCEPT ![c] = "none"]
  /\ run_error' = [run_error EXCEPT ![c] = FALSE]
  /\ UNCHANGED <<taskVars, output, overlay, plan, step, handoff, commands, todo, histVars>>

(* `run`.  When that fails it may leave a QEMU that is starting or runs, of *)
(* which the worker knows nothing (module VmLaunch says when): nobody calls *)
(* `rm` for it, and the clone goes as in every step that fails.             *)
BootVm(c) ==
  /\ pc[c] = "boot"
  /\ \/ /\ Goto(c, "prepare")
        /\ vm' = [vm EXCEPT ![c] = "running"]
        /\ UNCHANGED <<overlay, clone>>
     \/ StepFails(c) /\ UNCHANGED vm
     \/ StepFails(c) /\ vm' = [vm EXCEPT ![c] = "stray"]
  /\ run_error' = [run_error EXCEPT ![c] = FALSE]
  /\ UNCHANGED <<taskVars, output, plan, step, handoff, commands, todo, histVars>>

(* What goes wrong from here on is kept until the VM is removed.            *)
Fails(c) == run_error' = [run_error EXCEPT ![c] = TRUE] /\ Goto(c, "collect")

(* prepare_vm_with_ops and the check of the kernel that runs. *)
PrepareVm(c) ==
  /\ pc[c] = "prepare"
  /\ \/ /\ Goto(c, "execute")
        /\ \E n \in 0 .. MaxCommands : commands' = [commands EXCEPT ![c] = n]
        /\ UNCHANGED run_error
     \/ Fails(c) /\ UNCHANGED commands
  /\ UNCHANGED <<taskVars, output, overlay, clone, plan, step, handoff, vm, todo, histVars>>

(* execute_commands_with_ops.  The status of a command is the status of     *)
(* `/bin/bash script 2>&1 | tee log`, that is of tee: an error is a failure *)
(* of tee or of ssh.                                                        *)
Execute(c) ==
  /\ pc[c] = "execute"
  /\ IF commands[c] = 0
     THEN Goto(c, "collect") /\ UNCHANGED <<commands, run_error, exit_codes>>
     ELSE /\ \E nonzero \in BOOLEAN :
               exit_codes' = [exit_codes EXCEPT ![c] = @ \/ nonzero]
          /\ \/ /\ commands' = [commands EXCEPT ![c] = @ - 1]
                /\ UNCHANGED <<pc, run_error>>
             \/ Fails(c) /\ UNCHANGED commands
  /\ UNCHANGED <<taskVars, output, overlay, clone, plan, step, handoff, vm, todo, sharing>>

-----------------------------------------------------------------------------
(***************************************************************************)
(* collect_output_with_ops, then `rm`.                                     *)
(***************************************************************************)

(* Logs are copied whatever happened, artifacts only without an error.      *)
Collect(c) ==
  /\ pc[c] = "collect"
  /\ IF run_error[c]
     THEN Goto(c, "rm") /\ UNCHANGED todo
     ELSE Goto(c, "clear") /\ todo' = [todo EXCEPT ![c] = artifacts[Task(c)]]
  /\ UNCHANGED <<taskVars, output, overlay, clone, plan, step, handoff, vm, commands,
                 run_error, histVars>>

CollectFails(c) == run_error' = [run_error EXCEPT ![c] = TRUE] /\ Goto(c, "rm")

SetOutput(c, a, content) == output' = [output EXCEPT ![Task(c)][a] = content]

(* The artifact the loop is at; its order is that of task.json.             *)
Current(c) == CHOOSE a \in todo[c] : TRUE

ClearArtifact_Not(c) ==
  /\ todo[c] # {}
  /\ At(c, "clear", "fetch")
  /\ UNCHANGED <<taskVars, output, overlay, clone, plan, step, handoff, stepVars, histVars>>

(* What an earlier run left under the name is removed.                      *)
ClearArtifact(c) ==
  /\ pc[c] = "clear"
  /\ todo[c] # {}
  /\ \/ Goto(c, "fetch") /\ SetOutput(c, Current(c), {}) /\ UNCHANGED run_error
     \/ CollectFails(c) /\ UNCHANGED output
  /\ UNCHANGED <<taskVars, overlay, clone, plan, step, handoff, vm, commands, todo, histVars>>

(* cp_from, whole, in part or not at all; then the artifact must be there.  *)
FetchArtifact(c) ==
  LET old == output[Task(c)][Current(c)]
      new == old \union {<<c, step[c]>>} IN
  /\ pc[c] = "fetch"
  /\ \/ /\ Goto(c, "clear")
        /\ SetOutput(c, Current(c), new)
        /\ todo' = [todo EXCEPT ![c] = @ \ {Current(c)}]
        /\ UNCHANGED run_error
     \/ /\ \E content \in {old, new} : SetOutput(c, Current(c), content)
        /\ CollectFails(c)
        /\ UNCHANGED todo
  /\ UNCHANGED <<taskVars, overlay, clone, plan, step, handoff, vm, commands, histVars>>

(* Every artifact is there, or the task names none and all of out/ was      *)
(* copied, which may fail.                                                  *)
EndCollection(c) ==
  /\ pc[c] = "clear"
  /\ todo[c] = {}
  /\ \/ Goto(c, "rm") /\ UNCHANGED run_error
     \/ artifacts[Task(c)] = {} /\ CollectFails(c)
  /\ UNCHANGED <<taskVars, output, overlay, clone, plan, step, handoff, vm, commands, todo,
                 histVars>>

RemoveVm_UnlessFailed(c) ==
  /\ pc[c] = "rm"
  /\ IF run_error[c]
     THEN StepFails(c) /\ UNCHANGED vm
     ELSE /\ Goto(c, "hand_off")
          /\ vm' = [vm EXCEPT ![c] = "none"]
          /\ overlay' = [overlay EXCEPT ![c] = NoOverlay]
          /\ clone' = [clone EXCEPT ![c] = "none"]
  /\ UNCHANGED <<taskVars, output, plan, step, handoff, commands, todo, run_error, histVars>>

(* The VM is removed whatever happened, and an error of that is an error of *)
(* the step.  The clone and the overlay go either way.                      *)
RemoveVm(c) ==
  /\ pc[c] = "rm"
  /\ \/ vm' = [vm EXCEPT ![c] = "none"] /\ ~run_error[c] /\ Goto(c, "hand_off")
     \/ vm' = [vm EXCEPT ![c] = "none"] /\ run_error[c] /\ Goto(c, "err")
     \/ vm' = [vm EXCEPT ![c] = "leaked"] /\ Goto(c, "err")
  /\ overlay' = [overlay EXCEPT ![c] = NoOverlay]
  /\ clone' = [clone EXCEPT ![c] = "none"]
  /\ UNCHANGED <<taskVars, output, plan, step, handoff, commands, todo, run_error, histVars>>

HandOff_OneTooMany(c) ==
  /\ At(c, "hand_off", "input")
  /\ step' = [step EXCEPT ![c] = @ + 1]
  /\ handoff' = [handoff EXCEPT ![c] = artifacts[Task(c)]]
  /\ UNCHANGED <<taskVars, output, overlay, clone, plan, stepVars, histVars>>

(* collect_handoff_artifacts, then the next step. *)
HandOff(c) ==
  LET d == Task(c) IN
  /\ pc[c] = "hand_off"
  /\ IF next_task_dir[d] = NoDir
     THEN Goto(c, "ok") /\ UNCHANGED <<step, handoff>>
     ELSE IF artifacts[d] # {} /\ \A a \in artifacts[d] : output[d][a] # {}
     THEN /\ Goto(c, "input")
          /\ step' = [step EXCEPT ![c] = @ + 1]
          /\ handoff' = [handoff EXCEPT ![c] = artifacts[d]]
     ELSE Goto(c, "err") /\ UNCHANGED <<step, handoff>>
  /\ UNCHANGED <<taskVars, output, overlay, clone, plan, stepVars, histVars>>

-----------------------------------------------------------------------------
RunStep(c) ==
  \/ MakeInput(c) \/ CheckLaunch(c) \/ CloneRootfs(c) \/ BootVm(c)
  \/ PrepareVm(c) \/ Execute(c)
  \/ Collect(c) \/ ClearArtifact(c) \/ FetchArtifact(c) \/ EndCollection(c) \/ RemoveVm(c)

Next ==
  \E c \in Chains :
    \/ \E d \in Dirs : Begin(c, d)
    \/ Resolve(c)
    \/ RunStep(c)
    \/ HandOff(c)

Spec == Init /\ [][Next]_vars

-----------------------------------------------------------------------------
(***************************************************************************)
(* Properties.                                                             *)
(***************************************************************************)

(* A plan names no task twice, so that resolving ends also when links form  *)
(* a cycle, and a chain that starts a step follows next_task_dir to a task  *)
(* without one: a chain that runs into a cycle has no VM started at all.    *)
PlanIsFinite ==
  \A c \in Chains :
    /\ IsInjective(plan[c])
    /\ pc[c] \notin {"idle", "resolve", "err"} =>
         \A k \in 1 .. Len(plan[c]) :
           next_task_dir[plan[c][k]] = IF k < Len(plan[c]) THEN plan[c][k + 1] ELSE NoDir

(* The artifacts in the input of a step were made by the step before it, in *)
(* this run, and by nothing else: what an earlier run of the same tasks     *)
(* left in the output directory is not mixed in, even if that run or this   *)
(* one had errors, unless another chain used one of the tasks at the same   *)
(* time.                                                                    *)
HandoffIsOwn ==
  \A c \in Chains \ sharing :
    overlay[c].made =>
      /\ overlay[c].content # Empty
      /\ \A a \in Artifacts : overlay[c].content[a] \subseteq {<<c, step[c] - 1>>}

(* The disk of a VM that came up outlives the VM, as long as `rm` works.  A *)
(* stray does lose its disk.                                                *)
CloneOutlivesVm ==
  [][\A c \in Chains : clone[c] = "ready" /\ clone'[c] # "ready" => vm'[c] # "running"]_vars

(* A chain that is over has left no overlay and no clone that was completed *)
(* on the host, however it ended, and no VM but one whose removal failed or *)
(* whose launch failed without stopping QEMU: either way the chain says it  *)
(* failed.                                                                  *)
HostIsClean ==
  \A c \in Chains :
    pc[c] \in Over =>
      /\ ~overlay[c].made
      /\ clone[c] # "ready"
      /\ vm[c] # "running"
      /\ vm[c] \in {"leaked", "stray"} => pc[c] = "err"

(* worker/README.md, minimum goal 3: a script that fails makes the task     *)
(* fail.                                                                    *)
ScriptFailureIsReported == \A c \in Chains : pc[c] = "ok" => ~exit_codes[c]

-----------------------------------------------------------------------------
(***************************************************************************)
(* The inductive invariant.                                                *)
(***************************************************************************)
Active(c) == pc[c] \notin {"idle", "resolve"} \union Over
WithVm    == {"prepare", "execute", "collect", "clear", "fetch", "rm"}

(* A plan follows next_task_dir and has no task twice; an active chain is   *)
(* at one of its steps, and has a hand-off only where an input is made.     *)
PlanInv ==
  /\ PlanIsFinite
  /\ \A c \in Chains :
       /\ pc[c] = "idle" => plan[c] = <<>>
       /\ pc[c] = "resolve" =>
            /\ Len(plan[c]) > 0
            /\ \A k \in 1 .. Len(plan[c]) - 1 : next_task_dir[plan[c][k]] = plan[c][k + 1]
       /\ Active(c) => step[c] > 0
       /\ handoff[c] # {} => pc[c] = "input" /\ step[c] > 1

(* Where a chain may have an overlay, a clone and a VM.                     *)
HostInv ==
  \A c \in Chains :
    /\ overlay[c].made => pc[c] \in {"launch", "clone", "boot"} \union WithVm
    /\ clone[c] = "ready" => pc[c] \in {"boot"} \union WithVm
    /\ vm[c] = "running" => pc[c] \in WithVm
    /\ vm[c] \in {"leaked", "stray"} => pc[c] = "err"

(* Chains that are active at once and do not count as sharing have no task  *)
(* in common.                                                               *)
SharingInv ==
  \A c, d \in Chains :
    c # d /\ c \notin sharing /\ Active(c) /\ Active(d) =>
      ToSet(plan[c]) \intersect ToSet(plan[d]) = {}

Own(c, k, content) == content \subseteq {<<c, k>>}

(* What a chain that does not share has collected, handed off and put into  *)
(* its next input is its own.                                               *)
CollectedInv ==
  \A c \in Chains \ sharing :
    /\ pc[c] \in {"clear", "fetch"} =>
         /\ ~run_error[c]
         /\ \A a \in artifacts[Task(c)] \ todo[c] : Own(c, step[c], output[Task(c)][a])
    /\ pc[c] = "fetch" => todo[c] # {} /\ output[Task(c)][Current(c)] = {}
    /\ pc[c] = "hand_off" \/ (pc[c] = "rm" /\ ~run_error[c]) =>
         \A a \in artifacts[Task(c)] : Own(c, step[c], output[Task(c)][a])
    /\ pc[c] = "input" =>
         \A a \in handoff[c] : Own(c, step[c] - 1, output[plan[c][step[c] - 1]][a])

ChainInv ==
  /\ TypeOK /\ PlanInv /\ HostInv /\ SharingInv /\ CollectedInv
  /\ HandoffIsOwn /\ HostIsClean
=============================================================================
