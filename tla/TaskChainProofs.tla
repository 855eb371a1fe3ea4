--------------------------- MODULE TaskChainProofs ---------------------------
(***************************************************************************)
(* Theorems about module TaskChain, for any number of chains, tasks,       *)
(* artifacts and commands.                                                 *)
(***************************************************************************)
EXTENDS TaskChain, TLAPS

USE ChainAssumption

LEMMA EmptyTyping == Empty \in Contents
BY DEF Empty, Contents

(* Extending a plan by a task that is not on it.                            *)
LEMMA PlanGrows ==
  ASSUME NEW s \in Seq(Dirs), NEW d \in Dirs \ ToSet(s), IsInjective(s)
  PROVE  /\ Append(s, d) \in Seq(Dirs)
         /\ Len(Append(s, d)) = Len(s) + 1
         /\ \A k \in 1 .. Len(s) : Append(s, d)[k] = s[k]
         /\ Append(s, d)[Len(s) + 1] = d
         /\ IsInjective(Append(s, d))
<1>1. /\ Append(s, d) \in Seq(Dirs) /\ Len(s) \in Nat
      /\ Len(Append(s, d)) = Len(s) + 1
      /\ \A k \in 1 .. Len(s) : Append(s, d)[k] = s[k]
      /\ Append(s, d)[Len(s) + 1] = d
      /\ DOMAIN Append(s, d) = 1 .. Len(s) + 1
      /\ DOMAIN s = 1 .. Len(s)
  OBVIOUS
<1>2. \A k \in 1 .. Len(s) : s[k] # d
  BY <1>1 DEF ToSet
<1>3. \A j, k \in 1 .. Len(s) + 1 : Append(s, d)[j] = Append(s, d)[k] => j = k
  <2> TAKE j, k \in 1 .. Len(s) + 1
  <2>1. \A i \in 1 .. Len(s) + 1 : i \in 1 .. Len(s) \/ i = Len(s) + 1
    BY <1>1
  <2>2. \A x, y \in 1 .. Len(s) : s[x] = s[y] => x = y
    BY <1>1 DEF IsInjective
  <2> QED
    BY <1>1, <1>2, <2>1, <2>2
<1> QED
  BY <1>1, <1>3 DEF IsInjective

LEMMA TaskTyping ==
  ASSUME TypeOK, NEW c \in Chains, step[c] > 0
  PROVE  /\ step[c] \in 1 .. Len(plan[c]) /\ Task(c) \in Dirs /\ Task(c) \in ToSet(plan[c])
         /\ artifacts[Task(c)] \subseteq Artifacts
         /\ \A a \in Artifacts : output[Task(c)][a] \subseteq Tag
<1>1. plan[c] \in Seq(Dirs) /\ step[c] \in Nat /\ step[c] <= Len(plan[c])
  BY DEF TypeOK
<1>2. step[c] \in 1 .. Len(plan[c]) /\ Task(c) \in Dirs /\ Task(c) \in ToSet(plan[c])
  BY <1>1 DEF Task, ToSet
<1> QED
  BY <1>2 DEF TypeOK, Contents

LEMMA CurrentTyping ==
  ASSUME TypeOK, NEW c \in Chains, todo[c] # {}
  PROVE  Current(c) \in todo[c] /\ Current(c) \in Artifacts
BY DEF TypeOK, Current

(* Clearing an artifact and fetching it write what a chain may write.       *)
LEMMA SetTyping ==
  ASSUME TypeOK, NEW c \in Chains, Task(c) \in Dirs,
         NEW a, NEW content \in SUBSET Tag, SetOutput(c, a, content)
  PROVE  output' \in [Dirs -> Contents]
<1>1. output' = [output EXCEPT ![Task(c)] = [output[Task(c)] EXCEPT ![a] = content]]
  BY DEF SetOutput
<1>2. [output[Task(c)] EXCEPT ![a] = content] \in Contents
  BY DEF TypeOK, Contents
<1> QED
  BY <1>1, <1>2 DEF TypeOK

LEMMA OutputTyping ==
  ASSUME TypeOK, NEW c \in Chains, Task(c) \in Dirs, <<c, step[c]>> \in Tag,
         ClearArtifact(c) \/ FetchArtifact(c)
  PROVE  output' \in [Dirs -> Contents]
<1>0. output \in [Dirs -> Contents]
  BY DEF TypeOK
<1>1. CASE ClearArtifact(c)
  <2>1. SetOutput(c, Current(c), {}) \/ UNCHANGED output
    BY <1>1 DEF ClearArtifact
  <2> QED
    BY <1>0, <2>1, SetTyping
<1>2. CASE FetchArtifact(c)
  <2> DEFINE old == output[Task(c)][Current(c)]
             new == old \union {<<c, step[c]>>}
  <2>1. PICK content \in {old, new} : SetOutput(c, Current(c), content)
    BY <1>2, Zenon DEF FetchArtifact
  <2>2. CASE Current(c) \in Artifacts
    <3>1. old \in SUBSET Tag
      BY <1>0, <2>2 DEF Contents
    <3>2. content \in SUBSET Tag
      BY <3>1
    <3> QED
      BY <2>1, <3>2, SetTyping
  <2>3. CASE Current(c) \notin Artifacts
    <3>1. output' = [output EXCEPT ![Task(c)] = [output[Task(c)] EXCEPT ![Current(c)] = content]]
      BY <2>1 DEF SetOutput
    <3>2. [output[Task(c)] EXCEPT ![Current(c)] = content] = output[Task(c)]
      BY <1>0, <2>3 DEF Contents
    <3> QED
      BY <1>0, <3>1, <3>2
  <2> QED
    BY <2>2, <2>3
<1> QED
  BY <1>1, <1>2

LEMMA InitChainInv == Init => ChainInv
<1> SUFFICES ASSUME Init PROVE ChainInv
  OBVIOUS
<1> USE DEF Init
<1>1. TypeOK
  <2>1. /\ output \in [Dirs -> Contents]
        /\ overlay \in [Chains -> [made : BOOLEAN, content : Contents]]
    BY EmptyTyping DEF NoOverlay
  <2>2. plan \in [Chains -> Seq(Dirs)] /\ step \in [Chains -> Nat]
        /\ \A c \in Chains : step[c] <= Len(plan[c])
    OBVIOUS
  <2>3. /\ artifacts \in [Dirs -> SUBSET Artifacts]
        /\ next_task_dir \in [Dirs -> Dirs \union {NoDir}]
    OBVIOUS
  <2>4. /\ pc \in [Chains -> Stage]
        /\ run_error \in [Chains -> BOOLEAN] /\ exit_codes \in [Chains -> BOOLEAN]
    BY DEF Stage
  <2> QED
    BY <2>1, <2>2, <2>3, <2>4 DEF TypeOK
<1>2. PlanInv
  BY DEF PlanInv, PlanIsFinite, IsInjective, Active
<1>3. HostInv /\ SharingInv /\ CollectedInv
  BY DEF HostInv, SharingInv, CollectedInv, Active, NoOverlay
<1>4. HandoffIsOwn /\ HostIsClean
  BY DEF HandoffIsOwn, HostIsClean, NoOverlay, Over
<1> QED
  BY <1>1, <1>2, <1>3, <1>4 DEF ChainInv

-----------------------------------------------------------------------------
LEMMA NextStage == TypeOK /\ [Next]_vars => pc' \in [Chains -> Stage]
<1> SUFFICES ASSUME TypeOK, [Next]_vars PROVE pc' \in [Chains -> Stage]
  OBVIOUS
<1>0. pc \in [Chains -> Stage]
  BY DEF TypeOK
<1> USE DEF At, Goto, Stage, StepFails, Fails, CollectFails
<1>1. ASSUME NEW c \in Chains, NEW d \in Dirs, Begin(c, d) PROVE pc' \in [Chains -> Stage]
  BY <1>0, <1>1 DEF Begin
<1>2. ASSUME NEW c \in Chains, Resolve(c) PROVE pc' \in [Chains -> Stage]
  BY <1>0, <1>2 DEF Resolve, StartPlan
<1>3. ASSUME NEW c \in Chains, MakeInput(c) \/ CheckLaunch(c) \/ CloneRootfs(c) \/ BootVm(c)
      PROVE  pc' \in [Chains -> Stage]
  BY <1>0, <1>3 DEF MakeInput, CheckLaunch, CloneRootfs, BootVm
<1>4. ASSUME NEW c \in Chains, PrepareVm(c) \/ Execute(c) \/ Collect(c)
      PROVE  pc' \in [Chains -> Stage]
  BY <1>0, <1>4 DEF PrepareVm, Execute, Collect
<1>5. ASSUME NEW c \in Chains, ClearArtifact(c) \/ FetchArtifact(c) \/ EndCollection(c)
      PROVE  pc' \in [Chains -> Stage]
  BY <1>0, <1>5 DEF ClearArtifact, FetchArtifact, EndCollection
<1>6. ASSUME NEW c \in Chains, RemoveVm(c) \/ HandOff(c) PROVE pc' \in [Chains -> Stage]
  BY <1>0, <1>6 DEF RemoveVm, HandOff
<1>7. CASE UNCHANGED vars
  BY <1>0, <1>7 DEF vars
<1> QED
  BY <1>1, <1>2, <1>3, <1>4, <1>5, <1>6, <1>7 DEF Next, RunStep

LEMMA StepFailsTyping ==
  ASSUME TypeOK, NEW c \in Chains, StepFails(c)
  PROVE  /\ overlay' \in [Chains -> [made : BOOLEAN, content : Contents]]
         /\ clone' \in [Chains -> {"none", "ready", "partial"}]
<1>1. NoOverlay \in [made : BOOLEAN, content : Contents]
  BY EmptyTyping DEF NoOverlay
<1>2. clone' = [clone EXCEPT ![c] = IF clone[c] = "ready" THEN "none" ELSE clone[c]]
  BY DEF StepFails
<1>3. (IF clone[c] = "ready" THEN "none" ELSE clone[c]) \in {"none", "ready", "partial"}
  BY DEF TypeOK
<1> QED
  BY <1>1, <1>2, <1>3 DEF StepFails, TypeOK

LEMMA NextType == TypeOK /\ PlanInv /\ [Next]_vars => TypeOK'
<1> SUFFICES ASSUME TypeOK, PlanInv, [Next]_vars PROVE TypeOK'
  OBVIOUS
<1>0. pc' \in [Chains -> Stage]
  BY NextStage
<1>a. NoOverlay \in [made : BOOLEAN, content : Contents]
  BY EmptyTyping DEF NoOverlay
<1> USE DEF TypeOK, taskVars, stepVars, histVars
<1>1. ASSUME NEW c \in Chains, NEW d \in Dirs, Begin(c, d) PROVE TypeOK'
  <2>1. plan'[c] = <<d>> /\ <<d>> \in Seq(Dirs) /\ step[c] = 0 /\ Len(<<d>>) = 1
    BY <1>1 DEF Begin, PlanInv, At
  <2>2. plan' = [plan EXCEPT ![c] = <<d>>] /\ UNCHANGED step
    BY <1>1 DEF Begin
  <2>3. plan' \in [Chains -> Seq(Dirs)] /\ \A e \in Chains : step[e] <= Len(plan'[e])
    BY <2>1, <2>2
  <2> QED
    BY <1>0, <1>1, <2>3 DEF Begin
<1>2. ASSUME NEW c \in Chains, Resolve(c) PROVE TypeOK'
  <2>1. CASE StartPlan(c)
    BY <1>0, <1>2, <2>1 DEF Resolve, StartPlan, PlanInv
  <2>2. CASE pc'[c] = "err"
    BY <1>0, <1>2, <2>2 DEF Resolve, StartPlan, Goto
  <2>3. CASE UNCHANGED pc
    <3>1. next_task_dir[Last(plan[c])] \in Dirs \ ToSet(plan[c])
          /\ plan' = [plan EXCEPT ![c] = Append(@, next_task_dir[Last(plan[c])])]
          /\ UNCHANGED <<step, exit_codes, sharing>>
      BY <1>2, <2>3 DEF Resolve, StartPlan, Goto
    <3>2. /\ plan' \in [Chains -> Seq(Dirs)]
          /\ \A e \in Chains : Len(plan'[e]) >= Len(plan[e])
      BY <3>1, PlanGrows DEF PlanInv, PlanIsFinite
    <3>3. \A e \in Chains : step[e] <= Len(plan'[e])
      BY <3>2
    <3> QED
      BY <1>0, <1>2, <3>1, <3>2, <3>3 DEF Resolve
  <2> QED
    BY <1>2, <2>1, <2>2, <2>3 DEF Resolve, Goto
<1>3. ASSUME NEW c \in Chains, MakeInput(c) PROVE TypeOK'
  <2>1. handoff' \in [Chains -> SUBSET Artifacts]
    BY <1>3 DEF MakeInput
  <2>2. overlay' \in [Chains -> [made : BOOLEAN, content : Contents]]
    <3>1. CASE UNCHANGED overlay
      BY <3>1
    <3>2. CASE ~UNCHANGED overlay
      <4> DEFINE source == output[plan[c][step[c] - 1]]
                 content == [a \in Artifacts |-> IF a \in handoff[c] THEN source[a] ELSE {}]
      <4>1. /\ handoff[c] # {}
            /\ overlay' = [overlay EXCEPT ![c] = [made |-> TRUE, content |-> content]]
        BY <1>3, <3>2 DEF MakeInput
      <4>2. /\ step[c] \in Nat /\ step[c] > 1 /\ plan[c] \in Seq(Dirs) /\ step[c] <= Len(plan[c])
        BY <4>1 DEF PlanInv
      <4>3. step[c] - 1 \in 1 .. Len(plan[c])
        BY <4>2
      <4>4. source \in Contents
        BY <4>2, <4>3
      <4>5. content \in Contents
        BY <4>4 DEF Contents
      <4> HIDE DEF content
      <4> QED
        BY <4>1, <4>5
    <3> QED
      BY <3>1, <3>2
  <2> QED
    BY <1>0, <1>3, <2>1, <2>2 DEF MakeInput
<1>4. ASSUME NEW c \in Chains, CheckLaunch(c) PROVE TypeOK'
  <2>1. /\ overlay' \in [Chains -> [made : BOOLEAN, content : Contents]]
        /\ clone' \in [Chains -> {"none", "ready", "partial"}]
    BY <1>4, StepFailsTyping DEF CheckLaunch
  <2> QED
    BY <1>0, <1>4, <2>1 DEF CheckLaunch
<1>5. ASSUME NEW c \in Chains, CloneRootfs(c) PROVE TypeOK'
  <2>1. /\ overlay' \in [Chains -> [made : BOOLEAN, content : Contents]]
        /\ clone' \in [Chains -> {"none", "ready", "partial"}]
    <3>1. CASE StepFails(c)
      BY <3>1, StepFailsTyping
    <3>2. CASE UNCHANGED overlay /\ clone' = [clone EXCEPT ![c] = "ready"]
      BY <3>2
    <3>3. CASE overlay' = [overlay EXCEPT ![c] = NoOverlay] /\ clone' = [clone EXCEPT ![c] = "partial"]
      BY <1>a, <3>3
    <3> QED
      BY <1>5, <3>1, <3>2, <3>3 DEF CloneRootfs
  <2> QED
    BY <1>0, <1>5, <2>1 DEF CloneRootfs
<1>6. ASSUME NEW c \in Chains, BootVm(c) PROVE TypeOK'
  <2>1. /\ overlay' \in [Chains -> [made : BOOLEAN, content : Contents]]
        /\ clone' \in [Chains -> {"none", "ready", "partial"}]
    BY <1>6, StepFailsTyping DEF BootVm
  <2>2. vm' \in [Chains -> {"none", "running", "leaked", "stray"}]
    BY <1>6 DEF BootVm
  <2> QED
    BY <1>0, <1>6, <2>1, <2>2 DEF BootVm
<1>7. ASSUME NEW c \in Chains, PrepareVm(c) PROVE TypeOK'
  <2>1. commands' \in [Chains -> 0 .. MaxCommands]
    BY <1>7 DEF PrepareVm
  <2>2. run_error' = run_error \/ run_error' = [run_error EXCEPT ![c] = TRUE]
    BY <1>7 DEF PrepareVm, Fails
  <2>3. run_error' \in [Chains -> BOOLEAN]
    BY <2>2
  <2> QED
    BY <1>0, <1>7, <2>1, <2>3 DEF PrepareVm
<1>8. ASSUME NEW c \in Chains, Execute(c) PROVE TypeOK'
  <2>1. exit_codes' \in [Chains -> BOOLEAN]
    <3>1. ASSUME NEW nonzero \in BOOLEAN PROVE (exit_codes[c] \/ nonzero) \in BOOLEAN
      BY Zenon
    <3>2. \/ UNCHANGED exit_codes
          \/ \E nonzero \in BOOLEAN :
               exit_codes' = [exit_codes EXCEPT ![c] = exit_codes[c] \/ nonzero]
      <4>1. CASE commands[c] = 0
        BY <1>8, <4>1 DEF Execute
      <4>2. CASE commands[c] # 0
        BY <1>8, <4>2, Zenon DEF Execute
      <4> QED
        BY <4>1, <4>2
    <3>3. exit_codes \in [Chains -> BOOLEAN]
      OBVIOUS
    <3>4. \A f \in [Chains -> BOOLEAN], b \in BOOLEAN : [f EXCEPT ![c] = b] \in [Chains -> BOOLEAN]
      OBVIOUS
    <3> QED
      BY <3>1, <3>2, <3>3, <3>4, Zenon
  <2>2. commands' \in [Chains -> 0 .. MaxCommands]
    <3>1. \/ UNCHANGED commands
          \/ commands[c] # 0 /\ commands' = [commands EXCEPT ![c] = commands[c] - 1]
      BY <1>8 DEF Execute
    <3>2. commands[c] # 0 => commands[c] - 1 \in 0 .. MaxCommands
      OBVIOUS
    <3> QED
      BY <3>1, <3>2
  <2>3. run_error' \in [Chains -> BOOLEAN]
    BY <1>8 DEF Execute, Fails
  <2> QED
    BY <1>0, <1>8, <2>1, <2>2, <2>3 DEF Execute
<1>9. ASSUME NEW c \in Chains, Collect(c) PROVE TypeOK'
  <2>1. Task(c) \in Dirs
    BY <1>9, TaskTyping DEF Collect, PlanInv, Active, Over
  <2>2. artifacts[Task(c)] \in SUBSET Artifacts
    BY <2>1
  <2>3. todo' = todo \/ todo' = [todo EXCEPT ![c] = artifacts[Task(c)]]
    BY <1>9 DEF Collect
  <2>4. todo' \in [Chains -> SUBSET Artifacts]
    BY <2>2, <2>3
  <2> QED
    BY <1>0, <1>9, <2>4 DEF Collect
<1>10. ASSUME NEW c \in Chains, ClearArtifact(c) \/ FetchArtifact(c) PROVE TypeOK'
  <2>1. pc[c] \in {"clear", "fetch"} /\ step[c] > 0 /\ step[c] \in Nat
    BY <1>10 DEF ClearArtifact, FetchArtifact, PlanInv, Active, Over
  <2>2. Task(c) \in Dirs
    BY <2>1, TaskTyping
  <2>3. <<c, step[c]>> \in Tag
    BY <2>1 DEF Tag
  <2>4. output' \in [Dirs -> Contents]
    BY <1>10, <2>2, <2>3, OutputTyping
  <2>5. /\ todo' = todo \/ todo' = [todo EXCEPT ![c] = todo[c] \ {Current(c)}]
        /\ run_error' = run_error \/ run_error' = [run_error EXCEPT ![c] = TRUE]
    BY <1>10 DEF ClearArtifact, FetchArtifact, CollectFails
  <2>6. todo' \in [Chains -> SUBSET Artifacts]
    <3>1. todo \in [Chains -> SUBSET Artifacts] /\ todo[c] \ {Current(c)} \in SUBSET Artifacts
      OBVIOUS
    <3> HIDE DEF TypeOK
    <3> QED
      BY <2>5, <3>1
  <2>7. run_error' \in [Chains -> BOOLEAN]
    BY <2>5
  <2> QED
    BY <1>0, <1>10, <2>4, <2>6, <2>7 DEF ClearArtifact, FetchArtifact
<1>11. ASSUME NEW c \in Chains, EndCollection(c) PROVE TypeOK'
  BY <1>0, <1>11 DEF EndCollection, CollectFails
<1>12. ASSUME NEW c \in Chains, RemoveVm(c) PROVE TypeOK'
  BY <1>0, <1>a, <1>12 DEF RemoveVm
<1>13. ASSUME NEW c \in Chains, HandOff(c) PROVE TypeOK'
  <2>0. pc[c] = "hand_off"
    BY <1>13 DEF HandOff
  <2>1. /\ Task(c) \in Dirs /\ step[c] \in 1 .. Len(plan[c]) /\ plan[c] \in Seq(Dirs)
        /\ artifacts[Task(c)] \subseteq Artifacts
    BY <2>0, TaskTyping DEF PlanInv, Active, Over
  <2>2. next_task_dir[Task(c)] # NoDir => step[c] + 1 <= Len(plan[c])
    <3>1. next_task_dir[Task(c)] = IF step[c] < Len(plan[c]) THEN plan[c][step[c] + 1] ELSE NoDir
      BY <2>0, <2>1 DEF PlanInv, PlanIsFinite, Task
    <3> QED
      BY <2>1, <3>1
  <2>3. \/ step' = [step EXCEPT ![c] = step[c] + 1] /\ next_task_dir[Task(c)] # NoDir
        \/ UNCHANGED step
    BY <1>13 DEF HandOff
  <2>4. step' \in [Chains -> Nat] /\ \A e \in Chains : step'[e] <= Len(plan[e])
    <3>1. CASE UNCHANGED step
      BY <3>1
    <3>2. CASE step' = [step EXCEPT ![c] = step[c] + 1] /\ next_task_dir[Task(c)] # NoDir
      <4>1. step' \in [Chains -> Nat]
        BY <2>1, <3>2
      <4>2. \A e \in Chains : step'[e] = IF e = c THEN step[c] + 1 ELSE step[e]
        BY <3>2
      <4>3. \A e \in Chains : step[e] <= Len(plan[e])
        OBVIOUS
      <4> QED
        BY <2>2, <3>2, <4>1, <4>2, <4>3
    <3> QED
      BY <2>3, <3>1, <3>2
  <2>5. handoff' \in [Chains -> SUBSET Artifacts]
    BY <1>13, <2>1 DEF HandOff
  <2> QED
    BY <1>0, <1>13, <2>4, <2>5 DEF HandOff
<1>14. CASE UNCHANGED vars
  BY <1>14 DEF vars
<1> QED
  BY <1>1, <1>2, <1>3, <1>4, <1>5, <1>6, <1>7, <1>8, <1>9, <1>10, <1>11, <1>12, <1>13, <1>14
     DEF Next, RunStep

-----------------------------------------------------------------------------
(* A step of one chain leaves the other chains' variables as they are.      *)
ChainStep(c) == (\E d \in Dirs : Begin(c, d)) \/ Resolve(c) \/ RunStep(c) \/ HandOff(c)

LEMMA OthersStay ==
  ASSUME TypeOK, NEW c \in Chains, ChainStep(c)
  PROVE  /\ UNCHANGED taskVars
         /\ \A d \in Chains \ {c} :
              /\ pc'[d] = pc[d] /\ plan'[d] = plan[d] /\ step'[d] = step[d]
              /\ handoff'[d] = handoff[d] /\ overlay'[d] = overlay[d] /\ clone'[d] = clone[d]
              /\ vm'[d] = vm[d] /\ todo'[d] = todo[d] /\ run_error'[d] = run_error[d]
<1> USE DEF At, Goto, StepFails, Fails, CollectFails, TypeOK, taskVars, stepVars, histVars
<1>1. CASE (\E d \in Dirs : Begin(c, d)) \/ Resolve(c) \/ HandOff(c)
  BY <1>1 DEF Begin, Resolve, StartPlan, HandOff
<1>2. CASE MakeInput(c) \/ CheckLaunch(c) \/ CloneRootfs(c) \/ BootVm(c)
  BY <1>2 DEF MakeInput, CheckLaunch, CloneRootfs, BootVm
<1>3. CASE PrepareVm(c) \/ Execute(c) \/ Collect(c)
  BY <1>3 DEF PrepareVm, Execute, Collect
<1>4. CASE ClearArtifact(c) \/ FetchArtifact(c) \/ EndCollection(c) \/ RemoveVm(c)
  BY <1>4 DEF ClearArtifact, FetchArtifact, EndCollection, RemoveVm
<1> QED
  BY <1>1, <1>2, <1>3, <1>4 DEF ChainStep, RunStep

(* A step of a task is made by an active chain, and keeps its plan.         *)
LEMMA RunStepFrame ==
  ASSUME TypeOK, NEW c \in Chains, RunStep(c)
  PROVE  /\ Active(c) /\ pc'[c] \notin {"idle", "resolve", "input"}
         /\ UNCHANGED <<plan, step, sharing>>
         /\ IF pc[c] = "input" THEN MakeInput(c) /\ handoff' = [handoff EXCEPT ![c] = {}]
                               ELSE UNCHANGED handoff
<1> USE DEF At, Goto, StepFails, Fails, CollectFails, TypeOK, Active, Over, histVars, stepVars
<1>1. CASE MakeInput(c)
  BY <1>1 DEF MakeInput
<1>4. CASE CheckLaunch(c) \/ CloneRootfs(c)
  BY <1>4 DEF CheckLaunch, CloneRootfs
<1>5. CASE BootVm(c)
  BY <1>5 DEF BootVm
<1>2. CASE PrepareVm(c) \/ Execute(c) \/ Collect(c)
  BY <1>2 DEF PrepareVm, Execute, Collect
<1>3. CASE ClearArtifact(c) \/ FetchArtifact(c) \/ EndCollection(c) \/ RemoveVm(c)
  BY <1>3 DEF ClearArtifact, FetchArtifact, EndCollection, RemoveVm
<1> QED
  BY <1>1, <1>2, <1>3, <1>4, <1>5 DEF RunStep

LEMMA NextSplit == [Next]_vars <=> (\E c \in Chains : ChainStep(c)) \/ UNCHANGED vars
BY DEF Next, ChainStep

(* What PlanInv says of one chain.                                          *)
PlanOf(c) ==
  /\ IsInjective(plan[c])
  /\ pc[c] \notin {"idle", "resolve", "err"} =>
       \A k \in 1 .. Len(plan[c]) :
         next_task_dir[plan[c][k]] = IF k < Len(plan[c]) THEN plan[c][k + 1] ELSE NoDir
  /\ pc[c] = "idle" => plan[c] = <<>>
  /\ pc[c] = "resolve" =>
       /\ Len(plan[c]) > 0
       /\ \A k \in 1 .. Len(plan[c]) - 1 : next_task_dir[plan[c][k]] = plan[c][k + 1]
  /\ Active(c) => step[c] > 0
  /\ handoff[c] # {} => pc[c] = "input" /\ step[c] > 1

LEMMA PlanInvSplit == PlanInv <=> \A c \in Chains : PlanOf(c)
BY DEF PlanInv, PlanIsFinite, PlanOf

LEMMA ResolvePlan ==
  ASSUME TypeOK, NEW c \in Chains, PlanOf(c), Resolve(c)
  PROVE  PlanOf(c)'
<1>0. /\ pc[c] = "resolve" /\ plan[c] \in Seq(Dirs) /\ Len(plan[c]) \in Nat \ {0}
      /\ handoff'[c] = {} /\ UNCHANGED next_task_dir
      /\ Last(plan[c]) = plan[c][Len(plan[c])]
      /\ pc \in [Chains -> Stage] /\ step \in [Chains -> Nat] /\ plan \in [Chains -> Seq(Dirs)]
      /\ \A k \in 1 .. Len(plan[c]) - 1 : next_task_dir[plan[c][k]] = plan[c][k + 1]
  BY DEF Resolve, PlanOf, TypeOK, taskVars, Last
<1>1. CASE StartPlan(c) /\ next_task_dir[Last(plan[c])] = NoDir
  <2>1. pc'[c] = "input" /\ step'[c] = 1 /\ UNCHANGED plan
    BY <1>0, <1>1 DEF StartPlan, Goto
  <2>2. \A k \in 1 .. Len(plan[c]) :
          next_task_dir[plan[c][k]] = IF k < Len(plan[c]) THEN plan[c][k + 1] ELSE NoDir
    BY <1>0, <1>1
  <2> QED
    BY <1>0, <2>1, <2>2 DEF PlanOf, Active
<1>2. CASE pc'[c] = "err" /\ UNCHANGED plan
  BY <1>0, <1>2 DEF PlanOf, Active, Over
<1>3. CASE /\ next_task_dir[Last(plan[c])] \in Dirs \ ToSet(plan[c])
           /\ plan'[c] = Append(plan[c], next_task_dir[Last(plan[c])])
           /\ UNCHANGED pc
  <2> DEFINE next == next_task_dir[Last(plan[c])]
  <2>1. IsInjective(plan[c])
    BY DEF PlanOf
  <2>2. /\ IsInjective(plan'[c]) /\ Len(plan'[c]) = Len(plan[c]) + 1
        /\ \A k \in 1 .. Len(plan[c]) : plan'[c][k] = plan[c][k]
        /\ plan'[c][Len(plan[c]) + 1] = next
    BY <1>0, <1>3, <2>1, PlanGrows
  <2>3. \A k \in 1 .. Len(plan[c]) : next_task_dir[plan'[c][k]] = plan'[c][k + 1]
    <3> TAKE k \in 1 .. Len(plan[c])
    <3>1. CASE k = Len(plan[c])
      BY <1>0, <2>2, <3>1
    <3>2. CASE k # Len(plan[c])
      <4>1. k \in 1 .. Len(plan[c]) - 1 /\ k + 1 \in 1 .. Len(plan[c])
        BY <1>0, <3>2
      <4> QED
        BY <1>0, <2>2, <4>1
    <3> QED
      BY <3>1, <3>2
  <2>4. pc'[c] = "resolve"
    BY <1>0, <1>3
  <2> HIDE DEF next
  <2> QED
    BY <1>0, <2>2, <2>3, <2>4 DEF PlanOf, Active
<1> QED
  BY <1>0, <1>1, <1>2, <1>3 DEF Resolve, Goto, TypeOK

LEMMA NextPlanInv == TypeOK /\ PlanInv /\ [Next]_vars => PlanInv'
<1> SUFFICES ASSUME TypeOK, PlanInv, [Next]_vars PROVE PlanInv'
  OBVIOUS
<1>0. \A c \in Chains : PlanOf(c)
  BY PlanInvSplit
<1>1. ASSUME NEW c \in Chains, ChainStep(c) PROVE \A e \in Chains : PlanOf(e)'
  <2>1. \A e \in Chains \ {c} : PlanOf(e)'
    <3> TAKE e \in Chains \ {c}
    <3>1. /\ pc'[e] = pc[e] /\ plan'[e] = plan[e] /\ step'[e] = step[e] /\ handoff'[e] = handoff[e]
          /\ UNCHANGED next_task_dir
      BY <1>1, OthersStay DEF taskVars
    <3> QED
      BY <1>0, <3>1 DEF PlanOf, Active
  <2>2. PlanOf(c)'
    <3>0. /\ pc \in [Chains -> Stage] /\ step \in [Chains -> Nat] /\ plan \in [Chains -> Seq(Dirs)]
          /\ handoff \in [Chains -> SUBSET Artifacts] /\ UNCHANGED next_task_dir
      BY <1>1, OthersStay DEF TypeOK, taskVars
    <3>1. ASSUME NEW d \in Dirs, Begin(c, d) PROVE PlanOf(c)'
      <4>1. /\ pc'[c] = "resolve" /\ plan'[c] = <<d>> /\ handoff'[c] = {}
        BY <1>0, <3>0, <3>1 DEF Begin, At, Goto, PlanOf
      <4>2. IsInjective(<<d>>) /\ Len(<<d>>) = 1
        BY DEF IsInjective
      <4> QED
        BY <4>1, <4>2 DEF PlanOf, Active
    <3>2. ASSUME Resolve(c) PROVE PlanOf(c)'
      BY <1>0, <3>2, ResolvePlan
    <3>3. ASSUME RunStep(c) PROVE PlanOf(c)'
      <4>1. /\ Active(c) /\ pc'[c] \notin {"idle", "resolve"} /\ UNCHANGED <<plan, step>>
            /\ handoff'[c] = {}
        BY <1>0, <3>0, <3>3, RunStepFrame DEF PlanOf
      <4> QED
        BY <1>0, <3>0, <4>1 DEF PlanOf, Active, Over
    <3>4. ASSUME HandOff(c) PROVE PlanOf(c)'
      <4>1. /\ pc[c] = "hand_off" /\ UNCHANGED plan /\ step[c] > 0
            /\ \/ pc'[c] \in {"ok", "err"} /\ handoff'[c] = {}
               \/ pc'[c] = "input" /\ step'[c] = step[c] + 1
        BY <1>0, <3>0, <3>4 DEF HandOff, Goto, PlanOf, Active, Over
      <4>2. CASE pc'[c] \in {"ok", "err"} /\ handoff'[c] = {}
        BY <1>0, <3>0, <4>1, <4>2 DEF PlanOf, Active, Over
      <4>3. CASE pc'[c] = "input" /\ step'[c] = step[c] + 1
        <5>1. step'[c] > 1
          BY <3>0, <4>1, <4>3
        <5>2. IsInjective(plan'[c]) /\ plan'[c] = plan[c]
          BY <1>0, <4>1 DEF PlanOf
        <5>3. \A k \in 1 .. Len(plan[c]) :
                next_task_dir[plan[c][k]] = IF k < Len(plan[c]) THEN plan[c][k + 1] ELSE NoDir
          BY <1>0, <4>1 DEF PlanOf
        <5>4. pc'[c] = "input" /\ step'[c] > 0
          BY <3>0, <4>1, <4>3
        <5> QED
          BY <3>0, <5>1, <5>2, <5>3, <5>4 DEF PlanOf
      <4> QED
        BY <4>1, <4>2, <4>3
    <3> QED
      BY <1>1, <3>1, <3>2, <3>3, <3>4 DEF ChainStep
  <2> QED
    BY <2>1, <2>2
<1>2. CASE UNCHANGED vars
  BY <1>2 DEF vars, taskVars, PlanInv, PlanIsFinite, Active
<1> QED
  BY <1>1, <1>2, NextSplit DEF PlanInv, PlanIsFinite, PlanOf

-----------------------------------------------------------------------------
(* What HostInv says of one chain.                                          *)
HostOf(c) ==
  /\ overlay[c].made => pc[c] \in {"launch", "clone", "boot"} \union WithVm
  /\ clone[c] = "ready" => pc[c] \in {"boot"} \union WithVm
  /\ vm[c] = "running" => pc[c] \in WithVm
  /\ vm[c] \in {"leaked", "stray"} => pc[c] = "err"

LEMMA StepHost ==
  ASSUME TypeOK, NEW c \in Chains, HostOf(c), ChainStep(c)
  PROVE  HostOf(c)' /\ (clone[c] = "ready" /\ clone'[c] # "ready" => pc'[c] \notin WithVm)
<1>0. /\ pc \in [Chains -> Stage] /\ clone \in [Chains -> {"none", "ready", "partial"}]
      /\ vm \in [Chains -> {"none", "running", "leaked", "stray"}]
      /\ overlay \in [Chains -> [made : BOOLEAN, content : Contents]]
      /\ NoOverlay.made = FALSE
  BY DEF TypeOK, NoOverlay
<1> USE <1>0 DEF At, Goto, HostOf, WithVm
<1>1. CASE (\E d \in Dirs : Begin(c, d)) \/ Resolve(c) \/ HandOff(c)
  BY <1>1 DEF Begin, Resolve, StartPlan, HandOff, stepVars
<1>2. CASE MakeInput(c)
  BY <1>2 DEF MakeInput, stepVars
<1>3. CASE CheckLaunch(c)
  BY <1>3 DEF CheckLaunch, StepFails, stepVars
<1>4. CASE CloneRootfs(c)
  BY <1>4 DEF CloneRootfs, StepFails, stepVars
<1>5. CASE BootVm(c)
  BY <1>5 DEF BootVm, StepFails
<1>6. CASE PrepareVm(c) \/ Execute(c) \/ Collect(c)
  BY <1>6 DEF PrepareVm, Execute, Collect, Fails
<1>7. CASE ClearArtifact(c) \/ FetchArtifact(c) \/ EndCollection(c)
  BY <1>7 DEF ClearArtifact, FetchArtifact, EndCollection, CollectFails
<1>8. CASE RemoveVm(c)
  BY <1>8 DEF RemoveVm
<1> QED
  BY <1>1, <1>2, <1>3, <1>4, <1>5, <1>6, <1>7, <1>8 DEF ChainStep, RunStep

LEMMA NextHostInv ==
  TypeOK /\ HostInv /\ [Next]_vars =>
    /\ HostInv'
    /\ \A c \in Chains : clone[c] = "ready" /\ clone'[c] # "ready" => vm'[c] # "running"
<1> SUFFICES ASSUME TypeOK, HostInv, [Next]_vars
             PROVE  /\ HostInv'
                    /\ \A c \in Chains :
                         clone[c] = "ready" /\ clone'[c] # "ready" => vm'[c] # "running"
  OBVIOUS
<1>0. \A c \in Chains : HostOf(c)
  BY DEF HostInv, HostOf
<1>1. ASSUME NEW c \in Chains, ChainStep(c)
      PROVE  \A e \in Chains :
               /\ HostOf(e)'
               /\ clone[e] = "ready" /\ clone'[e] # "ready" => pc'[e] \notin WithVm
  <2> TAKE e \in Chains
  <2>1. CASE e = c
    BY <1>0, <1>1, <2>1, StepHost
  <2>2. CASE e # c
    <3>1. /\ pc'[e] = pc[e] /\ overlay'[e] = overlay[e] /\ clone'[e] = clone[e] /\ vm'[e] = vm[e]
      BY <1>1, <2>2, OthersStay
    <3> QED
      BY <1>0, <3>1 DEF HostOf
  <2> QED
    BY <2>1, <2>2
<1>2. CASE UNCHANGED vars
  BY <1>2 DEF vars, stepVars, HostInv
<1>3. CASE \E c \in Chains : ChainStep(c)
  BY <1>1, <1>3 DEF HostInv, HostOf
<1> QED
  BY <1>2, <1>3, NextSplit

-----------------------------------------------------------------------------
(* Chains become active when their plan is complete, and not otherwise.     *)
LEMMA ActiveFrame ==
  ASSUME TypeOK, NEW c \in Chains, ChainStep(c)
  PROVE  \/ pc[c] = "resolve" /\ StartPlan(c)
         \/ /\ UNCHANGED sharing
            /\ Active(c)' => Active(c) /\ plan'[c] = plan[c]
<1>0. pc \in [Chains -> Stage]
  BY DEF TypeOK
<1> USE <1>0 DEF At, Goto, Active, Over, histVars
<1>1. CASE \E d \in Dirs : Begin(c, d)
  BY <1>1 DEF Begin
<1>2. CASE Resolve(c)
  BY <1>2 DEF Resolve
<1>3. CASE HandOff(c)
  BY <1>3 DEF HandOff
<1>4. CASE RunStep(c)
  BY <1>4, RunStepFrame
<1> QED
  BY <1>1, <1>2, <1>3, <1>4 DEF ChainStep

LEMMA NextSharingInv == TypeOK /\ SharingInv /\ [Next]_vars => SharingInv' /\ sharing \subseteq sharing'
<1> SUFFICES ASSUME TypeOK, SharingInv, [Next]_vars PROVE SharingInv' /\ sharing \subseteq sharing'
  OBVIOUS
<1>1. ASSUME NEW e \in Chains, ChainStep(e) PROVE SharingInv' /\ sharing \subseteq sharing'
  <2>0. \A x \in Chains \ {e} : (Active(x)' <=> Active(x)) /\ plan'[x] = plan[x]
    BY <1>1, OthersStay DEF Active
  <2>1. CASE pc[e] = "resolve" /\ StartPlan(e)
    <3> DEFINE others == {x \in Chains \ {e} : UsedBy(x) \intersect ToSet(plan[e]) # {}}
    <3>1. /\ sharing' = IF others = {} THEN sharing ELSE sharing \union others \union {e}
          /\ plan'[e] = plan[e]
      BY <2>1 DEF StartPlan
    <3>2. sharing \subseteq sharing'
      BY <3>1
    <3>3. \A x \in Chains : Active(x) => UsedBy(x) = ToSet(plan[x])
      BY DEF Active, UsedBy
    <3>4. ASSUME NEW x \in Chains \ {e}, Active(x), x \notin sharing' \/ e \notin sharing'
          PROVE  ToSet(plan'[x]) \intersect ToSet(plan'[e]) = {}
      <4>1. x \notin others
        BY <3>1, <3>4
      <4>2. UsedBy(x) \intersect ToSet(plan[e]) = {}
        BY <4>1
      <4> QED
        BY <2>0, <3>1, <3>3, <3>4, <4>2
    <3> HIDE DEF others
    <3>5. ASSUME NEW c \in Chains, NEW d \in Chains, c # d, c \notin sharing', Active(c)', Active(d)'
          PROVE  ToSet(plan'[c]) \intersect ToSet(plan'[d]) = {}
      <4>1. CASE c = e
        BY <2>0, <3>4, <3>5, <4>1
      <4>2. CASE d = e
        BY <2>0, <3>4, <3>5, <4>2
      <4>3. CASE c # e /\ d # e
        BY <2>0, <3>2, <3>5, <4>3 DEF SharingInv
      <4> QED
        BY <4>1, <4>2, <4>3
    <3> QED
      BY <3>2, <3>5 DEF SharingInv
  <2>2. CASE UNCHANGED sharing /\ (Active(e)' => Active(e) /\ plan'[e] = plan[e])
    <3>1. \A x \in Chains : Active(x)' => Active(x) /\ plan'[x] = plan[x]
      BY <2>0, <2>2
    <3> QED
      BY <2>2, <3>1 DEF SharingInv
  <2> QED
    BY <1>1, <2>1, <2>2, ActiveFrame
<1>2. CASE UNCHANGED vars
  BY <1>2 DEF vars, histVars, SharingInv, Active
<1> QED
  BY <1>1, <1>2, NextSplit

-----------------------------------------------------------------------------
(* What CollectedInv says of one chain.                                     *)
CollectedOf(c) ==
  /\ pc[c] \in {"clear", "fetch"} =>
       /\ ~run_error[c]
       /\ \A a \in artifacts[Task(c)] \ todo[c] : Own(c, step[c], output[Task(c)][a])
  /\ pc[c] = "fetch" => todo[c] # {} /\ output[Task(c)][Current(c)] = {}
  /\ pc[c] = "hand_off" \/ (pc[c] = "rm" /\ ~run_error[c]) =>
       \A a \in artifacts[Task(c)] : Own(c, step[c], output[Task(c)][a])
  /\ pc[c] = "input" =>
       \A a \in handoff[c] : Own(c, step[c] - 1, output[plan[c][step[c] - 1]][a])

(* Only a chain that collects writes an output, that of its task.           *)
LEMMA OutputFrame ==
  ASSUME TypeOK, NEW d \in Chains, ChainStep(d)
  PROVE  \/ UNCHANGED output
         \/ /\ pc[d] \in {"clear", "fetch"}
            /\ \A t \in Dirs \ {Task(d)} : output'[t] = output[t]
<1> USE DEF At, TypeOK
<1>1. CASE (\E t \in Dirs : Begin(d, t)) \/ Resolve(d) \/ HandOff(d)
  BY <1>1 DEF Begin, Resolve, HandOff
<1>2. CASE MakeInput(d) \/ CheckLaunch(d) \/ CloneRootfs(d) \/ BootVm(d)
  BY <1>2 DEF MakeInput, CheckLaunch, CloneRootfs, BootVm
<1>3. CASE PrepareVm(d) \/ Execute(d) \/ Collect(d) \/ EndCollection(d) \/ RemoveVm(d)
  BY <1>3 DEF PrepareVm, Execute, Collect, EndCollection, RemoveVm
<1>4. CASE ClearArtifact(d)
  BY <1>4 DEF ClearArtifact, SetOutput
<1>5. CASE FetchArtifact(d)
  BY <1>5 DEF FetchArtifact, SetOutput
<1> QED
  BY <1>1, <1>2, <1>3, <1>4, <1>5 DEF ChainStep, RunStep

(* A chain that does not share keeps what it collected, whatever other      *)
(* chains do.                                                               *)
LEMMA OthersCollected ==
  ASSUME TypeOK, PlanInv, SharingInv,
         NEW c \in Chains \ sharing, CollectedOf(c), NEW d \in Chains \ {c}, ChainStep(d)
  PROVE  CollectedOf(c)'
<1>1. /\ UNCHANGED artifacts
      /\ pc'[c] = pc[c] /\ plan'[c] = plan[c] /\ step'[c] = step[c] /\ handoff'[c] = handoff[c]
      /\ todo'[c] = todo[c] /\ run_error'[c] = run_error[c]
  BY OthersStay DEF taskVars
<1>2. Task(c)' = Task(c) /\ Current(c)' = Current(c)
  BY <1>1 DEF Task, Current
<1>3. ASSUME NEW t \in ToSet(plan[c]), t \in Dirs, Active(c) PROVE output'[t] = output[t]
  <2>1. CASE UNCHANGED output
    BY <2>1
  <2>2. CASE pc[d] \in {"clear", "fetch"} /\ \A u \in Dirs \ {Task(d)} : output'[u] = output[u]
    <3>1. Active(d) /\ step[d] > 0
      BY <2>2 DEF PlanInv, Active, Over
    <3>2. Task(d) \in ToSet(plan[d])
      BY <3>1, TaskTyping
    <3>3. t # Task(d)
      BY <1>3, <3>1, <3>2 DEF SharingInv
    <3> QED
      BY <1>3, <2>2, <3>3
  <2> QED
    BY <2>1, <2>2, OutputFrame
<1>4. ASSUME pc[c] \in {"clear", "fetch", "rm", "hand_off"} PROVE output'[Task(c)] = output[Task(c)]
  <2>1. Active(c) /\ step[c] > 0
    BY <1>4 DEF PlanInv, Active, Over
  <2> QED
    BY <1>3, <2>1, TaskTyping
<1>5. ASSUME pc[c] = "input", handoff[c] # {}
      PROVE  output'[plan[c][step[c] - 1]] = output[plan[c][step[c] - 1]]
  <2>1. Active(c) /\ step[c] > 1 /\ step[c] \in 1 .. Len(plan[c]) /\ plan[c] \in Seq(Dirs)
    BY <1>5, TaskTyping DEF PlanInv, Active, Over, TypeOK
  <2>2. step[c] - 1 \in 1 .. Len(plan[c])
    BY <2>1
  <2>3. plan[c][step[c] - 1] \in ToSet(plan[c]) /\ plan[c][step[c] - 1] \in Dirs
    BY <2>1, <2>2 DEF ToSet
  <2> QED
    BY <1>3, <2>1, <2>3
<1>6. pc'[c] \in {"clear", "fetch"} =>
        /\ ~run_error'[c]
        /\ \A a \in artifacts'[Task(c)'] \ todo'[c] : Own(c, step'[c], output'[Task(c)'][a])
  BY <1>1, <1>2, <1>4 DEF CollectedOf
<1>7. pc'[c] = "fetch" => todo'[c] # {} /\ output'[Task(c)'][Current(c)'] = {}
  BY <1>1, <1>2, <1>4 DEF CollectedOf
<1>8. pc'[c] = "hand_off" \/ (pc'[c] = "rm" /\ ~run_error'[c]) =>
        \A a \in artifacts'[Task(c)'] : Own(c, step'[c], output'[Task(c)'][a])
  BY <1>1, <1>2, <1>4 DEF CollectedOf
<1>9. pc'[c] = "input" =>
        \A a \in handoff'[c] : Own(c, step'[c] - 1, output'[plan'[c][step'[c] - 1]][a])
  BY <1>1, <1>5 DEF CollectedOf
<1> QED
  BY <1>6, <1>7, <1>8, <1>9 DEF CollectedOf, Own

(* Nothing is kept of a chain at the other stages.                          *)
LEMMA NothingCollected ==
  ASSUME NEW c, pc'[c] \notin {"clear", "fetch", "rm", "hand_off", "input"}
  PROVE  CollectedOf(c)'
BY DEF CollectedOf

(* Writing an artifact of the task of a chain.                              *)
LEMMA WrittenOutput ==
  ASSUME TypeOK, NEW c \in Chains, Task(c) \in Dirs, NEW x \in Artifacts, NEW content,
         SetOutput(c, x, content)
  PROVE  \A a \in Artifacts :
           output'[Task(c)][a] = IF a = x THEN content ELSE output[Task(c)][a]
<1>1. output' = [output EXCEPT ![Task(c)] = [output[Task(c)] EXCEPT ![x] = content]]
  BY DEF SetOutput
<1>2. output'[Task(c)] = [output[Task(c)] EXCEPT ![x] = content]
  BY <1>1 DEF TypeOK
<1>3. output[Task(c)] \in [Artifacts -> SUBSET Tag]
  BY DEF TypeOK, Contents
<1> QED
  BY <1>2, <1>3

(* The steps that collect.                                                  *)
LEMMA StepCollected ==
  ASSUME TypeOK, PlanInv, NEW c \in Chains, CollectedOf(c), ChainStep(c)
  PROVE  CollectedOf(c)'
<1>0. /\ pc \in [Chains -> Stage] /\ todo \in [Chains -> SUBSET Artifacts]
      /\ run_error \in [Chains -> BOOLEAN] /\ UNCHANGED artifacts
      /\ handoff \in [Chains -> SUBSET Artifacts]
  BY OthersStay DEF TypeOK, taskVars
<1>1. CASE \E d \in Dirs : Begin(c, d)
  BY <1>0, <1>1, NothingCollected DEF Begin, At, Goto
<1>2. CASE Resolve(c)
  <2>1. handoff'[c] = {} /\ pc'[c] \in {"resolve", "input", "err"}
    BY <1>0, <1>2 DEF Resolve, StartPlan, Goto, PlanInv
  <2> QED
    BY <2>1 DEF CollectedOf
<1>3. CASE MakeInput(c) \/ CheckLaunch(c) \/ CloneRootfs(c) \/ BootVm(c)
  <2>1. pc'[c] \in {"launch", "err", "clone", "boot", "prepare"}
    BY <1>0, <1>3 DEF MakeInput, CheckLaunch, CloneRootfs, BootVm, StepFails, Goto
  <2> QED
    BY <2>1, NothingCollected
<1>4. CASE PrepareVm(c) \/ Execute(c)
  <2>1. pc'[c] \in {"execute", "collect"}
    BY <1>0, <1>4 DEF PrepareVm, Execute, Fails, Goto
  <2> QED
    BY <2>1, NothingCollected
<1>a. ASSUME pc[c] \in {"collect", "clear", "fetch", "rm", "hand_off"}
      PROVE  /\ step[c] > 0 /\ Task(c) \in Dirs /\ Task(c) \in ToSet(plan[c])
             /\ artifacts[Task(c)] \subseteq Artifacts
  <2>1. step[c] > 0
    BY <1>a DEF PlanInv, Active, Over
  <2> QED
    BY <2>1, TaskTyping
<1>5. CASE Collect(c)
  <2>1. Task(c)' = Task(c) /\ UNCHANGED <<run_error, output>>
    BY <1>5 DEF Collect, Task
  <2>2. CASE run_error[c]
    BY <1>0, <1>5, <2>1, <2>2 DEF Collect, Goto, CollectedOf
  <2>3. CASE ~run_error[c]
    BY <1>0, <1>5, <2>1, <2>3 DEF Collect, Goto, CollectedOf
  <2> QED
    BY <2>2, <2>3
<1>6. CASE ClearArtifact(c)
  <2>1. /\ Task(c)' = Task(c) /\ UNCHANGED <<todo, step>> /\ pc[c] = "clear" /\ todo[c] # {}
        /\ Current(c)' = Current(c)
    BY <1>6 DEF ClearArtifact, Task, Current
  <2>2. CASE run_error'[c] /\ pc'[c] = "rm"
    BY <2>2 DEF CollectedOf
  <2>3. CASE pc'[c] = "fetch" /\ SetOutput(c, Current(c), {}) /\ UNCHANGED run_error
    <3>1. Task(c) \in Dirs /\ Current(c) \in todo[c] /\ Current(c) \in Artifacts
      BY <1>a, <2>1, CurrentTyping
    <3>2. \A a \in Artifacts :
            output'[Task(c)][a] = IF a = Current(c) THEN {} ELSE output[Task(c)][a]
      BY <2>3, <3>1, WrittenOutput
    <3>3. \A a \in artifacts[Task(c)] \ todo[c] : output'[Task(c)][a] = output[Task(c)][a]
      BY <1>a, <2>1, <3>1, <3>2
    <3>4. ~run_error'[c] /\ output'[Task(c)][Current(c)] = {}
      BY <2>1, <2>3, <3>1, <3>2 DEF CollectedOf
    <3>5. \A a \in artifacts[Task(c)] \ todo[c] : Own(c, step[c], output'[Task(c)][a])
      BY <2>1, <3>3 DEF CollectedOf
    <3> QED
      BY <1>0, <2>1, <2>3, <3>4, <3>5 DEF CollectedOf, Own
  <2> QED
    BY <1>0, <1>6, <2>2, <2>3 DEF ClearArtifact, CollectFails, Goto
<1>7. CASE FetchArtifact(c)
  <2>1. Task(c)' = Task(c) /\ UNCHANGED step /\ pc[c] = "fetch"
    BY <1>7 DEF FetchArtifact, Task
  <2>2. /\ ~run_error[c] /\ todo[c] # {} /\ output[Task(c)][Current(c)] = {}
        /\ Task(c) \in Dirs /\ Current(c) \in todo[c] /\ Current(c) \in Artifacts
    BY <1>a, <2>1, CurrentTyping DEF CollectedOf
  <2>3. CASE run_error'[c] /\ pc'[c] = "rm"
    BY <2>3 DEF CollectedOf
  <2>4. CASE /\ pc'[c] = "clear" /\ UNCHANGED run_error
             /\ SetOutput(c, Current(c), output[Task(c)][Current(c)] \union {<<c, step[c]>>})
             /\ todo'[c] = todo[c] \ {Current(c)}
    <3>1. \A a \in Artifacts :
            output'[Task(c)][a] = IF a = Current(c) THEN {<<c, step[c]>>} ELSE output[Task(c)][a]
      BY <2>2, <2>4, WrittenOutput
    <3>2. ASSUME NEW a \in artifacts[Task(c)] \ todo'[c]
          PROVE  Own(c, step[c], output'[Task(c)][a])
      <4>1. a \in Artifacts /\ (a = Current(c) \/ a \in artifacts[Task(c)] \ todo[c])
        BY <1>a, <2>1, <2>4, <3>2
      <4>2. CASE a = Current(c)
        BY <3>1, <4>1, <4>2 DEF Own
      <4>3. CASE a # Current(c)
        BY <2>1, <3>1, <4>1, <4>3 DEF CollectedOf, Own
      <4> QED
        BY <4>2, <4>3
    <3>3. ~run_error'[c]
      BY <2>2, <2>4
    <3> QED
      BY <1>0, <2>1, <2>4, <3>2, <3>3 DEF CollectedOf, Own
  <2>5. \/ run_error'[c] /\ pc'[c] = "rm"
        \/ /\ pc'[c] = "clear" /\ UNCHANGED run_error
           /\ SetOutput(c, Current(c), output[Task(c)][Current(c)] \union {<<c, step[c]>>})
           /\ todo'[c] = todo[c] \ {Current(c)}
    <3>1. CASE CollectFails(c)
      BY <1>0, <3>1 DEF CollectFails, Goto
    <3>2. CASE ~CollectFails(c)
      BY <1>0, <1>7, <3>2 DEF FetchArtifact, Goto
    <3> QED
      BY <3>1, <3>2
  <2> QED
    BY <2>3, <2>4, <2>5
<1>8. CASE EndCollection(c)
  <2>1. Task(c)' = Task(c) /\ UNCHANGED <<step, output>> /\ pc[c] = "clear" /\ todo[c] = {}
        /\ pc'[c] = "rm"
    BY <1>0, <1>8 DEF EndCollection, Task, CollectFails, Goto
  <2> QED
    BY <1>0, <2>1 DEF CollectedOf, Own
<1>9. CASE RemoveVm(c)
  <2>1. Task(c)' = Task(c) /\ UNCHANGED <<step, output>> /\ pc[c] = "rm"
        /\ (pc'[c] = "err" \/ (pc'[c] = "hand_off" /\ ~run_error[c]))
    BY <1>0, <1>9 DEF RemoveVm, Task, Goto
  <2> QED
    BY <1>0, <2>1 DEF CollectedOf, Own
<1>10. CASE HandOff(c)
  <2>1. pc[c] = "hand_off" /\ UNCHANGED <<plan, output>> /\ step[c] \in Nat
    BY <1>10 DEF HandOff, TypeOK
  <2>2. CASE pc'[c] \in {"ok", "err"}
    BY <2>2, NothingCollected
  <2>3. CASE pc'[c] = "input" /\ step'[c] = step[c] + 1 /\ handoff'[c] = artifacts[Task(c)]
    <3>1. step'[c] - 1 = step[c] /\ plan'[c][step'[c] - 1] = Task(c)
      BY <2>1, <2>3 DEF Task
    <3> QED
      BY <2>1, <2>3, <3>1 DEF CollectedOf, Own
  <2> QED
    BY <1>0, <1>10, <2>2, <2>3 DEF HandOff, Goto, TypeOK
<1> QED
  BY <1>1, <1>2, <1>3, <1>4, <1>5, <1>6, <1>7, <1>8, <1>9, <1>10 DEF ChainStep, RunStep

LEMMA NextCollectedInv ==
  TypeOK /\ PlanInv /\ SharingInv /\ CollectedInv /\ [Next]_vars => CollectedInv'
<1> SUFFICES ASSUME TypeOK, PlanInv, SharingInv, CollectedInv, [Next]_vars PROVE CollectedInv'
  OBVIOUS
<1>0. sharing \subseteq sharing' /\ \A c \in Chains \ sharing : CollectedOf(c)
  BY NextSharingInv DEF CollectedInv, CollectedOf
<1>1. ASSUME NEW d \in Chains, ChainStep(d) PROVE \A c \in Chains \ sharing' : CollectedOf(c)'
  <2> TAKE c \in Chains \ sharing'
  <2>1. c \in Chains \ sharing /\ CollectedOf(c)
    BY <1>0
  <2>2. CASE c = d
    BY <1>1, <2>1, <2>2, StepCollected
  <2>3. CASE c # d
    BY <1>1, <2>1, <2>3, OthersCollected
  <2> QED
    BY <2>2, <2>3
<1>2. CASE UNCHANGED vars
  BY <1>2 DEF vars, taskVars, stepVars, histVars, CollectedInv, Task, Current, Own
<1>3. CASE \E d \in Chains : ChainStep(d)
  <2>1. \A c \in Chains \ sharing' : CollectedOf(c)'
    BY <1>1, <1>3
  <2> QED
    BY <2>1 DEF CollectedInv, CollectedOf
<1> QED
  BY <1>2, <1>3, NextSplit

-----------------------------------------------------------------------------
(* What HandoffIsOwn says of one chain.                                     *)
HandoffOf(c) ==
  overlay[c].made =>
    /\ overlay[c].content # Empty
    /\ \A a \in Artifacts : overlay[c].content[a] \subseteq {<<c, step[c] - 1>>}

(* Only MakeInput makes an input, from what the step before collected, and  *)
(* a chain that has one stays at its step.                                  *)
LEMMA InputIsOwn ==
  ASSUME TypeOK, NEW c \in Chains, CollectedOf(c), HandoffOf(c), MakeInput(c)
  PROVE  HandoffOf(c)'
<1> DEFINE source == output[plan[c][step[c] - 1]]
           content == [a \in Artifacts |-> IF a \in handoff[c] THEN source[a] ELSE {}]
<1>1. /\ pc[c] = "input" /\ UNCHANGED step
      /\ overlay \in [Chains -> [made : BOOLEAN, content : Contents]]
      /\ handoff[c] \subseteq Artifacts
  BY DEF MakeInput, TypeOK
<1>2. CASE UNCHANGED overlay
  BY <1>1, <1>2 DEF HandoffOf
<1>3. CASE /\ handoff[c] # {} /\ \A a \in handoff[c] : source[a] # {}
           /\ overlay' = [overlay EXCEPT ![c] = [made |-> TRUE, content |-> content]]
  <2>1. overlay'[c].content = content
    BY <1>1, <1>3
  <2>2. \A a \in Artifacts : content[a] \subseteq {<<c, step[c] - 1>>}
    BY <1>1 DEF CollectedOf, Own
  <2>3. content # Empty
    <3>1. PICK a \in handoff[c] : source[a] # {}
      BY <1>3
    <3>2. content[a] # {} /\ a \in Artifacts
      BY <1>1, <3>1
    <3> HIDE DEF content
    <3> QED
      BY <3>2 DEF Empty
  <2> HIDE DEF content
  <2> QED
    BY <1>1, <2>1, <2>2, <2>3 DEF HandoffOf
<1> QED
  BY <1>2, <1>3 DEF MakeInput

LEMMA StepHandoff ==
  ASSUME TypeOK, PlanInv, NEW c \in Chains, CollectedOf(c), HostOf(c), HandoffOf(c), ChainStep(c)
  PROVE  HandoffOf(c)'
<1>0. /\ overlay \in [Chains -> [made : BOOLEAN, content : Contents]]
      /\ NoOverlay.made = FALSE
  BY DEF TypeOK, NoOverlay
<1>1. CASE MakeInput(c)
  BY <1>1, InputIsOwn
<1>2. CASE UNCHANGED overlay /\ (UNCHANGED step \/ pc[c] \in {"resolve", "hand_off"})
  BY <1>2 DEF HostOf, HandoffOf, WithVm
<1>3. CASE overlay'[c] = NoOverlay
  BY <1>0, <1>3 DEF HandoffOf
<1>4. CASE (\E d \in Dirs : Begin(c, d)) \/ Resolve(c) \/ HandOff(c)
  BY <1>2, <1>4 DEF Begin, Resolve, HandOff
<1>5. CASE CheckLaunch(c) \/ CloneRootfs(c) \/ BootVm(c)
  BY <1>0, <1>2, <1>3, <1>5 DEF CheckLaunch, CloneRootfs, BootVm, StepFails
<1>6. CASE PrepareVm(c) \/ Execute(c) \/ Collect(c)
  BY <1>2, <1>6 DEF PrepareVm, Execute, Collect
<1>7. CASE ClearArtifact(c) \/ FetchArtifact(c) \/ EndCollection(c)
  BY <1>2, <1>7 DEF ClearArtifact, FetchArtifact, EndCollection
<1>8. CASE RemoveVm(c)
  BY <1>0, <1>3, <1>8 DEF RemoveVm
<1> QED
  BY <1>1, <1>4, <1>5, <1>6, <1>7, <1>8 DEF ChainStep, RunStep

LEMMA NextHandoffIsOwn == ChainInv /\ [Next]_vars => HandoffIsOwn'
<1> SUFFICES ASSUME ChainInv, [Next]_vars PROVE HandoffIsOwn'
  OBVIOUS
<1>0. /\ sharing \subseteq sharing'
      /\ \A c \in Chains : HostOf(c)
      /\ \A c \in Chains \ sharing : CollectedOf(c) /\ HandoffOf(c)
  BY NextSharingInv DEF ChainInv, CollectedInv, CollectedOf, HostInv, HostOf, HandoffIsOwn, HandoffOf
<1>1. ASSUME NEW d \in Chains, ChainStep(d) PROVE \A c \in Chains \ sharing' : HandoffOf(c)'
  <2> TAKE c \in Chains \ sharing'
  <2>1. c \in Chains \ sharing /\ CollectedOf(c) /\ HandoffOf(c)
    BY <1>0
  <2>2. CASE c = d
    BY <1>0, <1>1, <2>1, <2>2, StepHandoff DEF ChainInv
  <2>3. CASE c # d
    <3>1. overlay'[c] = overlay[c] /\ step'[c] = step[c]
      BY <1>1, <2>1, <2>3, OthersStay DEF ChainInv
    <3> QED
      BY <2>1, <3>1 DEF HandoffOf
  <2> QED
    BY <2>2, <2>3
<1>2. CASE UNCHANGED vars
  BY <1>2 DEF vars, histVars, ChainInv, HandoffIsOwn
<1>3. CASE \E d \in Chains : ChainStep(d)
  <2>1. \A c \in Chains \ sharing' : HandoffOf(c)'
    BY <1>1, <1>3
  <2> QED
    BY <2>1 DEF HandoffIsOwn, HandoffOf
<1> QED
  BY <1>2, <1>3, NextSplit

LEMMA NextChainInv == ChainInv /\ [Next]_vars => ChainInv'
<1> SUFFICES ASSUME ChainInv, [Next]_vars PROVE ChainInv'
  OBVIOUS
<1>1. TypeOK' /\ PlanInv' /\ HostInv' /\ SharingInv' /\ CollectedInv'
  BY NextType, NextPlanInv, NextHostInv, NextSharingInv, NextCollectedInv DEF ChainInv
<1>2. HandoffIsOwn'
  BY NextHandoffIsOwn
<1>3. HostIsClean'
  BY <1>1 DEF TypeOK, HostInv, HostIsClean, Over, WithVm
<1> QED
  BY <1>1, <1>2, <1>3 DEF ChainInv

-----------------------------------------------------------------------------
(* ChainInv holds of every run of any number of chains.                     *)
THEOREM ChainInvariance == Spec => []ChainInv
<1>1. Init => ChainInv
  BY InitChainInv
<1>2. ChainInv /\ [Next]_vars => ChainInv'
  BY NextChainInv
<1> QED
  BY <1>1, <1>2, PTL DEF Spec

(* The types hold: in particular no chain is past the end of its plan.      *)
THEOREM ChainTypeCorrect == Spec => []TypeOK
<1>1. ChainInv => TypeOK
  BY DEF ChainInv
<1> QED
  BY <1>1, ChainInvariance, PTL

(* resolve_chain_steps plans no task twice, and a chain starts only a plan  *)
(* that follows the links to a task without one.                            *)
THEOREM PlansAreFinite == Spec => []PlanIsFinite
<1>1. ChainInv => PlanIsFinite
  BY DEF ChainInv, PlanInv
<1> QED
  BY <1>1, ChainInvariance, PTL

(* A step gets what the step before it in the same chain made, and nothing  *)
(* else, unless chains share a task.                                        *)
THEOREM HandoffsAreOwn == Spec => []HandoffIsOwn
<1>1. ChainInv => HandoffIsOwn
  BY DEF ChainInv
<1> QED
  BY <1>1, ChainInvariance, PTL

(* However a chain ends, it leaves no overlay and no complete clone, and a  *)
(* VM only if the chain fails: one that `rm` did not remove, or that a      *)
(* launch which failed did not stop.                                        *)
THEOREM HostsStayClean == Spec => []HostIsClean
<1>1. ChainInv => HostIsClean
  BY DEF ChainInv
<1> QED
  BY <1>1, ChainInvariance, PTL

(* A clone of a rootfs is not removed under a VM that came up from it and   *)
(* that `rm` has not failed to remove.                                      *)
THEOREM ClonesOutliveVms == Spec => CloneOutlivesVm
<1>1. ChainInv /\ [Next]_vars =>
        [\A c \in Chains : clone[c] = "ready" /\ clone'[c] # "ready" => vm'[c] # "running"]_vars
  BY NextHostInv DEF ChainInv
<1> QED
  BY <1>1, ChainInvariance, PTL DEF Spec, CloneOutlivesVm
=============================================================================
