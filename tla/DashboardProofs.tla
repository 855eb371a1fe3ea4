-------------------------- MODULE DashboardProofs --------------------------
(***************************************************************************)
(* Theorems about module Dashboard, for any number of tasks, handlers and  *)
(* chain steps.                                                            *)
(***************************************************************************)
EXTENDS Dashboard, FiniteSetTheorems, TLAPS

USE BoundsAssumption

LEMMA EmptyStepList == NoSteps \in StepLists /\ NoSteps = [i \in 1 .. 0 |-> "queued"]
BY DEF StepLists, NoSteps

LEMMA FailStepTyping ==
  ASSUME NEW steps \in StepLists, NEW k
  PROVE  FailStep(steps, k) \in StepLists
<1>1. PICK n \in 0 .. MaxSteps : steps \in [1 .. n -> ChainStepState]
  BY DEF StepLists
<1>2. FailStep(steps, k) \in [1 .. n -> ChainStepState]
  BY <1>1 DEF FailStep, ChainStepState
<1> QED
  BY <1>2 DEF StepLists

LEMMA FailedStepTyping ==
  ASSUME NEW steps \in StepLists, NEW index
  PROVE  /\ FailedStep(steps, index) \in 0 .. MaxSteps
         /\ FailedStep(steps, index) # 0 => IsFailedStep(steps, index, FailedStep(steps, index))
<1>1. PICK n \in 0 .. MaxSteps : steps \in [1 .. n -> ChainStepState]
  BY DEF StepLists
<1> QED
  BY <1>1 DEF FailedStep

LEMMA DoneStepsTyping ==
  ASSUME NEW n \in 0 .. MaxSteps
  PROVE  AllSucceeded(n) \in StepLists
<1>1. AllSucceeded(n) \in [1 .. n -> ChainStepState]
  BY DEF AllSucceeded, ChainStepState
<1> QED
  BY <1>1 DEF StepLists

LEMMA InitType == Init => TypeOK
<1> SUFFICES ASSUME Init PROVE TypeOK
  OBVIOUS
<1>1. listed \subseteq Ids /\ running \in BOOLEAN
  BY DEF Init
<1>6. next_id \in 0 .. MaxIds
  BY DEF Init
<1>2. /\ state \in [Ids -> TaskState]
      /\ chain_steps \in [Ids -> StepLists]
      /\ chain_step_index \in [Ids -> 0 .. MaxSteps]
      /\ chain_failed_step_index \in [Ids -> 0 .. MaxSteps]
  BY EmptyStepList DEF Init, TaskState
<1>3. /\ in_loop \in [Handlers -> BOOLEAN]
      /\ tasks_to_run \in [Handlers -> SUBSET Ids]
      /\ started_any \in [Handlers -> BOOLEAN]
  BY DEF Init
<1>4. /\ worker \in [Ids -> Worker]
      /\ outcome \in [Ids -> Outcome]
      /\ last_event \in [Ids -> Event]
  BY DEF Init, Worker, Outcome, Event
<1>5. /\ total \in [Ids -> 0 .. MaxSteps]
      /\ sent \in [Ids -> 0 .. MaxSteps]
      /\ completed \in [Ids -> 0 .. MaxSteps]
      /\ seen \in [Ids -> 0 .. MaxSteps]
      /\ backlog \in [Ids -> 0 .. MaxBacklog]
  BY DEF Init
<1> QED
  BY <1>1, <1>2, <1>3, <1>4, <1>5, <1>6 DEF TypeOK

LEMMA NextType == TypeOK /\ [Next]_vars => TypeOK'
<1> SUFFICES ASSUME TypeOK, [Next]_vars PROVE TypeOK'
  OBVIOUS
<1> USE DEF TypeOK, queueVars, cardVars, loopVars, chainVars, channelVars, PushEvent, Put, TaskState, Worker, Outcome, Event
<1>1. CASE AddTask
  BY <1>1, SMTT(30) DEF AddTask, Ids
<1>2. ASSUME NEW id \in Ids, RemoveTask(id) PROVE TypeOK'
  BY <1>2 DEF RemoveTask
<1>3. ASSUME NEW h \in Handlers, RunTasks(h) PROVE TypeOK'
  BY <1>3 DEF RunTasks, Queued
<1>4. ASSUME NEW h \in Handlers, ReplyToRun(h) PROVE TypeOK'
  BY <1>4 DEF ReplyToRun, MaybeClearRunning
<1>5. ASSUME NEW h \in Handlers, NEW id \in Ids, SpawnWorker(h, id) PROVE TypeOK'
  BY <1>5 DEF SpawnWorker
<1>6. ASSUME NEW h \in Handlers, NEW id \in Ids, SpawnWorkerFails(h, id) PROVE TypeOK'
  BY <1>6 DEF SpawnWorkerFails, MaybeClearRunning
<1>7. ASSUME NEW id \in Ids, MarkRunning(id) PROVE TypeOK'
  BY <1>7 DEF MarkRunning
<1>8. ASSUME NEW id \in Ids, CreateForwarders(id) PROVE TypeOK'
  BY <1>8 DEF CreateForwarders
<1>9. ASSUME NEW id \in Ids, ResolveChain(id) PROVE TypeOK'
  BY <1>9 DEF ResolveChain, Return
<1>10. ASSUME NEW id \in Ids, StartStep(id) PROVE TypeOK'
  BY <1>10 DEF StartStep
<1>11. ASSUME NEW id \in Ids, StepSucceeds(id) PROVE TypeOK'
  BY <1>11 DEF StepSucceeds, Return
<1>12. ASSUME NEW id \in Ids, StepFails(id) PROVE TypeOK'
  BY <1>12 DEF StepFails, Return
<1>13. ASSUME NEW id \in Ids, SendProgress(id) PROVE TypeOK'
  BY <1>13 DEF SendProgress
<1>14. ASSUME NEW id \in Ids, ForwardProgress(id) PROVE TypeOK'
  BY <1>14 DEF ForwardProgress
<1>15. ASSUME NEW id \in Ids, ForwardChainStep(id) PROVE TypeOK'
  BY <1>15, SMTT(30) DEF ForwardChainStep, StepLists, MarkStepRunning, WithSteps, ChainStepState
<1>16. ASSUME NEW id \in Ids, FinishTask(id) PROVE TypeOK'
  <2> USE <1>16 DEF FinishTask
  <2>1. CASE ReportSuccess(id)
    BY <2>1, DoneStepsTyping DEF ReportSuccess, MaybeClearRunning
  <2>2. CASE ReportFailure(id)
    <3> DEFINE k == FailedStep(chain_steps[id], chain_step_index[id])
    <3>1. k \in 0 .. MaxSteps /\ FailStep(chain_steps[id], k) \in StepLists
      BY FailedStepTyping, FailStepTyping
    <3> HIDE DEF k
    <3>2. /\ state' = Put(state, id, "failed")
          /\ chain_failed_step_index' = Put(chain_failed_step_index, id, k)
          /\ chain_steps' = Put(chain_steps, id, FailStep(chain_steps[id], k))
          /\ chain_step_index' = IF k = 0 THEN chain_step_index ELSE Put(chain_step_index, id, k)
      BY <2>2 DEF ReportFailure, k
    <3> QED
      BY <3>1, <3>2 DEF MaybeClearRunning
  <2> QED
    BY <2>1, <2>2
<1>17. CASE UNCHANGED vars
  BY <1>17 DEF vars
<1>18. QED
  BY <1>1, <1>2, <1>3, <1>4, <1>5, <1>6, <1>7, <1>8, <1>9, <1>10, <1>11,
     <1>12, <1>13, <1>14, <1>15, <1>16, <1>17
  DEF Next, RunLoop, WorkerThread, ChainRun

(* What the end of a worker does to the state of its task and to the flag.  *)
LEMMA FinishEffect ==
  ASSUME IInv, NEW id \in Ids, FinishTask(id)
  PROVE  /\ id \in listed /\ id < next_id /\ running
         /\ worker[id] = "joining"
         /\ outcome[id] \in {"ok", "err"}
         /\ worker' = [worker EXCEPT ![id] = "done"]
         /\ state' = [state EXCEPT ![id] =
                        IF outcome[id] = "ok" THEN "succeeded" ELSE "failed"]
         /\ running' = MaybeClearRunning(state')
         /\ last_event' = [last_event EXCEPT ![id] = "finished"]
         /\ UNCHANGED <<listed, next_id, in_loop, tasks_to_run, started_any,
                        total, sent, completed, outcome, seen, backlog>>
         /\ backlog[id] = 0 /\ seen[id] = sent[id]
<1>1. id \in listed /\ running /\ worker[id] = "joining" /\ outcome[id] \in {"ok", "err"}
  BY DEF IInv, WorkerInv, WorkerAgrees, ChainInv, Live, FinishTask
<1>3. id < next_id
  BY <1>1 DEF IInv, TypeOK, WorkerInv, WorkerAgrees, Ids
<1>2. state' = [state EXCEPT ![id] =
                  IF outcome[id] = "ok" THEN "succeeded" ELSE "failed"]
  BY <1>1 DEF FinishTask, ReportSuccess, ReportFailure, Put
<1> QED
  BY <1>1, <1>2, <1>3 DEF FinishTask, ForwardersJoined, PushEvent, loopVars, chainVars,
     channelVars

(* A claimed task stays queued, listed and untouched until its handler takes *)
(* it up: the flag keeps every other request away.                          *)
LEMMA NextClaimInv == IInv /\ [Next]_vars => ClaimInv'
<1> SUFFICES ASSUME IInv, [Next]_vars PROVE ClaimInv'
  OBVIOUS
<1> USE DEF IInv, TypeOK, queueVars, cardVars, loopVars, chainVars, channelVars
<1>1. ASSUME AddTask PROVE ClaimInv'
  BY <1>1 DEF AddTask, ClaimInv
<1>2. ASSUME NEW id \in Ids, RemoveTask(id) PROVE ClaimInv'
  BY <1>2 DEF RemoveTask, ClaimInv
<1>3. ASSUME NEW h \in Handlers, RunTasks(h) PROVE ClaimInv'
  BY <1>3 DEF RunTasks, Queued, ClaimInv, WorkerInv, WorkerAgrees, Live, Worker
<1>4. ASSUME NEW h \in Handlers, ReplyToRun(h) PROVE ClaimInv'
  BY <1>4 DEF ReplyToRun, MaybeClearRunning, Terminal, ClaimInv
<1>5. ASSUME NEW h \in Handlers, NEW id \in Ids, SpawnWorker(h, id) PROVE ClaimInv'
  BY <1>5 DEF SpawnWorker, IsNextOf, ClaimInv
<1>6. ASSUME NEW h \in Handlers, NEW id \in Ids, SpawnWorkerFails(h, id) PROVE ClaimInv'
  BY <1>6 DEF SpawnWorkerFails, IsNextOf, MaybeClearRunning, Put, Terminal, ClaimInv
<1>7. ASSUME NEW id \in Ids, MarkRunning(id) PROVE ClaimInv'
  BY <1>7 DEF MarkRunning, Put, ClaimInv
<1>8. ASSUME NEW id \in Ids, CreateForwarders(id) PROVE ClaimInv'
  BY <1>8 DEF CreateForwarders, ClaimInv
<1>9. ASSUME NEW id \in Ids, ResolveChain(id) PROVE ClaimInv'
  BY <1>9 DEF ResolveChain, Return, ClaimInv
<1>10. ASSUME NEW id \in Ids, StartStep(id) PROVE ClaimInv'
  BY <1>10 DEF StartStep, ClaimInv
<1>11. ASSUME NEW id \in Ids, StepSucceeds(id) PROVE ClaimInv'
  BY <1>11 DEF StepSucceeds, Return, ClaimInv
<1>12. ASSUME NEW id \in Ids, StepFails(id) PROVE ClaimInv'
  BY <1>12 DEF StepFails, Return, ClaimInv
<1>13. ASSUME NEW id \in Ids, SendProgress(id) PROVE ClaimInv'
  BY <1>13 DEF SendProgress, ClaimInv
<1>14. ASSUME NEW id \in Ids, ForwardProgress(id) PROVE ClaimInv'
  BY <1>14 DEF ForwardProgress, ClaimInv
<1>15. ASSUME NEW id \in Ids, ForwardChainStep(id) PROVE ClaimInv'
  BY <1>15 DEF ForwardChainStep, ClaimInv
<1>16. ASSUME NEW id \in Ids, FinishTask(id) PROVE ClaimInv'
  BY <1>16, FinishEffect DEF ClaimInv, WorkerInv, WorkerAgrees, Live, MaybeClearRunning, Terminal
<1>17. CASE UNCHANGED vars
  BY <1>17 DEF vars, ClaimInv
<1>18. QED
  BY <1>1, <1>2, <1>3, <1>4, <1>5, <1>6, <1>7, <1>8, <1>9, <1>10, <1>11,
     <1>12, <1>13, <1>14, <1>15, <1>16, <1>17
  DEF Next, RunLoop, WorkerThread, ChainRun

(* The state of a task follows its thread.                                  *)
LEMMA NextWorkerInv == IInv /\ [Next]_vars => WorkerInv'
<1> SUFFICES ASSUME IInv, [Next]_vars PROVE WorkerInv'
  OBVIOUS
<1> USE DEF IInv, TypeOK, queueVars, cardVars, loopVars, chainVars, channelVars
<1>1. ASSUME AddTask PROVE WorkerInv'
  <2> SUFFICES ASSUME NEW id \in Ids PROVE WorkerAgrees(id)'
    BY DEF WorkerInv
  <2>1. WorkerAgrees(id) /\ id \in Nat
    BY DEF WorkerInv, Ids
  <2> QED
    BY <1>1, <2>1 DEF AddTask, WorkerAgrees, Live
<1>2. ASSUME NEW id \in Ids, RemoveTask(id) PROVE WorkerInv'
  BY <1>2 DEF RemoveTask, WorkerInv, WorkerAgrees, Live, Terminal
<1>3. ASSUME NEW h \in Handlers, RunTasks(h) PROVE WorkerInv'
  BY <1>3 DEF RunTasks, Queued, WorkerInv, WorkerAgrees, Live, Terminal
<1>4. ASSUME NEW h \in Handlers, ReplyToRun(h) PROVE WorkerInv'
  BY <1>4 DEF ReplyToRun, MaybeClearRunning, WorkerInv, WorkerAgrees, Live, Terminal
<1>5. ASSUME NEW h \in Handlers, NEW id \in Ids, SpawnWorker(h, id) PROVE WorkerInv'
  BY <1>5 DEF SpawnWorker, IsNextOf, ClaimInv, WorkerInv, WorkerAgrees, Live, Terminal
<1>6. ASSUME NEW h \in Handlers, NEW id \in Ids, SpawnWorkerFails(h, id) PROVE WorkerInv'
  BY <1>6 DEF SpawnWorkerFails, IsNextOf, ClaimInv, MaybeClearRunning, Put, WorkerInv, WorkerAgrees, Live, Terminal
<1>7. ASSUME NEW id \in Ids, MarkRunning(id) PROVE WorkerInv'
  BY <1>7 DEF MarkRunning, Put, WorkerInv, WorkerAgrees, Live, Terminal
<1>8. ASSUME NEW id \in Ids, CreateForwarders(id) PROVE WorkerInv'
  BY <1>8 DEF CreateForwarders, WorkerInv, WorkerAgrees, Live, Terminal
<1>9. ASSUME NEW id \in Ids, ResolveChain(id) PROVE WorkerInv'
  BY <1>9 DEF ResolveChain, Return, ChainInv, WorkerInv, WorkerAgrees, Live, Terminal
<1>10. ASSUME NEW id \in Ids, StartStep(id) PROVE WorkerInv'
  BY <1>10 DEF StartStep, WorkerInv, WorkerAgrees, Live, Terminal
<1>11. ASSUME NEW id \in Ids, StepSucceeds(id) PROVE WorkerInv'
  BY <1>11 DEF StepSucceeds, Return, ChainInv, WorkerInv, WorkerAgrees, Live, Terminal
<1>12. ASSUME NEW id \in Ids, StepFails(id) PROVE WorkerInv'
  BY <1>12 DEF StepFails, Return, ChainInv, WorkerInv, WorkerAgrees, Live, Terminal
<1>13. ASSUME NEW id \in Ids, SendProgress(id) PROVE WorkerInv'
  BY <1>13 DEF SendProgress, WorkerInv, WorkerAgrees, Live, Terminal
<1>14. ASSUME NEW id \in Ids, ForwardProgress(id) PROVE WorkerInv'
  BY <1>14 DEF ForwardProgress, WorkerInv, WorkerAgrees, Live, Terminal
<1>15. ASSUME NEW id \in Ids, ForwardChainStep(id) PROVE WorkerInv'
  BY <1>15 DEF ForwardChainStep, WorkerInv, WorkerAgrees, Live, Terminal
<1>16. ASSUME NEW id \in Ids, FinishTask(id) PROVE WorkerInv'
  BY <1>16, FinishEffect DEF WorkerInv, WorkerAgrees, Live, Terminal, MaybeClearRunning
<1>17. CASE UNCHANGED vars
  BY <1>17 DEF vars, WorkerInv, WorkerAgrees, Live, Terminal
<1>18. QED
  BY <1>1, <1>2, <1>3, <1>4, <1>5, <1>6, <1>7, <1>8, <1>9, <1>10, <1>11,
     <1>12, <1>13, <1>14, <1>15, <1>16, <1>17
  DEF Next, RunLoop, WorkerThread, ChainRun

(* Every launched task has someone to start it or a thread.                 *)
LEMMA NextRunInv == IInv /\ [Next]_vars => RunInv'
<1> SUFFICES ASSUME IInv, [Next]_vars PROVE RunInv'
  OBVIOUS
<1> USE DEF IInv, TypeOK, queueVars, cardVars, loopVars, chainVars, channelVars
<1>1. ASSUME AddTask PROVE RunInv'
  BY <1>1 DEF AddTask, RunInv, Claimed, Terminal
<1>2. ASSUME NEW id \in Ids, RemoveTask(id) PROVE RunInv'
  BY <1>2 DEF RemoveTask, RunInv, Claimed, Terminal
<1>3. ASSUME NEW h \in Handlers, RunTasks(h) PROVE RunInv'
  BY <1>3 DEF RunTasks, Queued, ClaimInv, RunInv, Claimed, Terminal
<1>4. ASSUME NEW h \in Handlers, ReplyToRun(h) PROVE RunInv'
  BY <1>4 DEF ReplyToRun, MaybeClearRunning, RunInv, Claimed, Terminal
<1>5. ASSUME NEW h \in Handlers, NEW id \in Ids, SpawnWorker(h, id) PROVE RunInv'
  BY <1>5 DEF SpawnWorker, IsNextOf, RunInv, Claimed, Terminal
<1>6. ASSUME NEW h \in Handlers, NEW id \in Ids, SpawnWorkerFails(h, id) PROVE RunInv'
  <2>1. /\ id \in listed /\ listed' = listed /\ worker' = worker /\ in_loop' = in_loop
        /\ state' = [state EXCEPT ![id] = "failed"]
        /\ tasks_to_run' = [tasks_to_run EXCEPT ![h] = @ \ {id}]
        /\ running' = MaybeClearRunning(state')
    BY <1>6 DEF SpawnWorkerFails, IsNextOf, ClaimInv, Put
  <2>2. running' => running /\ \E i \in listed' : state'[i] \notin Terminal
    BY <2>1 DEF MaybeClearRunning
  <2>3. ASSUME running', NEW i \in listed', state'[i] = "queued"
        PROVE  Claimed(i)' \/ worker'[i] = "spawned"
    <3>1. i # id /\ i \in listed /\ state[i] = "queued"
      BY <2>1, <2>3
    <3>2. Claimed(i) \/ worker[i] = "spawned"
      BY <2>2, <2>3, <3>1 DEF RunInv
    <3>3. Claimed(i) => Claimed(i)'
      BY <2>1, <3>1 DEF Claimed
    <3> QED
      BY <2>1, <3>2, <3>3
  <2> QED
    BY <2>2, <2>3 DEF RunInv
<1>7. ASSUME NEW id \in Ids, MarkRunning(id) PROVE RunInv'
  BY <1>7 DEF MarkRunning, Put, WorkerInv, WorkerAgrees, Live, RunInv, Claimed, Terminal
<1>8. ASSUME NEW id \in Ids, CreateForwarders(id) PROVE RunInv'
  BY <1>8 DEF CreateForwarders, RunInv, Claimed, Terminal
<1>9. ASSUME NEW id \in Ids, ResolveChain(id) PROVE RunInv'
  BY <1>9 DEF ResolveChain, Return, RunInv, Claimed, Terminal
<1>10. ASSUME NEW id \in Ids, StartStep(id) PROVE RunInv'
  BY <1>10 DEF StartStep, RunInv, Claimed, Terminal
<1>11. ASSUME NEW id \in Ids, StepSucceeds(id) PROVE RunInv'
  BY <1>11 DEF StepSucceeds, Return, RunInv, Claimed, Terminal
<1>12. ASSUME NEW id \in Ids, StepFails(id) PROVE RunInv'
  BY <1>12 DEF StepFails, Return, RunInv, Claimed, Terminal
<1>13. ASSUME NEW id \in Ids, SendProgress(id) PROVE RunInv'
  BY <1>13 DEF SendProgress, RunInv, Claimed, Terminal
<1>14. ASSUME NEW id \in Ids, ForwardProgress(id) PROVE RunInv'
  BY <1>14 DEF ForwardProgress, RunInv, Claimed, Terminal
<1>15. ASSUME NEW id \in Ids, ForwardChainStep(id) PROVE RunInv'
  BY <1>15 DEF ForwardChainStep, RunInv, Claimed, Terminal
<1>16. ASSUME NEW id \in Ids, FinishTask(id) PROVE RunInv'
  <2>1. running' => running /\ \E i \in listed' : state'[i] \notin Terminal
    BY FinishEffect, <1>16 DEF MaybeClearRunning
  <2>2. ASSUME running', NEW i \in listed', state'[i] = "queued"
        PROVE  Claimed(i)' \/ worker'[i] = "spawned"
    <3>4. /\ listed' = listed /\ worker' = [worker EXCEPT ![id] = "done"]
          /\ state'[id] \in Terminal
          /\ \A j \in Ids : j # id => state'[j] = state[j]
      BY FinishEffect, <1>16 DEF Terminal
    <3>1. i # id /\ i \in listed /\ state[i] = "queued" /\ worker'[i] = worker[i]
      BY <3>4, <2>2 DEF Terminal
    <3>2. Claimed(i) \/ worker[i] = "spawned"
      BY <2>1, <2>2, <3>1 DEF RunInv
    <3>3. Claimed(i) => Claimed(i)'
      BY FinishEffect, <1>16 DEF Claimed
    <3> QED
      BY <3>1, <3>2, <3>3
  <2> QED
    BY <2>1, <2>2 DEF RunInv
<1>17. CASE UNCHANGED vars
  BY <1>17 DEF vars, RunInv, Claimed, Terminal
<1>18. QED
  BY <1>1, <1>2, <1>3, <1>4, <1>5, <1>6, <1>7, <1>8, <1>9, <1>10, <1>11,
     <1>12, <1>13, <1>14, <1>15, <1>16, <1>17
  DEF Next, RunLoop, WorkerThread, ChainRun

(* The counters of a chain and of its channels.                             *)
LEMMA NextChainInv == IInv /\ [Next]_vars => ChainInv'
<1> SUFFICES ASSUME IInv, [Next]_vars PROVE ChainInv'
  OBVIOUS
<1> USE DEF IInv, TypeOK, queueVars, cardVars, loopVars, chainVars, channelVars
<1>1. ASSUME AddTask PROVE ChainInv'
  BY <1>1 DEF AddTask, ChainInv
<1>2. ASSUME NEW id \in Ids, RemoveTask(id) PROVE ChainInv'
  BY <1>2 DEF RemoveTask, ChainInv
<1>3. ASSUME NEW h \in Handlers, RunTasks(h) PROVE ChainInv'
  BY <1>3 DEF RunTasks, ChainInv
<1>4. ASSUME NEW h \in Handlers, ReplyToRun(h) PROVE ChainInv'
  BY <1>4 DEF ReplyToRun, ChainInv
<1>5. ASSUME NEW h \in Handlers, NEW id \in Ids, SpawnWorker(h, id) PROVE ChainInv'
  BY <1>5 DEF SpawnWorker, IsNextOf, ClaimInv, ChainInv
<1>6. ASSUME NEW h \in Handlers, NEW id \in Ids, SpawnWorkerFails(h, id) PROVE ChainInv'
  BY <1>6 DEF SpawnWorkerFails, ChainInv
<1>7. ASSUME NEW id \in Ids, MarkRunning(id) PROVE ChainInv'
  BY <1>7 DEF MarkRunning, ChainInv
<1>8. ASSUME NEW id \in Ids, CreateForwarders(id) PROVE ChainInv'
  BY <1>8 DEF CreateForwarders, ChainInv
<1>9. ASSUME NEW id \in Ids, ResolveChain(id) PROVE ChainInv'
  BY <1>9 DEF ResolveChain, Return, ChainInv
<1>10. ASSUME NEW id \in Ids, StartStep(id) PROVE ChainInv'
  BY <1>10 DEF StartStep, ChainInv
<1>11. ASSUME NEW id \in Ids, StepSucceeds(id) PROVE ChainInv'
  BY <1>11 DEF StepSucceeds, Return, ChainInv
<1>12. ASSUME NEW id \in Ids, StepFails(id) PROVE ChainInv'
  BY <1>12 DEF StepFails, Return, ChainInv
<1>13. ASSUME NEW id \in Ids, SendProgress(id) PROVE ChainInv'
  BY <1>13 DEF SendProgress, ChainInv
<1>14. ASSUME NEW id \in Ids, ForwardProgress(id) PROVE ChainInv'
  BY <1>14 DEF ForwardProgress, ChainInv
<1>15. ASSUME NEW id \in Ids, ForwardChainStep(id) PROVE ChainInv'
  BY <1>15 DEF ForwardChainStep, ChainInv
<1>16. ASSUME NEW id \in Ids, FinishTask(id) PROVE ChainInv'
  BY <1>16, FinishEffect DEF ChainInv
<1>17. CASE UNCHANGED vars
  BY <1>17 DEF vars, ChainInv
<1>18. QED
  BY <1>1, <1>2, <1>3, <1>4, <1>5, <1>6, <1>7, <1>8, <1>9, <1>10, <1>11,
     <1>12, <1>13, <1>14, <1>15, <1>16, <1>17
  DEF Next, RunLoop, WorkerThread, ChainRun

(* The card follows the announcements, one step behind or more.             *)
LEMMA NextCardInv == IInv /\ [Next]_vars => CardInv'
<1> SUFFICES ASSUME IInv, [Next]_vars PROVE CardInv'
  OBVIOUS
<1> USE DEF IInv, TypeOK, queueVars, cardVars, loopVars, chainVars, channelVars
<1>1. ASSUME AddTask PROVE CardInv'
  BY <1>1 DEF AddTask, CardInv, CardFollows, Shown
<1>2. ASSUME NEW id \in Ids, RemoveTask(id) PROVE CardInv'
  BY <1>2 DEF RemoveTask, CardInv, CardFollows, Shown
<1>3. ASSUME NEW h \in Handlers, RunTasks(h) PROVE CardInv'
  BY <1>3 DEF RunTasks, CardInv, CardFollows, Shown
<1>4. ASSUME NEW h \in Handlers, ReplyToRun(h) PROVE CardInv'
  BY <1>4 DEF ReplyToRun, CardInv, CardFollows, Shown
<1>5. ASSUME NEW h \in Handlers, NEW id \in Ids, SpawnWorker(h, id) PROVE CardInv'
  BY <1>5 DEF SpawnWorker, IsNextOf, ClaimInv, CardInv, CardFollows, Shown
<1>6. ASSUME NEW h \in Handlers, NEW id \in Ids, SpawnWorkerFails(h, id) PROVE CardInv'
  BY <1>6 DEF SpawnWorkerFails, CardInv, CardFollows, Shown
<1>7. ASSUME NEW id \in Ids, MarkRunning(id) PROVE CardInv'
  BY <1>7 DEF MarkRunning, CardInv, CardFollows, Shown
<1>8. ASSUME NEW id \in Ids, CreateForwarders(id) PROVE CardInv'
  BY <1>8 DEF CreateForwarders, CardInv, CardFollows, Shown
<1>9. ASSUME NEW id \in Ids, ResolveChain(id) PROVE CardInv'
  <2> SUFFICES ASSUME NEW i \in Ids, worker'[i] # "done" PROVE CardFollows(i)'
    BY DEF CardInv, CardFollows
  <2>1. CardFollows(i) /\ worker[i] # "done"
    BY <1>9 DEF ResolveChain, Return, CardInv
  <2>2. Shown(i)' = Shown(i)
    <3>1. CASE i = id
      <4>1. seen[i] = 0 /\ seen' = seen
        BY <1>9, <3>1 DEF ResolveChain, ChainInv
      <4> QED
        BY <4>1 DEF Shown
    <3>2. CASE i # id
      BY <1>9, <3>2 DEF ResolveChain, Shown
    <3> QED
      BY <3>1, <3>2
  <2> QED
    BY <1>9, <2>1, <2>2 DEF ResolveChain, CardFollows
<1>10. ASSUME NEW id \in Ids, StartStep(id) PROVE CardInv'
  BY <1>10 DEF StartStep, CardInv, CardFollows, Shown
<1>11. ASSUME NEW id \in Ids, StepSucceeds(id) PROVE CardInv'
  BY <1>11 DEF StepSucceeds, Return, CardInv, CardFollows, Shown
<1>12. ASSUME NEW id \in Ids, StepFails(id) PROVE CardInv'
  BY <1>12 DEF StepFails, Return, CardInv, CardFollows, Shown
<1>13. ASSUME NEW id \in Ids, SendProgress(id) PROVE CardInv'
  BY <1>13 DEF SendProgress, CardInv, CardFollows, Shown
<1>14. ASSUME NEW id \in Ids, ForwardProgress(id) PROVE CardInv'
  BY <1>14 DEF ForwardProgress, CardInv, CardFollows, Shown
<1>15. ASSUME NEW id \in Ids, ForwardChainStep(id) PROVE CardInv'
  <2> DEFINE k == seen[id] + 1
  <2>1. /\ worker[id] # "done" /\ id \in listed
        /\ k \in 1 .. total[id] /\ total[id] \in 0 .. MaxSteps
        /\ seen[id] \in 0 .. MaxSteps
    BY <1>15 DEF ForwardChainStep, ChainInv, WorkerInv, WorkerAgrees, Live, Worker
  <2>2. MarkStepRunning(WithSteps(Shown(id), total[id]), k)
          = [i \in 1 .. total[id] |->
               IF i < k THEN "succeeded" ELSE IF i = k THEN "running" ELSE "queued"]
    BY <2>1 DEF MarkStepRunning, WithSteps, Shown
  <2>3. seen' = [seen EXCEPT ![id] = k]
    BY <1>15 DEF ForwardChainStep
  <2>10. /\ seen'[id] = k /\ k # 0 /\ total' = total
         /\ total[id] = IF seen'[id] = 0 THEN 0 ELSE total[id]
    BY <1>15, <2>1, <2>3 DEF ForwardChainStep
  <2>4. Shown(id)' = MarkStepRunning(WithSteps(Shown(id), total[id]), k)
    BY <2>2, <2>10 DEF Shown
  <2>5. chain_steps[id] = Shown(id)
    BY <2>1 DEF CardInv, CardFollows
  <2> HIDE DEF k
  <2>6. /\ chain_steps' = [chain_steps EXCEPT ![id] = Shown(id)']
        /\ chain_step_index' = [chain_step_index EXCEPT ![id] = k]
        /\ chain_failed_step_index' = [chain_failed_step_index EXCEPT ![id] = 0]
    BY <1>15, <2>1, <2>4, <2>5 DEF ForwardChainStep, Put, k
  <2>7. ASSUME NEW i \in Ids, i # id PROVE Shown(i)' = Shown(i)
    BY <1>15, <2>3, <2>7 DEF ForwardChainStep, Shown
  <2>8. ASSUME NEW i \in Ids, i # id PROVE CardFollows(i)'
    BY <1>15, <2>3, <2>6, <2>7, <2>8 DEF ForwardChainStep, CardFollows, CardInv
  <2>9. CardFollows(id)'
    BY <2>3, <2>6, <2>1 DEF CardFollows
  <2> QED
    BY <2>8, <2>9 DEF CardInv
<1>16. ASSUME NEW id \in Ids, FinishTask(id) PROVE CardInv'
  <2> SUFFICES ASSUME NEW i \in Ids, worker'[i] # "done" PROVE CardFollows(i)'
    BY DEF CardInv, CardFollows
  <2>1. i # id
    BY FinishEffect, <1>16
  <2>2. /\ chain_steps'[i] = chain_steps[i]
        /\ chain_step_index'[i] = chain_step_index[i]
        /\ chain_failed_step_index'[i] = chain_failed_step_index[i]
    BY <1>16, <2>1 DEF FinishTask, ReportSuccess, ReportFailure, Put
  <2>3. Shown(i)' = Shown(i)
    BY FinishEffect, <1>16 DEF Shown
  <2> QED
    BY FinishEffect, <1>16, <2>1, <2>2, <2>3 DEF CardInv, CardFollows
<1>17. CASE UNCHANGED vars
  BY <1>17 DEF vars, CardInv, CardFollows, Shown
<1>18. QED
  BY <1>1, <1>2, <1>3, <1>4, <1>5, <1>6, <1>7, <1>8, <1>9, <1>10, <1>11,
     <1>12, <1>13, <1>14, <1>15, <1>16, <1>17
  DEF Next, RunLoop, WorkerThread, ChainRun

(* Once the end of a task is announced, nothing more is said about it.      *)
LEMMA NextEventInv == IInv /\ [Next]_vars => EventInv'
<1> SUFFICES ASSUME IInv, [Next]_vars PROVE EventInv'
  OBVIOUS
<1> USE DEF IInv, TypeOK, queueVars, cardVars, loopVars, chainVars, channelVars
<1>1. ASSUME AddTask PROVE EventInv'
  <2> SUFFICES ASSUME NEW id \in Ids, last_event'[id] = "finished"
               PROVE  id < next_id' /\ worker'[id] \in {"none", "done"} /\ state'[id] \in Terminal
    BY DEF EventInv
  <2>1. next_id \in Ids /\ id \in Nat
    BY <1>1 DEF AddTask, Ids
  <2>2. last_event[id] = "finished"
    BY <1>1, <2>1 DEF AddTask, PushEvent
  <2> QED
    BY <1>1, <2>1, <2>2 DEF AddTask, EventInv
<1>2. ASSUME NEW id \in Ids, RemoveTask(id) PROVE EventInv'
  BY <1>2 DEF RemoveTask, EventInv, Terminal, PushEvent
<1>3. ASSUME NEW h \in Handlers, RunTasks(h) PROVE EventInv'
  BY <1>3 DEF RunTasks, EventInv, Terminal, PushEvent
<1>4. ASSUME NEW h \in Handlers, ReplyToRun(h) PROVE EventInv'
  BY <1>4 DEF ReplyToRun, EventInv, Terminal, PushEvent
<1>5. ASSUME NEW h \in Handlers, NEW id \in Ids, SpawnWorker(h, id) PROVE EventInv'
  BY <1>5 DEF SpawnWorker, IsNextOf, ClaimInv, EventInv, Terminal, PushEvent
<1>6. ASSUME NEW h \in Handlers, NEW id \in Ids, SpawnWorkerFails(h, id) PROVE EventInv'
  <2>1. worker[id] = "none" /\ id \in listed /\ id < next_id
    BY <1>6 DEF SpawnWorkerFails, IsNextOf, ClaimInv, WorkerInv, WorkerAgrees, Ids
  <2> QED
    BY <1>6, <2>1 DEF SpawnWorkerFails, PushEvent, Put, EventInv, Terminal
<1>7. ASSUME NEW id \in Ids, MarkRunning(id) PROVE EventInv'
  BY <1>7 DEF MarkRunning, Put, WorkerInv, WorkerAgrees, Live, EventInv, PushEvent
<1>8. ASSUME NEW id \in Ids, CreateForwarders(id) PROVE EventInv'
  BY <1>8 DEF CreateForwarders, EventInv, Terminal, PushEvent
<1>9. ASSUME NEW id \in Ids, ResolveChain(id) PROVE EventInv'
  BY <1>9 DEF ResolveChain, Return, EventInv, Terminal, PushEvent
<1>10. ASSUME NEW id \in Ids, StartStep(id) PROVE EventInv'
  BY <1>10 DEF StartStep, EventInv, Terminal, PushEvent
<1>11. ASSUME NEW id \in Ids, StepSucceeds(id) PROVE EventInv'
  BY <1>11 DEF StepSucceeds, Return, EventInv, Terminal, PushEvent
<1>12. ASSUME NEW id \in Ids, StepFails(id) PROVE EventInv'
  BY <1>12 DEF StepFails, Return, EventInv, Terminal, PushEvent
<1>13. ASSUME NEW id \in Ids, SendProgress(id) PROVE EventInv'
  BY <1>13 DEF SendProgress, EventInv, Terminal, PushEvent
<1>14. ASSUME NEW id \in Ids, ForwardProgress(id) PROVE EventInv'
  BY <1>14 DEF ForwardProgress, ChainInv, EventInv, Terminal, PushEvent
<1>15. ASSUME NEW id \in Ids, ForwardChainStep(id) PROVE EventInv'
  BY <1>15 DEF ForwardChainStep, ChainInv, EventInv, Terminal, PushEvent
<1>16. ASSUME NEW id \in Ids, FinishTask(id) PROVE EventInv'
  BY FinishEffect, <1>16 DEF EventInv, Terminal
<1>17. CASE UNCHANGED vars
  BY <1>17 DEF vars, EventInv, Terminal
<1>18. QED
  BY <1>1, <1>2, <1>3, <1>4, <1>5, <1>6, <1>7, <1>8, <1>9, <1>10, <1>11,
     <1>12, <1>13, <1>14, <1>15, <1>16, <1>17
  DEF Next, RunLoop, WorkerThread, ChainRun

(* The report is assembled once both channels are drained, from a card that *)
(* shows the last step running and the steps before it succeeded; after it  *)
(* nothing touches the card.                                                *)
LEMMA FailedStepOfShown ==
  ASSUME NEW n \in Nat, NEW k \in 1 .. n, NEW steps,
         steps = [i \in 1 .. n |->
                    IF i < k THEN "succeeded"
                    ELSE IF i = k THEN "running" ELSE "queued"]
  PROVE  FailedStep(steps, k) = k
<1>1. /\ DOMAIN steps = 1 .. n
      /\ steps[k] = "running"
      /\ \A i \in 1 .. n : steps[i] = "running" => i = k
  OBVIOUS
<1>2. IsFailedStep(steps, k, k)
  BY <1>1 DEF IsFailedStep, FirstRunning
<1>3. \A j \in DOMAIN steps : IsFailedStep(steps, k, j) => j = k
  BY <1>1 DEF IsFailedStep, FirstRunning
<1> QED
  BY <1>1, <1>2, <1>3 DEF FailedStep

LEMMA FinishReport ==
  ASSUME IInv, NEW id \in Ids, FinishTask(id)
  PROVE  ReportAccurate(id)'
<1> DEFINE s == sent[id]
           n == total[id]
<1>1. s \in Nat /\ n \in Nat /\ s <= n /\ seen[id] = s
  BY FinishEffect DEF IInv, TypeOK, ChainInv
<1>2. sent' = sent /\ total' = total /\ outcome' = outcome /\ id \in listed
  BY FinishEffect
<1>3. state'[id] = IF outcome[id] = "ok" THEN "succeeded" ELSE "failed"
  BY FinishEffect DEF IInv, TypeOK
<1>4. chain_steps[id] = Shown(id) /\ chain_step_index[id] = s
  BY FinishEffect, <1>1 DEF IInv, CardInv, CardFollows
<1>5. CASE outcome[id] = "ok"
  <2>1. s = n /\ n # 0
    BY <1>5, FinishEffect DEF IInv, ChainInv
  <2>2. chain_steps'[id] = AllSucceeded(n) /\ chain_failed_step_index'[id] = 0
    BY <1>2, <1>5 DEF FinishTask, ReportSuccess, ReportFailure, Put, IInv, TypeOK
  <2> QED
    BY <1>2, <1>3, <1>5, <2>1, <2>2 DEF ReportAccurate, AllSucceeded
<1>6. CASE outcome[id] = "err"
  <2> DEFINE k == FailedStep(chain_steps[id], chain_step_index[id])
  <2>1. chain_steps'[id] = FailStep(chain_steps[id], k) /\ chain_failed_step_index'[id] = k
    BY <1>2, <1>6 DEF FinishTask, ReportSuccess, ReportFailure, Put, IInv, TypeOK
  <2>2. CASE s = 0
    <3>1. chain_steps[id] = [i \in 1 .. 0 |-> "queued"]
      BY <1>1, <1>4, <2>2 DEF Shown
    <3>2. k = 0
      BY <3>1 DEF FailedStep
    <3> QED
      BY <1>2, <1>3, <1>6, <2>1, <2>2, <3>1, <3>2 DEF ReportAccurate, FailStep
  <2>3. CASE s # 0
    <3>1. chain_steps[id] = [i \in 1 .. n |->
                               IF i < s THEN "succeeded"
                               ELSE IF i = s THEN "running" ELSE "queued"]
      BY <1>1, <1>4, <2>3 DEF Shown
    <3>2. k = s
      BY <1>1, <1>4, <2>3, <3>1, FailedStepOfShown
    <3> HIDE DEF k
    <3>3. chain_steps'[id] = [i \in 1 .. n |->
                                IF i < s THEN "succeeded"
                                ELSE IF i = s THEN "failed" ELSE "queued"]
      BY <1>1, <2>1, <3>1, <3>2 DEF FailStep
    <3> QED
      BY <1>2, <1>3, <1>6, <2>1, <2>3, <3>2, <3>3 DEF ReportAccurate
  <2> QED
    BY <2>2, <2>3
<1> QED
  BY <1>5, <1>6, FinishEffect

LEMMA NextChainReportAccurate == IInv /\ [Next]_vars => ChainReportAccurate'
<1> SUFFICES ASSUME IInv, [Next]_vars,
                    NEW i \in listed', worker'[i] = "done"
             PROVE  ReportAccurate(i)'
  BY DEF ChainReportAccurate
<1> DEFINE Same == /\ i \in listed /\ worker[i] = "done"
                   /\ state'[i] = state[i] /\ outcome'[i] = outcome[i]
                   /\ sent'[i] = sent[i] /\ total'[i] = total[i]
                   /\ chain_steps'[i] = chain_steps[i]
                   /\ chain_failed_step_index'[i] = chain_failed_step_index[i]
<1>1. Same => ReportAccurate(i)'
  <2>1. Same => ReportAccurate(i)
    BY DEF IInv, ChainReportAccurate
  <2> QED
    BY <2>1 DEF ReportAccurate
<1> USE DEF IInv, TypeOK, queueVars, cardVars, loopVars, chainVars, channelVars
<1>2. ASSUME AddTask PROVE Same
  BY <1>2 DEF AddTask, WorkerInv, WorkerAgrees, Ids
<1>3. ASSUME NEW id \in Ids, RemoveTask(id) PROVE Same
  BY <1>3 DEF RemoveTask
<1>4. ASSUME NEW h \in Handlers, RunTasks(h) PROVE Same
  BY <1>4 DEF RunTasks
<1>5. ASSUME NEW h \in Handlers, ReplyToRun(h) PROVE Same
  BY <1>5 DEF ReplyToRun
<1>6. ASSUME NEW h \in Handlers, NEW id \in Ids, SpawnWorker(h, id) PROVE Same
  BY <1>6 DEF SpawnWorker
<1>7. ASSUME NEW h \in Handlers, NEW id \in Ids, SpawnWorkerFails(h, id) PROVE Same
  BY <1>7 DEF SpawnWorkerFails, IsNextOf, ClaimInv, Put
<1>8. ASSUME NEW id \in Ids, MarkRunning(id) PROVE Same
  BY <1>8 DEF MarkRunning, Put
<1>9. ASSUME NEW id \in Ids, CreateForwarders(id) PROVE Same
  BY <1>9 DEF CreateForwarders
<1>10. ASSUME NEW id \in Ids, ResolveChain(id) PROVE Same
  BY <1>10 DEF ResolveChain, Return
<1>11. ASSUME NEW id \in Ids, StartStep(id) PROVE Same
  BY <1>11 DEF StartStep
<1>12. ASSUME NEW id \in Ids, StepSucceeds(id) PROVE Same
  BY <1>12 DEF StepSucceeds, Return
<1>13. ASSUME NEW id \in Ids, StepFails(id) PROVE Same
  BY <1>13 DEF StepFails, Return
<1>14. ASSUME NEW id \in Ids, SendProgress(id) PROVE Same
  BY <1>14 DEF SendProgress
<1>15. ASSUME NEW id \in Ids, ForwardProgress(id) PROVE Same
  BY <1>15 DEF ForwardProgress
<1>16. ASSUME NEW id \in Ids, ForwardChainStep(id) PROVE Same
  BY <1>16 DEF ForwardChainStep, ChainInv, Put
<1>17. ASSUME NEW id \in Ids, FinishTask(id) PROVE Same \/ ReportAccurate(i)'
  <2>1. CASE i = id
    BY <1>17, <2>1, FinishReport
  <2>2. CASE i # id
    BY <1>17, <2>2 DEF FinishTask, ReportSuccess, ReportFailure, Put
  <2> QED
    BY <2>1, <2>2
<1>18. CASE UNCHANGED vars
  BY <1>18, <1>1 DEF vars
<1> HIDE DEF Same
<1> QED
  BY <1>1, <1>2, <1>3, <1>4, <1>5, <1>6, <1>7, <1>8, <1>9, <1>10, <1>11,
     <1>12, <1>13, <1>14, <1>15, <1>16, <1>17, <1>18
  DEF Next, RunLoop, WorkerThread, ChainRun

-----------------------------------------------------------------------------
LEMMA InitIInv == Init => IInv
<1> SUFFICES ASSUME Init PROVE IInv
  OBVIOUS
<1>1. TypeOK
  BY InitType
<1>2. ClaimInv /\ WorkerInv /\ RunInv /\ ChainReportAccurate /\ EventInv
  BY DEF Init, ClaimInv, WorkerInv, WorkerAgrees, RunInv, ChainReportAccurate, EventInv, Live
<1>3. ChainInv
  BY DEF Init, ChainInv
<1>4. CardInv
  <2>1. \A id \in Ids : Shown(id) = NoSteps
    BY EmptyStepList DEF Init, Shown
  <2> QED
    BY <2>1 DEF Init, CardInv, CardFollows
<1> QED
  BY <1>1, <1>2, <1>3, <1>4 DEF IInv

(* IInv is an invariant of the dashboard, whatever the number of tasks,     *)
(* requests, chain steps, unread messages and panics.                       *)
THEOREM Invariance == Spec => []IInv
<1>1. IInv /\ [Next]_vars => IInv'
  <2>1. IInv => TypeOK
    BY DEF IInv
  <2> QED
    BY <2>1, NextType, NextClaimInv, NextWorkerInv, NextRunInv, NextChainInv, NextCardInv,
       NextChainReportAccurate, NextEventInv DEF IInv
<1> QED
  BY <1>1, InitIInv, PTL DEF Spec

(* Every variable keeps its type.                                           *)
THEOREM TypeCorrect == Spec => []TypeOK
<1>1. IInv => TypeOK
  BY DEF IInv
<1> QED
  BY <1>1, Invariance, PTL

(* A task that is claimed or has a thread is listed, unfinished and covered *)
(* by the `running` flag, so no request can touch it.                       *)
THEOREM WorkIsCovered == Spec => []RunningCoversWork
<1>1. IInv => RunningCoversWork
  BY DEF IInv, ClaimInv, WorkerInv, WorkerAgrees, RunningCoversWork, Claimed, Terminal
<1> QED
  BY <1>1, Invariance, PTL

(* While `running` is up, someone is left to clear it, unless a worker      *)
(* panicked.                                                                *)
THEOREM RunIsOwned == Spec => []RunningHasOwner
<1>1. IInv => RunningHasOwner
  <2> SUFFICES ASSUME IInv, running
               PROVE  \E id \in listed :
                        /\ state[id] \notin Terminal
                        /\ Claimed(id) \/ worker[id] \in Live \union {"panicked"}
    BY DEF RunningHasOwner
  <2>1. PICK id \in listed : state[id] \notin Terminal
    BY DEF IInv, RunInv
  <2>2. CASE state[id] = "queued"
    BY <2>1, <2>2 DEF IInv, RunInv, Live
  <2>3. CASE state[id] = "running"
    <3>1. worker[id] \notin {"none", "done"}
      BY <2>3 DEF IInv, TypeOK, WorkerInv, WorkerAgrees
    <3> QED
      BY <2>1, <3>1 DEF IInv, TypeOK, Worker, Live
  <2> QED
    BY <2>1, <2>2, <2>3 DEF IInv, TypeOK, TaskState, Terminal
<1> QED
  BY <1>1, Invariance, PTL

(* The chain shown for a finished task is the chain that ran.               *)
THEOREM ReportIsAccurate == Spec => []ChainReportAccurate
<1>1. IInv => ChainReportAccurate
  BY DEF IInv
<1> QED
  BY <1>1, Invariance, PTL

(* No event about a task follows the one that announces its end.            *)
THEOREM FinishedStaysLast == Spec => FinishedIsLast
<1>1. IInv /\ [Next]_vars =>
        [\A id \in Ids : last_event[id] = "finished" => last_event'[id] = "finished"]_vars
  <2> SUFFICES ASSUME IInv, Next, NEW i \in Ids, last_event[i] = "finished"
               PROVE  last_event'[i] = "finished"
    OBVIOUS
  <2>1. /\ i < next_id
        /\ worker[i] \in {"none", "done"}
        /\ backlog[i] = 0 /\ seen[i] = sent[i]
    BY DEF IInv, EventInv, ChainInv, TypeOK
  <2> USE DEF IInv, TypeOK, PushEvent
  <2>2. CASE AddTask
    BY <2>1, <2>2 DEF AddTask, Ids
  <2>3. ASSUME NEW h \in Handlers, NEW id \in Ids, SpawnWorkerFails(h, id)
        PROVE  last_event'[i] = "finished"
    BY <2>3 DEF SpawnWorkerFails
  <2>4. ASSUME NEW id \in Ids, MarkRunning(id) PROVE last_event'[i] = "finished"
    BY <2>1, <2>4 DEF MarkRunning
  <2>5. ASSUME NEW id \in Ids, ForwardProgress(id) PROVE last_event'[i] = "finished"
    BY <2>1, <2>5 DEF ForwardProgress
  <2>6. ASSUME NEW id \in Ids, ForwardChainStep(id) PROVE last_event'[i] = "finished"
    BY <2>1, <2>6 DEF ForwardChainStep
  <2>7. ASSUME NEW id \in Ids, FinishTask(id) PROVE last_event'[i] = "finished"
    BY <2>7 DEF FinishTask
  <2>8. ASSUME NEW id \in Ids,
               \/ RemoveTask(id) \/ CreateForwarders(id) \/ ChainRun(id) \/ SendProgress(id)
        PROVE  last_event'[i] = "finished"
    BY <2>8 DEF RemoveTask, CreateForwarders, ChainRun, ResolveChain, StartStep, StepSucceeds,
       StepFails, SendProgress
  <2>9. ASSUME NEW h \in Handlers,
               RunTasks(h) \/ ReplyToRun(h) \/ \E id \in Ids : SpawnWorker(h, id)
        PROVE  last_event'[i] = "finished"
    BY <2>9 DEF RunTasks, ReplyToRun, SpawnWorker
  <2> QED
    BY <2>2, <2>3, <2>4, <2>5, <2>6, <2>7, <2>8, <2>9 DEF Next, RunLoop, WorkerThread
<1> QED
  BY <1>1, Invariance, PTL DEF Spec, FinishedIsLast

-----------------------------------------------------------------------------
(***************************************************************************)
(* The dashboard implements TaskBatch.  Six actions are seen by a client;  *)
(* the rest of the threads' work leaves the batch as it is.                *)
(***************************************************************************)
LEMMA InitRefines == Init => Batch!Init
BY DEF Init, Batch!Init, Unfinished

(* Between runs every listed task is queued or finished.                    *)
LEMMA IdleStates ==
  ASSUME IInv, ~running, NEW id \in listed
  PROVE  state[id] \in {"queued"} \union Terminal
BY DEF IInv, TypeOK, WorkerInv, WorkerAgrees, Live, Worker, TaskState, Terminal

LEMMA ListedIsFinite ==
  ASSUME listed \subseteq Ids
  PROVE  Cardinality(listed) \in Nat
<1>1. IsFiniteSet(Ids)
  BY FS_Interval DEF Ids
<1>2. IsFiniteSet(listed)
  BY <1>1, FS_Subset
<1> QED
  BY <1>2, FS_CardinalityType

(* TaskBatch counts with its own instance of Cardinality.                   *)
LEMMA SameCardinality == \A S : Batch!Cardinality(S) = Cardinality(S)
BY DEF Batch!Cardinality, Cardinality, Batch!IsFiniteSet, IsFiniteSet

LEMMA AddRefines ==
  ASSUME IInv, AddTask, NEW id, id = next_id
  PROVE  Batch!Submit(id)
<1> USE DEF IInv, TypeOK
<1>1. /\ ~running /\ running' = running /\ next_id \in Ids /\ next_id \notin listed
      /\ state[next_id] = "queued" /\ listed' = listed \union {next_id}
      /\ next_id' = next_id + 1 /\ state' = state /\ ~QueueFull
  BY DEF AddTask, WorkerInv, WorkerAgrees, cardVars, Ids
<1>2. Batch!Listed = listed
  BY <1>1, IdleStates DEF Batch!Listed, Unfinished, Terminal
<1>3. Cardinality(Batch!Listed) < MaxBatchTasks
  <2>1. Cardinality(listed) \in Nat
    BY ListedIsFinite
  <2> QED
    BY <1>1, <1>2, <2>1 DEF QueueFull
<1>4. next_id \notin 0 .. (next_id - 1) /\ 0 .. (next_id' - 1) = 0 .. (next_id - 1) \union {next_id}
  BY <1>1
<1>5. /\ {i \in listed' : state'[i] = "queued"}
           = {i \in listed : state[i] = "queued"} \union {next_id}
      /\ \A r \in Terminal :
           {i \in listed' : state'[i] = r} = {i \in listed : state[i] = r}
  BY <1>1 DEF Terminal
<1> QED
  BY <1>1, <1>3, <1>4, <1>5, SameCardinality DEF Batch!Submit, Terminal

LEMMA RemoveRefines ==
  ASSUME IInv, NEW id \in Ids, RemoveTask(id)
  PROVE  Batch!Withdraw(id)
<1> USE DEF IInv, TypeOK
<1>1. /\ ~running /\ ~running' /\ id \in listed /\ listed' = listed \ {id}
      /\ state' = state /\ next_id' = next_id
      /\ UNCHANGED running
  BY DEF RemoveTask, cardVars
<1>2. Batch!Listed = listed
  BY <1>1, IdleStates DEF Batch!Listed, Unfinished, Terminal
<1>3. \A r : {i \in listed' : state'[i] = r} = {i \in listed : state[i] = r} \ {id}
  BY <1>1
<1>4. running' = running
  BY <1>1
<1> QED
  BY <1>1, <1>2, <1>3, <1>4 DEF Batch!Withdraw

LEMMA RunRefines ==
  ASSUME IInv, NEW h \in Handlers, RunTasks(h)
  PROVE  Batch!Launch
<1>1. /\ ~running /\ running' /\ listed' = listed /\ state' = state /\ next_id' = next_id
      /\ Queued # {}
  BY DEF RunTasks, cardVars
<1>2. Unfinished' = Queued
  BY <1>1, IdleStates DEF Unfinished, Queued, Terminal
<1> QED
  BY <1>1, <1>2 DEF Batch!Launch, Queued

LEMMA SettleRefines ==
  ASSUME IInv, NEW id \in Ids,
         running, id \in listed, state[id] \notin Terminal,
         NEW result \in Terminal,
         state' = [state EXCEPT ![id] = result],
         running' = MaybeClearRunning(state'),
         UNCHANGED <<listed, next_id>>
  PROVE  Batch!Settle(id)
<1> USE DEF IInv, TypeOK
<1>1. Unfinished' = Unfinished \ {id}
  BY DEF Unfinished
<1>2. running' = (Unfinished' # {})
  BY DEF MaybeClearRunning, Unfinished
<1>3. (IF running' THEN Unfinished' ELSE {}) = Unfinished \ {id}
  BY <1>1, <1>2
<1>4. (IF running' THEN {} ELSE {i \in listed' : state'[i] = "queued"}) = {}
  BY <1>2 DEF Unfinished, Terminal
<1>5. CASE result = "succeeded"
  <2>1. /\ {i \in listed' : state'[i] = "succeeded"}
             = {i \in listed : state[i] = "succeeded"} \union {id}
        /\ {i \in listed' : state'[i] = "failed"} = {i \in listed : state[i] = "failed"}
    BY <1>5 DEF Terminal
  <2> QED
    BY <1>1, <1>2, <1>3, <1>4, <2>1 DEF Batch!Settle, Unfinished
<1>6. CASE result = "failed"
  <2>1. /\ {i \in listed' : state'[i] = "failed"}
             = {i \in listed : state[i] = "failed"} \union {id}
        /\ {i \in listed' : state'[i] = "succeeded"} = {i \in listed : state[i] = "succeeded"}
    BY <1>6 DEF Terminal
  <2> QED
    BY <1>1, <1>2, <1>3, <1>4, <2>1 DEF Batch!Settle, Unfinished
<1> QED
  BY <1>5, <1>6 DEF Terminal

LEMMA SpawnFailureRefines ==
  ASSUME IInv, NEW h \in Handlers, NEW id \in Ids, SpawnWorkerFails(h, id)
  PROVE  Batch!Settle(id)
<1>1. running /\ id \in listed /\ state[id] \notin Terminal
  BY DEF SpawnWorkerFails, IsNextOf, IInv, ClaimInv, Terminal
<1>2. /\ state' = [state EXCEPT ![id] = "failed"]
      /\ running' = MaybeClearRunning(state')
      /\ UNCHANGED <<listed, next_id>>
  BY <1>1 DEF SpawnWorkerFails, Put
<1>3. "failed" \in Terminal
  BY DEF Terminal
<1> QED
  BY <1>1, <1>2, <1>3, SettleRefines

LEMMA FinishRefines ==
  ASSUME IInv, NEW id \in Ids, FinishTask(id)
  PROVE  Batch!Settle(id)
<1> DEFINE result == IF outcome[id] = "ok" THEN "succeeded" ELSE "failed"
<1>1. /\ running /\ id \in listed
      /\ state' = [state EXCEPT ![id] = result]
      /\ running' = MaybeClearRunning(state')
      /\ UNCHANGED <<listed, next_id>>
  BY FinishEffect
<1>2. state[id] \notin Terminal
  BY FinishEffect DEF IInv, WorkerInv, WorkerAgrees, Live, Terminal
<1>3. result \in Terminal
  BY DEF Terminal
<1> QED
  BY <1>1, <1>2, <1>3, SettleRefines

(* What a client sees of the queue: when none of it changes, the batch      *)
(* stutters.                                                                *)
LEMMA StutterRefines ==
  ASSUME UNCHANGED <<listed, next_id, running>>,
         Unfinished' = Unfinished,
         \A id \in listed : state'[id] # state[id] => running /\ {state[id], state'[id]} \subseteq {"queued", "running"}
  PROVE  UNCHANGED Batch!vars
BY DEF Batch!vars

LEMMA NextRefines == IInv /\ [Next]_vars => [Batch!Next]_(Batch!vars)
<1> SUFFICES ASSUME IInv, [Next]_vars PROVE Batch!Next \/ UNCHANGED Batch!vars
  OBVIOUS
<1>1. CASE AddTask
  <2>1. next_id \in Ids
    BY <1>1 DEF AddTask, Ids, IInv, TypeOK
  <2>2. PICK id \in Ids : id = next_id
    BY <2>1
  <2>3. Batch!Submit(id)
    BY <1>1, <2>2, AddRefines
  <2> QED
    BY <2>3 DEF Batch!Next
<1>2. ASSUME NEW id \in Ids, RemoveTask(id) PROVE Batch!Next
  BY <1>2, RemoveRefines DEF Batch!Next
<1>3. ASSUME NEW h \in Handlers, RunTasks(h) PROVE Batch!Next
  BY <1>3, RunRefines DEF Batch!Next
<1>4. ASSUME NEW h \in Handlers, NEW id \in Ids, SpawnWorkerFails(h, id) PROVE Batch!Next
  BY <1>4, SpawnFailureRefines DEF Batch!Next
<1>5. ASSUME NEW id \in Ids, FinishTask(id) PROVE Batch!Next
  BY <1>5, FinishRefines DEF Batch!Next
<1>6. ASSUME NEW h \in Handlers, ReplyToRun(h) PROVE UNCHANGED Batch!vars
  <2>1. /\ UNCHANGED <<listed, next_id, state>>
        /\ running' = running
    BY <1>6 DEF ReplyToRun, cardVars, MaybeClearRunning, IInv, TypeOK, RunInv
  <2> QED
    BY <2>1, StutterRefines DEF Unfinished
<1>7. ASSUME NEW id \in Ids, MarkRunning(id) PROVE UNCHANGED Batch!vars
  <2>1. /\ UNCHANGED <<listed, next_id, running>>
        /\ running /\ id \in listed /\ state[id] = "queued"
        /\ state' = [state EXCEPT ![id] = "running"]
    BY <1>7 DEF MarkRunning, queueVars, Put, IInv, WorkerInv, WorkerAgrees, Live
  <2>2. Unfinished' = Unfinished
    BY <2>1 DEF Unfinished, Terminal, IInv, TypeOK
  <2> QED
    BY <2>1, <2>2, StutterRefines DEF IInv, TypeOK
<1>8. CASE UNCHANGED <<listed, next_id, running, state>>
  BY <1>8, StutterRefines DEF Unfinished
<1>9. ASSUME NEW id \in Ids,
             \/ CreateForwarders(id) \/ ChainRun(id) \/ SendProgress(id)
             \/ ForwardProgress(id) \/ ForwardChainStep(id)
      PROVE  UNCHANGED <<listed, next_id, running, state>>
  BY <1>9 DEF CreateForwarders, ChainRun, ResolveChain, StartStep, StepSucceeds, StepFails,
     SendProgress, ForwardProgress, ForwardChainStep, queueVars, cardVars
<1>10. ASSUME NEW h \in Handlers, NEW id \in Ids, SpawnWorker(h, id)
       PROVE  UNCHANGED <<listed, next_id, running, state>>
  BY <1>10 DEF SpawnWorker, queueVars, cardVars
<1>11. CASE UNCHANGED vars
  BY <1>8, <1>11 DEF vars, queueVars, cardVars
<1> QED
  BY <1>1, <1>2, <1>3, <1>4, <1>5, <1>6, <1>7, <1>8, <1>9, <1>10, <1>11
  DEF Next, RunLoop, WorkerThread

(* The queue handlers, the spawn loop, the workers and their forwarders     *)
(* together behave like the batch of TaskBatch: a launch takes every queued *)
(* task, each settles once, and the flag is down when the last one has.     *)
THEOREM Implementation == Spec => ImplementsBatch
<1> QED
  BY InitRefines, NextRefines, Invariance, PTL DEF Spec, ImplementsBatch, Batch!Spec
=============================================================================
