------------------------------ MODULE Dashboard ------------------------------
(***************************************************************************)
(* The task queue of the dashboard and the threads that work on it:        *)
(* dashboard/src/lib.rs.                                                   *)
(*                                                                         *)
(* The HTTP handlers add_task, remove_task and run_tasks, one worker       *)
(* thread per launched task (run_task_worker) and two forwarder threads    *)
(* per worker share one DashboardState behind a RwLock.  A critical        *)
(* section of that lock is one action.  run_tasks releases the lock before *)
(* it spawns the workers, so its spawn loop is interleaved with the        *)
(* workers it has already started, and its last critical section with the  *)
(* handlers of other clients.                                              *)
(*                                                                         *)
(* A worker runs the chain of its task and sends StepStarted messages down *)
(* one channel and phase, script and log messages down another; each       *)
(* channel is drained by a forwarder thread of its own, so the order       *)
(* between the two is lost.  StepStarted messages are numbered 1, 2, ...   *)
(* and a channel is FIFO, so the content of the chain channel is the       *)
(* interval seen+1 .. sent; the messages of the other channel are told     *)
(* apart by no property here, so it is a count.                            *)
(***************************************************************************)
EXTENDS FiniteSets, Naturals

CONSTANTS
  MaxBatchTasks,  \* MAX_BATCH_TASKS of worker/src/lib.rs, 4 in the code
  MaxIds,         \* bound: ids handed out in a behaviour
  MaxSteps,       \* bound: steps of a chain
  MaxBacklog,     \* bound: unread messages in a progress channel
  MaxPanics,      \* bound: workers that fail to create a forwarder thread
  Handlers        \* requests POST /api/run that may be in their spawn loop

Ids == 0 .. (MaxIds - 1)

ASSUME BoundsAssumption ==
  /\ MaxBatchTasks \in Nat
  /\ MaxIds \in Nat
  /\ MaxSteps \in Nat
  /\ MaxBacklog \in Nat
  /\ MaxPanics \in Nat

VARIABLES
  (* DashboardState *)
  listed,         \* ids in `tasks`; the Vec is in the order of the ids
  next_id,
  running,
  (* TaskEntry, field by field; what a removed task left behind is dead *)
  state,
  chain_steps,
  chain_step_index,
  chain_failed_step_index,   \* 0 stands for None
  (* run_tasks: handlers between setting `running` and their reply *)
  in_loop,
  tasks_to_run,
  started_any,
  (* the worker thread of each task, and run_task_chain on it *)
  worker,
  total,          \* length of the resolved chain, 0 before it is resolved
  sent,           \* StepStarted messages sent, i.e. steps started
  completed,      \* steps whose run and hand-off succeeded
  outcome,        \* what run_task_chain returned
  (* the two forwarder threads of each worker *)
  seen,           \* StepStarted messages forwarded
  backlog,        \* progress messages sent and not forwarded
  (* the event stream, as far as it is needed here *)
  last_event      \* kind of the last event pushed about each task

queueVars  == <<listed, next_id, running>>
cardVars   == <<state, chain_steps, chain_step_index, chain_failed_step_index>>
loopVars   == <<in_loop, tasks_to_run, started_any>>
chainVars  == <<total, sent, completed, outcome>>
channelVars == <<seen, backlog>>
vars == <<queueVars, cardVars, loopVars, worker, chainVars, channelVars,
          last_event>>

TaskState      == {"queued", "running", "succeeded", "failed"}
ChainStepState == {"queued", "running", "succeeded", "failed"}
Terminal       == {"succeeded", "failed"}
Worker  == {"none", "spawned", "marked", "executing", "joining", "done",
            "panicked"}
Outcome == {"open", "ok", "err"}
Event   == {"none", "loaded", "progress", "chain_step", "finished"}

(* A worker thread that exists and has not reported the end of its task. *)
Live == {"spawned", "marked", "executing", "joining"}

StepLists == UNION {[1 .. n -> ChainStepState] : n \in 0 .. MaxSteps}

NoSteps == <<>>

TypeOK ==
  /\ listed \subseteq Ids
  /\ next_id \in 0 .. MaxIds
  /\ running \in BOOLEAN
  /\ state \in [Ids -> TaskState]
  /\ chain_steps \in [Ids -> StepLists]
  /\ chain_step_index \in [Ids -> 0 .. MaxSteps]
  /\ chain_failed_step_index \in [Ids -> 0 .. MaxSteps]
  /\ in_loop \in [Handlers -> BOOLEAN]
  /\ tasks_to_run \in [Handlers -> SUBSET Ids]
  /\ started_any \in [Handlers -> BOOLEAN]
  /\ worker \in [Ids -> Worker]
  /\ total \in [Ids -> 0 .. MaxSteps]
  /\ sent \in [Ids -> 0 .. MaxSteps]
  /\ completed \in [Ids -> 0 .. MaxSteps]
  /\ outcome \in [Ids -> Outcome]
  /\ seen \in [Ids -> 0 .. MaxSteps]
  /\ backlog \in [Ids -> 0 .. MaxBacklog]
  /\ last_event \in [Ids -> Event]

Init ==
  /\ listed = {}
  /\ next_id = 0
  /\ running = FALSE
  /\ state = [id \in Ids |-> "queued"]
  /\ chain_steps = [id \in Ids |-> NoSteps]
  /\ chain_step_index = [id \in Ids |-> 0]
  /\ chain_failed_step_index = [id \in Ids |-> 0]
  /\ in_loop = [h \in Handlers |-> FALSE]
  /\ tasks_to_run = [h \in Handlers |-> {}]
  /\ started_any = [h \in Handlers |-> FALSE]
  /\ worker = [id \in Ids |-> "none"]
  /\ total = [id \in Ids |-> 0]
  /\ sent = [id \in Ids |-> 0]
  /\ completed = [id \in Ids |-> 0]
  /\ outcome = [id \in Ids |-> "open"]
  /\ seen = [id \in Ids |-> 0]
  /\ backlog = [id \in Ids |-> 0]
  /\ last_event = [id \in Ids |-> "none"]

PushEvent(id, kind) == last_event' = [last_event EXCEPT ![id] = kind]

(* `tasks.iter_mut().find(|j| j.id == id)`, then an assignment: nothing     *)
(* happens to a task that is no longer listed.                              *)
Put(field, id, value) ==
  IF id \in listed THEN [field EXCEPT ![id] = value] ELSE field

(***************************************************************************)
(* maybe_clear_running: the flag after the tasks' states became `st`.      *)
(***************************************************************************)
MaybeClearRunning(st) == running /\ \E id \in listed : st[id] \notin Terminal

-----------------------------------------------------------------------------
(***************************************************************************)
(* The queue handlers.  A refused request changes nothing, so only the     *)
(* accepted ones are actions.                                              *)
(***************************************************************************)

QueueFull == Cardinality(listed) >= MaxBatchTasks

(* load_task accepted the directory. *)
AddTask ==
  /\ ~running
  /\ ~QueueFull
  /\ next_id < MaxIds
  /\ listed' = listed \union {next_id}
  /\ next_id' = next_id + 1
  /\ PushEvent(next_id, "loaded")
  /\ UNCHANGED <<running, cardVars, loopVars, worker, chainVars, channelVars>>

RemoveTask_AnyTime(id) ==
  /\ id \in listed
  /\ state[id] # "running"
  /\ listed' = listed \ {id}
  /\ UNCHANGED <<next_id, running, cardVars, loopVars, worker, chainVars,
                 channelVars, last_event>>

RemoveTask(id) ==
  /\ ~running
  /\ id \in listed
  /\ listed' = listed \ {id}
  /\ UNCHANGED <<next_id, running, cardVars, loopVars, worker, chainVars,
                 channelVars, last_event>>

-----------------------------------------------------------------------------
(***************************************************************************)
(* run_tasks: the claim under the lock, then one iteration of the spawn    *)
(* loop at a time, then the reply.                                         *)
(***************************************************************************)

Queued_AlsoFailed == {id \in listed : state[id] \in {"queued", "failed"}}

Queued == {id \in listed : state[id] = "queued"}

RunTasks(h) ==
  /\ ~in_loop[h]
  /\ ~running
  /\ Queued # {}
  /\ running' = TRUE
  /\ in_loop' = [in_loop EXCEPT ![h] = TRUE]
  /\ tasks_to_run' = [tasks_to_run EXCEPT ![h] = Queued]
  /\ started_any' = [started_any EXCEPT ![h] = FALSE]
  /\ UNCHANGED <<listed, next_id, cardVars, worker, chainVars, channelVars,
                 last_event>>

(* The next task of the loop: the list was collected in the order of ids. *)
IsNextOf(id, h) ==
  /\ in_loop[h]
  /\ id \in tasks_to_run[h]
  /\ \A j \in tasks_to_run[h] : id <= j

SpawnWorker(h, id) ==
  /\ IsNextOf(id, h)
  /\ tasks_to_run' = [tasks_to_run EXCEPT ![h] = @ \ {id}]
  /\ started_any' = [started_any EXCEPT ![h] = TRUE]
  /\ worker' = [worker EXCEPT ![id] = "spawned"]
  /\ UNCHANGED <<queueVars, cardVars, in_loop, chainVars, channelVars,
                 last_event>>

SpawnWorkerFails_KeepsFlag(h, id) ==
  /\ IsNextOf(id, h)
  /\ tasks_to_run' = [tasks_to_run EXCEPT ![h] = @ \ {id}]
  /\ state' = [state EXCEPT ![id] = "failed"]
  /\ PushEvent(id, "finished")
  /\ UNCHANGED <<listed, next_id, running, chain_steps, chain_step_index,
                 chain_failed_step_index, in_loop, started_any, worker,
                 chainVars, channelVars>>

SpawnWorkerFails(h, id) ==
  /\ IsNextOf(id, h)
  /\ tasks_to_run' = [tasks_to_run EXCEPT ![h] = @ \ {id}]
  /\ state' = Put(state, id, "failed")
  /\ running' = MaybeClearRunning(state')
  /\ PushEvent(id, "finished")
  /\ UNCHANGED <<listed, next_id, chain_steps, chain_step_index,
                 chain_failed_step_index, in_loop, started_any, worker,
                 chainVars, channelVars>>

ReplyToRun(h) ==
  /\ in_loop[h]
  /\ tasks_to_run[h] = {}
  /\ in_loop' = [in_loop EXCEPT ![h] = FALSE]
  /\ running' = IF started_any[h] THEN running ELSE MaybeClearRunning(state)
  /\ UNCHANGED <<listed, next_id, cardVars, tasks_to_run, started_any, worker,
                 chainVars, channelVars, last_event>>

-----------------------------------------------------------------------------
(***************************************************************************)
(* run_task_worker, up to the chain.                                       *)
(***************************************************************************)

MarkRunning(id) ==
  /\ worker[id] = "spawned"
  /\ worker' = [worker EXCEPT ![id] = "marked"]
  /\ state' = Put(state, id, "running")
  /\ PushEvent(id, "progress")
  /\ UNCHANGED <<queueVars, chain_steps, chain_step_index,
                 chain_failed_step_index, loopVars, chainVars, channelVars>>

(* The two calls of std::thread::spawn, which panics when the system        *)
(* cannot create the thread.  The panic ends the worker and nothing else:   *)
(* no lock is held, so nothing is poisoned, and nobody joins a worker.      *)
CreateForwarders(id) ==
  /\ worker[id] = "marked"
  /\ \/ worker' = [worker EXCEPT ![id] = "executing"]
     \/ /\ Cardinality({i \in Ids : worker[i] = "panicked"}) < MaxPanics
        /\ worker' = [worker EXCEPT ![id] = "panicked"]
  /\ UNCHANGED <<queueVars, cardVars, loopVars, chainVars, channelVars,
                 last_event>>

-----------------------------------------------------------------------------
(***************************************************************************)
(* run_task_chain_blocking_with_progress, as the dashboard sees it: the    *)
(* messages it sends and the step at which it stops.                       *)
(***************************************************************************)

Return(id, result) ==
  /\ outcome' = [outcome EXCEPT ![id] = result]
  /\ worker' = [worker EXCEPT ![id] = "joining"]

(* resolve_chain_steps: a chain of any length, or an unreadable task, a     *)
(* repeated directory: an error before any step.                            *)
ResolveChain(id) ==
  /\ worker[id] = "executing"
  /\ total[id] = 0
  /\ \/ /\ \E n \in 1 .. MaxSteps : total' = [total EXCEPT ![id] = n]
        /\ UNCHANGED <<outcome, worker>>
     \/ /\ Return(id, "err")
        /\ UNCHANGED total
  /\ UNCHANGED <<queueVars, cardVars, loopVars, sent, completed, channelVars,
                 last_event>>

(* Had the loop not waited for a step, nor counted. *)
StartStep_OneTooMany(id) ==
  /\ worker[id] = "executing"
  /\ total[id] # 0
  /\ sent' = [sent EXCEPT ![id] = @ + 1]
  /\ UNCHANGED <<queueVars, cardVars, loopVars, worker, total, completed,
                 outcome, channelVars, last_event>>

StartStep(id) ==
  /\ worker[id] = "executing"
  /\ completed[id] = sent[id]
  /\ sent[id] < total[id]
  /\ sent' = [sent EXCEPT ![id] = @ + 1]
  /\ UNCHANGED <<queueVars, cardVars, loopVars, worker, total, completed,
                 outcome, channelVars, last_event>>

(* A phase, a script boundary or a line of output. *)
SendProgress(id) ==
  /\ worker[id] = "executing"
  /\ completed[id] < sent[id]
  /\ backlog[id] < MaxBacklog
  /\ backlog' = [backlog EXCEPT ![id] = @ + 1]
  /\ UNCHANGED <<queueVars, cardVars, loopVars, worker, chainVars, seen,
                 last_event>>

(* The step, and the collection of what it hands to the next, went well.    *)
(* After the last step the call returns and drops both senders.             *)
StepSucceeds(id) ==
  /\ worker[id] = "executing"
  /\ completed[id] < sent[id]
  /\ completed' = [completed EXCEPT ![id] = sent[id]]
  /\ \/ /\ sent[id] = total[id]
        /\ Return(id, "ok")
     \/ /\ sent[id] < total[id]
        /\ UNCHANGED <<outcome, worker>>
  /\ UNCHANGED <<queueVars, cardVars, loopVars, total, sent, channelVars,
                 last_event>>

(* The overlay, the run or the hand-off of the step failed. *)
StepFails(id) ==
  /\ worker[id] = "executing"
  /\ completed[id] < sent[id]
  /\ Return(id, "err")
  /\ UNCHANGED <<queueVars, cardVars, loopVars, total, sent, completed,
                 channelVars, last_event>>

-----------------------------------------------------------------------------
(***************************************************************************)
(* The forwarder threads.                                                  *)
(***************************************************************************)

ForwardProgress(id) ==
  /\ backlog[id] > 0
  /\ backlog' = [backlog EXCEPT ![id] = @ - 1]
  /\ PushEvent(id, "progress")
  /\ UNCHANGED <<queueVars, cardVars, loopVars, worker, chainVars, seen>>

(* ensure_chain_steps *)
WithSteps(steps, n) ==
  [i \in 1 .. n |-> IF i \in DOMAIN steps THEN steps[i] ELSE "queued"]

(* mark_prior_running_steps_succeeded, then the step itself *)
MarkStepRunning(steps, k) ==
  [i \in DOMAIN steps |->
     IF i = k THEN "running"
     ELSE IF steps[i] = "running" THEN "succeeded" ELSE steps[i]]

ForwardChainStep(id) ==
  LET k == seen[id] + 1 IN
  /\ seen[id] < sent[id]
  /\ seen' = [seen EXCEPT ![id] = k]
  /\ chain_steps' = Put(chain_steps, id,
                         MarkStepRunning(WithSteps(chain_steps[id], total[id]), k))
  /\ chain_step_index' = Put(chain_step_index, id, k)
  /\ chain_failed_step_index' = Put(chain_failed_step_index, id, 0)
  /\ PushEvent(id, "chain_step")
  /\ UNCHANGED <<queueVars, state, loopVars, worker, chainVars, backlog>>

-----------------------------------------------------------------------------
(***************************************************************************)
(* run_task_worker, after the chain: join both forwarders, then report.    *)
(***************************************************************************)

ForwardersJoined_ProgressOnly(id) == backlog[id] = 0

ForwardersJoined_ChainOnly(id) == seen[id] = sent[id]

(* Had the worker kept a sender, no channel would ever close. *)
ForwardersJoined_SenderKept(id) == FALSE

ForwardersJoined(id) == backlog[id] = 0 /\ seen[id] = sent[id]

(* mark_chain_failure: the step it blames, 0 for none.  It is the first     *)
(* running step, or else the last one announced unless that succeeded.      *)
FirstRunning(steps, k) ==
  /\ k \in DOMAIN steps
  /\ steps[k] = "running"
  /\ \A i \in DOMAIN steps : steps[i] = "running" => k <= i

IsFailedStep(steps, index, k) ==
  \/ FirstRunning(steps, k)
  \/ /\ \A i \in DOMAIN steps : steps[i] # "running"
     /\ k = index
     /\ k \in DOMAIN steps
     /\ steps[k] # "succeeded"

FailedStep(steps, index) ==
  IF \E k \in DOMAIN steps : IsFailedStep(steps, index, k)
  THEN CHOOSE k \in DOMAIN steps : IsFailedStep(steps, index, k)
  ELSE 0

(* sync_chain_steps_from_result: one result per step of the chain. *)
AllSucceeded(n) == [i \in 1 .. n |-> "succeeded"]

ReportSuccess(id) ==
  /\ outcome[id] = "ok"
  /\ state' = Put(state, id, "succeeded")
  /\ chain_steps' = Put(chain_steps, id, AllSucceeded(total[id]))
  /\ chain_step_index' = Put(chain_step_index, id, total[id])
  /\ chain_failed_step_index' = Put(chain_failed_step_index, id, 0)

FailStep(steps, k) == [i \in DOMAIN steps |-> IF i = k THEN "failed" ELSE steps[i]]

ReportFailure(id) ==
  LET k == FailedStep(chain_steps[id], chain_step_index[id]) IN
  /\ outcome[id] = "err"
  /\ state' = Put(state, id, "failed")
  /\ chain_failed_step_index' = Put(chain_failed_step_index, id, k)
  /\ chain_steps' = Put(chain_steps, id, FailStep(chain_steps[id], k))
  /\ chain_step_index' = IF k = 0 THEN chain_step_index ELSE Put(chain_step_index, id, k)

FinishTask(id) ==
  /\ worker[id] = "joining"
  /\ ForwardersJoined(id)
  /\ ReportSuccess(id) \/ ReportFailure(id)
  /\ worker' = [worker EXCEPT ![id] = "done"]
  /\ running' = MaybeClearRunning(state')
  /\ PushEvent(id, "finished")
  /\ UNCHANGED <<listed, next_id, loopVars, chainVars, channelVars>>

-----------------------------------------------------------------------------
RunLoop(h) == ReplyToRun(h) \/ \E id \in Ids : SpawnWorker(h, id) \/ SpawnWorkerFails(h, id)

ChainRun(id) == ResolveChain(id) \/ StartStep(id) \/ StepSucceeds(id) \/ StepFails(id)

WorkerThread(id) ==
  \/ MarkRunning(id)
  \/ CreateForwarders(id)
  \/ ChainRun(id)
  \/ SendProgress(id)
  \/ FinishTask(id)

Next ==
  \/ AddTask
  \/ \E id \in Ids : RemoveTask(id)
  \/ \E h \in Handlers : RunTasks(h) \/ RunLoop(h)
  \/ \E id \in Ids : WorkerThread(id) \/ ForwardProgress(id) \/ ForwardChainStep(id)

Spec == Init /\ [][Next]_vars

(***************************************************************************)
(* A handler that is in its loop and a thread that can go on do go on: the *)
(* operating system schedules them.  A step of a chain is taken to end,    *)
(* well or badly: nothing in the code bounds the time a script takes.      *)
(* Users owe nothing, and a script may be silent.                          *)
(***************************************************************************)
Fairness ==
  /\ \A h \in Handlers : WF_vars(RunLoop(h))
  /\ \A id \in Ids :
       /\ WF_vars(MarkRunning(id) \/ CreateForwarders(id) \/ FinishTask(id))
       /\ WF_vars(ChainRun(id))
       /\ WF_vars(ForwardProgress(id))
       /\ WF_vars(ForwardChainStep(id))

FairSpec == Spec /\ Fairness

-----------------------------------------------------------------------------
(***************************************************************************)
(* Properties.                                                             *)
(***************************************************************************)

(* A handler has yet to spawn a worker for the task. *)
Claimed(id) == \E h \in Handlers : in_loop[h] /\ id \in tasks_to_run[h]

(* Work in hand is always covered by the flag: a task that a handler is     *)
(* about to start, or that a worker thread is on, is listed, is not         *)
(* finished, and `running` is up, so that no request can remove it, add to  *)
(* the list or launch it again.  The flag is cleared by whichever worker or *)
(* failed spawn comes last, while the loop of run_tasks may still be going. *)
RunningCoversWork ==
  \A id \in Ids :
    Claimed(id) \/ worker[id] \in Live =>
      running /\ id \in listed /\ state[id] \notin Terminal

(* The flag never stays up with nobody left to clear it: some unfinished    *)
(* task still has a handler or a worker thread that will report it, unless  *)
(* that thread panicked.                                                    *)
RunningHasOwner ==
  running => \E id \in listed :
               /\ state[id] \notin Terminal
               /\ Claimed(id) \/ worker[id] \in Live \union {"panicked"}

(* What a finished task says about its chain is what happened: after a      *)
(* success every step succeeded; after a failure the steps before the one   *)
(* that failed succeeded, that one failed and is the one named, and those   *)
(* after it are queued; a chain that could not be resolved names none.      *)
(* The report is assembled from a channel read by another thread.           *)
ReportAccurate(id) ==
  LET bad == IF outcome[id] = "ok" THEN 0 ELSE sent[id] IN
  /\ state[id] = IF outcome[id] = "ok" THEN "succeeded" ELSE "failed"
  /\ chain_failed_step_index[id] = bad
  /\ chain_steps[id] =
       [i \in 1 .. (IF sent[id] = 0 THEN 0 ELSE total[id]) |->
          IF bad = 0 \/ i < bad THEN "succeeded"
          ELSE IF i = bad THEN "failed" ELSE "queued"]

ChainReportAccurate ==
  \A id \in listed : worker[id] = "done" => ReportAccurate(id)

(* `finished` is the last thing a client hears about a task: no phase, log  *)
(* or step event of its forwarder threads comes after it.  (The browser     *)
(* turns a task that gets such an event back to running.)                   *)
FinishedIsLast ==
  [][\A id \in Ids : last_event[id] = "finished" => last_event'[id] = "finished"]_vars

(***************************************************************************)
(* The dashboard implements the batch of module TaskBatch.                 *)
(***************************************************************************)
Unfinished == {id \in listed : state[id] \notin Terminal}

Batch == INSTANCE TaskBatch WITH
  Capacity  <- MaxBatchTasks,
  used      <- 0 .. (next_id - 1),
  waiting   <- IF running THEN {} ELSE {id \in listed : state[id] = "queued"},
  active    <- IF running THEN Unfinished ELSE {},
  succeeded <- {id \in listed : state[id] = "succeeded"},
  failed    <- {id \in listed : state[id] = "failed"},
  busy      <- running

(* Threads, locks and channels come to this: a launch takes every queued    *)
(* task at once, each of them settles exactly once and the flag is down     *)
(* again exactly when the last one has.                                     *)
ImplementsBatch == Batch!Spec

(* And every launched task does settle, unless the thread that was on it    *)
(* panicked; so every run ends, unless one of its threads did.              *)
LaunchedTaskSettles ==
  \A id \in Ids :
    (running /\ id \in Unfinished) ~> (id \notin Unfinished \/ worker[id] = "panicked")

-----------------------------------------------------------------------------
(***************************************************************************)
(* The inductive invariant behind the properties, in named parts.          *)
(***************************************************************************)

(* What the card of a task shows while its chain has been announced up to   *)
(* step `seen`.                                                             *)
Shown(id) ==
  [i \in 1 .. (IF seen[id] = 0 THEN 0 ELSE total[id]) |->
     IF i < seen[id] THEN "succeeded"
     ELSE IF i = seen[id] THEN "running" ELSE "queued"]

(* Claims are exclusive, and a claimed task is one nobody has touched.      *)
ClaimInv ==
  /\ \A h \in Handlers : \A id \in Ids :
       in_loop[h] /\ id \in tasks_to_run[h] =>
         running /\ id \in listed /\ state[id] = "queued" /\ worker[id] = "none"
  /\ \A h, g \in Handlers : \A id \in Ids :
       /\ in_loop[h] /\ id \in tasks_to_run[h]
       /\ in_loop[g] /\ id \in tasks_to_run[g]
       => h = g

(* The thread of a task and the state the task is in, one with the other.   *)
WorkerAgrees(id) ==
  /\ worker[id] \in Live \union {"panicked"} =>
       /\ running
       /\ id \in listed
       /\ state[id] = IF worker[id] = "spawned" THEN "queued" ELSE "running"
  /\ worker[id] = "none" => state[id] \in {"queued", "failed"}
  /\ worker[id] = "done" =>
       state[id] = IF outcome[id] = "ok" THEN "succeeded" ELSE "failed"
  /\ id >= next_id =>
       id \notin listed /\ worker[id] = "none" /\ state[id] = "queued"

WorkerInv == \A id \in Ids : WorkerAgrees(id)

(* A run has an unfinished task, and a launched task that nobody has        *)
(* started still has someone to start it.                                   *)
RunInv ==
  /\ running => \E id \in listed : state[id] \notin Terminal
  /\ running => \A id \in listed :
       state[id] = "queued" => Claimed(id) \/ worker[id] = "spawned"

(* Where a chain can be, given where its thread is.                         *)
ChainInv ==
  \A id \in Ids :
    /\ seen[id] <= sent[id]
    /\ completed[id] <= sent[id]
    /\ sent[id] <= completed[id] + 1
    /\ sent[id] <= total[id]
    /\ worker[id] \in {"none", "spawned", "marked", "panicked"} =>
         total[id] = 0 /\ backlog[id] = 0 /\ outcome[id] = "open"
    /\ worker[id] = "executing" =>
         /\ outcome[id] = "open"
         /\ completed[id] = sent[id] /\ total[id] # 0 => sent[id] < total[id]
    /\ worker[id] \in {"joining", "done"} =>
         /\ outcome[id] \in {"ok", "err"}
         /\ outcome[id] = "ok" => sent[id] = total[id] /\ total[id] # 0
         /\ outcome[id] = "err" => sent[id] # 0 \/ total[id] = 0
    /\ worker[id] = "done" => backlog[id] = 0 /\ seen[id] = sent[id]

CardFollows(id) ==
  worker[id] # "done" =>
    /\ chain_steps[id] = Shown(id)
    /\ chain_step_index[id] = seen[id]
    /\ chain_failed_step_index[id] = 0

CardInv == \A id \in Ids : CardFollows(id)

(* A task whose end was announced has no thread left, hence nothing in its  *)
(* channels.                                                                *)
EventInv ==
  \A id \in Ids :
    last_event[id] = "finished" =>
      /\ id < next_id
      /\ worker[id] \in {"none", "done"}
      /\ state[id] \in Terminal

IInv ==
  /\ TypeOK
  /\ ClaimInv
  /\ WorkerInv
  /\ RunInv
  /\ ChainInv
  /\ CardInv
  /\ ChainReportAccurate
  /\ EventInv
=============================================================================
