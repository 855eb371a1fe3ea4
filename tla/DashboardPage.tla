--------------------------- MODULE DashboardPage ---------------------------
(***************************************************************************)
(* One browser page of the dashboard (dashboard/src/dashboard.html) and    *)
(* the server it talks to.                                                 *)
(*                                                                         *)
(* The server's queue is the batch of module TaskBatch, which module       *)
(* Dashboard implements, with an event pushed wherever dashboard/src/      *)
(* lib.rs pushes one; its event stream is module EventStream.  When it is  *)
(* loaded the page asks for /api/status and connects to /events, and       *)
(* nothing orders the two: the answer replaces the cards whenever it       *)
(* comes, and each event is applied to whatever card is there.  A page     *)
(* that loses its connection connects again and keeps its cards.           *)
(*                                                                         *)
(* An event travels and is handled in one step: what is on its way counts  *)
(* as not yet sent.                                                        *)
(***************************************************************************)
EXTENDS FiniteSets, Naturals, Sequences

CONSTANTS
  Ids,              \* bound: tasks that may be submitted
  Capacity,         \* of the list of tasks
  ReplayCapacity,   \* of the replay buffer
  ChannelCapacity,  \* of the broadcast channel
  MaxChatter,       \* bound: phase and script events beyond one per task
  MaxBreaks,        \* bound: connections lost and pages reloaded
  Others            \* whether other clients remove tasks and start runs too

ASSUME PageAssumption ==
  /\ IsFiniteSet(Ids)
  /\ Capacity \in Nat
  /\ ReplayCapacity \in Nat \ {0}
  /\ ChannelCapacity \in Nat \ {0}
  /\ MaxChatter \in Nat
  /\ MaxBreaks \in Nat
  /\ Others \in BOOLEAN

MaxEvents == 3 * Cardinality(Ids) + MaxChatter

Page == "page"
Conns == {Page}

VARIABLES
  used, waiting, active, succeeded, failed, busy,           \* TaskBatch
  started,        \* launched tasks whose worker has marked them running
  log,            \* the events pushed, the n-th at n
  chatter,        \* phase and script events pushed beyond the first phases
  pushed, replay, conn, rx, snapshot, subscribed_at, last,  \* EventStream
  cards,          \* `tasks` of the page, "absent" where it has none
  shown_running,  \* `running` of the page
  status_stage,   \* of the request for /api/status
  status_answer,
  run_reply,      \* a POST /api/run was accepted and the page has not heard
  remove_reply,   \* tasks whose DELETE succeeded, the page has not heard
  breaks,         \* connections lost and pages reloaded
  (* history, for the properties only *)
  known,          \* the cards reflect the events 1 .. known, in order
  informed,       \* the latest event handled or read the effect of
  gap,            \* an event was handled without the one before it
  overwritten,    \* a status older than a handled event replaced the cards
  late_reply,     \* a run's reply came after the end of the run was handled
  misled          \* an end was handled while a removed task had a card

Queue  == INSTANCE TaskBatch
Stream == INSTANCE EventStream

queueVars   == <<used, waiting, active, succeeded, failed, busy>>
serverVars  == <<queueVars, started, log, chatter>>
streamVars  == <<pushed, replay, conn, rx, snapshot, subscribed_at, last>>
requestVars == <<status_stage, status_answer, run_reply, remove_reply, breaks>>
historyVars == <<known, informed, gap, overwritten, late_reply, misled>>
pageVars    == <<cards, shown_running, requestVars, historyVars>>
vars == <<serverVars, streamVars, pageVars>>

TaskState == {"queued", "running", "succeeded", "failed"}
CardState == TaskState \union {"absent"}
Terminal  == {"succeeded", "failed"}
EventKind == {"loaded", "phase", "script", "succeeded", "failed"}
Event     == [id : Ids, kind : EventKind]

NoCards  == [id \in Ids |-> "absent"]
NoAnswer == [cards |-> NoCards, running |-> FALSE, at |-> 0]

TypeOK ==
  /\ UNION {waiting, active, succeeded, failed} \subseteq used
  /\ used \subseteq Ids
  /\ busy \in BOOLEAN
  /\ started \subseteq active
  /\ log \in Seq(Event)
  /\ Len(log) = pushed
  /\ chatter \in 0 .. MaxChatter
  /\ Stream!TypeOK
  /\ cards \in [Ids -> CardState]
  /\ shown_running \in BOOLEAN
  /\ status_stage \in {"asked", "answered", "shown"}
  /\ status_answer \in [cards : [Ids -> CardState], running : BOOLEAN, at : 0 .. MaxEvents]
  /\ run_reply \in BOOLEAN
  /\ remove_reply \subseteq Ids
  /\ breaks \in 0 .. MaxBreaks
  /\ known \in 0 .. pushed
  /\ informed \in 0 .. pushed
  /\ gap \in BOOLEAN
  /\ overwritten \in BOOLEAN
  /\ late_reply \in BOOLEAN
  /\ misled \in BOOLEAN

Init ==
  /\ Queue!Init
  /\ started = {}
  /\ log = <<>>
  /\ chatter = 0
  /\ Stream!Init
  /\ cards = NoCards
  /\ shown_running = FALSE
  /\ status_stage = "asked"
  /\ status_answer = NoAnswer
  /\ run_reply = FALSE
  /\ remove_reply = {}
  /\ breaks = 0
  /\ known = 0
  /\ informed = 0
  /\ gap = FALSE
  /\ overwritten = FALSE
  /\ late_reply = FALSE
  /\ misled = FALSE

-----------------------------------------------------------------------------
(***************************************************************************)
(* The server.                                                             *)
(***************************************************************************)

PushEvent(id, kind) ==
  /\ Stream!Push
  /\ log' = Append(log, [id |-> id, kind |-> kind])

(* add_task, for whichever client. *)
SubmitTask(id) ==
  /\ Queue!Submit(id)
  /\ PushEvent(id, "loaded")
  /\ UNCHANGED <<started, chatter, pageVars>>

(* remove_task: no event tells of it. *)
RemoveTask(id) ==
  /\ Queue!Withdraw(id)
  /\ UNCHANGED <<started, log, chatter, streamVars>>

RunTasks ==
  /\ Queue!Launch
  /\ UNCHANGED <<started, log, chatter, streamVars>>

(* run_task_worker marks its task running. *)
StartTask(id) ==
  /\ id \in active \ started
  /\ started' = started \union {id}
  /\ PushEvent(id, "phase")
  /\ UNCHANGED <<queueVars, chatter, pageVars>>

(* forward_progress; forward_chain_step looks the same to the cards' state. *)
Progress(id) ==
  /\ id \in started
  /\ chatter < MaxChatter
  /\ chatter' = chatter + 1
  /\ \E kind \in {"phase", "script"} : PushEvent(id, kind)
  /\ UNCHANGED <<queueVars, started, pageVars>>

(* Had the worker reported without joining its forwarders.                  *)
SettleTask_NotJoined(id) ==
  /\ Queue!Settle(id)
  /\ PushEvent(id, IF id \in failed' THEN "failed" ELSE "succeeded")
  /\ UNCHANGED <<started, chatter, pageVars>>

(* The end of a worker, or a worker that could not be spawned.              *)
SettleTask(id) ==
  /\ Queue!Settle(id)
  /\ started' = started \ {id}
  /\ id \notin started => id \in failed'
  /\ PushEvent(id, IF id \in failed' THEN "failed" ELSE "succeeded")
  /\ UNCHANGED <<chatter, pageVars>>

StateOf(id) ==
  CASE id \in succeeded -> "succeeded"
    [] id \in failed    -> "failed"
    [] id \in started   -> "running"
    [] id \in (waiting \union active) \ started -> "queued"
    [] OTHER -> "absent"

(* get_status *)
AnswerStatus ==
  /\ status_stage = "asked"
  /\ status_stage' = "answered"
  /\ status_answer' =
       [cards |-> [id \in Ids |-> StateOf(id)], running |-> busy, at |-> pushed]
  /\ UNCHANGED <<serverVars, streamVars, cards, shown_running, run_reply,
                 remove_reply, breaks, historyVars>>

-----------------------------------------------------------------------------
(***************************************************************************)
(* The page.                                                               *)
(***************************************************************************)

(* The handler of the status: its cards replace the page's, one by one. *)
ShowStatus ==
  /\ status_stage = "answered"
  /\ status_stage' = "shown"
  /\ cards' = [id \in Ids |-> IF status_answer.cards[id] = "absent"
                              THEN cards[id] ELSE status_answer.cards[id]]
  /\ shown_running' = status_answer.running
  /\ status_answer' = NoAnswer
  /\ IF informed <= status_answer.at
     THEN /\ known' = status_answer.at
          /\ informed' = status_answer.at
          /\ gap' = FALSE
          /\ UNCHANGED overwritten
     ELSE /\ overwritten' = TRUE
          /\ UNCHANGED <<known, informed, gap>>
  /\ UNCHANGED <<serverVars, streamVars, run_reply, remove_reply, breaks,
                 late_reply, misled>>

(* handleEvent: what an event does to the card of its task ... *)
CardAfter_NoRepeatedEnd(kind, card) ==
  IF card = "absent"
  THEN IF kind = "loaded" THEN "queued" ELSE "absent"
  ELSE CASE kind = "loaded" -> card
         [] kind = "phase"  -> IF card = "queued" THEN "running" ELSE card
         [] kind = "script" -> "running"
         [] kind \in Terminal -> IF card = "running" THEN kind ELSE card

CardAfter(kind, card) ==
  IF card = "absent"
  THEN IF kind = "loaded" THEN "queued" ELSE "absent"
  ELSE CASE kind = "loaded" -> card
         [] kind = "phase"  -> IF card = "queued" THEN "running" ELSE card
         [] kind = "script" -> "running"
         [] kind \in Terminal -> kind

AllDone(cs) == \A id \in Ids : cs[id] \in Terminal \union {"absent"}

RunningAfter_Kept(kind, cs) == shown_running

(* ... and to `running`: the end of a task, with every card done, clears it. *)
RunningAfter(kind, cs) ==
  shown_running /\ ~(kind \in Terminal /\ AllDone(cs))

(* Every card is of a task that is still listed. *)
NoGhost == \A id \in Ids : cards[id] # "absent" => id \in Queue!Listed

HandleEvent(n) ==
  LET ev == log[n] IN
  /\ cards' = [cards EXCEPT ![ev.id] = CardAfter(ev.kind, @)]
  /\ shown_running' = RunningAfter(ev.kind, cards')
  /\ informed' = IF n > informed THEN n ELSE informed
  /\ IF n <= known + 1
     THEN known' = n /\ UNCHANGED gap
     ELSE gap' = TRUE /\ UNCHANGED known
  /\ misled' = (misled \/ (ev.kind \in Terminal /\ ~NoGhost))

ReceiveEvent ==
  /\ \/ Stream!SendReplay(Page) /\ HandleEvent(Head(snapshot[Page]))
     \/ Stream!SendLive(Page) /\ HandleEvent(rx[Page])
  /\ UNCHANGED <<serverVars, requestVars, overwritten, late_reply>>

(* connectSse, on loading and two seconds after a connection was lost.      *)
Connect ==
  /\ Stream!Subscribe(Page) \/ Stream!CopyReplay(Page) \/ Stream!SkipOverwritten(Page)
  /\ UNCHANGED <<serverVars, pageVars>>

LoseConnection ==
  /\ breaks < MaxBreaks
  /\ breaks' = breaks + 1
  /\ Stream!Close(Page)
  /\ UNCHANGED <<serverVars, cards, shown_running, status_stage, status_answer,
                 run_reply, remove_reply, historyVars>>

(* The user reloads the page: what was on its way to it is lost. *)
Refresh ==
  /\ breaks < MaxBreaks
  /\ breaks' = breaks + 1
  /\ Stream!Close(Page)
  /\ cards' = NoCards
  /\ shown_running' = FALSE
  /\ status_stage' = "asked"
  /\ status_answer' = NoAnswer
  /\ run_reply' = FALSE
  /\ remove_reply' = {}
  /\ known' = 0
  /\ informed' = 0
  /\ gap' = FALSE
  /\ overwritten' = FALSE
  /\ late_reply' = FALSE
  /\ misled' = FALSE
  /\ UNCHANGED serverVars

(* runAll: a request the server refuses leaves page and server as they were. *)
PageRuns ==
  /\ ~shown_running
  /\ RunTasks
  /\ run_reply' = TRUE
  /\ UNCHANGED <<cards, shown_running, status_stage, status_answer, remove_reply,
                 breaks, historyVars>>

(* The last run to end was seen to end by the page.                         *)
EndReflected ==
  ~busy /\ \A n \in 1 .. pushed : log[n].kind \in Terminal => n <= informed

RunReplyArrives ==
  /\ run_reply
  /\ run_reply' = FALSE
  /\ shown_running' = TRUE
  /\ late_reply' = (late_reply \/ EndReflected)
  /\ UNCHANGED <<serverVars, streamVars, cards, status_stage, status_answer,
                 remove_reply, breaks, known, informed, gap, overwritten, misled>>

(* removeTask: the button is on queued cards only. *)
PageRemoves(id) ==
  /\ cards[id] = "queued"
  /\ RemoveTask(id)
  /\ remove_reply' = remove_reply \union {id}
  /\ UNCHANGED <<cards, shown_running, status_stage, status_answer, run_reply,
                 breaks, historyVars>>

RemoveReplyArrives(id) ==
  /\ id \in remove_reply
  /\ remove_reply' = remove_reply \ {id}
  /\ cards' = [cards EXCEPT ![id] = "absent"]
  /\ UNCHANGED <<serverVars, streamVars, shown_running, status_stage,
                 status_answer, run_reply, breaks, historyVars>>

OtherClientRuns ==
  /\ Others
  /\ RunTasks
  /\ UNCHANGED pageVars

OtherClientRemoves(id) ==
  /\ Others
  /\ RemoveTask(id)
  /\ UNCHANGED pageVars

-----------------------------------------------------------------------------
Next ==
  \/ AnswerStatus \/ ShowStatus
  \/ ReceiveEvent \/ Connect \/ LoseConnection \/ Refresh
  \/ PageRuns \/ RunReplyArrives \/ OtherClientRuns
  \/ \E id \in Ids :
       \/ SubmitTask(id) \/ StartTask(id) \/ Progress(id) \/ SettleTask(id)
       \/ PageRemoves(id) \/ RemoveReplyArrives(id) \/ OtherClientRemoves(id)

Spec == Init /\ [][Next]_vars

-----------------------------------------------------------------------------
(***************************************************************************)
(* Properties.                                                             *)
(***************************************************************************)

(* Nothing is on its way to the page, and there is nothing it has missed.   *)
UpToDate ==
  /\ conn[Page] = "streaming" /\ snapshot[Page] = <<>> /\ rx[Page] = pushed + 1
  /\ status_stage = "shown"
  /\ ~run_reply
  /\ remove_reply = {}
  /\ known = pushed /\ ~gap

(* A page that is up to date shows every listed task in the state the       *)
(* server has it in, however often events were replayed to it and in        *)
(* whichever order status and events came, unless a status that was already *)
(* out of date replaced the cards.                                          *)
CardsConverge ==
  UpToDate /\ ~overwritten => \A id \in Queue!Listed : cards[id] = StateOf(id)

(* ... and it does not claim that a run is going on when none is, unless it *)
(* showed a removed task when it handled the end of the run, or was told of *)
(* the start of the run after its end.                                      *)
RunningRecovers ==
  UpToDate /\ ~overwritten /\ ~late_reply /\ ~misled => (shown_running => busy)

-----------------------------------------------------------------------------
(***************************************************************************)
(* The inductive invariant behind the two properties.  What the page shows *)
(* is compared with what a prefix of the event log tells, and what the     *)
(* whole log tells is what the server has.                                 *)
(***************************************************************************)

Told(l, id, kinds, n) == \E i \in 1 .. n : l[i].id = id /\ l[i].kind \in kinds

(* The state of a task that the first n events of a log tell. *)
StateTold(l, id, n) ==
  CASE Told(l, id, {"succeeded"}, n) -> "succeeded"
    [] ~Told(l, id, {"succeeded"}, n) /\ Told(l, id, {"failed"}, n) -> "failed"
    [] ~Told(l, id, Terminal, n) /\ Told(l, id, {"phase", "script"}, n) -> "running"
    [] ~Told(l, id, EventKind \ {"loaded"}, n) /\ Told(l, id, {"loaded"}, n) -> "queued"
    [] OTHER -> "absent"

(* A task is loaded, runs and ends, in this order.                          *)
Progressed(s) ==
  {t \in CardState :
     \/ t = s
     \/ s = "absent"
     \/ s = "queued" /\ t # "absent"
     \/ s = "running" /\ t \in Terminal}

(* The events of a task in a log: loaded first, its end last, one of each.  *)
Orderly(l) ==
  \A j \in 1 .. Len(l) :
    /\ l[j].kind # "loaded" <=> Told(l, l[j].id, {"loaded"}, j - 1)
    /\ ~Told(l, l[j].id, Terminal, j - 1)

(* Tasks that were listed once and are not any more; no id is used twice.   *)
Removed == used \ Queue!Listed

(* The sets of the batch do not overlap, and nothing waits while one runs.  *)
BatchInv ==
  /\ waiting \intersect active = {}
  /\ (waiting \union active) \intersect (succeeded \union failed) = {}
  /\ succeeded \intersect failed = {}
  /\ busy = (active # {})
  /\ busy => waiting = {}

(* The log tells what the server has.                                       *)
LogInv ==
  /\ Orderly(log)
  /\ \A n \in 1 .. pushed : log[n].id \in used
  /\ \A n \in 1 .. pushed :
       log[n].kind \in Terminal => log[n].id \notin waiting \union active
  /\ \A id \in waiting, m, n \in 1 .. pushed :
       log[m].id = id /\ m < n => log[n].kind \notin Terminal
  /\ \A id \in Ids \ Removed : StateTold(log, id, pushed) = StateOf(id)

EndsAfter(l, n) == \E m \in n + 1 .. Len(l) : l[m].kind \in Terminal

(* An answer on its way is what the log told when it was given.             *)
AnswerInv ==
  /\ status_answer.at <= pushed
  /\ status_stage = "answered" =>
       \A id \in Ids \ Removed :
         status_answer.cards[id] = StateTold(log, id, status_answer.at)
  /\ status_answer.running /\ ~busy => EndsAfter(log, status_answer.at)

(* A card lies between what the events reflected in order tell and what the *)
(* latest event tells, also while events are repeated to the page.          *)
CardsInv ==
  ~overwritten => \A id \in Ids \ Removed :
    /\ cards[id] \in Progressed(StateTold(log, id, known))
    /\ StateTold(log, id, informed) \in Progressed(cards[id])

(* The page that still shows a run after its end has yet to hear of the end. *)
RunningInv ==
  ~overwritten /\ ~late_reply /\ ~misled /\ ~gap /\ shown_running /\ ~busy
    => EndsAfter(log, informed)

PageInv ==
  /\ BatchInv
  /\ LogInv
  /\ AnswerInv
  /\ CardsInv
  /\ RunningInv
  /\ remove_reply \subseteq Removed
  /\ known <= informed

IInv == TypeOK /\ Stream!IInv /\ PageInv
=============================================================================
