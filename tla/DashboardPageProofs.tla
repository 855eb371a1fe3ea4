------------------------ MODULE DashboardPageProofs ------------------------
(***************************************************************************)
(* Theorems about module DashboardPage, for any number of tasks, any       *)
(* capacity of the list, the buffer and the channel, and any number of     *)
(* lost connections and reloads.                                           *)
(***************************************************************************)
EXTENDS DashboardPage, FiniteSetTheorems, SequenceTheorems, TLAPS

StreamProofs == INSTANCE EventStreamProofs

LEMMA BoundIsNat == MaxEvents \in Nat
BY PageAssumption, FS_CardinalityType DEF MaxEvents

-----------------------------------------------------------------------------
(***************************************************************************)
(* The stream.                                                             *)
(***************************************************************************)

LEMMA StreamStep == TypeOK /\ [Next]_vars => [Stream!Next]_(Stream!vars)
<1> SUFFICES ASSUME TypeOK, [Next]_vars PROVE [Stream!Next]_(Stream!vars)
  OBVIOUS
<1> USE DEF Stream!Next, Stream!Serve, Stream!vars, Stream!connVars, streamVars, Conns
<1>1. CASE UNCHANGED vars
  BY <1>1 DEF vars
<1>2. CASE \E id \in Ids : SubmitTask(id) \/ StartTask(id) \/ Progress(id) \/ SettleTask(id)
  BY <1>2 DEF SubmitTask, StartTask, Progress, SettleTask, PushEvent
<1>3. CASE ReceiveEvent
  BY <1>3 DEF ReceiveEvent
<1>4. CASE Connect
  BY <1>4 DEF Connect
<1>5. CASE LoseConnection \/ Refresh
  BY <1>5 DEF LoseConnection, Refresh
<1>6. CASE \/ AnswerStatus \/ ShowStatus \/ PageRuns \/ RunReplyArrives \/ OtherClientRuns
           \/ \E id \in Ids : PageRemoves(id) \/ RemoveReplyArrives(id) \/ OtherClientRemoves(id)
  BY <1>6 DEF AnswerStatus, ShowStatus, PageRuns, RunReplyArrives, OtherClientRuns,
     PageRemoves, RemoveReplyArrives, OtherClientRemoves, RunTasks, RemoveTask
<1> QED
  BY <1>1, <1>2, <1>3, <1>4, <1>5, <1>6 DEF Next

(* The proofs about the stream speak of the same formulas under the names   *)
(* of their own instance.                                                   *)
LEMMA StreamInit == Stream!Init => Stream!IInv
<1>1. StreamProofs!Init => StreamProofs!IInv
  BY StreamProofs!InitInv, PageAssumption, BoundIsNat
<1> QED
  BY <1>1 DEF Stream!Init, StreamProofs!Init, Stream!IInv, Stream!TypeOK, Stream!Stage, Stream!BufferIsRecent, Stream!ConnInv, Stream!Replaying, Stream!Following, Stream!Overwritten, StreamProofs!IInv, StreamProofs!TypeOK, StreamProofs!Stage, StreamProofs!BufferIsRecent, StreamProofs!ConnInv, StreamProofs!Replaying, StreamProofs!Following, StreamProofs!Overwritten

LEMMA StreamNext == Stream!IInv /\ [Stream!Next]_(Stream!vars) => Stream!IInv'
<1>1. StreamProofs!IInv /\ [StreamProofs!Next]_(StreamProofs!vars) => StreamProofs!IInv'
  BY StreamProofs!NextInv, PageAssumption, BoundIsNat
<1>2. Stream!IInv <=> StreamProofs!IInv
  BY DEF Stream!IInv, Stream!TypeOK, Stream!Stage, Stream!BufferIsRecent, Stream!ConnInv, Stream!Replaying, Stream!Following, Stream!Overwritten, StreamProofs!IInv, StreamProofs!TypeOK, StreamProofs!Stage, StreamProofs!BufferIsRecent, StreamProofs!ConnInv, StreamProofs!Replaying, StreamProofs!Following, StreamProofs!Overwritten
<1>3. Stream!IInv' <=> StreamProofs!IInv'
  BY DEF Stream!IInv, Stream!TypeOK, Stream!Stage, Stream!BufferIsRecent, Stream!ConnInv, Stream!Replaying, Stream!Following, Stream!Overwritten, StreamProofs!IInv, StreamProofs!TypeOK, StreamProofs!Stage, StreamProofs!BufferIsRecent, StreamProofs!ConnInv, StreamProofs!Replaying, StreamProofs!Following, StreamProofs!Overwritten
<1>4. [Stream!Next]_(Stream!vars) <=> [StreamProofs!Next]_(StreamProofs!vars)
  BY DEF Stream!Next, Stream!Serve, Stream!Push, Stream!Buffered, Stream!Subscribe, Stream!CopyReplay, Stream!SendReplay, Stream!SendLive, Stream!SkipOverwritten, Stream!Close, Stream!vars, Stream!connVars, Stream!Overwritten, StreamProofs!Next, StreamProofs!Serve, StreamProofs!Push, StreamProofs!Buffered, StreamProofs!Subscribe, StreamProofs!CopyReplay, StreamProofs!SendReplay, StreamProofs!SendLive, StreamProofs!SkipOverwritten, StreamProofs!Close, StreamProofs!vars, StreamProofs!connVars, StreamProofs!Overwritten
<1> QED
  BY <1>1, <1>2, <1>3, <1>4

-----------------------------------------------------------------------------
(***************************************************************************)
(* What an event log tells.                                                *)
(***************************************************************************)

(* One more event tells of its own task only.                               *)
LEMMA ToldStep ==
  ASSUME NEW l \in Seq(Event), NEW id, NEW kinds, NEW n \in 1 .. Len(l)
  PROVE  Told(l, id, kinds, n) <=>
           Told(l, id, kinds, n - 1) \/ (l[n].id = id /\ l[n].kind \in kinds)
<1>1. n \in Nat /\ 1 .. n = (1 .. n - 1) \union {n}
  OBVIOUS
<1> QED
  BY <1>1 DEF Told

LEMMA ToldMonotone ==
  ASSUME NEW l, NEW id, NEW kinds, NEW m \in Nat, NEW n \in Nat, m <= n,
         Told(l, id, kinds, m)
  PROVE  Told(l, id, kinds, n)
BY DEF Told

LEMMA ToldWiden ==
  ASSUME NEW l, NEW id, NEW kinds, NEW more, kinds \subseteq more, NEW n,
         Told(l, id, kinds, n)
  PROVE  Told(l, id, more, n)
BY DEF Told

LEMMA ToldSplit ==
  ASSUME NEW l, NEW id, NEW n
  PROVE  /\ Told(l, id, Terminal, n) <=>
              Told(l, id, {"succeeded"}, n) \/ Told(l, id, {"failed"}, n)
         /\ Told(l, id, EventKind \ {"loaded"}, n) <=>
              Told(l, id, Terminal, n) \/ Told(l, id, {"phase", "script"}, n)
BY DEF Told, Terminal, EventKind

(* The five cases of StateTold do not overlap.                              *)
LEMMA StateToldCases ==
  ASSUME NEW l, NEW id, NEW n
  PROVE  LET s == StateTold(l, id, n)
             T(kinds) == Told(l, id, kinds, n)
         IN /\ s \in CardState
            /\ s = "succeeded" <=> T({"succeeded"})
            /\ s = "failed" <=> T({"failed"}) /\ ~T({"succeeded"})
            /\ s = "running" <=> T({"phase", "script"}) /\ ~T(Terminal)
            /\ s = "queued" <=> T({"loaded"}) /\ ~T({"phase", "script"}) /\ ~T(Terminal)
            /\ s = "absent" <=> ~T({"loaded"}) /\ ~T({"phase", "script"}) /\ ~T(Terminal)
<1> DEFINE T(kinds) == Told(l, id, kinds, n)
           s == StateTold(l, id, n)
<1>1. /\ T(Terminal) <=> T({"succeeded"}) \/ T({"failed"})
      /\ T(EventKind \ {"loaded"}) <=> T(Terminal) \/ T({"phase", "script"})
  BY ToldSplit
<1>2. s = CASE T({"succeeded"}) -> "succeeded"
            [] ~T({"succeeded"}) /\ T({"failed"}) -> "failed"
            [] ~T(Terminal) /\ T({"phase", "script"}) -> "running"
            [] ~T(EventKind \ {"loaded"}) /\ T({"loaded"}) -> "queued"
            [] OTHER -> "absent"
  BY DEF StateTold
<1> HIDE DEF T, s
<1>3. T({"succeeded"}) => s = "succeeded"
  BY <1>1, <1>2
<1>4. ~T({"succeeded"}) /\ T({"failed"}) => s = "failed"
  BY <1>1, <1>2
<1>5. ~T(Terminal) /\ T({"phase", "script"}) => s = "running"
  BY <1>1, <1>2
<1>6. ~T(Terminal) /\ ~T({"phase", "script"}) /\ T({"loaded"}) => s = "queued"
  BY <1>1, <1>2
<1>7. ~T(Terminal) /\ ~T({"phase", "script"}) /\ ~T({"loaded"}) => s = "absent"
  BY <1>1, <1>2
<1>8. /\ s \in CardState
      /\ s = "succeeded" <=> T({"succeeded"})
      /\ s = "failed" <=> T({"failed"}) /\ ~T({"succeeded"})
      /\ s = "running" <=> T({"phase", "script"}) /\ ~T(Terminal)
      /\ s = "queued" <=> T({"loaded"}) /\ ~T({"phase", "script"}) /\ ~T(Terminal)
      /\ s = "absent" <=> ~T({"loaded"}) /\ ~T({"phase", "script"}) /\ ~T(Terminal)
  BY <1>1, <1>3, <1>4, <1>5, <1>6, <1>7 DEF CardState, TaskState
<1> QED
  BY <1>8 DEF T, s

(* How an event takes the state of a task further, in an orderly log.       *)
LEMMA StateToldStep ==
  ASSUME NEW l \in Seq(Event), Orderly(l), NEW id, NEW n \in 1 .. Len(l)
  PROVE  LET p == StateTold(l, id, n - 1)
             s == StateTold(l, id, n)
         IN /\ l[n].id # id => s = p
            /\ l[n].id = id /\ l[n].kind = "loaded" => p = "absent" /\ s = "queued"
            /\ l[n].id = id /\ l[n].kind \in {"phase", "script"}
                 => p \in {"queued", "running"} /\ s = "running"
            /\ l[n].id = id /\ l[n].kind \in Terminal
                 => p \in {"queued", "running"} /\ s = l[n].kind
<1> DEFINE P(kinds) == Told(l, id, kinds, n - 1)
           T(kinds) == Told(l, id, kinds, n)
           p == StateTold(l, id, n - 1)
           s == StateTold(l, id, n)
           Here(kinds) == l[n].id = id /\ l[n].kind \in kinds
<1>1. n \in Nat \ {0} /\ n - 1 \in Nat /\ n <= Len(l)
  OBVIOUS
<1>2. /\ T({"loaded"}) <=> P({"loaded"}) \/ Here({"loaded"})
      /\ T({"phase", "script"}) <=> P({"phase", "script"}) \/ Here({"phase", "script"})
      /\ T(Terminal) <=> P(Terminal) \/ Here(Terminal)
      /\ T({"succeeded"}) <=> P({"succeeded"}) \/ Here({"succeeded"})
      /\ T({"failed"}) <=> P({"failed"}) \/ Here({"failed"})
  BY ToldStep
<1>3. l[n].id = id => (l[n].kind # "loaded" <=> P({"loaded"})) /\ ~P(Terminal)
  BY DEF Orderly
<1>4. P({"phase", "script"}) => P({"loaded"})
  <2> SUFFICES ASSUME P({"phase", "script"}) PROVE P({"loaded"})
    OBVIOUS
  <2>1. PICK i \in 1 .. n - 1 : l[i].id = id /\ l[i].kind \in {"phase", "script"}
    BY DEF Told
  <2>2. i \in 1 .. Len(l) /\ i - 1 \in Nat /\ i - 1 <= n - 1 /\ l[i].kind # "loaded"
    BY <1>1, <2>1
  <2>3. Told(l, id, {"loaded"}, i - 1)
    BY <2>1, <2>2 DEF Orderly
  <2> QED
    BY <1>1, <2>2, <2>3, ToldMonotone
<1>5. /\ p = "succeeded" <=> P({"succeeded"})
      /\ p = "failed" <=> P({"failed"}) /\ ~P({"succeeded"})
      /\ p = "running" <=> P({"phase", "script"}) /\ ~P(Terminal)
      /\ p = "queued" <=> P({"loaded"}) /\ ~P({"phase", "script"}) /\ ~P(Terminal)
      /\ p = "absent" <=> ~P({"loaded"}) /\ ~P({"phase", "script"}) /\ ~P(Terminal)
  BY StateToldCases
<1>6. /\ s = "succeeded" <=> T({"succeeded"})
      /\ s = "failed" <=> T({"failed"}) /\ ~T({"succeeded"})
      /\ s = "running" <=> T({"phase", "script"}) /\ ~T(Terminal)
      /\ s = "queued" <=> T({"loaded"}) /\ ~T({"phase", "script"}) /\ ~T(Terminal)
      /\ s = "absent" <=> ~T({"loaded"}) /\ ~T({"phase", "script"}) /\ ~T(Terminal)
  BY StateToldCases
<1>7. p \in CardState /\ s \in CardState
  BY StateToldCases
<1>8. P(Terminal) <=> P({"succeeded"}) \/ P({"failed"})
  BY ToldSplit
<1> HIDE DEF P, T, p, s
<1>9. l[n].id # id => s = p
  BY <1>2, <1>5, <1>6, <1>7 DEF CardState, TaskState
<1>10. l[n].id = id /\ l[n].kind = "loaded" => p = "absent" /\ s = "queued"
  BY <1>2, <1>3, <1>4, <1>5, <1>6 DEF Terminal
<1>11. ASSUME l[n].id = id, l[n].kind \in {"phase", "script"}
       PROVE  p \in {"queued", "running"} /\ s = "running"
  BY <1>2, <1>3, <1>5, <1>6, <1>11 DEF Terminal
<1>12. ASSUME l[n].id = id, l[n].kind \in Terminal
       PROVE  p \in {"queued", "running"} /\ s = l[n].kind
  BY <1>2, <1>3, <1>5, <1>6, <1>8, <1>12 DEF Terminal
<1> QED
  BY <1>9, <1>10, <1>11, <1>12 DEF p, s

LEMMA ProgressedTransitive ==
  ASSUME NEW a \in CardState, NEW b \in Progressed(a), NEW c \in Progressed(b)
  PROVE  c \in Progressed(a)
BY DEF Progressed, CardState, TaskState, Terminal

(* An orderly log takes no task back.                                       *)
LEMMA StateToldProgresses ==
  ASSUME NEW l \in Seq(Event), Orderly(l), NEW id, NEW m \in Nat, NEW n \in Nat,
         m <= n, n <= Len(l)
  PROVE  StateTold(l, id, n) \in Progressed(StateTold(l, id, m))
<1> DEFINE M(kinds) == Told(l, id, kinds, m)
           T(kinds) == Told(l, id, kinds, n)
           p == StateTold(l, id, m)
           s == StateTold(l, id, n)
<1>1. /\ M({"loaded"}) => T({"loaded"})
      /\ M({"phase", "script"}) => T({"phase", "script"})
      /\ M(Terminal) => T(Terminal)
      /\ M({"succeeded"}) => T({"succeeded"})
      /\ M({"failed"}) => T({"failed"})
  BY ToldMonotone
<1>2. ~(T({"failed"}) /\ T({"succeeded"}))
  <2> SUFFICES ASSUME T({"failed"}), T({"succeeded"}) PROVE FALSE
    OBVIOUS
  <2>1. PICK i \in 1 .. n : l[i].id = id /\ l[i].kind = "failed"
    BY DEF Told
  <2>2. PICK j \in 1 .. n : l[j].id = id /\ l[j].kind = "succeeded"
    BY DEF Told
  <2>3. i \in 1 .. Len(l) /\ j \in 1 .. Len(l) /\ i # j
    BY <2>1, <2>2
  <2>4. CASE i < j
    <3>1. i \in 1 .. j - 1 /\ l[i].id = l[j].id /\ l[i].kind \in Terminal
      BY <2>1, <2>2, <2>4 DEF Terminal
    <3>2. Told(l, l[j].id, Terminal, j - 1)
      BY <3>1 DEF Told
    <3> QED
      BY <2>3, <3>2 DEF Orderly
  <2>5. CASE j < i
    <3>1. j \in 1 .. i - 1 /\ l[j].id = l[i].id /\ l[j].kind \in Terminal
      BY <2>1, <2>2, <2>5 DEF Terminal
    <3>2. Told(l, l[i].id, Terminal, i - 1)
      BY <3>1 DEF Told
    <3> QED
      BY <2>3, <3>2 DEF Orderly
  <2> QED
    BY <2>3, <2>4, <2>5
<1>3. /\ p = "succeeded" <=> M({"succeeded"})
      /\ p = "failed" <=> M({"failed"}) /\ ~M({"succeeded"})
      /\ p = "running" <=> M({"phase", "script"}) /\ ~M(Terminal)
      /\ p = "queued" <=> M({"loaded"}) /\ ~M({"phase", "script"}) /\ ~M(Terminal)
      /\ p = "absent" <=> ~M({"loaded"}) /\ ~M({"phase", "script"}) /\ ~M(Terminal)
  BY StateToldCases
<1>4. /\ s = "succeeded" <=> T({"succeeded"})
      /\ s = "failed" <=> T({"failed"}) /\ ~T({"succeeded"})
      /\ s = "running" <=> T({"phase", "script"}) /\ ~T(Terminal)
      /\ s = "queued" <=> T({"loaded"}) /\ ~T({"phase", "script"}) /\ ~T(Terminal)
      /\ s = "absent" <=> ~T({"loaded"}) /\ ~T({"phase", "script"}) /\ ~T(Terminal)
  BY StateToldCases
<1>5. p \in CardState /\ s \in CardState
  BY StateToldCases
<1>6. T(Terminal) <=> T({"succeeded"}) \/ T({"failed"})
  BY ToldSplit
<1> HIDE DEF M, T, p, s
<1>7. s \in Progressed(p)
  <2>1. p = "succeeded" => s = "succeeded"
    BY <1>1, <1>3, <1>4
  <2>2. p = "failed" => s = "failed"
    BY <1>1, <1>2, <1>3, <1>4
  <2>3. p = "running" => s \in {"running", "succeeded", "failed"}
    BY <1>1, <1>3, <1>4, <1>6
  <2>4. p = "queued" => s # "absent"
    BY <1>1, <1>3, <1>4
  <2> QED
    BY <1>5, <2>1, <2>2, <2>3, <2>4 DEF Progressed, CardState, TaskState, Terminal
<1> QED
  BY <1>7 DEF p, s

(* What comes later in a log changes nothing of what came before.           *)
LEMMA AppendedTold ==
  ASSUME NEW l \in Seq(Event), NEW ev \in Event, NEW n \in 0 .. Len(l)
  PROVE  /\ \A id, kinds : Told(Append(l, ev), id, kinds, n) <=> Told(l, id, kinds, n)
         /\ \A id : StateTold(Append(l, ev), id, n) = StateTold(l, id, n)
<1>1. ASSUME NEW id, NEW kinds
      PROVE  Told(Append(l, ev), id, kinds, n) <=> Told(l, id, kinds, n)
  <2>1. \A i \in 1 .. n : Append(l, ev)[i] = l[i]
    OBVIOUS
  <2> QED
    BY <2>1 DEF Told
<1>2. ASSUME NEW id PROVE StateTold(Append(l, ev), id, n) = StateTold(l, id, n)
  BY <1>1 DEF StateTold
<1> QED
  BY <1>1, <1>2

LEMMA AppendedOrderly ==
  ASSUME NEW l \in Seq(Event), Orderly(l), NEW ev \in Event,
         ev.kind # "loaded" <=> Told(l, ev.id, {"loaded"}, Len(l)),
         ~Told(l, ev.id, Terminal, Len(l))
  PROVE  Orderly(Append(l, ev))
<1> DEFINE e == Append(l, ev)
<1>1. /\ e \in Seq(Event) /\ Len(e) = Len(l) + 1 /\ e[Len(e)] = ev
      /\ \A j \in 1 .. Len(l) : e[j] = l[j]
  OBVIOUS
<1>2. ASSUME NEW j \in 1 .. Len(l)
      PROVE  /\ e[j].kind # "loaded" <=> Told(e, e[j].id, {"loaded"}, j - 1)
             /\ ~Told(e, e[j].id, Terminal, j - 1)
  <2>1. /\ Told(e, l[j].id, {"loaded"}, j - 1) <=> Told(l, l[j].id, {"loaded"}, j - 1)
        /\ Told(e, l[j].id, Terminal, j - 1) <=> Told(l, l[j].id, Terminal, j - 1)
    BY AppendedTold
  <2> QED
    BY <1>1, <2>1 DEF Orderly
<1>3. /\ Told(e, ev.id, {"loaded"}, Len(l)) <=> Told(l, ev.id, {"loaded"}, Len(l))
      /\ Told(e, ev.id, Terminal, Len(l)) <=> Told(l, ev.id, Terminal, Len(l))
  BY AppendedTold
<1>4. Len(e) - 1 = Len(l) /\ 1 .. Len(e) = (1 .. Len(l)) \union {Len(e)}
  BY <1>1
<1> HIDE DEF e
<1>5. ASSUME NEW j \in 1 .. Len(e)
      PROVE  /\ e[j].kind # "loaded" <=> Told(e, e[j].id, {"loaded"}, j - 1)
             /\ ~Told(e, e[j].id, Terminal, j - 1)
  <2>1. CASE j \in 1 .. Len(l)
    BY <1>2, <2>1
  <2>2. CASE j = Len(e)
    BY <1>1, <1>3, <1>4, <2>2
  <2> QED
    BY <1>4, <2>1, <2>2
<1>6. Orderly(e)
  BY <1>5 DEF Orderly
<1> QED
  BY <1>6 DEF e

-----------------------------------------------------------------------------
(***************************************************************************)
(* What an event does to a card.                                           *)
(***************************************************************************)

LEMMA CardAfterType ==
  ASSUME NEW kind \in EventKind, NEW card \in CardState
  PROVE  CardAfter(kind, card) \in CardState
BY DEF CardAfter, EventKind, CardState, TaskState, Terminal

(* An event brings a card that is behind it up to it, and one that is ahead *)
(* of it no further back: p and s are what is told before and after it.     *)
LEMMA CardStep ==
  ASSUME NEW kind \in EventKind, NEW card \in CardState,
         NEW p \in CardState, NEW s \in CardState,
         kind = "loaded" => p = "absent" /\ s = "queued",
         kind \in {"phase", "script"} => p \in {"queued", "running"} /\ s = "running",
         kind \in Terminal => p \in {"queued", "running"} /\ s = kind
  PROVE  /\ card \in Progressed(p) => CardAfter(kind, card) \in Progressed(s)
         /\ \A lo \in CardState : p \in Progressed(lo) /\ card \in Progressed(lo)
              => CardAfter(kind, card) \in Progressed(lo)
         /\ \A hi \in CardState : hi \in Progressed(card) /\ hi \in Progressed(s)
              => hi \in Progressed(CardAfter(kind, card))
<1> USE DEF Progressed, CardState, TaskState, Terminal
<1>1. CASE kind = "loaded"
  <2>1. /\ CardAfter(kind, card) = IF card = "absent" THEN "queued" ELSE card
        /\ p = "absent" /\ s = "queued"
    BY <1>1 DEF CardAfter
  <2> QED
    BY <2>1
<1>2. CASE kind = "phase"
  BY <1>2 DEF CardAfter
<1>3. CASE kind = "script"
  BY <1>3 DEF CardAfter
<1>4. CASE kind = "succeeded"
  BY <1>4 DEF CardAfter
<1>5. CASE kind = "failed"
  BY <1>5 DEF CardAfter
<1> QED
  BY <1>1, <1>2, <1>3, <1>4, <1>5 DEF EventKind

(* The same for what the page remembers of the order of events: k is the    *)
(* last event it reflects in order, m the latest it has handled.            *)
LEMMA CardHandling ==
  ASSUME NEW l \in Seq(Event), Orderly(l), NEW id, NEW n \in 1 .. Len(l),
         NEW k \in 0 .. Len(l), NEW m \in 0 .. Len(l), NEW card \in CardState,
         card \in Progressed(StateTold(l, id, k)),
         StateTold(l, id, m) \in Progressed(card)
  PROVE  LET after == IF l[n].id = id THEN CardAfter(l[n].kind, card) ELSE card
         IN /\ after \in Progressed(StateTold(l, id, IF n <= k + 1 THEN n ELSE k))
            /\ StateTold(l, id, IF n > m THEN n ELSE m) \in Progressed(after)
<1> DEFINE after == IF l[n].id = id THEN CardAfter(l[n].kind, card) ELSE card
           S(i) == StateTold(l, id, i)
           k2 == IF n <= k + 1 THEN n ELSE k
           m2 == IF n > m THEN n ELSE m
<1>1. \A i : S(i) \in CardState
  BY StateToldCases
<1>2. /\ l[n].id # id => S(n) = S(n - 1)
      /\ l[n].id = id /\ l[n].kind = "loaded" => S(n - 1) = "absent" /\ S(n) = "queued"
      /\ l[n].id = id /\ l[n].kind \in {"phase", "script"}
           => S(n - 1) \in {"queued", "running"} /\ S(n) = "running"
      /\ l[n].id = id /\ l[n].kind \in Terminal
           => S(n - 1) \in {"queued", "running"} /\ S(n) = l[n].kind
  BY StateToldStep
<1>3. \A i, j \in 0 .. Len(l) : i <= j => S(j) \in Progressed(S(i))
  BY StateToldProgresses
<1>4. l[n] \in Event
  OBVIOUS
<1>5. l[n].kind \in EventKind
  BY <1>4 DEF Event
<1>6. /\ n \in 0 .. Len(l) /\ n - 1 \in 0 .. Len(l)
      /\ m2 \in 0 .. Len(l) /\ n <= m2 /\ m <= m2
      /\ \/ k2 = n /\ n <= k
         \/ k2 = n /\ n - 1 = k
         \/ k2 = k /\ k <= n - 1
  <2>1. n \in 1 .. Len(l) /\ k \in 0 .. Len(l) /\ m \in 0 .. Len(l) /\ Len(l) \in Nat
    OBVIOUS
  <2>2. m2 \in 0 .. Len(l) /\ n <= m2 /\ m <= m2
    BY <2>1
  <2>3. \/ k2 = n /\ n <= k
        \/ k2 = n /\ n - 1 = k
        \/ k2 = k /\ k <= n - 1
    BY <2>1
  <2> QED
    BY <2>1, <2>2, <2>3
<1>7. after \in CardState
  BY <1>5, CardAfterType
<1>8. card \in Progressed(S(k)) /\ S(m) \in Progressed(card)
  OBVIOUS
<1> SUFFICES after \in Progressed(S(k2)) /\ S(m2) \in Progressed(after)
  OBVIOUS
<1> HIDE DEF S, k2, m2, after
<1>9. /\ S(m2) \in Progressed(S(n)) /\ S(m2) \in Progressed(S(m))
      /\ S(m2) \in Progressed(card)
  <2>1. S(m2) \in Progressed(S(n)) /\ S(m2) \in Progressed(S(m))
    BY <1>3, <1>6
  <2> QED
    BY <1>1, <1>8, <2>1, ProgressedTransitive
<1>10. CASE l[n].id # id
  <2>1. after = card
    BY <1>10 DEF after
  <2>2. CASE k2 = k
    BY <1>8, <1>9, <2>1, <2>2
  <2>3. CASE k2 = n /\ n - 1 = k
    BY <1>2, <1>8, <1>9, <1>10, <2>1, <2>3
  <2>4. CASE k2 = n /\ n <= k
    <3>1. S(k) \in Progressed(S(n))
      BY <1>3, <1>6, <2>4
    <3>2. card \in Progressed(S(n))
      BY <1>1, <1>8, <3>1, ProgressedTransitive
    <3> QED
      BY <1>9, <2>1, <2>4, <3>2
  <2> QED
    BY <1>6, <2>2, <2>3, <2>4
<1>11. CASE l[n].id = id
  <2>1. after = CardAfter(l[n].kind, card)
    BY <1>11 DEF after
  <2>2. /\ card \in Progressed(S(n - 1)) => after \in Progressed(S(n))
        /\ \A lo \in CardState : S(n - 1) \in Progressed(lo) /\ card \in Progressed(lo)
             => after \in Progressed(lo)
        /\ \A hi \in CardState : hi \in Progressed(card) /\ hi \in Progressed(S(n))
             => hi \in Progressed(after)
    BY <1>1, <1>2, <1>5, <1>11, <2>1, CardStep
  <2>3. S(m2) \in Progressed(after)
    BY <1>1, <1>9, <2>2
  <2>4. CASE k2 = k /\ k <= n - 1
    <3>1. S(n - 1) \in Progressed(S(k))
      BY <1>3, <1>6, <2>4
    <3> QED
      BY <1>1, <1>8, <2>2, <2>3, <2>4, <3>1
  <2>5. CASE k2 = n /\ n - 1 = k
    BY <1>8, <2>2, <2>3, <2>5
  <2>6. CASE k2 = n /\ n <= k
    <3>1. S(k) \in Progressed(S(n)) /\ S(n) \in Progressed(S(n - 1))
      BY <1>3, <1>6, <2>6
    <3>2. S(k) \in Progressed(S(n - 1))
      BY <1>1, <3>1, ProgressedTransitive
    <3>3. card \in Progressed(S(n - 1))
      BY <1>1, <1>8, <3>2, ProgressedTransitive
    <3> QED
      BY <2>2, <2>3, <2>6, <3>3
  <2> QED
    BY <1>6, <2>4, <2>5, <2>6
<1> QED
  BY <1>10, <1>11

-----------------------------------------------------------------------------
(***************************************************************************)
(* Types.  The state is divided as the steps divide it.                    *)
(***************************************************************************)

ServerType ==
  /\ Queue!Listed \subseteq used
  /\ used \subseteq Ids
  /\ busy \in BOOLEAN
  /\ started \subseteq active
  /\ log \in Seq(Event)
  /\ Len(log) = pushed
  /\ chatter \in 0 .. MaxChatter

RequestType ==
  /\ status_stage \in {"asked", "answered", "shown"}
  /\ status_answer \in [cards : [Ids -> CardState], running : BOOLEAN, at : 0 .. MaxEvents]
  /\ run_reply \in BOOLEAN
  /\ remove_reply \subseteq Ids
  /\ breaks \in 0 .. MaxBreaks

ShownType ==
  /\ cards \in [Ids -> CardState]
  /\ shown_running \in BOOLEAN
  /\ known \in 0 .. pushed
  /\ informed \in 0 .. pushed
  /\ gap \in BOOLEAN
  /\ overwritten \in BOOLEAN
  /\ late_reply \in BOOLEAN
  /\ misled \in BOOLEAN

LEMMA TypeParts ==
  TypeOK <=> ServerType /\ Stream!TypeOK /\ RequestType /\ ShownType
<1>1. UNION {waiting, active, succeeded, failed} = Queue!Listed
  BY DEF Queue!Listed
<1> QED
  BY <1>1 DEF TypeOK, ServerType, RequestType, ShownType

LEMMA TypePartsPrimed ==
  ServerType' /\ Stream!TypeOK' /\ RequestType' /\ ShownType' => TypeOK'
<1>1. UNION {waiting', active', succeeded', failed'} = Queue!Listed'
  BY DEF Queue!Listed
<1> QED
  BY <1>1 DEF TypeOK, ServerType, RequestType, ShownType

(* The facts of the stream's invariant that the page relies on: what it is  *)
(* sent was pushed.                                                         *)
LEMMA StreamFacts ==
  ASSUME Stream!IInv
  PROVE  /\ pushed \in 0 .. MaxEvents
         /\ Stream!SendReplay(Page) => Head(snapshot[Page]) \in 1 .. pushed
         /\ Stream!SendLive(Page) => rx[Page] \in 1 .. pushed
<1>1. Page \in Conns
  BY DEF Conns
<1>2. pushed \in 0 .. MaxEvents /\ MaxEvents \in Nat
  BY BoundIsNat DEF Stream!IInv, Stream!TypeOK
<1>3. ASSUME Stream!SendReplay(Page)
      PROVE  Head(snapshot[Page]) \in 1 .. pushed
  <2> DEFINE s == snapshot[Page]
  <2>1. s \in Seq(1 .. MaxEvents) /\ s # <<>>
    BY <1>1, <1>3 DEF Stream!IInv, Stream!TypeOK, Stream!SendReplay
  <2>2. Stream!Replaying(Page)
    BY <1>1, <1>3 DEF Stream!IInv, Stream!ConnInv, Stream!SendReplay
  <2>3. /\ \A i \in 1 .. Len(s) : s[i] = s[1] + i - 1
        /\ s[Len(s)] \in subscribed_at[Page] .. pushed
    BY <2>2 DEF Stream!Replaying
  <2> HIDE DEF s
  <2>4. /\ Len(s) \in Nat \ {0} /\ Head(s) = s[1] /\ s[1] \in 1 .. MaxEvents
        /\ s[Len(s)] \in 1 .. MaxEvents
    <3>1. Len(s) \in Nat \ {0} /\ Head(s) = s[1]
      BY <2>1
    <3>2. \A i \in 1 .. Len(s) : s[i] \in 1 .. MaxEvents
      BY <2>1, ElementOfSeq
    <3> QED
      BY <3>1, <3>2
  <2>5. s[Len(s)] = s[1] + Len(s) - 1
    BY <2>3, <2>4
  <2>6. s[Len(s)] <= pushed
    <3>1. subscribed_at[Page] \in Nat
      BY <1>1, <1>2 DEF Stream!IInv, Stream!TypeOK
    <3> QED
      BY <1>2, <2>3, <3>1
  <2>7. Head(s) \in 1 .. pushed
    BY <1>2, <2>4, <2>5, <2>6
  <2> QED
    BY <2>7 DEF s
<1>4. ASSUME Stream!SendLive(Page)
      PROVE  rx[Page] \in 1 .. pushed
  BY <1>1, <1>2, <1>4 DEF Stream!IInv, Stream!TypeOK, Stream!SendLive
<1> QED
  BY <1>2, <1>3, <1>4

LEMMA PushedType ==
  ASSUME ServerType, Stream!IInv, NEW id \in Ids, NEW kind \in EventKind,
         PushEvent(id, kind)
  PROVE  /\ pushed' = pushed + 1 /\ pushed \in Nat
         /\ [id |-> id, kind |-> kind] \in Event
         /\ log' = Append(log, [id |-> id, kind |-> kind])
         /\ log' \in Seq(Event) /\ Len(log') = pushed'
         /\ log'[pushed'] = [id |-> id, kind |-> kind]
         /\ \A n \in 1 .. pushed : log'[n] = log[n]
<1>1. /\ pushed' = pushed + 1 /\ pushed \in Nat
      /\ log' = Append(log, [id |-> id, kind |-> kind])
  BY BoundIsNat, StreamFacts DEF PushEvent, Stream!Push
<1>2. [id |-> id, kind |-> kind] \in Event
  BY DEF Event
<1>3. log \in Seq(Event) /\ Len(log) = pushed
  BY DEF ServerType
<1> QED
  BY <1>1, <1>2, <1>3

LEMMA InitType == Init => ServerType /\ RequestType /\ ShownType
<1> SUFFICES ASSUME Init PROVE ServerType /\ RequestType /\ ShownType
  OBVIOUS
<1>1. ServerType
  <2>1. /\ waiting = {} /\ active = {} /\ succeeded = {} /\ failed = {}
        /\ used = {} /\ busy = FALSE /\ started = {}
        /\ log = <<>> /\ pushed = 0 /\ chatter = 0
    BY DEF Init, Queue!Init, Stream!Init
  <2>2. log \in Seq(Event) /\ Len(log) = 0
    BY <2>1
  <2>3. 0 \in 0 .. MaxChatter
    BY PageAssumption
  <2> QED
    BY <2>1, <2>2, <2>3 DEF ServerType, Queue!Listed
<1>2. NoCards \in [Ids -> CardState] /\ 0 \in 0 .. MaxEvents /\ 0 \in 0 .. MaxBreaks
  BY PageAssumption, BoundIsNat DEF NoCards, CardState
<1>3. RequestType
  <2>1. NoAnswer \in [cards : [Ids -> CardState], running : BOOLEAN, at : 0 .. MaxEvents]
    BY <1>2 DEF NoAnswer
  <2> QED
    BY <1>2, <2>1 DEF Init, RequestType
<1>4. ShownType
  <2>1. 0 \in 0 .. pushed
    BY DEF Init, Stream!Init
  <2> QED
    BY <1>2, <2>1 DEF Init, ShownType
<1> QED
  BY <1>1, <1>3, <1>4

(* Steps that push an event.                                                *)
LEMMA PushType ==
  ASSUME ServerType, RequestType, ShownType, Stream!IInv, NEW id \in Ids,
         SubmitTask(id) \/ StartTask(id) \/ Progress(id) \/ SettleTask(id)
  PROVE  ServerType' /\ RequestType' /\ ShownType'
<1>1. PICK kind \in EventKind : PushEvent(id, kind)
  <2>1. {"loaded", "phase", "script", "succeeded", "failed"} \subseteq EventKind
    BY DEF EventKind
  <2> QED
    BY <2>1 DEF SubmitTask, StartTask, Progress, SettleTask
<1>2. /\ pushed' = pushed + 1 /\ pushed \in Nat
      /\ log' \in Seq(Event) /\ Len(log') = pushed'
  BY <1>1, PushedType
<1>3. UNCHANGED pageVars
  BY DEF SubmitTask, StartTask, Progress, SettleTask
<1>4. RequestType' /\ ShownType'
  BY <1>2, <1>3 DEF pageVars, requestVars, historyVars, RequestType, ShownType
<1>5. chatter' \in 0 .. MaxChatter
  BY PageAssumption DEF SubmitTask, StartTask, Progress, SettleTask, ServerType
<1>6. /\ Queue!Listed' \subseteq used' /\ used' \subseteq Ids
      /\ busy' \in BOOLEAN /\ started' \subseteq active'
  <2>1. CASE SubmitTask(id)
    BY <2>1 DEF SubmitTask, Queue!Submit, Queue!Listed, ServerType
  <2>2. CASE StartTask(id) \/ Progress(id)
    BY <2>2 DEF StartTask, Progress, queueVars, Queue!Listed, ServerType
  <2>3. CASE SettleTask(id)
    BY <2>3 DEF SettleTask, Queue!Settle, Queue!Listed, ServerType
  <2> QED
    BY <2>1, <2>2, <2>3
<1> QED
  BY <1>2, <1>4, <1>5, <1>6 DEF ServerType

LEMMA RemoveServerType ==
  ASSUME ServerType, NEW id \in Ids, RemoveTask(id)
  PROVE  ServerType'
<1>1. /\ started \subseteq active /\ UNCHANGED <<started, active, log, pushed, chatter, used, busy>>
  BY DEF RemoveTask, Queue!Withdraw, ServerType, streamVars
<1> QED
  BY <1>1 DEF RemoveTask, Queue!Withdraw, Queue!Listed, ServerType

LEMMA RunServerType ==
  ASSUME ServerType, BatchInv, RunTasks
  PROVE  ServerType'
<1>1. /\ started = {} /\ UNCHANGED <<started, log, pushed, chatter, used>>
      /\ active' = waiting /\ waiting' = {} /\ busy' = TRUE
      /\ UNCHANGED <<succeeded, failed>>
  BY DEF RunTasks, Queue!Launch, ServerType, BatchInv, streamVars
<1> QED
  BY <1>1 DEF Queue!Listed, ServerType

LEMMA UnchangedServerType ==
  ASSUME ServerType, UNCHANGED serverVars, pushed' = pushed
  PROVE  ServerType'
BY DEF ServerType, serverVars, queueVars, Queue!Listed

(* Steps of the page.                                                       *)
LEMMA AnswerType ==
  ASSUME ServerType, RequestType, ShownType, Stream!IInv, AnswerStatus
  PROVE  RequestType' /\ ShownType'
<1>1. \A id \in Ids : StateOf(id) \in CardState
  BY DEF StateOf, CardState, TaskState
<1>2. pushed \in 0 .. MaxEvents /\ busy \in BOOLEAN
  BY StreamFacts DEF ServerType
<1>3. status_answer' \in [cards : [Ids -> CardState], running : BOOLEAN, at : 0 .. MaxEvents]
  BY <1>1, <1>2 DEF AnswerStatus
<1>4. /\ status_stage' = "answered" /\ pushed' = pushed
      /\ UNCHANGED <<run_reply, remove_reply, breaks, cards, shown_running, known, informed,
                     gap, overwritten, late_reply, misled>>
  BY DEF AnswerStatus, historyVars, streamVars
<1>5. RequestType'
  BY <1>3, <1>4 DEF RequestType
<1> QED
  BY <1>4, <1>5 DEF ShownType

LEMMA ShowType ==
  ASSUME RequestType, ShownType, Stream!IInv, status_answer.at <= pushed, ShowStatus
  PROVE  RequestType' /\ ShownType'
<1>1. /\ status_answer.cards \in [Ids -> CardState] /\ status_answer.running \in BOOLEAN
      /\ status_answer.at \in 0 .. MaxEvents
  BY DEF RequestType
<1>2. pushed' = pushed /\ pushed \in Nat /\ status_answer.at \in 0 .. pushed
  BY <1>1, StreamFacts, BoundIsNat DEF ShowStatus, streamVars
<1>3. cards' \in [Ids -> CardState]
  BY <1>1 DEF ShowStatus, ShownType
<1>4. shown_running' \in BOOLEAN
  BY <1>1 DEF ShowStatus
<1>5. known' \in 0 .. pushed /\ informed' \in 0 .. pushed
  BY <1>2 DEF ShowStatus, ShownType
<1>6. gap' \in BOOLEAN /\ overwritten' \in BOOLEAN /\ late_reply' \in BOOLEAN /\ misled' \in BOOLEAN
  <2>1. gap' \in {gap, FALSE} /\ overwritten' \in {overwritten, TRUE} /\ UNCHANGED <<late_reply, misled>>
    BY DEF ShowStatus
  <2> QED
    BY <2>1 DEF ShownType
<1>7. ShownType'
  BY <1>2, <1>3, <1>4, <1>5, <1>6 DEF ShownType
<1>8. RequestType'
  <2>1. /\ status_answer' = NoAnswer /\ status_stage' = "shown"
        /\ UNCHANGED <<run_reply, remove_reply, breaks>>
    BY DEF ShowStatus
  <2>2. NoAnswer \in [cards : [Ids -> CardState], running : BOOLEAN, at : 0 .. MaxEvents]
    BY BoundIsNat DEF NoAnswer, NoCards, CardState
  <2> QED
    BY <2>1, <2>2 DEF RequestType
<1> QED
  BY <1>7, <1>8

LEMMA HandleType ==
  ASSUME ServerType, ShownType, Stream!IInv, NEW n \in 1 .. pushed, HandleEvent(n),
         pushed' = pushed, UNCHANGED <<overwritten, late_reply>>
  PROVE  ShownType'
<1>1. pushed \in Nat /\ log[n] \in Event
  BY StreamFacts, BoundIsNat DEF ServerType
<1>2. log[n].id \in Ids /\ log[n].kind \in EventKind
  BY <1>1 DEF Event
<1>3. cards' = [cards EXCEPT ![log[n].id] = CardAfter(log[n].kind, cards[log[n].id])]
  BY DEF HandleEvent
<1>4. cards' \in [Ids -> CardState]
  <2>1. cards[log[n].id] \in CardState
    BY <1>2 DEF ShownType
  <2>2. CardAfter(log[n].kind, cards[log[n].id]) \in CardState
    BY <1>2, <2>1, CardAfterType
  <2> QED
    BY <1>2, <1>3, <2>2 DEF ShownType
<1>5. known' \in 0 .. pushed /\ informed' \in 0 .. pushed
  BY <1>1 DEF HandleEvent, ShownType
<1>6. shown_running' \in BOOLEAN
  BY DEF HandleEvent, RunningAfter, ShownType
<1>7. gap' \in BOOLEAN /\ misled' \in BOOLEAN
  <2>1. gap' \in {gap, TRUE}
    BY DEF HandleEvent
  <2>2. misled' \in BOOLEAN
    BY DEF HandleEvent
  <2> QED
    BY <2>1, <2>2 DEF ShownType
<1> QED
  BY <1>4, <1>5, <1>6, <1>7 DEF ShownType

LEMMA TypeStep == ASSUME IInv, Stream!IInv', [Next]_vars PROVE TypeOK'
<1> SUFFICES ServerType' /\ RequestType' /\ ShownType'
  BY TypePartsPrimed DEF Stream!IInv
<1>1. ServerType /\ RequestType /\ ShownType /\ Stream!IInv
  BY TypeParts DEF IInv
<1>2. pushed \in Nat
  BY <1>1, StreamFacts
<1>3. CASE UNCHANGED vars
  <2>1. ServerType'
    BY <1>1, <1>3, UnchangedServerType DEF vars, streamVars
  <2> QED
    BY <1>1, <1>3, <2>1 DEF vars, streamVars, pageVars, requestVars, historyVars,
       RequestType, ShownType
<1>4. CASE \E id \in Ids : SubmitTask(id) \/ StartTask(id) \/ Progress(id) \/ SettleTask(id)
  BY <1>1, <1>4, PushType
<1>5. CASE AnswerStatus
  <2>1. ServerType'
    BY <1>1, <1>5, UnchangedServerType DEF AnswerStatus, streamVars
  <2> QED
    BY <1>1, <1>5, <2>1, AnswerType
<1>6. CASE ShowStatus
  <2>1. ServerType'
    BY <1>1, <1>6, UnchangedServerType DEF ShowStatus, streamVars
  <2>2. status_answer.at <= pushed
    BY DEF IInv, PageInv, AnswerInv
  <2> QED
    BY <1>1, <1>6, <2>1, <2>2, ShowType
<1>7. CASE ReceiveEvent
  <2>1. pushed' = pushed
    BY <1>7 DEF ReceiveEvent, Stream!SendReplay, Stream!SendLive
  <2>2. ServerType'
    BY <1>1, <1>7, <2>1, UnchangedServerType DEF ReceiveEvent
  <2>3. RequestType'
    BY <1>1, <1>7 DEF ReceiveEvent, requestVars, RequestType
  <2>4. PICK n \in 1 .. pushed : HandleEvent(n)
    BY <1>1, <1>7, StreamFacts DEF ReceiveEvent
  <2>5. ShownType'
    BY <1>1, <1>7, <2>1, <2>4, HandleType DEF ReceiveEvent
  <2> QED
    BY <2>2, <2>3, <2>5
<1>8. CASE Connect
  <2>1. pushed' = pushed /\ UNCHANGED <<serverVars, pageVars>>
    BY <1>8 DEF Connect, Stream!Subscribe, Stream!CopyReplay, Stream!SkipOverwritten
  <2>2. ServerType'
    BY <1>1, <2>1, UnchangedServerType
  <2> QED
    BY <1>1, <2>1, <2>2 DEF pageVars, requestVars, historyVars, RequestType, ShownType
<1>9. CASE LoseConnection
  <2>1. pushed' = pushed /\ UNCHANGED <<serverVars, historyVars>>
    BY <1>9 DEF LoseConnection, Stream!Close
  <2>2. ServerType'
    BY <1>1, <2>1, UnchangedServerType
  <2>3. breaks' \in 0 .. MaxBreaks
    BY <1>1, <1>9, PageAssumption DEF LoseConnection, RequestType
  <2> QED
    BY <1>1, <1>9, <2>1, <2>2, <2>3 DEF LoseConnection, historyVars, RequestType, ShownType
<1>10. CASE Refresh
  <2>1. pushed' = pushed /\ UNCHANGED serverVars
    BY <1>10 DEF Refresh, Stream!Close
  <2>2. ServerType'
    BY <1>1, <2>1, UnchangedServerType
  <2>3. breaks' \in 0 .. MaxBreaks
    BY <1>1, <1>10, PageAssumption DEF Refresh, RequestType
  <2>4. NoCards \in [Ids -> CardState]
    BY DEF NoCards, CardState
  <2>5. NoAnswer \in [cards : [Ids -> CardState], running : BOOLEAN, at : 0 .. MaxEvents]
    BY <2>4, BoundIsNat DEF NoAnswer
  <2>6. 0 \in 0 .. pushed
    BY <1>2
  <2> QED
    BY <1>10, <2>1, <2>2, <2>3, <2>4, <2>5, <2>6 DEF Refresh, RequestType, ShownType
<1>11. CASE PageRuns \/ OtherClientRuns
  <2>1. RunTasks /\ pushed' = pushed
    BY <1>11 DEF PageRuns, OtherClientRuns, RunTasks, streamVars
  <2>2. ServerType'
    BY <1>1, <2>1, RunServerType DEF IInv, PageInv
  <2> QED
    BY <1>1, <1>11, <2>1, <2>2 DEF PageRuns, OtherClientRuns, pageVars, requestVars,
       historyVars, RequestType, ShownType
<1>12. CASE RunReplyArrives
  <2>1. pushed' = pushed
    BY <1>12 DEF RunReplyArrives, streamVars
  <2>2. ServerType'
    BY <1>1, <1>12, <2>1, UnchangedServerType DEF RunReplyArrives
  <2>3. late_reply' \in BOOLEAN
    BY <1>12 DEF RunReplyArrives
  <2> QED
    BY <1>1, <1>12, <2>1, <2>2, <2>3 DEF RunReplyArrives, RequestType, ShownType
<1>13. ASSUME NEW id \in Ids, PageRemoves(id) \/ OtherClientRemoves(id)
       PROVE  ServerType' /\ RequestType' /\ ShownType'
  <2>1. RemoveTask(id) /\ pushed' = pushed
    BY <1>13 DEF PageRemoves, OtherClientRemoves, RemoveTask, streamVars
  <2>2. ServerType'
    BY <1>1, <2>1, RemoveServerType
  <2> QED
    BY <1>1, <1>13, <2>1, <2>2 DEF PageRemoves, OtherClientRemoves, pageVars, requestVars,
       historyVars, RequestType, ShownType
<1>14. ASSUME NEW id \in Ids, RemoveReplyArrives(id)
       PROVE  ServerType' /\ RequestType' /\ ShownType'
  <2>1. pushed' = pushed
    BY <1>14 DEF RemoveReplyArrives, streamVars
  <2>2. ServerType'
    BY <1>1, <1>14, <2>1, UnchangedServerType DEF RemoveReplyArrives
  <2>3. cards' \in [Ids -> CardState]
    BY <1>1, <1>14 DEF RemoveReplyArrives, ShownType, CardState
  <2> QED
    BY <1>1, <1>14, <2>1, <2>2, <2>3 DEF RemoveReplyArrives, historyVars, RequestType, ShownType
<1> QED
  BY <1>3, <1>4, <1>5, <1>6, <1>7, <1>8, <1>9, <1>10, <1>11, <1>12, <1>13, <1>14 DEF Next

-----------------------------------------------------------------------------
(***************************************************************************)
(* Steps of the server: the log keeps telling what the server has.         *)
(***************************************************************************)

(* A task that is queued or runs, as far as a log tells, has been loaded    *)
(* and has not ended.                                                       *)
LEMMA UnderwayTold ==
  ASSUME NEW l \in Seq(Event), Orderly(l), NEW id, NEW n \in 0 .. Len(l),
         StateTold(l, id, n) \in {"queued", "running"}
  PROVE  Told(l, id, {"loaded"}, n) /\ ~Told(l, id, Terminal, n)
<1> DEFINE T(kinds) == Told(l, id, kinds, n)
           s == StateTold(l, id, n)
<1>1. /\ s = "running" <=> T({"phase", "script"}) /\ ~T(Terminal)
      /\ s = "queued" <=> T({"loaded"}) /\ ~T({"phase", "script"}) /\ ~T(Terminal)
  BY StateToldCases
<1>2. T({"phase", "script"}) => T({"loaded"})
  <2> SUFFICES ASSUME T({"phase", "script"}) PROVE T({"loaded"})
    OBVIOUS
  <2>1. PICK i \in 1 .. n : l[i].id = id /\ l[i].kind \in {"phase", "script"}
    BY DEF Told
  <2>2. i \in 1 .. Len(l) /\ i - 1 \in Nat /\ n \in Nat /\ i - 1 <= n /\ l[i].kind # "loaded"
    BY <2>1
  <2>3. Told(l, id, {"loaded"}, i - 1)
    BY <2>1, <2>2 DEF Orderly
  <2> QED
    BY <2>2, <2>3, ToldMonotone
<1>3. s \in {"queued", "running"}
  OBVIOUS
<1> HIDE DEF T, s
<1>4. T({"loaded"}) /\ ~T(Terminal)
  BY <1>1, <1>2, <1>3
<1> QED
  BY <1>4 DEF T

(* The sets of the batch decide the state of a task.                        *)
LEMMA StateOfCases ==
  ASSUME BatchInv, ServerType, NEW id
  PROVE  /\ StateOf(id) = "succeeded" <=> id \in succeeded
         /\ StateOf(id) = "failed" <=> id \in failed
         /\ StateOf(id) = "running" <=> id \in started
         /\ StateOf(id) = "queued" <=> id \in (waiting \union active) \ started
         /\ StateOf(id) = "absent" <=> id \notin Queue!Listed
<1>1. /\ waiting \intersect active = {} /\ succeeded \intersect failed = {}
      /\ (waiting \union active) \intersect (succeeded \union failed) = {}
      /\ started \subseteq active
  BY DEF BatchInv, ServerType
<1>2. /\ id \in succeeded => StateOf(id) = "succeeded"
      /\ id \in failed => StateOf(id) = "failed"
      /\ id \in started => StateOf(id) = "running"
      /\ id \in (waiting \union active) \ started => StateOf(id) = "queued"
      /\ id \notin Queue!Listed => StateOf(id) = "absent"
  BY <1>1 DEF StateOf, Queue!Listed
<1>3. \/ id \in succeeded \/ id \in failed \/ id \in started
      \/ id \in (waiting \union active) \ started \/ id \notin Queue!Listed
  BY DEF Queue!Listed
<1> QED
  BY <1>1, <1>2, <1>3 DEF Queue!Listed

LEMMA ServerUnchanged ==
  ASSUME BatchInv, LogInv, UNCHANGED serverVars, pushed' = pushed
  PROVE  BatchInv' /\ LogInv' /\ Removed' = Removed
<1>1. UNCHANGED <<used, waiting, active, succeeded, failed, busy, started, log, chatter>>
  BY DEF serverVars, queueVars
<1>2. Removed' = Removed
  BY <1>1 DEF Removed, Queue!Listed
<1>3. \A id : StateOf(id)' = StateOf(id)
  BY <1>1 DEF StateOf
<1>4. LogInv'
  BY <1>1, <1>2, <1>3 DEF LogInv
<1> QED
  BY <1>1, <1>2, <1>4 DEF BatchInv

(* A pushed event tells of a step of its task and of no other.              *)
LEMMA PushedLog ==
  ASSUME ServerType, Stream!IInv, LogInv, NEW id \in Ids, NEW kind \in EventKind,
         PushEvent(id, kind),
         IF kind = "loaded" THEN id \notin used
                            ELSE StateTold(log, id, pushed) \in {"queued", "running"}
  PROVE  /\ Orderly(log')
         /\ \A i \in Ids, n \in 0 .. pushed : StateTold(log', i, n) = StateTold(log, i, n)
         /\ \A i \in Ids \ {id} : StateTold(log', i, pushed') = StateTold(log, i, pushed)
         /\ StateTold(log', id, pushed') =
              IF kind = "loaded" THEN "queued"
              ELSE IF kind \in {"phase", "script"} THEN "running" ELSE kind
<1> DEFINE ev == [id |-> id, kind |-> kind]
<1>1. /\ pushed' = pushed + 1 /\ pushed \in Nat /\ ev \in Event
      /\ log' = Append(log, ev) /\ log' \in Seq(Event) /\ Len(log') = pushed'
      /\ log'[pushed'] = ev
  BY PushedType
<1>2. log \in Seq(Event) /\ Len(log) = pushed /\ Orderly(log)
  BY DEF ServerType, LogInv
<1>3. /\ ev.kind # "loaded" <=> Told(log, ev.id, {"loaded"}, Len(log))
      /\ ~Told(log, ev.id, Terminal, Len(log))
  <2>1. CASE kind = "loaded"
    <3>1. \A n \in 1 .. pushed : log[n].id # id
      BY <2>1 DEF LogInv
    <3> QED
      BY <1>2, <2>1, <3>1 DEF Told
  <2>2. CASE kind # "loaded"
    <3>1. Told(log, id, {"loaded"}, pushed) /\ ~Told(log, id, Terminal, pushed)
      BY <1>1, <1>2, <2>2, UnderwayTold
    <3> QED
      BY <1>2, <2>2, <3>1
  <2> QED
    BY <2>1, <2>2
<1>4. Orderly(log')
  BY <1>1, <1>2, <1>3, AppendedOrderly
<1>5. \A i \in Ids, n \in 0 .. pushed : StateTold(log', i, n) = StateTold(log, i, n)
  BY <1>1, <1>2, AppendedTold
<1>6. pushed' \in 1 .. Len(log') /\ pushed' - 1 = pushed /\ pushed \in 0 .. pushed
  BY <1>1
<1>7. ev.id = id /\ ev.kind = kind
  OBVIOUS
<1>8. /\ \A i \in Ids \ {id} : StateTold(log', i, pushed') = StateTold(log', i, pushed)
      /\ StateTold(log', id, pushed') =
           IF kind = "loaded" THEN "queued"
           ELSE IF kind \in {"phase", "script"} THEN "running" ELSE kind
  <2> DEFINE l == log'
             n == pushed'
  <2>1. l \in Seq(Event) /\ Orderly(l) /\ n \in 1 .. Len(l)
    BY <1>1, <1>4, <1>6
  <2>2. l[n] = ev /\ n - 1 = pushed
    BY <1>1, <1>6
  <2> HIDE DEF l, n, ev
  <2>3. \A i : /\ l[n].id # i => StateTold(l, i, n) = StateTold(l, i, n - 1)
               /\ l[n].id = i /\ l[n].kind = "loaded" => StateTold(l, i, n) = "queued"
               /\ l[n].id = i /\ l[n].kind \in {"phase", "script"} => StateTold(l, i, n) = "running"
               /\ l[n].id = i /\ l[n].kind \in Terminal => StateTold(l, i, n) = l[n].kind
    BY <2>1, StateToldStep
  <2>4. ASSUME NEW i \in Ids \ {id}
        PROVE  StateTold(l, i, n) = StateTold(l, i, pushed)
    BY <1>7, <2>2, <2>3
  <2>5. /\ kind = "loaded" => StateTold(l, id, n) = "queued"
        /\ kind \in {"phase", "script"} => StateTold(l, id, n) = "running"
        /\ kind \in Terminal => StateTold(l, id, n) = kind
    BY <1>7, <2>2, <2>3
  <2>6. kind = "loaded" \/ kind \in {"phase", "script"} \/ kind \in Terminal
    BY DEF EventKind, Terminal
  <2> QED
    BY <2>4, <2>5, <2>6 DEF Terminal, l, n
<1> QED
  BY <1>4, <1>5, <1>6, <1>8

(* What the parts of LogInv come to when an event is pushed.                *)
LEMMA PushedLogInv ==
  ASSUME ServerType, Stream!IInv, BatchInv, LogInv, NEW id \in Ids, NEW kind \in EventKind,
         PushEvent(id, kind),
         IF kind = "loaded" THEN id \notin used
                            ELSE StateTold(log, id, pushed) \in {"queued", "running"},
         id \in used', used \subseteq used',
         waiting' \union active' \subseteq waiting \union active \union (used' \ used),
         waiting' \subseteq waiting \union (used' \ used),
         kind \in Terminal => id \notin waiting' \union active' /\ waiting' = {},
         Removed' = Removed,
         \A i \in Ids \ (Removed \union {id}) : StateOf(i)' = StateOf(i),
         StateOf(id)' = IF kind = "loaded" THEN "queued"
                        ELSE IF kind \in {"phase", "script"} THEN "running" ELSE kind
  PROVE  LogInv'
<1>1. /\ pushed' = pushed + 1 /\ pushed \in Nat
      /\ log'[pushed'] = [id |-> id, kind |-> kind]
      /\ \A n \in 1 .. pushed : log'[n] = log[n]
  BY PushedType
<1>2. \A n \in 1 .. pushed' : n \in 1 .. pushed \/ n = pushed'
  BY <1>1
<1>3. \A n \in 1 .. pushed : log[n].id \in used
  BY DEF LogInv
<1>4. Orderly(log')
  BY PushedLog
<1>5. ASSUME NEW n \in 1 .. pushed' PROVE log'[n].id \in used'
  BY <1>1, <1>2, <1>3
<1>6. ASSUME NEW n \in 1 .. pushed', log'[n].kind \in Terminal
      PROVE  log'[n].id \notin waiting' \union active'
  <2>1. CASE n = pushed'
    BY <1>1, <1>6, <2>1
  <2>2. CASE n \in 1 .. pushed
    <3>1. log[n].id \notin waiting \union active
      BY <1>1, <1>6, <2>2 DEF LogInv
    <3> QED
      BY <1>1, <1>3, <2>2, <3>1
  <2> QED
    BY <1>2, <2>1, <2>2
<1>7. ASSUME NEW i \in waiting', NEW m \in 1 .. pushed', NEW n \in 1 .. pushed',
             log'[m].id = i, m < n
      PROVE  log'[n].kind \notin Terminal
  <2>1. m \in 1 .. pushed
    BY <1>1, <1>7
  <2>2. log[m].id = i /\ i \in waiting
    BY <1>1, <1>3, <1>7, <2>1
  <2>3. CASE n = pushed'
    BY <1>1, <1>7, <2>3
  <2>4. CASE n \in 1 .. pushed
    BY <1>1, <1>7, <2>1, <2>2, <2>4 DEF LogInv
  <2> QED
    BY <1>2, <2>3, <2>4
<1>8. ASSUME NEW i \in Ids \ Removed' PROVE StateTold(log', i, pushed') = StateOf(i)'
  <2>1. CASE i = id
    BY <2>1, PushedLog
  <2>2. CASE i # id
    <3>1. StateTold(log', i, pushed') = StateTold(log, i, pushed)
      BY <2>2, PushedLog
    <3>2. StateTold(log, i, pushed) = StateOf(i)
      BY DEF LogInv
    <3> QED
      BY <2>2, <3>1, <3>2
  <2> QED
    BY <2>1, <2>2
<1> QED
  BY <1>4, <1>5, <1>6, <1>7, <1>8 DEF LogInv

LEMMA SubmitServer ==
  ASSUME ServerType, Stream!IInv, BatchInv, LogInv, NEW id \in Ids, SubmitTask(id)
  PROVE  BatchInv' /\ LogInv' /\ Removed' = Removed /\ busy' = busy
<1>1. /\ id \notin used /\ used' = used \union {id} /\ waiting' = waiting \union {id}
      /\ UNCHANGED <<active, succeeded, failed, busy, started>> /\ ~busy
      /\ PushEvent(id, "loaded")
  BY DEF SubmitTask, Queue!Submit
<1>2. Queue!Listed \subseteq used /\ started \subseteq active
  BY DEF ServerType
<1>3. Removed' = Removed
  BY <1>1, <1>2 DEF Removed, Queue!Listed
<1>4. BatchInv'
  BY <1>1, <1>2 DEF BatchInv, Queue!Listed
<1>5. StateOf(id)' = "queued"
  BY <1>1, <1>2 DEF StateOf, Queue!Listed
<1>6. \A i \in Ids \ (Removed \union {id}) : StateOf(i)' = StateOf(i)
  BY <1>1 DEF StateOf
<1>7. LogInv'
  BY <1>1, <1>3, <1>5, <1>6, PushedLogInv DEF EventKind, Terminal
<1> QED
  BY <1>1, <1>3, <1>4, <1>7

LEMMA StartServer ==
  ASSUME ServerType, Stream!IInv, BatchInv, LogInv, NEW id \in Ids,
         StartTask(id) \/ Progress(id)
  PROVE  BatchInv' /\ LogInv' /\ Removed' = Removed /\ busy' = busy
<1>1. PICK kind \in {"phase", "script"} : PushEvent(id, kind)
  BY DEF StartTask, Progress
<1>2. /\ id \in active /\ started' = started \union {id}
      /\ UNCHANGED <<used, waiting, active, succeeded, failed, busy>>
  BY DEF StartTask, Progress, queueVars, ServerType
<1>3. Queue!Listed \subseteq used /\ started \subseteq active /\ id \in used /\ id \notin Removed
  BY <1>2 DEF ServerType, Queue!Listed, Removed
<1>4. Removed' = Removed
  BY <1>2 DEF Removed, Queue!Listed
<1>5. BatchInv'
  BY <1>2 DEF BatchInv
<1>6. id \notin succeeded \union failed
  BY <1>2 DEF BatchInv
<1>7. StateOf(id)' = "running"
  BY <1>2, <1>6 DEF StateOf
<1>8. \A i \in Ids \ (Removed \union {id}) : StateOf(i)' = StateOf(i)
  BY <1>2 DEF StateOf
<1>9. StateTold(log, id, pushed) \in {"queued", "running"}
  <2>1. StateTold(log, id, pushed) = StateOf(id)
    BY <1>3 DEF LogInv
  <2>2. StateOf(id) \in {"queued", "running"}
    BY <1>2, StateOfCases
  <2> QED
    BY <2>1, <2>2
<1>10. kind \in EventKind /\ kind # "loaded" /\ kind \notin Terminal
  BY <1>1 DEF EventKind, Terminal
<1>11. LogInv'
  BY <1>1, <1>2, <1>3, <1>4, <1>7, <1>8, <1>9, <1>10, PushedLogInv
<1> QED
  BY <1>2, <1>4, <1>5, <1>11

LEMMA SettleServer ==
  ASSUME ServerType, Stream!IInv, BatchInv, LogInv, NEW id \in Ids, SettleTask(id)
  PROVE  /\ BatchInv' /\ LogInv' /\ Removed' = Removed
         /\ log'[pushed'].kind \in Terminal
<1> DEFINE kind == IF id \in failed' THEN "failed" ELSE "succeeded"
<1>1. /\ id \in active /\ active' = active \ {id} /\ started' = started \ {id}
      /\ UNCHANGED <<used, waiting>> /\ busy' = (active' # {})
      /\ \/ succeeded' = succeeded \union {id} /\ failed' = failed
         \/ failed' = failed \union {id} /\ succeeded' = succeeded
      /\ PushEvent(id, kind)
  BY DEF SettleTask, Queue!Settle
<1>2. Queue!Listed \subseteq used /\ started \subseteq active /\ id \in used /\ id \notin Removed
  BY <1>1 DEF ServerType, Queue!Listed, Removed
<1>3. waiting = {} /\ waiting' = {}
  BY <1>1 DEF BatchInv
<1>4. Removed' = Removed
  BY <1>1 DEF Removed, Queue!Listed
<1>5. id \notin succeeded \union failed
  BY <1>1 DEF BatchInv
<1>6. BatchInv'
  <2>1. active' \intersect (succeeded' \union failed') = {}
    BY <1>1 DEF BatchInv
  <2>2. succeeded' \intersect failed' = {}
    BY <1>1, <1>5 DEF BatchInv
  <2> QED
    BY <1>1, <1>3, <2>1, <2>2 DEF BatchInv
<1>7. kind \in EventKind /\ kind \in Terminal /\ kind # "loaded" /\ kind \notin {"phase", "script"}
  BY DEF EventKind, Terminal
<1>8. StateOf(id)' = kind
  <2>1. CASE id \in failed'
    <3>1. id \notin succeeded'
      BY <1>1, <1>5, <2>1
    <3> QED
      BY <1>1, <1>3, <2>1, <3>1 DEF StateOf
  <2>2. CASE id \notin failed'
    <3>1. id \in succeeded'
      BY <1>1, <1>5, <2>2
    <3> QED
      BY <1>1, <1>3, <2>2, <3>1 DEF StateOf
  <2> QED
    BY <2>1, <2>2
<1>9. \A i \in Ids \ (Removed \union {id}) : StateOf(i)' = StateOf(i)
  BY <1>1 DEF StateOf
<1>10. StateTold(log, id, pushed) \in {"queued", "running"}
  <2>1. StateTold(log, id, pushed) = StateOf(id)
    BY <1>2 DEF LogInv
  <2>2. StateOf(id) \in {"queued", "running"}
    BY <1>1, StateOfCases
  <2> QED
    BY <2>1, <2>2
<1> HIDE DEF kind
<1>11. LogInv'
  BY <1>1, <1>2, <1>3, <1>4, <1>7, <1>8, <1>9, <1>10, PushedLogInv
<1>12. log'[pushed'].kind \in Terminal
  <2>1. log'[pushed'] = [id |-> id, kind |-> kind]
    BY <1>1, <1>7, PushedType
  <2> QED
    BY <1>7, <2>1
<1> QED
  BY <1>4, <1>6, <1>11, <1>12

LEMMA RunServer ==
  ASSUME ServerType, BatchInv, LogInv, RunTasks
  PROVE  BatchInv' /\ LogInv' /\ Removed' = Removed /\ busy'
<1>1. /\ active = {} /\ started = {} /\ started' = {} /\ active' = waiting /\ waiting' = {}
      /\ busy' = TRUE /\ waiting # {}
      /\ UNCHANGED <<used, succeeded, failed, log, pushed>>
  BY DEF RunTasks, Queue!Launch, BatchInv, ServerType, streamVars
<1>2. Removed' = Removed
  BY <1>1 DEF Removed, Queue!Listed
<1>3. BatchInv'
  BY <1>1 DEF BatchInv
<1>4. \A i : StateOf(i)' = StateOf(i)
  BY <1>1 DEF StateOf
<1>5. LogInv'
  BY <1>1, <1>2, <1>4 DEF LogInv
<1> QED
  BY <1>1, <1>2, <1>3, <1>5

LEMMA RemoveServer ==
  ASSUME ServerType, BatchInv, LogInv, NEW id \in Ids, RemoveTask(id)
  PROVE  BatchInv' /\ LogInv' /\ Removed' = Removed \union {id} /\ ~busy /\ ~busy'
<1>1. /\ active = {} /\ started = {} /\ active' = {} /\ started' = {} /\ ~busy /\ ~busy'
      /\ id \in Queue!Listed
      /\ waiting' = waiting \ {id} /\ succeeded' = succeeded \ {id} /\ failed' = failed \ {id}
      /\ UNCHANGED <<used, log, pushed>>
  BY DEF RemoveTask, Queue!Withdraw, BatchInv, ServerType, streamVars
<1>2. Removed' = Removed \union {id}
  <2>1. Queue!Listed' = Queue!Listed \ {id}
    BY <1>1 DEF Queue!Listed
  <2>2. Queue!Listed \subseteq used
    BY DEF ServerType
  <2> QED
    BY <1>1, <2>1, <2>2 DEF Removed
<1>3. BatchInv'
  <2>1. /\ waiting \intersect (succeeded \union failed) = {}
        /\ succeeded \intersect failed = {}
    BY DEF BatchInv
  <2>2. /\ waiting' \intersect (succeeded' \union failed') = {}
        /\ succeeded' \intersect failed' = {}
    BY <1>1, <2>1
  <2>3. (waiting' \union active') \intersect (succeeded' \union failed') = {}
    BY <1>1, <2>2
  <2>4. busy' \in BOOLEAN
    BY <1>1 DEF RemoveTask, Queue!Withdraw, ServerType
  <2>5. busy' = (active' # {})
    BY <1>1, <2>4
  <2> QED
    BY <1>1, <2>2, <2>3, <2>5 DEF BatchInv
<1>4. \A i \in Ids \ Removed' : StateOf(i)' = StateOf(i)
  BY <1>1, <1>2 DEF StateOf
<1>5. LogInv'
  BY <1>1, <1>2, <1>4 DEF LogInv
<1> QED
  BY <1>1, <1>2, <1>3, <1>5

-----------------------------------------------------------------------------
(***************************************************************************)
(* The page's part of the invariant.                                       *)
(***************************************************************************)

(* Steps of the server leave it true: no event is forgotten, and a run does *)
(* not end without an event that tells.                                     *)
LEMMA PageKept ==
  ASSUME ServerType, ShownType, RequestType, pushed \in Nat, pushed' \in Nat,
         AnswerInv, CardsInv, RunningInv,
         UNCHANGED <<cards, shown_running, status_stage, status_answer, historyVars>>,
         Removed \subseteq Removed', pushed <= pushed', Len(log') = pushed',
         \A n \in 1 .. pushed : log'[n] = log[n],
         \A i \in Ids, n \in 0 .. pushed : StateTold(log', i, n) = StateTold(log, i, n),
         busy /\ ~busy' => pushed' = pushed + 1 /\ log'[pushed'].kind \in Terminal
  PROVE  AnswerInv' /\ CardsInv' /\ RunningInv'
<1>1. /\ status_answer.at \in 0 .. pushed /\ known \in 0 .. pushed /\ informed \in 0 .. pushed
      /\ status_answer.running \in BOOLEAN /\ Len(log) = pushed
  BY DEF RequestType, ShownType, AnswerInv, ServerType
<1>2. ASSUME NEW n \in 0 .. pushed, ~busy', busy \/ EndsAfter(log, n)
      PROVE  EndsAfter(log', n)
  <2>1. CASE busy
    BY <1>2, <2>1 DEF EndsAfter
  <2>2. CASE EndsAfter(log, n)
    <3>1. PICK m \in n + 1 .. pushed : log[m].kind \in Terminal
      BY <1>1, <2>2 DEF EndsAfter
    <3>2. m \in n + 1 .. pushed' /\ log'[m].kind \in Terminal
      BY <3>1
    <3> QED
      BY <3>2 DEF EndsAfter
  <2> QED
    BY <1>2, <2>1, <2>2
<1>3. AnswerInv'
  <2>1. status_answer'.at <= pushed'
    BY <1>1
  <2>2. status_answer'.running /\ ~busy' => EndsAfter(log', status_answer'.at)
    BY <1>1, <1>2 DEF AnswerInv
  <2>3. status_stage' = "answered" =>
          \A i \in Ids \ Removed' :
            status_answer'.cards[i] = StateTold(log', i, status_answer'.at)
    BY <1>1 DEF AnswerInv
  <2> QED
    BY <2>1, <2>2, <2>3 DEF AnswerInv
<1>4. CardsInv'
  BY <1>1 DEF CardsInv, historyVars
<1>5. RunningInv'
  BY <1>1, <1>2 DEF RunningInv, historyVars
<1> QED
  BY <1>3, <1>4, <1>5

LEMMA PushPage ==
  ASSUME IInv, NEW id \in Ids,
         SubmitTask(id) \/ StartTask(id) \/ Progress(id) \/ SettleTask(id)
  PROVE  PageInv'
<1>1. ServerType /\ ShownType /\ RequestType /\ Stream!IInv /\ PageInv
  BY TypeParts DEF IInv
<1>2. BatchInv' /\ LogInv' /\ Removed' = Removed
  BY <1>1, SubmitServer, StartServer, SettleServer DEF PageInv
<1>3. busy /\ ~busy' => log'[pushed'].kind \in Terminal
  BY <1>1, SubmitServer, StartServer, SettleServer DEF PageInv
<1>4. PICK kind \in EventKind :
        /\ PushEvent(id, kind)
        /\ IF kind = "loaded" THEN id \notin used
                              ELSE id \in active
  <2>1. CASE SubmitTask(id)
    <3>1. PushEvent(id, "loaded") /\ id \notin used /\ "loaded" \in EventKind
      BY <2>1 DEF SubmitTask, Queue!Submit, EventKind
    <3> QED
      BY <3>1
  <2>2. CASE StartTask(id) \/ Progress(id)
    <3>1. PICK kind \in {"phase", "script"} : PushEvent(id, kind)
      BY <2>2 DEF StartTask, Progress
    <3>2. id \in active /\ kind \in EventKind /\ kind # "loaded"
      BY <1>1, <2>2, <3>1 DEF StartTask, Progress, ServerType, EventKind
    <3> QED
      BY <3>1, <3>2
  <2>3. CASE SettleTask(id)
    <3>1. PICK kind \in {"succeeded", "failed"} : PushEvent(id, kind)
      BY <2>3 DEF SettleTask
    <3>2. id \in active /\ kind \in EventKind /\ kind # "loaded"
      BY <2>3, <3>1 DEF SettleTask, Queue!Settle, EventKind
    <3> QED
      BY <3>1, <3>2
  <2> QED
    BY <2>1, <2>2, <2>3
<1>5. IF kind = "loaded" THEN id \notin used
                         ELSE StateTold(log, id, pushed) \in {"queued", "running"}
  <2>1. ASSUME id \in active PROVE StateTold(log, id, pushed) \in {"queued", "running"}
    <3>1. id \notin Removed
      BY <2>1 DEF Removed, Queue!Listed
    <3>2. StateTold(log, id, pushed) = StateOf(id)
      BY <1>1, <3>1 DEF PageInv, LogInv
    <3>3. StateOf(id) \in {"queued", "running"}
      BY <1>1, <2>1, StateOfCases DEF PageInv
    <3> QED
      BY <3>2, <3>3
  <2> QED
    BY <1>4, <2>1
<1>6. /\ pushed' = pushed + 1 /\ pushed \in Nat /\ Len(log') = pushed'
      /\ \A n \in 1 .. pushed : log'[n] = log[n]
  BY <1>1, <1>4, PushedType
<1>7. \A i \in Ids, n \in 0 .. pushed : StateTold(log', i, n) = StateTold(log, i, n)
  BY <1>1, <1>4, <1>5, PushedLog DEF PageInv
<1>8. UNCHANGED <<cards, shown_running, status_stage, status_answer, remove_reply, historyVars>>
  BY DEF SubmitTask, StartTask, Progress, SettleTask, pageVars, requestVars
<1>9. AnswerInv' /\ CardsInv' /\ RunningInv'
  BY <1>1, <1>2, <1>3, <1>6, <1>7, <1>8, PageKept DEF PageInv
<1> QED
  BY <1>1, <1>2, <1>8, <1>9 DEF PageInv, historyVars

LEMMA RunPage ==
  ASSUME IInv, PageRuns \/ OtherClientRuns
  PROVE  PageInv'
<1>1. ServerType /\ ShownType /\ RequestType /\ PageInv /\ pushed \in Nat
  BY TypeParts, StreamFacts DEF IInv
<1>2. RunTasks /\ UNCHANGED <<log, pushed>>
  BY DEF PageRuns, OtherClientRuns, RunTasks, streamVars
<1>3. BatchInv' /\ LogInv' /\ Removed' = Removed /\ busy'
  BY <1>1, <1>2, RunServer DEF PageInv
<1>4. UNCHANGED <<cards, shown_running, status_stage, status_answer, remove_reply, historyVars>>
  BY DEF PageRuns, OtherClientRuns, pageVars, requestVars
<1>5. AnswerInv' /\ CardsInv' /\ RunningInv'
  <2>1. Len(log) = pushed
    BY <1>1 DEF ServerType
  <2> QED
    BY <1>1, <1>2, <1>3, <1>4, <2>1, PageKept DEF PageInv
<1> QED
  BY <1>1, <1>3, <1>4, <1>5 DEF PageInv, historyVars

LEMMA RemovePage ==
  ASSUME IInv, NEW id \in Ids, PageRemoves(id) \/ OtherClientRemoves(id)
  PROVE  PageInv'
<1>1. ServerType /\ ShownType /\ RequestType /\ PageInv /\ pushed \in Nat
  BY TypeParts, StreamFacts DEF IInv
<1>2. RemoveTask(id) /\ UNCHANGED <<log, pushed>>
  BY DEF PageRemoves, OtherClientRemoves, RemoveTask, streamVars
<1>3. BatchInv' /\ LogInv' /\ Removed' = Removed \union {id} /\ ~busy
  BY <1>1, <1>2, RemoveServer DEF PageInv
<1>4. /\ UNCHANGED <<cards, shown_running, status_stage, status_answer, historyVars>>
      /\ remove_reply' \subseteq remove_reply \union {id}
  BY DEF PageRemoves, OtherClientRemoves, pageVars, requestVars
<1>5. AnswerInv' /\ CardsInv' /\ RunningInv'
  <2>1. Len(log) = pushed
    BY <1>1 DEF ServerType
  <2> QED
    BY <1>1, <1>2, <1>3, <1>4, <2>1, PageKept DEF PageInv
<1> QED
  BY <1>1, <1>3, <1>4, <1>5 DEF PageInv, historyVars

(* An answer is what the whole log tells at that moment.                    *)
LEMMA AnswerPage == ASSUME IInv, AnswerStatus PROVE PageInv'
<1>1. ServerType /\ PageInv /\ pushed \in Nat
  BY TypeParts, StreamFacts DEF IInv
<1>2. BatchInv' /\ LogInv' /\ Removed' = Removed
  BY <1>1, ServerUnchanged DEF AnswerStatus, streamVars, PageInv
<1>3. /\ UNCHANGED <<log, pushed, busy, cards, shown_running, remove_reply, known, informed,
                     gap, overwritten, late_reply, misled>>
      /\ status_answer' = [cards |-> [id \in Ids |-> StateOf(id)], running |-> busy, at |-> pushed]
  BY DEF AnswerStatus, serverVars, queueVars, streamVars, historyVars
<1>4. AnswerInv'
  <2>1. status_answer'.at = pushed' /\ status_answer'.running = busy'
    BY <1>3
  <2>2. ASSUME NEW id \in Ids \ Removed'
        PROVE  status_answer'.cards[id] = StateTold(log', id, status_answer'.at)
    <3>1. StateTold(log, id, pushed) = StateOf(id)
      BY <1>1, <1>2 DEF PageInv, LogInv
    <3> QED
      BY <1>3, <3>1
  <2> QED
    BY <1>1, <1>3, <2>1, <2>2 DEF AnswerInv
<1>5. CardsInv'
  BY <1>1, <1>2, <1>3 DEF PageInv, CardsInv
<1>6. RunningInv'
  BY <1>1, <1>3 DEF PageInv, RunningInv
<1> QED
  BY <1>1, <1>2, <1>3, <1>4, <1>5, <1>6 DEF PageInv

(* The cards are brought up to the answer, or the page remembers that they  *)
(* were not.                                                                *)
LEMMA ShowPage == ASSUME IInv, ShowStatus PROVE PageInv'
<1>1. ServerType /\ ShownType /\ RequestType /\ PageInv /\ pushed \in Nat
  BY TypeParts, StreamFacts DEF IInv
<1>2. BatchInv' /\ LogInv' /\ Removed' = Removed
  BY <1>1, ServerUnchanged DEF ShowStatus, streamVars, PageInv
<1>3. /\ UNCHANGED <<log, pushed, busy, remove_reply, late_reply, misled>>
      /\ status_stage = "answered" /\ status_stage' = "shown" /\ status_answer' = NoAnswer
      /\ cards' = [id \in Ids |-> IF status_answer.cards[id] = "absent"
                                  THEN cards[id] ELSE status_answer.cards[id]]
      /\ shown_running' = status_answer.running
  BY DEF ShowStatus, serverVars, queueVars, streamVars
<1>4. /\ \/ /\ informed <= status_answer.at
            /\ known' = status_answer.at /\ informed' = status_answer.at /\ gap' = FALSE
            /\ overwritten' = overwritten
         \/ /\ overwritten' = TRUE /\ UNCHANGED <<known, informed, gap>>
  BY DEF ShowStatus
<1>5. /\ status_answer.at \in 0 .. pushed
      /\ log \in Seq(Event) /\ Len(log) = pushed /\ Orderly(log)
      /\ known \in Nat /\ informed \in Nat
  BY <1>1 DEF ServerType, RequestType, ShownType, PageInv, AnswerInv, LogInv
<1>6. AnswerInv'
  BY <1>1, <1>3 DEF AnswerInv, NoAnswer
<1>7. CardsInv'
  <2> SUFFICES ASSUME ~overwritten', NEW id \in Ids \ Removed
               PROVE  /\ cards'[id] \in Progressed(StateTold(log, id, known'))
                      /\ StateTold(log, id, informed') \in Progressed(cards'[id])
    BY <1>2, <1>3 DEF CardsInv
  <2>1. /\ informed <= status_answer.at /\ known' = status_answer.at
        /\ informed' = status_answer.at /\ ~overwritten
    BY <1>4
  <2>2. status_answer.cards[id] = StateTold(log, id, status_answer.at)
    BY <1>1, <1>3 DEF PageInv, AnswerInv
  <2>3. cards'[id] = StateTold(log, id, status_answer.at)
    <3>1. CASE status_answer.cards[id] = "absent"
      <4>1. StateTold(log, id, informed) \in Progressed(cards[id])
        BY <1>1, <2>1 DEF PageInv, CardsInv
      <4>2. "absent" \in Progressed(StateTold(log, id, informed))
        <5>1. status_answer.at \in Nat /\ status_answer.at <= Len(log)
          BY <1>1, <1>5
        <5>2. StateTold(log, id, status_answer.at) \in Progressed(StateTold(log, id, informed))
          BY <1>5, <2>1, <5>1, StateToldProgresses
        <5> QED
          BY <2>2, <3>1, <5>2
      <4>3. StateTold(log, id, informed) = "absent"
        BY <4>2 DEF Progressed, Terminal
      <4>4. cards[id] = "absent"
        BY <4>1, <4>3 DEF Progressed, Terminal
      <4> QED
        BY <1>3, <2>2, <3>1, <4>4
    <3>2. CASE status_answer.cards[id] # "absent"
      BY <1>3, <2>2, <3>2
    <3> QED
      BY <3>1, <3>2
  <2>4. \A s \in CardState : s \in Progressed(s)
    BY DEF Progressed
  <2>5. StateTold(log, id, status_answer.at) \in CardState
    BY StateToldCases
  <2> QED
    BY <2>1, <2>3, <2>4, <2>5
<1>8. RunningInv'
  BY <1>1, <1>3, <1>4 DEF PageInv, AnswerInv, RunningInv
<1>9. known' <= informed'
  BY <1>1, <1>4, <1>5 DEF PageInv
<1> QED
  BY <1>1, <1>2, <1>3, <1>6, <1>7, <1>8, <1>9 DEF PageInv

(* Connections and their loss change nothing that the page shows.           *)
LEMMA ConnectPage == ASSUME IInv, Connect \/ LoseConnection PROVE PageInv'
<1>1. UNCHANGED <<serverVars, cards, shown_running, status_stage, status_answer, remove_reply,
                  historyVars, pushed>>
  BY DEF Connect, LoseConnection, pageVars, requestVars, Stream!Subscribe, Stream!CopyReplay,
     Stream!SkipOverwritten, Stream!Close
<1>2. BatchInv' /\ LogInv' /\ Removed' = Removed
  BY <1>1, ServerUnchanged DEF IInv, PageInv
<1>3. AnswerInv' /\ CardsInv' /\ RunningInv'
  BY <1>1, <1>2 DEF IInv, PageInv, AnswerInv, CardsInv, RunningInv, serverVars, queueVars,
     historyVars
<1> QED
  BY <1>1, <1>2, <1>3 DEF IInv, PageInv, historyVars

LEMMA RefreshPage == ASSUME IInv, Refresh PROVE PageInv'
<1>1. /\ UNCHANGED <<serverVars, pushed>>
      /\ cards' = NoCards /\ ~shown_running' /\ status_answer' = NoAnswer
      /\ status_stage' = "asked" /\ remove_reply' = {} /\ known' = 0 /\ informed' = 0
  BY DEF Refresh, Stream!Close
<1>2. BatchInv' /\ LogInv' /\ Removed' = Removed
  BY <1>1, ServerUnchanged DEF IInv, PageInv
<1>3. pushed \in Nat
  BY StreamFacts DEF IInv
<1>4. AnswerInv'
  BY <1>1, <1>3 DEF AnswerInv, NoAnswer
<1>5. CardsInv'
  <2>1. \A id : StateTold(log', id, 0) = "absent"
    BY StateToldCases DEF Told
  <2> QED
    BY <1>1, <2>1 DEF CardsInv, NoCards, Progressed, CardState
<1>6. RunningInv'
  BY <1>1 DEF RunningInv
<1> QED
  BY <1>1, <1>2, <1>4, <1>5, <1>6 DEF PageInv

(* The reply of a run is late, or the end of that run has not been heard of. *)
LEMMA RunReplyPage == ASSUME IInv, RunReplyArrives PROVE PageInv'
<1>1. ServerType /\ ShownType /\ PageInv /\ pushed \in Nat
  BY TypeParts, StreamFacts DEF IInv
<1>2. /\ UNCHANGED <<serverVars, log, busy, pushed, cards, status_stage, status_answer,
                     remove_reply, known, informed, gap, overwritten, misled>>
      /\ late_reply' = (late_reply \/ EndReflected)
  BY DEF RunReplyArrives, serverVars, queueVars, streamVars
<1>3. BatchInv' /\ LogInv' /\ Removed' = Removed
  BY <1>1, <1>2, ServerUnchanged DEF PageInv
<1>4. AnswerInv' /\ CardsInv'
  BY <1>1, <1>2, <1>3 DEF PageInv, AnswerInv, CardsInv
<1>5. RunningInv'
  <2> SUFFICES ASSUME ~late_reply', ~busy PROVE EndsAfter(log, informed)
    BY <1>2 DEF RunningInv
  <2>1. PICK n \in 1 .. pushed : log[n].kind \in Terminal /\ ~(n <= informed)
    BY <1>2 DEF EndReflected
  <2>2. n \in informed + 1 .. Len(log)
    BY <1>1, <2>1 DEF ServerType, ShownType
  <2> QED
    BY <2>1, <2>2 DEF EndsAfter
<1> QED
  BY <1>1, <1>2, <1>3, <1>4, <1>5 DEF PageInv

LEMMA RemoveReplyPage ==
  ASSUME IInv, NEW id \in Ids, RemoveReplyArrives(id) PROVE PageInv'
<1>1. PageInv /\ ShownType
  BY TypeParts DEF IInv
<1>2. /\ UNCHANGED <<serverVars, log, busy, pushed, shown_running, status_stage, status_answer,
                     known, informed, gap, overwritten, late_reply, misled>>
      /\ id \in remove_reply /\ remove_reply' = remove_reply \ {id}
      /\ cards' = [cards EXCEPT ![id] = "absent"]
  BY DEF RemoveReplyArrives, serverVars, queueVars, streamVars, historyVars
<1>3. BatchInv' /\ LogInv' /\ Removed' = Removed
  BY <1>1, <1>2, ServerUnchanged DEF PageInv
<1>4. id \in Removed
  BY <1>1, <1>2 DEF PageInv
<1>5. \A i \in Ids \ Removed : cards'[i] = cards[i]
  BY <1>1, <1>2, <1>4 DEF ShownType
<1>6. AnswerInv' /\ CardsInv' /\ RunningInv'
  BY <1>1, <1>2, <1>3, <1>5 DEF PageInv, AnswerInv, CardsInv, RunningInv
<1> QED
  BY <1>1, <1>2, <1>3, <1>6 DEF PageInv

(* When the last end of a run has been told, every task that is still listed *)
(* and was loaded by then has ended.                                        *)
LEMMA EndedByTheEnd ==
  ASSUME ServerType, BatchInv, LogInv, pushed \in Nat, ~busy, NEW n \in 1 .. pushed,
         log[n].kind \in Terminal, ~EndsAfter(log, n), NEW id \in Ids \ Removed
  PROVE  StateTold(log, id, n) \in Terminal \union {"absent"}
<1> SUFFICES ASSUME StateTold(log, id, n) \notin Terminal \union {"absent"} PROVE FALSE
  OBVIOUS
<1>1. log \in Seq(Event) /\ Len(log) = pushed /\ Orderly(log) /\ n \in 0 .. Len(log)
  BY DEF ServerType, LogInv
<1>2. StateTold(log, id, n) \in {"queued", "running"}
  BY StateToldCases DEF CardState, TaskState, Terminal
<1>3. Told(log, id, {"loaded"}, n) /\ ~Told(log, id, Terminal, n)
  BY <1>1, <1>2, UnderwayTold
<1>4. PICK i \in 1 .. n : log[i].id = id /\ log[i].kind = "loaded"
  BY <1>3 DEF Told
<1>5. i < n /\ i \in 1 .. pushed
  BY <1>4 DEF Terminal
<1>6. id \notin waiting
  BY <1>4, <1>5 DEF LogInv
<1>7. ~Told(log, id, Terminal, pushed)
  <2> SUFFICES ASSUME NEW j \in 1 .. pushed, log[j].id = id, log[j].kind \in Terminal
               PROVE  FALSE
    BY DEF Told
  <2>1. ~(j <= n)
    BY <1>3 DEF Told
  <2>2. j \in n + 1 .. Len(log)
    BY <1>1, <2>1
  <2> QED
    BY <2>2 DEF EndsAfter
<1>8. StateTold(log, id, pushed) = StateOf(id)
  BY DEF LogInv
<1>9. StateOf(id) \in {"queued", "running"}
  <2>1. StateTold(log, id, pushed) \in Progressed(StateTold(log, id, n))
    BY <1>1, StateToldProgresses
  <2>2. StateTold(log, id, pushed) # "absent"
    BY <1>2, <2>1 DEF Progressed, Terminal
  <2>3. StateTold(log, id, pushed) \notin Terminal
    BY <1>7, ToldSplit, StateToldCases DEF Terminal
  <2> QED
    BY <1>8, <2>2, <2>3, StateToldCases DEF CardState, TaskState, Terminal
<1>10. id \in waiting \union active
  BY <1>9, StateOfCases DEF ServerType
<1> QED
  BY <1>6, <1>10 DEF BatchInv

LEMMA ReceivePage == ASSUME IInv, ReceiveEvent PROVE PageInv'
<1>1. ServerType /\ ShownType /\ PageInv /\ pushed \in Nat
  BY TypeParts, StreamFacts DEF IInv
<1>2. /\ UNCHANGED <<serverVars, log, busy, pushed, status_stage, status_answer, remove_reply,
                     overwritten, late_reply>>
  BY DEF ReceiveEvent, serverVars, queueVars, requestVars, Stream!SendReplay, Stream!SendLive
<1>3. PICK n \in 1 .. pushed : HandleEvent(n)
  BY StreamFacts DEF ReceiveEvent, IInv
<1>4. BatchInv' /\ LogInv' /\ Removed' = Removed
  BY <1>1, <1>2, ServerUnchanged DEF PageInv
<1>5. /\ log \in Seq(Event) /\ Len(log) = pushed /\ Orderly(log)
      /\ log[n].id \in Ids /\ log[n].kind \in EventKind
  <2>1. log \in Seq(Event) /\ Len(log) = pushed /\ Orderly(log)
    BY <1>1 DEF ServerType, PageInv, LogInv
  <2>2. log[n] \in Event
    BY <2>1
  <2> QED
    BY <2>1, <2>2 DEF Event
<1>6. /\ known \in 0 .. pushed /\ informed \in 0 .. pushed /\ known <= informed
      /\ cards \in [Ids -> CardState] /\ n \in Nat
  BY <1>1 DEF ShownType, PageInv
<1>7. /\ known' = IF n <= known + 1 THEN n ELSE known
      /\ informed' = IF n > informed THEN n ELSE informed
      /\ n <= known + 1 => gap' = gap
      /\ ~(n <= known + 1) => gap' = TRUE
      /\ shown_running' = RunningAfter(log[n].kind, cards')
      /\ misled' = (misled \/ (log[n].kind \in Terminal /\ ~NoGhost))
      /\ \A id \in Ids : cards'[id] = IF log[n].id = id THEN CardAfter(log[n].kind, cards[id])
                                                       ELSE cards[id]
  <2>1. /\ known' = IF n <= known + 1 THEN n ELSE known
        /\ n <= known + 1 => gap' = gap
        /\ ~(n <= known + 1) => gap' = TRUE
    BY <1>3 DEF HandleEvent
  <2>2. /\ informed' = IF n > informed THEN n ELSE informed
        /\ shown_running' = RunningAfter(log[n].kind, cards')
        /\ misled' = (misled \/ (log[n].kind \in Terminal /\ ~NoGhost))
        /\ cards' = [cards EXCEPT ![log[n].id] = CardAfter(log[n].kind, cards[log[n].id])]
    BY <1>3 DEF HandleEvent
  <2>3. ASSUME NEW id \in Ids
        PROVE  cards'[id] = IF log[n].id = id THEN CardAfter(log[n].kind, cards[id]) ELSE cards[id]
    BY <1>5, <1>6, <2>2
  <2> QED
    BY <2>1, <2>2, <2>3
<1>8. AnswerInv'
  BY <1>1, <1>2, <1>4 DEF PageInv, AnswerInv
<1>9. CardsInv'
  <2> SUFFICES ASSUME ~overwritten, NEW id \in Ids \ Removed
               PROVE  /\ cards'[id] \in Progressed(StateTold(log, id, known'))
                      /\ StateTold(log, id, informed') \in Progressed(cards'[id])
    BY <1>2, <1>4 DEF CardsInv
  <2>1. /\ cards[id] \in Progressed(StateTold(log, id, known))
        /\ StateTold(log, id, informed) \in Progressed(cards[id])
    BY <1>1 DEF PageInv, CardsInv
  <2>2. cards[id] \in CardState
    BY <1>6
  <2> QED
    BY <1>5, <1>6, <1>7, <2>1, <2>2, CardHandling
<1>10. RunningInv'
  <2> SUFFICES ASSUME ~overwritten, ~late_reply, ~misled', ~gap', shown_running', ~busy,
                      ~EndsAfter(log, informed')
               PROVE  FALSE
    BY <1>2 DEF RunningInv
  <2>1. ~misled /\ (log[n].kind \in Terminal => NoGhost)
    BY <1>7
  <2>2. n <= known + 1 /\ ~gap
    BY <1>7
  <2>3. shown_running /\ ~(log[n].kind \in Terminal /\ AllDone(cards'))
    BY <1>7 DEF RunningAfter
  <2>4. PICK m \in informed + 1 .. pushed : log[m].kind \in Terminal
    BY <1>1, <1>5, <2>1, <2>2, <2>3 DEF PageInv, RunningInv, EndsAfter
  <2>5. ~(m > informed')
    BY <1>5, <1>6, <1>7, <2>4 DEF EndsAfter
  <2>6. n = m /\ known' = n /\ informed' = n
    BY <1>6, <1>7, <2>2, <2>5
  <2>7. log[n].kind \in Terminal /\ NoGhost
    BY <2>1, <2>4, <2>6
  <2>8. ASSUME NEW id \in Ids PROVE cards'[id] \in Terminal \union {"absent"}
    <3> SUFFICES ASSUME cards'[id] # "absent" PROVE cards'[id] \in Terminal
      OBVIOUS
    <3>1. cards[id] # "absent"
      BY <1>7, <2>7 DEF CardAfter, Terminal
    <3>2. id \in Ids \ Removed
      BY <2>7, <3>1 DEF NoGhost, Removed
    <3>3. StateTold(log, id, n) \in Terminal \union {"absent"}
      BY <1>1, <2>6, <2>7, <3>2, EndedByTheEnd DEF PageInv
    <3>4. /\ cards'[id] \in Progressed(StateTold(log, id, n))
          /\ StateTold(log, id, n) \in Progressed(cards'[id])
      BY <1>2, <1>4, <1>9, <2>6, <3>2 DEF CardsInv
    <3> QED
      BY <3>3, <3>4 DEF Progressed, Terminal
  <2> QED
    BY <2>3, <2>7, <2>8 DEF AllDone
<1>11. known' <= informed'
  BY <1>6, <1>7
<1> QED
  BY <1>1, <1>2, <1>4, <1>8, <1>9, <1>10, <1>11 DEF PageInv

-----------------------------------------------------------------------------
LEMMA InitInv == Init => IInv
<1> SUFFICES ASSUME Init PROVE IInv
  OBVIOUS
<1>1. Stream!IInv
  BY StreamInit DEF Init
<1>2. ServerType /\ RequestType /\ ShownType
  BY InitType
<1>3. TypeOK
  BY <1>1, <1>2, TypeParts DEF Stream!IInv
<1>4. /\ used = {} /\ waiting = {} /\ active = {} /\ succeeded = {} /\ failed = {}
      /\ busy = FALSE /\ started = {} /\ log = <<>> /\ pushed = 0
      /\ cards = NoCards /\ shown_running = FALSE /\ status_stage = "asked"
      /\ status_answer = NoAnswer /\ remove_reply = {} /\ known = 0 /\ informed = 0
  BY DEF Init, Queue!Init, Stream!Init
<1>5. \A id : StateTold(log, id, 0) = "absent"
  BY StateToldCases DEF Told
<1>6. BatchInv
  BY <1>4 DEF BatchInv
<1>7. LogInv
  <2>1. Orderly(log)
    BY <1>4 DEF Orderly
  <2>2. \A id : StateOf(id) = "absent"
    BY <1>4 DEF StateOf
  <2> QED
    BY <1>4, <1>5, <2>1, <2>2 DEF LogInv
<1>8. AnswerInv
  BY <1>4 DEF AnswerInv, NoAnswer
<1>9. CardsInv
  BY <1>4, <1>5 DEF CardsInv, NoCards, Progressed, CardState
<1>10. RunningInv
  BY <1>4 DEF RunningInv
<1> QED
  BY <1>1, <1>3, <1>4, <1>6, <1>7, <1>8, <1>9, <1>10 DEF IInv, PageInv

LEMMA NextInv == IInv /\ [Next]_vars => IInv'
<1> SUFFICES ASSUME IInv, [Next]_vars PROVE IInv'
  OBVIOUS
<1>1. Stream!IInv'
  BY StreamStep, StreamNext DEF IInv
<1>2. TypeOK'
  BY <1>1, TypeStep
<1>3. PageInv'
  <2>1. CASE UNCHANGED vars
    <3>1. UNCHANGED <<serverVars, pushed, cards, shown_running, status_stage, status_answer,
                      remove_reply, historyVars>>
      BY <2>1 DEF vars, streamVars, pageVars, requestVars
    <3>2. BatchInv' /\ LogInv' /\ Removed' = Removed
      BY <3>1, ServerUnchanged DEF IInv, PageInv
    <3>3. AnswerInv' /\ CardsInv' /\ RunningInv'
      BY <3>1, <3>2 DEF IInv, PageInv, AnswerInv, CardsInv, RunningInv, serverVars, queueVars,
         historyVars
    <3> QED
      BY <3>1, <3>2, <3>3 DEF IInv, PageInv, historyVars
  <2>2. CASE Next
    BY <2>2, AnswerPage, ShowPage, ReceivePage, ConnectPage, RefreshPage, RunPage,
       RunReplyPage, PushPage, RemovePage, RemoveReplyPage DEF Next
  <2> QED
    BY <2>1, <2>2
<1> QED
  BY <1>1, <1>2, <1>3 DEF IInv

(* The event log tells what the server has, and what the page shows lies    *)
(* between what two prefixes of the log tell: the invariant behind the      *)
(* theorems below, for the page of dashboard.html and its server.           *)
THEOREM PageInvariance == Spec => []IInv
BY InitInv, NextInv, PTL DEF Spec

(* Page, requests, events and batch stay within their types: no event       *)
(* reaches the page that was not pushed.                                    *)
THEOREM PageTypeCorrect == Spec => []TypeOK
BY PageInvariance, PTL DEF IInv

(* A page that has nothing on its way to it shows every listed task in the  *)
(* state the server has it in, for any number of tasks, lost connections,   *)
(* reloads and repeated events and any size of the buffers.                 *)
THEOREM PageConverges == Spec => []CardsConverge
<1>1. IInv => CardsConverge
  <2> SUFFICES ASSUME IInv, UpToDate, ~overwritten, NEW id \in Queue!Listed
               PROVE  cards[id] = StateOf(id)
    BY DEF CardsConverge
  <2>1. ServerType /\ ShownType /\ PageInv /\ pushed \in Nat
    BY TypeParts, StreamFacts DEF IInv
  <2>2. known = pushed /\ informed = pushed
    BY <2>1 DEF UpToDate, ShownType, PageInv
  <2>3. id \in Ids \ Removed
    BY <2>1 DEF ServerType, Removed
  <2>4. StateTold(log, id, pushed) = StateOf(id)
    BY <2>1, <2>3 DEF PageInv, LogInv
  <2>5. /\ cards[id] \in Progressed(StateOf(id))
        /\ StateOf(id) \in Progressed(cards[id])
    BY <2>1, <2>2, <2>3, <2>4 DEF PageInv, CardsInv
  <2> QED
    BY <2>5 DEF Progressed, Terminal
<1> QED
  BY <1>1, PageInvariance, PTL

(* ... and does not show a run after its end, but for the three cases the   *)
(* property names.                                                          *)
THEOREM PageSeesTheEnd == Spec => []RunningRecovers
<1>1. IInv => RunningRecovers
  <2> SUFFICES ASSUME IInv, UpToDate, ~overwritten, ~late_reply, ~misled, shown_running, ~busy
               PROVE  FALSE
    BY DEF RunningRecovers
  <2>1. ServerType /\ ShownType /\ PageInv /\ pushed \in Nat
    BY TypeParts, StreamFacts DEF IInv
  <2>2. informed = pushed /\ ~gap
    BY <2>1 DEF UpToDate, ShownType, PageInv
  <2>3. EndsAfter(log, informed)
    BY <2>1, <2>2 DEF PageInv, RunningInv
  <2> QED
    BY <2>1, <2>2, <2>3 DEF EndsAfter, ServerType
<1> QED
  BY <1>1, PageInvariance, PTL

(* The server of the page behaves as TaskBatch promises, and what the page  *)
(* is sent is a behaviour of EventStream: what is proved of the two holds   *)
(* here.                                                                    *)
LEMMA QueueStep == [Next]_vars => [Queue!Next]_(Queue!vars)
<1> SUFFICES ASSUME [Next]_vars PROVE [Queue!Next]_(Queue!vars)
  OBVIOUS
<1> USE DEF Queue!Next, Queue!vars
<1>1. CASE UNCHANGED vars
  BY <1>1 DEF vars, serverVars, queueVars
<1>2. CASE \E id \in Ids : SubmitTask(id) \/ SettleTask(id)
  BY <1>2 DEF SubmitTask, SettleTask
<1>3. CASE \E id \in Ids : PageRemoves(id) \/ OtherClientRemoves(id)
  BY <1>3 DEF PageRemoves, OtherClientRemoves, RemoveTask
<1>4. CASE PageRuns \/ OtherClientRuns
  BY <1>4 DEF PageRuns, OtherClientRuns, RunTasks
<1>5. CASE \/ AnswerStatus \/ ShowStatus \/ ReceiveEvent \/ Connect \/ LoseConnection \/ Refresh
           \/ RunReplyArrives
           \/ \E id \in Ids : StartTask(id) \/ Progress(id) \/ RemoveReplyArrives(id)
  BY <1>5 DEF AnswerStatus, ShowStatus, ReceiveEvent, Connect, LoseConnection, Refresh,
     RunReplyArrives, StartTask, Progress, RemoveReplyArrives, serverVars, queueVars
<1> QED
  BY <1>1, <1>2, <1>3, <1>4, <1>5 DEF Next

THEOREM PageImplementsParts == Spec => Queue!Spec /\ Stream!Spec
<1>1. Init => Queue!Init /\ Stream!Init
  BY DEF Init
<1>2. IInv /\ [Next]_vars => [Stream!Next]_(Stream!vars)
  BY StreamStep DEF IInv
<1> QED
  BY <1>1, <1>2, QueueStep, PageInvariance, PTL DEF Spec, Queue!Spec, Stream!Spec
=============================================================================
