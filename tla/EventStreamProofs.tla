------------------------- MODULE EventStreamProofs -------------------------
(***************************************************************************)
(* Theorems about module EventStream, for any number of connections and    *)
(* any capacity of the buffer and of the channel.                          *)
(***************************************************************************)
EXTENDS EventStream, SequenceTheorems, TLAPS

USE StreamAssumption

(* What pop_front and push_back do to the replay buffer.                    *)
LEMMA PushedBuffer ==
  ASSUME NEW r \in Seq(1 .. MaxEvents), NEW n \in 1 .. MaxEvents
  PROVE  /\ Buffered(r, n) \in Seq(1 .. MaxEvents)
         /\ Len(Buffered(r, n)) =
              (IF Len(r) >= ReplayCapacity THEN Len(r) - 1 ELSE Len(r)) + 1
         /\ Buffered(r, n)[Len(Buffered(r, n))] = n
         /\ \A i \in 1 .. Len(Buffered(r, n)) - 1 :
              Buffered(r, n)[i] = r[IF Len(r) >= ReplayCapacity THEN i + 1 ELSE i]
<1>1. CASE Len(r) >= ReplayCapacity
  <2>1. r # <<>>
    BY <1>1
  <2>2. /\ Tail(r) \in Seq(1 .. MaxEvents)
        /\ Len(Tail(r)) = Len(r) - 1
        /\ \A i \in 1 .. Len(Tail(r)) : Tail(r)[i] = r[i + 1]
    BY <2>1
  <2> QED
    BY <1>1, <2>2 DEF Buffered
<1>2. CASE ~(Len(r) >= ReplayCapacity)
  BY <1>2 DEF Buffered
<1> QED
  BY <1>1, <1>2

LEMMA InitInv == Init => IInv
BY DEF Init, IInv, TypeOK, Stage, BufferIsRecent, ConnInv

LEMMA PushInv == IInv /\ Push => IInv'
<1> SUFFICES ASSUME IInv, Push PROVE IInv'
  OBVIOUS
<1> USE DEF IInv
<1>1. /\ pushed' = pushed + 1 /\ pushed' \in 1 .. MaxEvents
      /\ UNCHANGED <<conn, rx, snapshot, subscribed_at, last>>
  BY DEF Push, TypeOK, connVars
<1>2. /\ replay' \in Seq(1 .. MaxEvents)
      /\ Len(replay') = (IF Len(replay) >= ReplayCapacity THEN Len(replay) - 1 ELSE Len(replay)) + 1
      /\ replay'[Len(replay')] = pushed + 1
      /\ \A i \in 1 .. Len(replay') - 1 :
           replay'[i] = replay[IF Len(replay) >= ReplayCapacity THEN i + 1 ELSE i]
  <2>1. replay \in Seq(1 .. MaxEvents) /\ pushed + 1 \in 1 .. MaxEvents
    BY <1>1 DEF TypeOK
  <2>2. replay' = Buffered(replay, pushed + 1)
    BY DEF Push
  <2> QED
    BY <2>1, <2>2, PushedBuffer
<1>3. TypeOK'
  BY <1>1, <1>2 DEF TypeOK
<1>4. BufferIsRecent'
  <2>1. pushed \in Nat /\ Len(replay) \in Nat /\ Len(replay') \in Nat
    BY <1>2 DEF TypeOK
  <2>2. Len(replay') = IF pushed' < ReplayCapacity THEN pushed' ELSE ReplayCapacity
    BY <1>1, <1>2, <2>1 DEF BufferIsRecent
  <2>3. ASSUME NEW i \in 1 .. Len(replay') PROVE replay'[i] = pushed' - Len(replay') + i
    <3>1. CASE i = Len(replay')
      <4>1. replay'[i] = pushed + 1
        BY <1>2, <3>1
      <4> QED
        BY <1>1, <2>1, <3>1, <4>1
    <3>2. CASE i # Len(replay')
      <4> DEFINE j == IF Len(replay) >= ReplayCapacity THEN i + 1 ELSE i
      <4>1. i \in 1 .. Len(replay') - 1 /\ j \in 1 .. Len(replay)
        BY <1>2, <2>1, <2>2, <3>2 DEF BufferIsRecent
      <4>2. replay'[i] = replay[j]
        BY <1>2, <4>1
      <4>3. replay[j] = pushed - Len(replay) + j
        BY <4>1 DEF BufferIsRecent
      <4> QED
        BY <1>1, <1>2, <2>1, <4>1, <4>2, <4>3
    <3> QED
      BY <3>1, <3>2
  <2> QED
    BY <2>2, <2>3 DEF BufferIsRecent
<1>5. ASSUME NEW c \in Conns PROVE ConnInv(c)'
  <2>1. Overwritten <= Overwritten' /\ Overwritten \in Nat /\ Overwritten' \in Nat
    BY <1>1 DEF Overwritten, TypeOK
  <2>2. ConnInv(c)
    OBVIOUS
  <2>3. Replaying(c) => Replaying(c)'
    BY <1>1 DEF Replaying, TypeOK
  <2>4. Following(c) => Following(c)'
    BY <1>1, <2>1 DEF Following, TypeOK
  <2> QED
    BY <1>1, <2>2, <2>3, <2>4 DEF ConnInv, TypeOK
<1> QED
  BY <1>3, <1>4, <1>5

(* Steps of one connection leave the others and the buffer alone.           *)
LEMMA OthersKeepInv ==
  ASSUME IInv, NEW c \in Conns, UNCHANGED <<pushed, replay>>, TypeOK', ConnInv(c)',
         \A d \in Conns \ {c} : /\ conn'[d] = conn[d] /\ rx'[d] = rx[d]
                               /\ snapshot'[d] = snapshot[d]
                               /\ subscribed_at'[d] = subscribed_at[d]
                               /\ last'[d] = last[d]
  PROVE  IInv'
<1>1. BufferIsRecent'
  BY DEF IInv, BufferIsRecent
<1>2. ASSUME NEW d \in Conns, d # c PROVE ConnInv(d)'
  <2>1. Overwritten' = Overwritten
    BY DEF Overwritten
  <2> QED
    BY <1>2, <2>1 DEF IInv, ConnInv, Replaying, Following
<1> QED
  BY <1>1, <1>2 DEF IInv

LEMMA SubscribeInv == ASSUME IInv, NEW c \in Conns, Subscribe(c) PROVE IInv'
<1>1. TypeOK'
  BY DEF IInv, TypeOK, Subscribe, Stage
<1>2. ConnInv(c)'
  BY DEF IInv, TypeOK, Subscribe, ConnInv
<1> QED
  BY <1>1, <1>2, OthersKeepInv DEF Subscribe, IInv, TypeOK

LEMMA CopyReplayInv == ASSUME IInv, NEW c \in Conns, CopyReplay(c) PROVE IInv'
<1>1. TypeOK'
  BY DEF IInv, TypeOK, CopyReplay, Stage
<1>2. ConnInv(c)'
  <2>1. /\ snapshot'[c] = replay /\ conn'[c] = "streaming" /\ last'[c] = 0
        /\ rx'[c] = subscribed_at[c] + 1 /\ subscribed_at'[c] = subscribed_at[c]
        /\ pushed' = pushed /\ subscribed_at[c] <= pushed
        /\ pushed \in Nat /\ subscribed_at[c] \in Nat
    BY DEF IInv, TypeOK, CopyReplay, ConnInv
  <2>2. replay # <<>> => Replaying(c)'
    <3> SUFFICES ASSUME replay # <<>> PROVE Replaying(c)'
      OBVIOUS
    <3>1. Len(replay) \in Nat \ {0}
      BY DEF IInv, TypeOK
    <3>2. \A i \in 1 .. Len(replay) : replay[i] = pushed - Len(replay) + i
      BY DEF IInv, BufferIsRecent
    <3>3. \A i \in 1 .. Len(replay) : replay[i] = replay[1] + i - 1
      <4>1. replay[1] = pushed - Len(replay) + 1
        BY <3>1, <3>2
      <4> QED
        BY <2>1, <3>1, <3>2, <4>1
    <3>4. replay[Len(replay)] = pushed
      BY <2>1, <3>1, <3>2
    <3> QED
      BY <2>1, <3>3, <3>4 DEF Replaying
  <2>3. replay = <<>> => Following(c)'
    <3> SUFFICES ASSUME replay = <<>> PROVE Following(c)'
      OBVIOUS
    <3>1. pushed = 0
      BY DEF IInv, BufferIsRecent, TypeOK
    <3> QED
      BY <2>1, <3>1 DEF Following
  <2> QED
    BY <2>1, <2>2, <2>3 DEF ConnInv
<1> QED
  BY <1>1, <1>2, OthersKeepInv DEF CopyReplay, IInv, TypeOK

LEMMA SendReplayInv == ASSUME IInv, NEW c \in Conns, SendReplay(c) PROVE IInv'
<1> DEFINE s == snapshot[c]
<1>1. /\ s \in Seq(1 .. MaxEvents) /\ s # <<>> /\ Len(s) \in Nat \ {0}
      /\ Head(s) = s[1] /\ Head(s) \in 1 .. MaxEvents
      /\ Tail(s) \in Seq(1 .. MaxEvents) /\ Len(Tail(s)) = Len(s) - 1
      /\ \A i \in 1 .. Len(s) - 1 : Tail(s)[i] = s[i + 1]
      /\ \A i \in 1 .. Len(s) : s[i] \in Nat
  BY DEF IInv, TypeOK, SendReplay
<1>2. /\ snapshot'[c] = Tail(s) /\ last'[c] = s[1]
      /\ snapshot' = [snapshot EXCEPT ![c] = Tail(s)] /\ last' = [last EXCEPT ![c] = s[1]]
      /\ UNCHANGED <<pushed, replay, conn, rx, subscribed_at>>
      /\ conn[c] = "streaming" /\ pushed \in Nat /\ subscribed_at[c] \in Nat
  BY <1>1 DEF SendReplay, IInv, TypeOK
<1>3. Replaying(c) /\ ConnInv(c)
  BY <1>1, <1>2 DEF IInv, ConnInv
<1>7. \A i \in 1 .. Len(s) : s[i] = s[1] + i - 1
  BY <1>3 DEF Replaying
<1>8. s[Len(s)] \in subscribed_at[c] .. pushed /\ rx[c] = subscribed_at[c] + 1
  BY <1>3 DEF Replaying
<1> HIDE DEF s
<1>4. TypeOK'
  BY <1>1, <1>2 DEF IInv, TypeOK
<1>5. s[1] <= s[Len(s)] /\ s[1] <= pushed /\ s[Len(s)] = s[1] + Len(s) - 1
  <2>1. s[Len(s)] = s[1] + Len(s) - 1 /\ s[1] \in Nat
    BY <1>1, <1>7
  <2> QED
    BY <1>1, <1>2, <1>8, <2>1
<1>6. ConnInv(c)'
  <2>1. CASE Tail(s) # <<>>
    <3>1. Len(s) > 1
      BY <1>1, <2>1
    <3>2. \A i \in 1 .. Len(s) - 1 : Tail(s)[i] = Tail(s)[1] + i - 1
      <4>2. Tail(s)[1] = s[2]
        BY <1>1, <3>1
      <4> QED
        BY <1>1, <1>7, <3>1, <4>2
    <3>3. Tail(s)[Len(s) - 1] = s[Len(s)] /\ Tail(s)[1] = s[1] + 1
      <4>1. s[2] = s[1] + 1
        BY <1>1, <1>7, <3>1
      <4> QED
        BY <1>1, <3>1, <4>1
    <3>4. Replaying(c)'
      BY <1>1, <1>2, <1>8, <3>2, <3>3 DEF Replaying
    <3> QED
      BY <1>2, <1>3, <1>5, <2>1, <3>4 DEF ConnInv
  <2>2. CASE Tail(s) = <<>>
    <3>1. Len(s) = 1
      <4>1. Len(Tail(s)) = 0
        BY <1>1, <2>2, EmptySeq
      <4>2. Len(s) - 1 = 0 /\ Len(s) \in Nat
        BY <1>1, <4>1, Zenon
      <4> QED
        BY <4>2
    <3>2. Following(c)'
      BY <1>1, <1>2, <1>8, <3>1 DEF Following
    <3> QED
      BY <1>2, <1>3, <1>5, <2>2, <3>2 DEF ConnInv
  <2> QED
    BY <2>1, <2>2
<1> QED
  BY <1>2, <1>4, <1>6, OthersKeepInv DEF IInv, TypeOK

LEMMA SendLiveInv == ASSUME IInv, NEW c \in Conns, SendLive(c) PROVE IInv'
<1>1. TypeOK'
  BY DEF IInv, TypeOK, SendLive
<1>2. ConnInv(c)'
  BY DEF IInv, TypeOK, SendLive, ConnInv, Following
<1> QED
  BY <1>1, <1>2, OthersKeepInv DEF SendLive, IInv, TypeOK

LEMMA SkipInv == ASSUME IInv, NEW c \in Conns, SkipOverwritten(c) PROVE IInv'
<1>1. Overwritten \in 0 .. pushed /\ pushed \in 0 .. MaxEvents /\ Overwritten' = Overwritten
  BY DEF Overwritten, IInv, TypeOK, SkipOverwritten
<1>2. TypeOK'
  BY <1>1 DEF IInv, TypeOK, SkipOverwritten
<1>3. ConnInv(c)'
  <2>1. /\ conn'[c] = "streaming" /\ snapshot'[c] = <<>> /\ rx'[c] = Overwritten + 1
        /\ rx[c] <= Overwritten /\ subscribed_at[c] < rx'[c]
        /\ UNCHANGED <<pushed, subscribed_at, last>>
    BY <1>1 DEF IInv, TypeOK, SkipOverwritten, ConnInv, Following
  <2>2. Following(c)'
    BY <1>1, <2>1 DEF Following
  <2> QED
    BY <1>1, <2>1, <2>2 DEF ConnInv, IInv
<1> QED
  BY <1>2, <1>3, OthersKeepInv DEF SkipOverwritten, IInv, TypeOK

LEMMA CloseInv == ASSUME IInv, NEW c \in Conns, Close(c) PROVE IInv'
<1>1. TypeOK'
  BY DEF IInv, TypeOK, Close, Stage
<1>2. ConnInv(c)'
  BY DEF IInv, TypeOK, Close, ConnInv
<1> QED
  BY <1>1, <1>2, OthersKeepInv DEF Close, IInv, TypeOK

LEMMA NextInv == IInv /\ [Next]_vars => IInv'
<1> SUFFICES ASSUME IInv, [Next]_vars PROVE IInv'
  OBVIOUS
<1>1. CASE UNCHANGED vars
  BY <1>1 DEF vars, connVars, IInv, TypeOK, BufferIsRecent, ConnInv, Replaying,
     Following, Overwritten
<1> QED
  BY <1>1, PushInv, SubscribeInv, CopyReplayInv, SendReplayInv, SendLiveInv,
     SkipInv, CloseInv DEF Next, Serve

(* Where a connection is determines what it has sent: the invariant the     *)
(* theorems below rest on.                                                  *)
THEOREM StreamInvariance == Spec => []IInv
BY InitInv, NextInv, PTL DEF Spec

(* Sequence numbers, positions and buffers stay within their types: no       *)
(* receiver is ever positioned beyond the event that is pushed next.        *)
THEOREM StreamTypeCorrect == Spec => []TypeOK
BY StreamInvariance, PTL DEF IInv

(* A page that loads is replayed the last ReplayCapacity events, in order.  *)
THEOREM ReplayIsRecent == Spec => []BufferIsRecent
BY StreamInvariance, PTL DEF IInv

LEMMA NextContinues ==
  ASSUME IInv, [Next]_vars, NEW c \in Conns, conn'[c] = "streaming", last'[c] # last[c]
  PROVE  Continues(c)
<1>1. CASE SendReplay(c)
  <2>1. /\ snapshot[c] # <<>> /\ last'[c] = snapshot[c][1] /\ conn[c] = "streaming"
        /\ last[c] = 0 \/ snapshot[c][1] = last[c] + 1
    BY <1>1 DEF SendReplay, IInv, TypeOK, ConnInv, Replaying
  <2> QED
    BY <2>1 DEF Continues
<1>2. CASE SendLive(c)
  BY <1>2 DEF SendLive, IInv, TypeOK, ConnInv, Following, Continues
<1>3. SendReplay(c) \/ SendLive(c)
  <2>1. last' = last \/ \E d \in Conns : SendReplay(d) \/ SendLive(d) \/ Close(d)
    BY DEF Next, Serve, Push, Subscribe, CopyReplay, SkipOverwritten, vars, connVars
  <2>2. ASSUME NEW d \in Conns, SendReplay(d) \/ SendLive(d) \/ Close(d)
        PROVE d = c
    BY <2>2 DEF SendReplay, SendLive, Close, IInv, TypeOK
  <2>3. ~Close(c)
    BY DEF Close, IInv, TypeOK
  <2> QED
    BY <2>1, <2>2, <2>3
<1> QED
  BY <1>1, <1>2, <1>3

(* No connection skips an event its receiver could still have had: a page   *)
(* that stays connected and keeps up sees every event since it loaded.      *)
THEOREM StreamIsContinuous == Spec => StreamHasNoGap
<1>1. IInv /\ [Next]_vars =>
        [\A c \in Conns : conn'[c] = "streaming" /\ last'[c] # last[c] => Continues(c)]_vars
  BY NextContinues
<1> QED
  BY <1>1, StreamInvariance, PTL DEF Spec, StreamHasNoGap
=============================================================================
