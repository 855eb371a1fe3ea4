---------------------------- MODULE EventStream ----------------------------
(***************************************************************************)
(* GET /events of the dashboard: serialize_and_push_event, sse_handler and *)
(* the streams it returns (dashboard/src/lib.rs).                          *)
(*                                                                         *)
(* An event is pushed under the write lock, to a replay buffer and to a    *)
(* tokio broadcast channel at once; the n-th event pushed is called n.  A  *)
(* new connection subscribes to the channel WITHOUT the lock, then copies  *)
(* the replay buffer under the read lock, then sends the copy, then        *)
(* whatever its receiver yields.  Events pushed between the subscription   *)
(* and the copy are therefore in both.  The channel keeps the last         *)
(* ChannelCapacity events; a receiver that falls behind skips to the       *)
(* oldest one kept, and the stream goes on from there.                     *)
(***************************************************************************)
EXTENDS Naturals, Sequences

CONSTANTS
  ReplayCapacity,   \* SSE_REPLAY_CAPACITY, 100 in the code
  ChannelCapacity,  \* of the broadcast channel, 256 in the code
  MaxEvents,        \* bound: events pushed in a behaviour
  Conns             \* connections that may be open at once

ASSUME StreamAssumption ==
  /\ ReplayCapacity \in Nat \ {0}
  /\ ChannelCapacity \in Nat \ {0}
  /\ MaxEvents \in Nat

VARIABLES
  pushed,         \* how many events were pushed
  replay,         \* the replay buffer, oldest first
  conn,           \* where each connection is
  rx,             \* the next event its receiver will ask the channel for
  snapshot,       \* what is left to send of its copy of the buffer
  subscribed_at,  \* `pushed` when it subscribed
  last            \* the event it sent last, 0 for none

connVars == <<conn, rx, snapshot, subscribed_at, last>>
vars == <<pushed, replay, connVars>>

Stage == {"idle", "subscribed", "streaming"}

TypeOK ==
  /\ pushed \in 0 .. MaxEvents
  /\ replay \in Seq(1 .. MaxEvents)
  /\ conn \in [Conns -> Stage]
  /\ rx \in [Conns -> 1 .. MaxEvents + 1]
  /\ snapshot \in [Conns -> Seq(1 .. MaxEvents)]
  /\ subscribed_at \in [Conns -> 0 .. MaxEvents]
  /\ last \in [Conns -> 0 .. MaxEvents]

Init ==
  /\ pushed = 0
  /\ replay = <<>>
  /\ conn = [c \in Conns |-> "idle"]
  /\ rx = [c \in Conns |-> 1]
  /\ snapshot = [c \in Conns |-> <<>>]
  /\ subscribed_at = [c \in Conns |-> 0]
  /\ last = [c \in Conns |-> 0]

-----------------------------------------------------------------------------
Buffered_OneTooMany(buffer, n) ==
  Append(IF Len(buffer) > ReplayCapacity THEN Tail(buffer) ELSE buffer, n)

(* pop_front when the buffer is full, then push_back. *)
Buffered(buffer, n) ==
  Append(IF Len(buffer) >= ReplayCapacity THEN Tail(buffer) ELSE buffer, n)

(* serialize_and_push_event, called with the write lock held. *)
Push ==
  /\ pushed < MaxEvents
  /\ pushed' = pushed + 1
  /\ replay' = Buffered(replay, pushed + 1)
  /\ UNCHANGED connVars

(* The broadcast channel still holds events later than this one. *)
Overwritten == IF pushed > ChannelCapacity THEN pushed - ChannelCapacity ELSE 0

Subscribe(c) ==
  /\ conn[c] = "idle"
  /\ conn' = [conn EXCEPT ![c] = "subscribed"]
  /\ rx' = [rx EXCEPT ![c] = pushed + 1]
  /\ subscribed_at' = [subscribed_at EXCEPT ![c] = pushed]
  /\ UNCHANGED <<pushed, replay, snapshot, last>>

CopyReplay(c) ==
  /\ conn[c] = "subscribed"
  /\ conn' = [conn EXCEPT ![c] = "streaming"]
  /\ snapshot' = [snapshot EXCEPT ![c] = replay]
  /\ UNCHANGED <<pushed, replay, rx, subscribed_at, last>>

(* Had the live stream subscribed when it is first polled. *)
SendReplay_SubscribesAfter(c) ==
  /\ conn[c] = "streaming"
  /\ snapshot[c] # <<>>
  /\ last' = [last EXCEPT ![c] = Head(snapshot[c])]
  /\ snapshot' = [snapshot EXCEPT ![c] = Tail(@)]
  /\ rx' = [rx EXCEPT ![c] = IF Len(snapshot[c]) = 1 THEN pushed + 1 ELSE @]
  /\ subscribed_at' =
       [subscribed_at EXCEPT ![c] = IF Len(snapshot[c]) = 1 THEN pushed ELSE @]
  /\ UNCHANGED <<pushed, replay, conn>>

SendReplay(c) ==
  /\ conn[c] = "streaming"
  /\ snapshot[c] # <<>>
  /\ last' = [last EXCEPT ![c] = Head(snapshot[c])]
  /\ snapshot' = [snapshot EXCEPT ![c] = Tail(@)]
  /\ UNCHANGED <<pushed, replay, conn, rx, subscribed_at>>

(* The receiver is asked for its next event once the copy is sent. *)
SendLive(c) ==
  /\ conn[c] = "streaming"
  /\ snapshot[c] = <<>>
  /\ Overwritten < rx[c]
  /\ rx[c] <= pushed
  /\ last' = [last EXCEPT ![c] = rx[c]]
  /\ rx' = [rx EXCEPT ![c] = @ + 1]
  /\ UNCHANGED <<pushed, replay, conn, snapshot, subscribed_at>>

(* Had it subscribed anew. *)
SkipOverwritten_ToTheEnd(c) ==
  /\ conn[c] = "streaming"
  /\ snapshot[c] = <<>>
  /\ rx[c] <= Overwritten
  /\ rx' = [rx EXCEPT ![c] = pushed + 1]
  /\ UNCHANGED <<pushed, replay, conn, snapshot, subscribed_at, last>>

(* RecvError::Lagged: the receiver moved to the oldest event kept, and the  *)
(* stream asks it again.                                                    *)
SkipOverwritten(c) ==
  /\ conn[c] = "streaming"
  /\ snapshot[c] = <<>>
  /\ rx[c] <= Overwritten
  /\ rx' = [rx EXCEPT ![c] = Overwritten + 1]
  /\ UNCHANGED <<pushed, replay, conn, snapshot, subscribed_at, last>>

(* The browser or the network closed it; the receiver is dropped. *)
Close(c) ==
  /\ conn[c] # "idle"
  /\ conn' = [conn EXCEPT ![c] = "idle"]
  /\ rx' = [rx EXCEPT ![c] = 1]
  /\ snapshot' = [snapshot EXCEPT ![c] = <<>>]
  /\ subscribed_at' = [subscribed_at EXCEPT ![c] = 0]
  /\ last' = [last EXCEPT ![c] = 0]
  /\ UNCHANGED <<pushed, replay>>

-----------------------------------------------------------------------------
Serve(c) == CopyReplay(c) \/ SendReplay(c) \/ SendLive(c) \/ SkipOverwritten(c)

Next ==
  \/ Push
  \/ \E c \in Conns : Subscribe(c) \/ Serve(c) \/ Close(c)

Spec == Init /\ [][Next]_vars

(* A browser that is connected reads what it is sent. *)
FairSpec == Spec /\ \A c \in Conns : WF_vars(Serve(c))

-----------------------------------------------------------------------------
(***************************************************************************)
(* Properties.                                                             *)
(***************************************************************************)

(* The buffer holds the most recent events, all of them up to its capacity, *)
(* oldest first: a page that loads now is replayed exactly those.           *)
BufferIsRecent ==
  /\ Len(replay) = IF pushed < ReplayCapacity THEN pushed ELSE ReplayCapacity
  /\ \A i \in 1 .. Len(replay) : replay[i] = pushed - Len(replay) + i

(* What a connection sends next is the event after the last one, except     *)
(* when it begins its replay, when it turns from the replay to the channel  *)
(* (it then goes back to the first event since it subscribed, and repeats   *)
(* what was also in the copy), and when all that it leaves out had been     *)
(* overwritten in the channel.  Nothing falls between replay and channel.   *)
Continues(c) ==
  \/ last[c] = 0 /\ snapshot[c] # <<>>
  \/ last'[c] = last[c] + 1
  \/ subscribed_at[c] <= last[c] /\ last'[c] = subscribed_at[c] + 1
  \/ subscribed_at[c] < last'[c] /\ last'[c] <= Overwritten + 1

StreamHasNoGap ==
  [][\A c \in Conns :
       conn'[c] = "streaming" /\ last'[c] # last[c] => Continues(c)]_vars

(* An event pushed after a client subscribed is sent to it, unless it was   *)
(* overwritten while the client lagged behind or the client went away.      *)
EventReachesClient ==
  \A c \in Conns, n \in 1 .. MaxEvents :
    (conn[c] # "idle" /\ subscribed_at[c] < n /\ n <= pushed)
      ~> (conn[c] = "idle" \/ n <= last[c] \/ n <= Overwritten)

-----------------------------------------------------------------------------
(***************************************************************************)
(* The inductive invariant behind StreamHasNoGap.                          *)
(***************************************************************************)

(* A connection that has not sent all of its copy: what is left is a run of *)
(* consecutive events that follows what was sent and reaches at least as    *)
(* far as the subscription.                                                 *)
Replaying(c) ==
  /\ rx[c] = subscribed_at[c] + 1
  /\ \A i \in 1 .. Len(snapshot[c]) : snapshot[c][i] = snapshot[c][1] + i - 1
  /\ snapshot[c][Len(snapshot[c])] \in subscribed_at[c] .. pushed
  /\ last[c] = 0 \/ snapshot[c][1] = last[c] + 1

(* A connection on the channel: at the point where it subscribed, right     *)
(* after the last event it sent, or after events that were overwritten.     *)
Following(c) ==
  \/ rx[c] = subscribed_at[c] + 1 /\ subscribed_at[c] <= last[c]
  \/ rx[c] = last[c] + 1
  \/ rx[c] <= Overwritten + 1

ConnInv(c) ==
  /\ subscribed_at[c] < rx[c]
  /\ rx[c] <= pushed + 1
  /\ last[c] <= pushed
  /\ conn[c] # "streaming" => last[c] = 0 /\ snapshot[c] = <<>>
  /\ conn[c] = "subscribed" => rx[c] = subscribed_at[c] + 1
  /\ conn[c] = "streaming" /\ snapshot[c] # <<>> => Replaying(c)
  /\ conn[c] = "streaming" /\ snapshot[c] = <<>> => Following(c)

IInv ==
  /\ TypeOK
  /\ BufferIsRecent
  /\ \A c \in Conns : ConnInv(c)
=============================================================================
