----------------------------- MODULE Broadcast ------------------------------
(***************************************************************************)
(* The broadcast channels of a room (src/server/broadcast.rs over          *)
(* tokio::sync::broadcast).  A room has a high and a low channel of the    *)
(* same capacity; a connection reads from both from the moment it          *)
(* subscribes.  A receiver that falls more than the capacity behind loses  *)
(* the oldest events: its next recv answers Lagged and the one after that  *)
(* resumes at the oldest event kept.                                       *)
(***************************************************************************)
EXTENDS ServerBase

CONSTANT Capacity   \* broadcast::channel(500)

ASSUME CapacityAssumption == Capacity \in Nat \ {0}

VARIABLES
  subscribed,  \* connection -> the channel it reads, or NoChan
  high,        \* connection -> the high events it has not yet received
  low,         \* connection -> the low events it has not yet received
  lagged,      \* history: the connections that lost an event
  polled       \* the connections between a look at high and one at low

(* A ServerEvent: a member list, a packet of a member, or a notice such as *)
(* "joined" and "left".  Notices and lists have no source.                 *)
ListEvent(S) == [kind |-> "list", source |-> NoConn, members |-> S, seq |-> 0]
Notice == [kind |-> "notice", source |-> NoConn, members |-> {}, seq |-> 0]
PacketEvent(c, n) == [kind |-> "packet", source |-> c, members |-> {}, seq |-> n]

Events ==
  [kind : {"list", "packet", "notice"}, source : Conns \cup {NoConn},
   members : SUBSET Conns, seq : Nat]

BroadcastTypeOK ==
  /\ subscribed \in [Conns -> Nat]
  /\ high \in [Conns -> Seq(Events)]
  /\ low \in [Conns -> Seq(Events)]
  /\ \A c \in Conns : Len(high[c]) <= Capacity /\ Len(low[c]) <= Capacity
  /\ lagged \subseteq Conns
  /\ polled \subseteq Conns

BroadcastInit ==
  /\ subscribed = [c \in Conns |-> NoChan]
  /\ high = [c \in Conns |-> <<>>]
  /\ low = [c \in Conns |-> <<>>]
  /\ lagged = {}
  /\ polled = {}

(* Mutant of Push: the channel is unbounded. *)
PushUnbounded(q, e) == Append(q, e)

(* One event pushed to one receiver. *)
Push(q, e) ==
  IF Len(q) < Capacity THEN Append(q, e) ELSE Append(Tail(q), e)

(* Sender::send: every receiver of the channel gets the event, the one of  *)
(* its source included.                                                    *)
Sent(queues, subs, ch, e) ==
  [c \in Conns |-> IF subs[c] = ch THEN Push(queues[c], e) ELSE queues[c]]

(* The receivers that lose an event when one more is sent. *)
Overrun(queues, subs, ch) ==
  {c \in Conns : subs[c] = ch /\ Len(queues[c]) >= Capacity}

(* Dropping a receiver drops what it had not received. *)
Unsubscribed(queues, c) == [queues EXCEPT ![c] = <<>>]
=============================================================================
