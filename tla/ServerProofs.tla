---------------------------- MODULE ServerProofs ----------------------------
(***************************************************************************)
(* Proofs about Server, for any connections, rooms, tokens and bounds.     *)
(***************************************************************************)
EXTENDS Server, TLAPS

(* What one event pushed to a queue leaves there is a queue of events. *)
LEMMA PushType ==
  ASSUME NEW q \in Seq(Events), NEW e \in Events
  PROVE  Push(q, e) \in Seq(Events)
<1>1. CASE Len(q) < Capacity
  BY <1>1 DEF Push
<1>2. CASE ~(Len(q) < Capacity)
  <2>1. q # <<>>
    BY <1>2, CapacityAssumption
  <2>. QED
    BY <1>2, <2>1 DEF Push
<1>. QED
  BY <1>1, <1>2

LEMMA SentType ==
  ASSUME NEW queues \in [Conns -> Seq(Events)], NEW subs, NEW ch, NEW e \in Events
  PROVE  Sent(queues, subs, ch, e) \in [Conns -> Seq(Events)]
BY PushType DEF Sent

(* No queue is longer than the channel. *)
Bounded(queues) == \A c \in Conns : Len(queues[c]) <= Capacity

LEMMA SentBounded ==
  ASSUME NEW queues \in [Conns -> Seq(Events)], Bounded(queues),
         NEW subs, NEW ch, NEW e \in Events
  PROVE  Bounded(Sent(queues, subs, ch, e))
<1>1. ASSUME NEW q \in Seq(Events), Len(q) <= Capacity
      PROVE  Len(Push(q, e)) <= Capacity
  <2>1. CASE Len(q) < Capacity
    <3>1. Push(q, e) = Append(q, e) /\ Len(Append(q, e)) = Len(q) + 1
      BY <2>1 DEF Push
    <3>. QED
      BY <2>1, <3>1, CapacityAssumption
  <2>2. CASE ~(Len(q) < Capacity)
    <3>1. q # <<>> /\ Push(q, e) = Append(Tail(q), e)
      BY <2>2, CapacityAssumption DEF Push
    <3>2. Tail(q) \in Seq(Events) /\ Len(Tail(q)) = Len(q) - 1
      BY <3>1
    <3>3. Len(Append(Tail(q), e)) = Len(q)
      BY <3>2
    <3>. QED
      BY <1>1, <3>1, <3>3
  <2>. QED
    BY <2>1, <2>2
<1>. QED
  BY <1>1 DEF Bounded, Sent

LEMMA EventTypes ==
  /\ Notice \in Events
  /\ \A S \in SUBSET Conns : ListEvent(S) \in Events
  /\ \A c \in Conns, n \in Nat : PacketEvent(c, n) \in Events
BY DEF Notice, ListEvent, PacketEvent, Events

(* Each operation of the room table keeps its type. *)
LEMMA RoomOpsType ==
  ASSUME RoomsTypeOK, NEW r \in RoomIds, NEW m \in Conns,
         \/ \E k \in Creds : CreateRoom(r, k, m) \/ JoinRoom(r, k, m)
         \/ AddInvitedMember(r, m)
         \/ RemoveMember(r, m)
  PROVE  RoomsTypeOK'
<1>1. Exists(r) => rooms[r] \in RoomInfo
  BY DEF Exists, RoomsTypeOK
<1>2. ASSUME NEW k \in Creds, CreateRoom(r, k, m) PROVE RoomsTypeOK'
  BY <1>2 DEF CreateRoom, RoomsTypeOK, RoomInfo, NoChan
<1>3. ASSUME NEW k \in Creds, JoinRoom(r, k, m) PROVE RoomsTypeOK'
  BY <1>1, <1>3 DEF JoinRoom, CanJoin, WithMember, RoomsTypeOK, RoomInfo
<1>4. CASE AddInvitedMember(r, m)
  BY <1>1, <1>4 DEF AddInvitedMember, WithMember, RoomsTypeOK, RoomInfo
<1>5. CASE RemoveMember(r, m)
  <2>1. WithoutMember(r, m) \in RoomInfo
    BY <1>1, <1>5 DEF RemoveMember, WithoutMember, Disowned, RoomInfo, NoChan
  <2>. QED
    BY <1>5, <2>1 DEF RemoveMember, RoomsTypeOK
<1>. QED
  BY <1>2, <1>3, <1>4, <1>5

(* Normalising the invite table keeps its type. *)
LEMMA NormalizedType ==
  ASSUME InvitesTypeOK
  PROVE  Normalized \in [Tokens -> InviteTokenInfo \cup {Absent}]
<1>1. ASSUME NEW t \in Tokens
      PROVE  NormalizedEntry(invites[t]) \in InviteTokenInfo \cup {Absent}
  <2>1. CASE invites[t] = Absent
    BY <2>1 DEF NormalizedEntry, Absent
  <2>2. CASE invites[t] \in InviteTokenInfo
    <3>1. Unused(invites[t]) \in InviteTokenInfo
      BY <2>2 DEF Unused, InviteTokenInfo
    <3>. QED
      BY <2>2, <3>1 DEF NormalizedEntry
  <2>. QED
    BY <2>1, <2>2 DEF InvitesTypeOK
<1>. QED
  BY <1>1 DEF Normalized

LEMMA InviteOpsType ==
  ASSUME InvitesTypeOK, NEW t \in Tokens, NEW c \in Conns,
         \/ \E r \in RoomIds : InsertInviteToken(t, r)
         \/ BeginPendingInvite(t, c)
         \/ ResetInviteToUnused(t)
         \/ ConsumeInviteReady(t, c)
  PROVE  InvitesTypeOK'
<1>. Normalized \in [Tokens -> InviteTokenInfo \cup {Absent}]
  BY NormalizedType
<1>0. Normalized[t].st # "absent" => Normalized[t] \in InviteTokenInfo
  <2>1. Normalized[t] \in InviteTokenInfo \/ Normalized[t] = Absent
    OBVIOUS
  <2>. QED
    BY <2>1 DEF Absent
<1>1. ASSUME NEW r \in RoomIds, InsertInviteToken(t, r) PROVE InvitesTypeOK'
  BY <1>1, TtlAssumption DEF InsertInviteToken, InvitesTypeOK, InviteTokenInfo
<1>2. CASE BeginPendingInvite(t, c)
  <2>. DEFINE new == [Normalized[t] EXCEPT !.st = "pending", !.nonce = c,
                                           !.until = now + PendingTtl]
  <2>1. CanBegin(t) => new \in InviteTokenInfo
    <3>. SUFFICES ASSUME CanBegin(t) PROVE new \in InviteTokenInfo
      OBVIOUS
    <3>1. Normalized[t] \in InviteTokenInfo
      BY <1>0 DEF CanBegin
    <3>2. now + PendingTtl \in Nat
      BY TtlAssumption DEF InvitesTypeOK
    <3>. QED
      BY <3>1, <3>2 DEF InviteTokenInfo
  <2>2. invites' \in [Tokens -> InviteTokenInfo \cup {Absent}]
    <3>1. CASE CanBegin(t)
      <4>1. invites' = [Normalized EXCEPT ![t] = new]
        BY <1>2, <3>1 DEF BeginPendingInvite
      <4>2. new \in InviteTokenInfo
        BY <2>1, <3>1
      <4>. QED
        BY <4>1, <4>2
    <3>2. CASE ~CanBegin(t)
      BY <1>2, <3>2 DEF BeginPendingInvite
    <3>. QED
      BY <3>1, <3>2
  <2>. QED
    BY <1>2, <2>2 DEF BeginPendingInvite, InvitesTypeOK
<1>3. CASE ResetInviteToUnused(t)
  <2>1. Normalized[t].st # "absent" => Unused(Normalized[t]) \in InviteTokenInfo
    BY <1>0 DEF Unused, InviteTokenInfo
  <2>. QED
    BY <1>3, <2>1 DEF ResetInviteToUnused, InvitesTypeOK
<1>4. CASE ConsumeInviteReady(t, c)
  BY <1>0, <1>4 DEF ConsumeInviteReady, CanConsume, InvitesTypeOK, InviteTokenInfo
<1>. QED
  BY <1>1, <1>2, <1>3, <1>4

-----------------------------------------------------------------------------
(* Type correctness. *)

LEMMA RoomsUnchanged == RoomsTypeOK /\ UNCHANGED roomVars => RoomsTypeOK'
BY DEF RoomsTypeOK, roomVars
LEMMA InvitesUnchanged == InvitesTypeOK /\ UNCHANGED inviteVars => InvitesTypeOK'
BY DEF InvitesTypeOK, inviteVars
LEMMA QueuesUnchanged == BroadcastTypeOK /\ UNCHANGED queueVars => BroadcastTypeOK'
BY DEF BroadcastTypeOK, queueVars
LEMMA ConnsUnchanged == ConnTypeOK /\ UNCHANGED connVars => ConnTypeOK'
BY DEF ConnTypeOK, connVars
LEMMA ClientsUnchanged == ClientTypeOK /\ UNCHANGED clientVars => ClientTypeOK'
BY DEF ClientTypeOK, clientVars
LEMMA HistoryUnchanged == HistoryTypeOK /\ UNCHANGED historyVars => HistoryTypeOK'
BY DEF HistoryTypeOK, historyVars

LEMMA InitType == Init => TypeOK
<1>. SUFFICES ASSUME Init PROVE TypeOK
  OBVIOUS
<1>1. RoomsTypeOK
  BY DEF Init, RoomsInit, RoomsTypeOK, NoChan
<1>2. InvitesTypeOK
  BY DEF Init, InvitesInit, InvitesTypeOK
<1>3. BroadcastTypeOK
  BY CapacityAssumption DEF Init, BroadcastInit, BroadcastTypeOK, NoChan
<1>4. ConnTypeOK /\ ClientTypeOK /\ HistoryTypeOK
  BY DEF Init, ConnTypeOK, ClientTypeOK, HistoryTypeOK, Phases, NoChan
<1>. QED
  BY <1>1, <1>2, <1>3, <1>4 DEF TypeOK

LEMMA HandshakeType ==
  ASSUME TypeOK, NEW c \in Conns, Handshake(c)
  PROVE  TypeOK'
<1>. RoomsTypeOK /\ InvitesTypeOK /\ BroadcastTypeOK
     /\ ConnTypeOK /\ ClientTypeOK /\ HistoryTypeOK
  BY DEF TypeOK
<1>. USE RoomsUnchanged, InvitesUnchanged, QueuesUnchanged, ClientsUnchanged,
         HistoryUnchanged
<1>1. CASE AuthHello(c) \/ AuthProof(c) \/ LoginRefused(c) \/ InviteProof(c) \/ InviteIoError(c)
  <2>1. ConnTypeOK'
    BY <1>1 DEF AuthHello, AuthProof, LoginRefused, InviteProof, InviteIoError,
                Goto, ConnTypeOK, Phases
  <2>2. UNCHANGED <<roomVars, inviteVars, queueVars, clientVars, historyVars>>
    BY <1>1 DEF AuthHello, AuthProof, LoginRefused, InviteProof, InviteIoError
  <2>. QED
    BY <2>1, <2>2 DEF TypeOK
<1>2. ASSUME NEW r \in RoomIds, NEW k \in Creds,
             CreateCommand(c, r, k) \/ JoinCommand(c, r, k)
      PROVE  TypeOK'
  <2>1. RoomsTypeOK'
    BY <1>2, RoomOpsType DEF CreateCommand, JoinCommand
  <2>2. ConnTypeOK'
    <3>1. nextChan \in Nat
      BY DEF RoomsTypeOK
    <3>2. Exists(r) => rooms[r].chan \in Nat
      BY DEF Exists, RoomsTypeOK, RoomInfo
    <3>. QED
      BY <1>2, <3>1, <3>2
         DEF CreateCommand, JoinCommand, JoinRoom, CanJoin, Goto, ConnTypeOK, Phases
  <2>3. HistoryTypeOK'
    BY <1>2 DEF CreateCommand, JoinCommand, HistoryTypeOK, historyVars
  <2>4. UNCHANGED <<inviteVars, queueVars, clientVars>>
    BY <1>2 DEF CreateCommand, JoinCommand
  <2>. QED
    BY <2>1, <2>2, <2>3, <2>4 DEF TypeOK
<1>3. ASSUME NEW t \in Tokens, InviteHello(c, t)
      PROVE  TypeOK'
  <2>1. InvitesTypeOK'
    BY <1>3, InviteOpsType DEF InviteHello
  <2>2. CanBegin(t) => invites[t].room \in RoomIds
    <3>1. CanBegin(t) => invites[t].st # "absent"
      BY DEF CanBegin, Normalized, NormalizedEntry
    <3>. QED
      BY <3>1 DEF InvitesTypeOK, InviteTokenInfo, Absent
  <2>3. ConnTypeOK'
    BY <1>3, <2>2 DEF InviteHello, Goto, ConnTypeOK, Phases
  <2>4. UNCHANGED <<roomVars, queueVars, clientVars, historyVars>>
    BY <1>3 DEF InviteHello
  <2>. QED
    BY <2>1, <2>3, <2>4 DEF TypeOK
<1>4. CASE InviteAborted(c)
  <2>1. InvitesTypeOK'
    BY <1>4, InviteOpsType DEF InviteAborted, ConnTypeOK
  <2>2. ConnTypeOK'
    BY <1>4 DEF InviteAborted, ConnTypeOK, Phases
  <2>3. UNCHANGED <<roomVars, queueVars, clientVars, historyVars>>
    BY <1>4 DEF InviteAborted
  <2>. QED
    BY <2>1, <2>2, <2>3 DEF TypeOK
<1>5. CASE InviteReady(c)
  <2>. PICK t \in token[c] :
         /\ Goto(c, "ready", IF CanConsume(t, c) THEN "consumed" ELSE "closed")
         /\ ConsumeInviteReady(t, c)
         /\ admitted' = IF CanConsume(t, c)
                        THEN [admitted EXCEPT ![t] = @ \cup {c}]
                        ELSE admitted
         /\ UNCHANGED <<roomVars, queueVars, clientVars, announced, ghosts,
                        token, room, chan, cap>>
    BY <1>5 DEF InviteReady
  <2>. t \in Tokens
    BY DEF ConnTypeOK
  <2>1. InvitesTypeOK'
    BY InviteOpsType
  <2>2. ConnTypeOK'
    BY DEF Goto, ConnTypeOK, Phases
  <2>3. HistoryTypeOK'
    BY DEF HistoryTypeOK
  <2>. QED
    BY <2>1, <2>2, <2>3 DEF TypeOK
<1>6. CASE EnterInvited(c)
  <2>. PICK r \in room[c] :
         /\ Goto(c, "consumed", "entering") \/ Goto(c, "consumed", "closed")
         /\ \/ AddInvitedMember(r, c) /\ chan' = [chan EXCEPT ![c] = rooms[r].chan]
            \/ UNCHANGED <<roomVars, chan>>
         /\ UNCHANGED <<inviteVars, queueVars, clientVars, historyVars,
                        token, room, cap>>
    BY <1>6 DEF EnterInvited
  <2>. r \in RoomIds
    BY DEF ConnTypeOK
  <2>1. RoomsTypeOK'
    <3>1. CASE UNCHANGED roomVars
      BY <3>1
    <3>2. CASE AddInvitedMember(r, c)
      BY <3>2, RoomOpsType
    <3>. QED
      BY <3>1, <3>2
  <2>2. ConnTypeOK'
    <3>1. Exists(r) => rooms[r].chan \in Nat
      BY DEF Exists, RoomsTypeOK, RoomInfo
    <3>. QED
      BY <3>1 DEF AddInvitedMember, Goto, ConnTypeOK, Phases
  <2>. QED
    BY <2>1, <2>2 DEF TypeOK
<1>. QED
  BY <1>1, <1>2, <1>3, <1>4, <1>5, <1>6 DEF Handshake

(* What is written to a client keeps its type. *)
LEMMA WrittenType ==
  ASSUME TypeOK, NEW c \in Conns, NEW lane \in {"high", "low"}, NEW e \in Events,
         Written(c, lane, e), UNCHANGED packets
  PROVE  ClientTypeOK'
<1>1. e.members \in SUBSET Conns
  BY DEF Events
<1>2. [lane |-> lane, source |-> e.source, seq |-> e.seq] \in Delivered
  BY DEF Events, Delivered
<1>. QED
  BY <1>1, <1>2 DEF Written, ClientTypeOK, TypeOK

LEMMA SessionType ==
  ASSUME TypeOK, NEW c \in Conns, Session(c)
  PROVE  TypeOK'
<1>. RoomsTypeOK /\ InvitesTypeOK /\ BroadcastTypeOK
     /\ ConnTypeOK /\ ClientTypeOK /\ HistoryTypeOK
  BY DEF TypeOK
<1>. USE RoomsUnchanged, InvitesUnchanged, QueuesUnchanged, ClientsUnchanged,
         ConnsUnchanged, HistoryUnchanged
<1>1. CASE SessionOkLost(c)
  <2>1. ConnTypeOK' /\ HistoryTypeOK'
    BY <1>1 DEF SessionOkLost, Goto, ConnTypeOK, HistoryTypeOK, Phases
  <2>2. UNCHANGED <<roomVars, inviteVars, queueVars, clientVars>>
    BY <1>1 DEF SessionOkLost
  <2>. QED
    BY <2>1, <2>2 DEF TypeOK
<1>2. CASE SessionOk(c)
  <2>1. Sent(high, subscribed, chan[c], Notice) \in [Conns -> Seq(Events)]
    BY SentType, EventTypes DEF BroadcastTypeOK
  <2>5. Bounded(Sent(high, subscribed, chan[c], Notice))
    BY SentBounded, EventTypes DEF BroadcastTypeOK, Bounded
  <2>2. BroadcastTypeOK'
    BY <1>2, <2>1, <2>5 DEF Bounded, SessionOk, BroadcastTypeOK, ConnTypeOK, Overrun
  <2>3. ConnTypeOK'
    BY <1>2 DEF SessionOk, Goto, ConnTypeOK, Phases
  <2>4. UNCHANGED <<roomVars, inviteVars, clientVars, historyVars>>
    BY <1>2 DEF SessionOk
  <2>. QED
    BY <2>2, <2>3, <2>4 DEF TypeOK
<1>3. CASE AnnounceMembers(c)
  <2>. PICK r \in room[c] :
         /\ Goto(c, "joined", "session")
         /\ IF Exists(r)
            THEN /\ high' = ListSent(high, subscribed, r, rooms[r].members)
                 /\ lagged' = lagged \cup Overrun(high, subscribed, rooms[r].chan)
                 /\ announced' = [announced EXCEPT ![r] = rooms[r].members]
            ELSE UNCHANGED <<high, lagged, announced>>
         /\ UNCHANGED <<roomVars, inviteVars, clientVars, subscribed, low, polled,
                        admitted, ghosts, token, room, chan, cap>>
    BY <1>3 DEF AnnounceMembers
  <2>. r \in RoomIds
    BY DEF ConnTypeOK
  <2>1. Exists(r) => rooms[r].members \in SUBSET Conns
    BY DEF Exists, RoomsTypeOK, RoomInfo
  <2>2. Exists(r) => ListSent(high, subscribed, r, rooms[r].members)
                       \in [Conns -> Seq(Events)]
    BY <2>1, SentType, EventTypes DEF ListSent, BroadcastTypeOK
  <2>5. Exists(r) => Bounded(ListSent(high, subscribed, r, rooms[r].members))
    BY <2>1, SentBounded, EventTypes DEF ListSent, BroadcastTypeOK, Bounded
  <2>3. BroadcastTypeOK'
    BY <2>2, <2>5 DEF BroadcastTypeOK, Overrun, Bounded
  <2>4. ConnTypeOK' /\ HistoryTypeOK'
    BY <2>1 DEF Goto, ConnTypeOK, HistoryTypeOK, Phases
  <2>. QED
    BY <2>3, <2>4 DEF TypeOK
<1>4. ASSUME NEW lane \in {"high", "low"}, Packet(c, lane)
      PROVE  TypeOK'
  <2>. DEFINE e == PacketEvent(c, packets + 1)
  <2>1. e \in Events /\ packets + 1 \in Nat
    BY EventTypes DEF ClientTypeOK
  <2>2. /\ Sent(high, subscribed, chan[c], e) \in [Conns -> Seq(Events)]
        /\ Sent(low, subscribed, chan[c], e) \in [Conns -> Seq(Events)]
        /\ Bounded(Sent(high, subscribed, chan[c], e))
        /\ Bounded(Sent(low, subscribed, chan[c], e))
    <3>. HIDE DEF e
    <3>. QED
      BY <2>1, SentType, SentBounded DEF BroadcastTypeOK, Bounded
  <2>3. BroadcastTypeOK'
    <3>1. /\ high' \in [Conns -> Seq(Events)]
          /\ low' \in [Conns -> Seq(Events)]
          /\ Bounded(high') /\ Bounded(low')
      BY <1>4, <2>2 DEF Packet, BroadcastTypeOK, Bounded
    <3>2. lagged' \subseteq Conns /\ UNCHANGED <<subscribed, polled>>
      BY <1>4 DEF Packet, Overrun, BroadcastTypeOK
    <3>. QED
      BY <3>1, <3>2 DEF BroadcastTypeOK, Bounded
  <2>4. ClientTypeOK'
    BY <1>4, <2>1 DEF Packet, ClientTypeOK
  <2>5. UNCHANGED <<roomVars, inviteVars, connVars, historyVars>>
    BY <1>4 DEF Packet
  <2>. QED
    BY <2>3, <2>4, <2>5 DEF TypeOK
<1>5. ASSUME NEW r \in RoomIds, NEW t \in Tokens, NEW capability,
             InviteRequest(c, r, capability, t)
      PROVE  TypeOK'
  <2>1. InvitesTypeOK'
    BY <1>5, InviteOpsType DEF InviteRequest
  <2>2. UNCHANGED <<roomVars, queueVars, clientVars, connVars, historyVars>>
    BY <1>5 DEF InviteRequest
  <2>. QED
    BY <2>1, <2>2 DEF TypeOK
<1>6. CASE DeliverHigh(c)
  <2>1. /\ Head(high[c]) \in Events /\ Tail(high[c]) \in Seq(Events)
        /\ Len(Tail(high[c])) <= Capacity
    BY CapacityAssumption, <1>6 DEF DeliverHigh, BroadcastTypeOK
  <2>2. ClientTypeOK'
    BY <1>6, <2>1, WrittenType DEF DeliverHigh
  <2>3. BroadcastTypeOK'
    BY <1>6, <2>1 DEF DeliverHigh, BroadcastTypeOK
  <2>4. UNCHANGED <<roomVars, inviteVars, connVars, historyVars>>
    BY <1>6 DEF DeliverHigh
  <2>. QED
    BY <2>2, <2>3, <2>4 DEF TypeOK
<1>7. CASE DeliverLow(c)
  <2>1. /\ Head(low[c]) \in Events /\ Tail(low[c]) \in Seq(Events)
        /\ Len(Tail(low[c])) <= Capacity
    BY CapacityAssumption, <1>7 DEF DeliverLow, BroadcastTypeOK
  <2>2. ClientTypeOK'
    BY <1>7, <2>1, WrittenType DEF DeliverLow
  <2>3. BroadcastTypeOK'
    BY <1>7, <2>1 DEF DeliverLow, BroadcastTypeOK
  <2>4. UNCHANGED <<roomVars, inviteVars, connVars, historyVars>>
    BY <1>7 DEF DeliverLow
  <2>. QED
    BY <2>2, <2>3, <2>4 DEF TypeOK
<1>8. CASE Leave(c)
  <2>. DEFINE subs == [subscribed EXCEPT ![c] = NoChan]
              freed == Unsubscribed(high, c)
              noted == Sent(freed, subs, chan[c], Notice)
  <2>. PICK r \in room[c] :
         /\ Goto(c, "session", "left")
         /\ subscribed' = subs
         /\ low' = Unsubscribed(low, c)
         /\ IF Exists(r)
            THEN /\ RemoveMember(r, c)
                 /\ high' = ListSent(noted, subs, r, rooms[r].members \ {c})
                 /\ lagged' = lagged \cup Overrun(freed, subs, chan[c])
                                    \cup Overrun(noted, subs, rooms[r].chan)
                 /\ announced' = [announced EXCEPT ![r] = rooms[r].members \ {c}]
            ELSE /\ high' = noted
                 /\ lagged' = lagged \cup Overrun(freed, subs, chan[c])
                 /\ UNCHANGED <<roomVars, announced>>
         /\ UNCHANGED <<inviteVars, clientVars, polled, admitted, ghosts,
                        token, room, chan, cap>>
    BY <1>8 DEF Leave
  <2>. r \in RoomIds
    BY DEF ConnTypeOK
  <2>1. RoomsTypeOK'
    BY RoomOpsType
  <2>2. Exists(r) => rooms[r].members \ {c} \in SUBSET Conns
    BY DEF Exists, RoomsTypeOK, RoomInfo
  <2>3. /\ freed \in [Conns -> Seq(Events)] /\ low' \in [Conns -> Seq(Events)]
        /\ Bounded(freed) /\ Bounded(low')
    BY CapacityAssumption DEF Unsubscribed, BroadcastTypeOK, Bounded
  <2>4. noted \in [Conns -> Seq(Events)] /\ Bounded(noted)
    <3>. HIDE DEF freed, subs
    <3>. QED
      BY <2>3, SentType, SentBounded, EventTypes
  <2>5. Exists(r) => /\ ListSent(noted, subs, r, rooms[r].members \ {c})
                          \in [Conns -> Seq(Events)]
                     /\ Bounded(ListSent(noted, subs, r, rooms[r].members \ {c}))
    <3>. HIDE DEF noted, subs
    <3>. QED
      BY <2>2, <2>4, SentType, SentBounded, EventTypes DEF ListSent
  <2>6. BroadcastTypeOK'
    <3>1. high' \in [Conns -> Seq(Events)] /\ Bounded(high')
      <4>. HIDE DEF noted, subs
      <4>. QED
        BY <2>4, <2>5
    <3>2. subscribed' \in [Conns -> Nat]
      BY DEF BroadcastTypeOK, NoChan
    <3>3. lagged' \subseteq Conns /\ UNCHANGED polled
      <4>. HIDE DEF noted, subs, freed
      <4>. QED
        BY DEF BroadcastTypeOK, Overrun
    <3>. QED
      BY <2>3, <3>1, <3>2, <3>3 DEF BroadcastTypeOK, Bounded
  <2>7. ConnTypeOK' /\ HistoryTypeOK'
    BY <2>2 DEF Goto, ConnTypeOK, HistoryTypeOK, Phases
  <2>. QED
    BY <2>1, <2>6, <2>7 DEF TypeOK
<1>9. CASE HighEmpty(c) \/ LowEmpty(c)
  <2>1. /\ BroadcastTypeOK'
        /\ UNCHANGED <<roomVars, inviteVars, connVars, historyVars, clientVars>>
    BY <1>9 DEF HighEmpty, LowEmpty, BroadcastTypeOK
  <2>. QED
    BY <2>1 DEF TypeOK
<1>. QED
  BY <1>1, <1>2, <1>3, <1>4, <1>5, <1>6, <1>7, <1>8, <1>9 DEF Session, Receive

LEMMA TypeStep == TypeOK /\ [Next]_vars => TypeOK'
<1>. SUFFICES ASSUME TypeOK, [Next]_vars PROVE TypeOK'
  OBVIOUS
<1>1. CASE ClockTick
  <2>1. InvitesTypeOK'
    BY <1>1 DEF ClockTick, Tick, InvitesTypeOK, TypeOK
  <2>2. UNCHANGED <<roomVars, queueVars, clientVars, connVars, historyVars>>
    BY <1>1 DEF ClockTick
  <2>. QED
    BY <2>1, <2>2, RoomsUnchanged, QueuesUnchanged, ClientsUnchanged,
       ConnsUnchanged, HistoryUnchanged DEF TypeOK
<1>2. ASSUME NEW c \in Conns, Handshake(c) PROVE TypeOK'
  BY <1>2, HandshakeType
<1>3. ASSUME NEW c \in Conns, Session(c) PROVE TypeOK'
  BY <1>3, SessionType
<1>4. CASE UNCHANGED vars
  BY <1>4, RoomsUnchanged, InvitesUnchanged, QueuesUnchanged, ClientsUnchanged,
     ConnsUnchanged, HistoryUnchanged DEF TypeOK, vars
<1>. QED
  BY <1>1, <1>2, <1>3, <1>4 DEF Next

(* Every variable of the server keeps its type, whatever the connections,  *)
(* the rooms, the tokens and the bounds.                                   *)
THEOREM TypeCorrect == Spec => []TypeOK
BY InitType, TypeStep, PTL DEF Spec

-----------------------------------------------------------------------------
(* A session is registered in the room that now bears its room's name.     *)
(* With the types the property is inductive: a room is removed only when   *)
(* its last member goes, and a session is a member, so no name changes     *)
(* hands under a session.                                                  *)

Registered(c) ==
  \E r \in room[c] :
    Exists(r) /\ c \in rooms[r].members /\ rooms[r].chan = chan[c]

(* A step that leaves the table alone, and puts nobody in a room. *)
LEMMA RegisteredFrame ==
  ASSUME SessionRegistered, UNCHANGED rooms,
         \A d \in Conns : InRoom(d)' => /\ InRoom(d)
                                       /\ room'[d] = room[d]
                                       /\ chan'[d] = chan[d]
  PROVE  SessionRegistered'
BY DEF SessionRegistered, Exists

(* A step of c that only adds members to rooms and rooms to the table. *)
LEMMA RegisteredGrow ==
  ASSUME TypeOK, SessionRegistered, NEW c \in Conns,
         \A r \in RoomIds : Exists(r) =>
            /\ Exists(r)'
            /\ rooms[r].members \subseteq rooms'[r].members
            /\ rooms'[r].chan = rooms[r].chan,
         \A d \in Conns \ {c} : InRoom(d)' => /\ InRoom(d)
                                             /\ room'[d] = room[d]
                                             /\ chan'[d] = chan[d],
         Registered(c)'
  PROVE  SessionRegistered'
<1>. SUFFICES ASSUME NEW d \in Conns, InRoom(d)'
              PROVE  Registered(d)'
  BY DEF SessionRegistered, Registered
<1>1. CASE d = c
  BY <1>1
<1>2. CASE d # c
  <2>1. InRoom(d) /\ room'[d] = room[d] /\ chan'[d] = chan[d]
    BY <1>2
  <2>. PICK r \in room[d] :
         Exists(r) /\ d \in rooms[r].members /\ rooms[r].chan = chan[d]
    BY <2>1 DEF SessionRegistered
  <2>2. r \in RoomIds
    BY DEF TypeOK, ConnTypeOK
  <2>. QED
    BY <2>1, <2>2 DEF Registered
<1>. QED
  BY <1>1, <1>2

LEMMA RegisteredHandshake ==
  ASSUME TypeOK, SessionRegistered, NEW c \in Conns, Handshake(c)
  PROVE  SessionRegistered'
<1>1. CASE AuthHello(c) \/ AuthProof(c) \/ LoginRefused(c) \/ InviteProof(c)
             \/ InviteIoError(c) \/ InviteAborted(c) \/ InviteReady(c)
             \/ (\E t \in Tokens : InviteHello(c, t))
  <2>1. UNCHANGED <<rooms, chan>> /\ \A d \in Conns \ {c} : room'[d] = room[d]
    BY <1>1 DEF AuthHello, AuthProof, LoginRefused, InviteProof, InviteIoError,
         InviteAborted, InviteReady, InviteHello, roomVars, TypeOK, ConnTypeOK
  <2>2. /\ \A d \in Conns \ {c} : phase'[d] = phase[d]
        /\ phase'[c] \notin {"entering", "joined", "session"}
    BY <1>1 DEF AuthHello, AuthProof, LoginRefused, InviteProof, InviteIoError,
         InviteAborted, InviteReady, InviteHello, Goto, TypeOK, ConnTypeOK
  <2>. QED
    BY <2>1, <2>2, RegisteredFrame DEF InRoom
<1>2. ASSUME NEW r \in RoomIds, NEW k \in Creds, CreateCommand(c, r, k)
      PROVE  SessionRegistered'
  <2>1. Registered(c)'
    BY <1>2, NoRoomAssumption
       DEF CreateCommand, CreateRoom, Registered, Exists, TypeOK, ConnTypeOK,
           RoomsTypeOK, RoomInfo, NoChan
  <2>2. \A q \in RoomIds : Exists(q) => rooms'[q] = rooms[q]
    BY <1>2 DEF CreateCommand, CreateRoom, Exists, TypeOK, RoomsTypeOK
  <2>3. \A d \in Conns \ {c} :
          phase'[d] = phase[d] /\ room'[d] = room[d] /\ chan'[d] = chan[d]
    BY <1>2 DEF CreateCommand, Goto, TypeOK, ConnTypeOK
  <2>. QED
    BY <2>1, <2>2, <2>3, RegisteredGrow DEF InRoom, Exists
<1>3. ASSUME NEW r \in RoomIds, Exists(r),
             rooms' = [rooms EXCEPT ![r] = WithMember(r, c)],
             room'[c] = room[c] \/ room'[c] = {r}, r \in room'[c],
             chan' = [chan EXCEPT ![c] = rooms[r].chan],
             \A d \in Conns \ {c} : phase'[d] = phase[d] /\ room'[d] = room[d]
      PROVE  SessionRegistered'
  <2>1. rooms[r] \in RoomInfo /\ rooms'[r] = WithMember(r, c)
    BY <1>3 DEF Exists, TypeOK, RoomsTypeOK
  <2>2. WithMember(r, c) \in RoomInfo /\ WithMember(r, c) # NoRoom
    BY <2>1, NoRoomAssumption DEF WithMember, RoomInfo
  <2>3. /\ WithMember(r, c).members = rooms[r].members \cup {c}
        /\ WithMember(r, c).chan = rooms[r].chan
    BY <2>1 DEF WithMember, RoomInfo
  <2>4. Registered(c)'
    BY <1>3, <2>1, <2>2, <2>3 DEF Registered, Exists, TypeOK, ConnTypeOK
  <2>5. \A q \in RoomIds : Exists(q) => /\ Exists(q)'
                                       /\ rooms[q].members \subseteq rooms'[q].members
                                       /\ rooms'[q].chan = rooms[q].chan
    BY <1>3, <2>1, <2>2, <2>3 DEF Exists, TypeOK, RoomsTypeOK
  <2>6. \A d \in Conns \ {c} : chan'[d] = chan[d]
    BY <1>3 DEF TypeOK, ConnTypeOK
  <2>. QED
    BY <1>3, <2>4, <2>5, <2>6, RegisteredGrow DEF InRoom
<1>4. ASSUME NEW r \in RoomIds, NEW k \in Creds, JoinCommand(c, r, k)
      PROVE  SessionRegistered'
  BY <1>3, <1>4 DEF JoinCommand, JoinRoom, CanJoin, Goto, TypeOK, ConnTypeOK
<1>5. CASE EnterInvited(c)
  <2>. PICK r \in room[c] :
         \/ /\ Goto(c, "consumed", "entering")
            /\ AddInvitedMember(r, c)
            /\ chan' = [chan EXCEPT ![c] = rooms[r].chan]
            /\ UNCHANGED room
         \/ /\ Goto(c, "consumed", "closed")
            /\ UNCHANGED <<rooms, room, chan>>
    BY <1>5 DEF EnterInvited, roomVars
  <2>. r \in RoomIds
    BY DEF TypeOK, ConnTypeOK
  <2>1. CASE AddInvitedMember(r, c) /\ chan' = [chan EXCEPT ![c] = rooms[r].chan]
             /\ Goto(c, "consumed", "entering") /\ UNCHANGED room
    BY <1>3, <2>1 DEF AddInvitedMember, Goto, TypeOK, ConnTypeOK
  <2>2. CASE Goto(c, "consumed", "closed") /\ UNCHANGED <<rooms, room, chan>>
    BY <2>2, RegisteredFrame DEF InRoom, Goto, TypeOK, ConnTypeOK
  <2>. QED
    BY <2>1, <2>2
<1>. QED
  BY <1>1, <1>2, <1>4, <1>5 DEF Handshake

LEMMA RegisteredLeave ==
  ASSUME TypeOK, SessionRegistered, NEW c \in Conns, Leave(c)
  PROVE  SessionRegistered'
<1>. PICK r \in room[c] :
       /\ Goto(c, "session", "left")
       /\ RemoveMember(r, c) \/ UNCHANGED rooms
       /\ UNCHANGED <<room, chan>>
  BY DEF Leave, roomVars
<1>. SUFFICES ASSUME NEW d \in Conns, InRoom(d)'
              PROVE  Registered(d)'
  BY DEF SessionRegistered, Registered
<1>1. d # c /\ InRoom(d)
  BY DEF Goto, InRoom, TypeOK, ConnTypeOK
<1>. PICK q \in room[d] :
       Exists(q) /\ d \in rooms[q].members /\ rooms[q].chan = chan[d]
  BY <1>1 DEF SessionRegistered
<1>2. q \in RoomIds /\ r \in RoomIds
  BY DEF TypeOK, ConnTypeOK
<1>3. CASE UNCHANGED rooms
  BY <1>3 DEF Registered, Exists
<1>4. CASE RemoveMember(r, c) /\ q # r
  <2>1. rooms'[q] = rooms[q]
    BY <1>2, <1>4 DEF RemoveMember, TypeOK, RoomsTypeOK
  <2>. QED
    BY <2>1 DEF Registered, Exists
<1>5. CASE RemoveMember(r, c) /\ q = r
  <2>1. rooms[r] \in RoomInfo
    BY <1>2, <1>5 DEF Exists, TypeOK, RoomsTypeOK
  <2>2. /\ WithoutMember(r, c) \in RoomInfo
        /\ WithoutMember(r, c).members = rooms[r].members \ {c}
        /\ WithoutMember(r, c).chan = rooms[r].chan
    BY <2>1 DEF WithoutMember, Disowned, RoomInfo, NoChan
  <2>3. rooms'[r] = WithoutMember(r, c)
    BY <1>1, <1>2, <1>5, <2>2 DEF RemoveMember, TypeOK, RoomsTypeOK
  <2>. QED
    BY <1>1, <1>5, <2>2, <2>3, NoRoomAssumption DEF Registered, Exists
<1>. QED
  BY <1>3, <1>4, <1>5

LEMMA RegisteredStep == TypeOK /\ SessionRegistered /\ [Next]_vars => SessionRegistered'
<1>. SUFFICES ASSUME TypeOK, SessionRegistered, [Next]_vars PROVE SessionRegistered'
  OBVIOUS
<1>1. CASE ClockTick \/ UNCHANGED vars
  BY <1>1, RegisteredFrame DEF ClockTick, vars, roomVars, connVars, InRoom
<1>2. ASSUME NEW c \in Conns, Handshake(c) PROVE SessionRegistered'
  BY <1>2, RegisteredHandshake
<1>3. ASSUME NEW c \in Conns, Session(c) PROVE SessionRegistered'
  <2>1. CASE Leave(c)
    BY <2>1, RegisteredLeave
  <2>2. CASE ~Leave(c)
    <3>1. UNCHANGED <<rooms, room, chan>>
      BY <1>3, <2>2 DEF Session, SessionOkLost, SessionOk, AnnounceMembers, Packet,
           InviteRequest, Receive, DeliverHigh, HighEmpty, DeliverLow, LowEmpty,
           roomVars, connVars
    <3>2. \A d \in Conns : InRoom(d)' => InRoom(d)
      BY <1>3, <2>2 DEF Session, SessionOkLost, SessionOk, AnnounceMembers, Packet,
           InviteRequest, Receive, DeliverHigh, HighEmpty, DeliverLow, LowEmpty,
           connVars, Goto, InRoom,
           TypeOK, ConnTypeOK
    <3>. QED
      BY <3>1, <3>2, RegisteredFrame
  <2>. QED
    BY <2>1, <2>2
<1>. QED
  BY <1>1, <1>2, <1>3 DEF Next

(* RoomGuard can rely on the room's name: the room under that name is the  *)
(* one the session entered.                                                *)
THEOREM SessionsRegistered == Spec => []SessionRegistered
<1>1. Init => SessionRegistered
  BY DEF Init, SessionRegistered, InRoom
<1>. QED
  BY <1>1, TypeCorrect, RegisteredStep, PTL DEF Spec

-----------------------------------------------------------------------------
(* A token admits one connection.  The strengthening says where a token    *)
(* that admitted somebody can be: used, or gone from the table for good.   *)
(* Giving a token back cannot revive it, because the table is normalised,  *)
(* which drops used tokens, before any entry is written.                   *)

Spent(t) == invites[t].st \in {"used", "absent"}

TokenInv ==
  \A t \in Tokens :
    /\ admitted[t] # {} => Spent(t) /\ t \in minted
    /\ t \notin minted => invites[t].st = "absent"
    /\ \A c, d \in admitted[t] : c = d

LEMMA SpentNormalized ==
  ASSUME NEW t \in Tokens
  PROVE  /\ Spent(t) => Normalized[t].st = "absent"
         /\ invites[t].st = "absent" => Normalized[t].st = "absent"
BY DEF Spent, Normalized, NormalizedEntry, Absent

(* A step that leaves the tokens alone. *)
LEMMA TokenFrame ==
  ASSUME TokenInv, UNCHANGED <<invites, minted, admitted>>
  PROVE  TokenInv'
BY DEF TokenInv, Spent

(* A step that writes the normalised table with a new entry for one token, *)
(* which had an entry, and admits nobody.                                  *)
LEMMA TokenWrite ==
  ASSUME TypeOK, TokenInv, UNCHANGED <<minted, admitted>>, NEW t \in Tokens, NEW new,
         invites' = IF Normalized[t].st # "absent"
                    THEN [Normalized EXCEPT ![t] = new] ELSE Normalized
  PROVE  TokenInv'
<1>. SUFFICES ASSUME NEW s \in Tokens
              PROVE  /\ admitted[s] # {} => Spent(s)'
                     /\ s \notin minted => invites'[s].st = "absent"
  BY DEF TokenInv
<1>1. Spent(s) => Normalized[s].st = "absent"
  BY SpentNormalized
<1>2. Normalized[s].st = "absent" => invites'[s].st = "absent"
  BY DEF Normalized
<1>. QED
  BY <1>1, <1>2 DEF TokenInv, Spent

LEMMA TokenStep == TypeOK /\ TokenInv /\ [Next]_vars => TokenInv'
<1>. SUFFICES ASSUME TypeOK, TokenInv, [Next]_vars PROVE TokenInv'
  OBVIOUS
<1>1. CASE ClockTick \/ UNCHANGED vars
  BY <1>1, TokenFrame DEF ClockTick, Tick, vars, inviteVars, historyVars
<1>2. ASSUME NEW c \in Conns, Handshake(c) PROVE TokenInv'
  <2>1. CASE \/ AuthHello(c) \/ AuthProof(c) \/ LoginRefused(c) \/ InviteProof(c)
             \/ InviteIoError(c) \/ EnterInvited(c)
             \/ \E r \in RoomIds, k \in Creds :
                  CreateCommand(c, r, k) \/ JoinCommand(c, r, k)
    <3>1. UNCHANGED <<invites, minted, admitted>>
      BY <2>1 DEF AuthHello, AuthProof, LoginRefused, InviteProof, InviteIoError,
           EnterInvited, CreateCommand, JoinCommand, inviteVars, historyVars
    <3>. QED
      BY <3>1, TokenFrame
  <2>2. ASSUME NEW t \in Tokens, InviteHello(c, t) PROVE TokenInv'
    <3>. DEFINE new == [Normalized[t] EXCEPT !.st = "pending", !.nonce = c,
                                             !.until = now + PendingTtl]
    <3>1. CASE CanBegin(t)
      <4>1. /\ UNCHANGED <<minted, admitted>>
            /\ invites' = IF Normalized[t].st # "absent"
                          THEN [Normalized EXCEPT ![t] = new] ELSE Normalized
        BY <2>2, <3>1 DEF InviteHello, BeginPendingInvite, CanBegin, historyVars
      <4>. HIDE DEF new
      <4>. QED
        BY <4>1, TokenWrite
    <3>2. CASE ~CanBegin(t)
      <4>1. /\ UNCHANGED <<minted, admitted>>
            /\ invites' = Normalized
        BY <2>2, <3>2 DEF InviteHello, BeginPendingInvite, historyVars
      <4>. QED
        BY <4>1, SpentNormalized DEF TokenInv, Spent
    <3>. QED
      BY <3>1, <3>2
  <2>3. CASE InviteAborted(c)
    <3>. PICK t \in token[c] : ResetInviteToUnused(t)
      BY <2>3 DEF InviteAborted
    <3>1. t \in Tokens /\ UNCHANGED <<minted, admitted>>
      BY <2>3 DEF InviteAborted, ResetInviteToUnused, historyVars, TypeOK, ConnTypeOK
    <3>2. invites' = IF Normalized[t].st # "absent"
                     THEN [Normalized EXCEPT ![t] = Unused(Normalized[t])]
                     ELSE Normalized
      BY DEF ResetInviteToUnused
    <3>. QED
      BY <3>1, <3>2, TokenWrite
  <2>4. CASE InviteReady(c)
    <3>. PICK t \in token[c] :
           /\ ConsumeInviteReady(t, c)
           /\ admitted' = IF CanConsume(t, c)
                          THEN [admitted EXCEPT ![t] = @ \cup {c}]
                          ELSE admitted
      BY <2>4 DEF InviteReady
    <3>. t \in Tokens
      BY DEF TypeOK, ConnTypeOK
    <3>1. CASE ~CanConsume(t, c)
      <4>1. UNCHANGED <<minted, admitted>> /\ invites' = Normalized
        BY <3>1 DEF ConsumeInviteReady
      <4>. QED
        BY <4>1, SpentNormalized DEF TokenInv, Spent
    <3>2. CASE CanConsume(t, c)
      <4>1. admitted[t] = {} /\ t \in minted
        BY <3>2, SpentNormalized DEF CanConsume, TokenInv
      <4>2. /\ UNCHANGED minted
            /\ invites' = [Normalized EXCEPT ![t] = [@ EXCEPT !.st = "used"]]
            /\ admitted' = [admitted EXCEPT ![t] = @ \cup {c}]
        BY <3>2 DEF ConsumeInviteReady
      <4>3. invites'[t].st = "used" /\ admitted'[t] = {c}
        <5>1. invites'[t] = [Normalized[t] EXCEPT !.st = "used"]
          BY <4>2 DEF Normalized
        <5>2. Normalized[t] \in InviteTokenInfo
          BY <3>2, NormalizedType DEF CanConsume, Absent, TypeOK
        <5>. QED
          BY <4>1, <4>2, <5>1, <5>2 DEF InviteTokenInfo, TypeOK, HistoryTypeOK
      <4>4. \A s \in Tokens \ {t} : invites'[s] = Normalized[s] /\ admitted'[s] = admitted[s]
        BY <4>2 DEF Normalized, TypeOK, HistoryTypeOK
      <4>. QED
        BY <4>1, <4>2, <4>3, <4>4, SpentNormalized DEF TokenInv, Spent
    <3>. QED
      BY <3>1, <3>2
  <2>. QED
    BY <1>2, <2>1, <2>2, <2>3, <2>4 DEF Handshake
<1>3. ASSUME NEW c \in Conns, Session(c) PROVE TokenInv'
  <2>1. ASSUME NEW r \in RoomIds, NEW t \in Tokens, NEW capability,
               InviteRequest(c, r, capability, t)
        PROVE  TokenInv'
    BY <2>1 DEF InviteRequest, InsertInviteToken, TokenInv, Spent, historyVars,
                TypeOK, InvitesTypeOK
  <2>2. CASE \/ SessionOkLost(c) \/ SessionOk(c) \/ AnnounceMembers(c)
             \/ (\E lane \in {"high", "low"} : Packet(c, lane))
             \/ Receive(c) \/ Leave(c)
    <3>1. UNCHANGED <<invites, minted, admitted>>
      BY <2>2 DEF SessionOkLost, SessionOk, AnnounceMembers, Packet, Receive,
           DeliverHigh, HighEmpty, DeliverLow, LowEmpty, Leave, inviteVars, historyVars
    <3>. QED
      BY <3>1, TokenFrame
  <2>. QED
    BY <1>3, <2>1, <2>2 DEF Session
<1>. QED
  BY <1>1, <1>2, <1>3 DEF Next

(* No interleaving of handshakes, timeouts and give-backs admits two       *)
(* connections with one token.                                             *)
THEOREM TokensAreSingleUse == Spec => []SingleUse
<1>1. Init => TokenInv
  BY DEF Init, InvitesInit, TokenInv, Spent, Absent
<1>2. TokenInv => SingleUse
  BY DEF TokenInv, SingleUse
<1>. QED
  BY <1>1, <1>2, TypeCorrect, TokenStep, PTL DEF Spec

-----------------------------------------------------------------------------
(* The room table and the connections: who is in a room, who owns it, and  *)
(* which list was broadcast in it.  Most steps do not touch any of these;  *)
(* the others come in five shapes, over which the three invariants below   *)
(* are proved one by one.                                                  *)

(* Neither in a room nor lost on the way into one. *)
Outside(c) == ~InRoom(c) /\ c \notin ghosts

(* A connection has one room at most, a lost connection is closed, and     *)
(* channels and capabilities are numbers handed out before, each to one    *)
(* room.                                                                   *)
OneRoom == \A c \in Conns : \A q, r \in room[c] : q = r

GhostsClosed == \A c \in ghosts : phase[c] = "closed"

ChannelsApart ==
  /\ \A r \in RoomIds : Exists(r) => rooms[r].chan < nextChan
  /\ \A q, r \in RoomIds : Exists(q) /\ Exists(r) /\ rooms[q].chan = rooms[r].chan => q = r

Settled == TypeOK /\ SessionRegistered /\ OneRoom /\ GhostsClosed

(* The others do not move when c does. *)
OthersStay(c) ==
  \A d \in Conns \ {c} : phase'[d] = phase[d] /\ room'[d] = room[d] /\ cap'[d] = cap[d]

(* No connection enters or leaves a room or begins a session. *)
Still ==
  /\ UNCHANGED <<rooms, nextChan, cap, announced, ghosts>>
  /\ \A d \in Conns :
       /\ InRoom(d)' <=> InRoom(d)
       /\ phase'[d] = "session" <=> phase[d] = "session"
       /\ d \in ghosts => phase'[d] = "closed"
       /\ \/ room'[d] = room[d]
          \/ Outside(d) /\ \A q, r \in room'[d] : q = r

Creates(c, r) ==
  /\ Outside(c) /\ phase'[c] = "entering"
  /\ \E k \in Creds : CreateRoom(r, k, c)
  /\ room'[c] = {r}
  /\ cap'[c] = nextChan
  /\ announced' = [announced EXCEPT ![r] = {}]
  /\ OthersStay(c) /\ UNCHANGED ghosts

Enters(c, r) ==
  /\ Outside(c) /\ phase'[c] = "entering"
  /\ AddInvitedMember(r, c)
  /\ room'[c] = {r}
  /\ OthersStay(c) /\ UNCHANGED <<cap, announced, ghosts>>

Loses(c) ==
  /\ phase[c] = "entering" /\ phase'[c] = "closed"
  /\ ghosts' = ghosts \cup {c}
  /\ OthersStay(c) /\ UNCHANGED <<rooms, nextChan, room, cap, announced>>

Announces(c, r) ==
  /\ phase[c] = "joined" /\ phase'[c] = "session"
  /\ room[c] = {r} /\ Exists(r)
  /\ announced' = [announced EXCEPT ![r] = rooms[r].members]
  /\ OthersStay(c) /\ UNCHANGED <<rooms, nextChan, room, cap, ghosts>>

Leaves(c, r) ==
  /\ phase[c] = "session" /\ phase'[c] = "left"
  /\ room[c] = {r} /\ c \in rooms[r].members
  /\ RemoveMember(r, c)
  /\ announced' = [announced EXCEPT ![r] = rooms[r].members \ {c}]
  /\ OthersStay(c) /\ UNCHANGED <<room, cap, ghosts>>

Moves(c, r) == Creates(c, r) \/ Enters(c, r) \/ Loses(c) \/ Announces(c, r) \/ Leaves(c, r)

(* The room a connection is registered in is its only one. *)
LEMMA OwnRoom ==
  ASSUME Settled, NEW c \in Conns, InRoom(c), NEW r \in room[c]
  PROVE  /\ r \in RoomIds /\ room[c] = {r}
         /\ Exists(r) /\ c \in rooms[r].members /\ rooms[r].chan = chan[c]
<1>1. Registered(c)
  BY DEF Settled, SessionRegistered, Registered
<1>2. room[c] \subseteq RoomIds /\ \A q \in room[c] : q = r
  BY DEF Settled, OneRoom, TypeOK, ConnTypeOK
<1>. QED
  BY <1>1, <1>2 DEF Registered

LEMMA HandshakeMoves ==
  ASSUME Settled, NEW c \in Conns, Handshake(c)
  PROVE  Still \/ \E r \in RoomIds : Moves(c, r)
<1>. /\ phase \in [Conns -> Phases] /\ room \in [Conns -> SUBSET RoomIds]
     /\ cap \in [Conns -> Nat] /\ ghosts \subseteq Conns
  BY DEF Settled, TypeOK, ConnTypeOK, HistoryTypeOK
<1>0. ~InRoom(c) /\ phase[c] # "closed" => Outside(c)
  BY DEF Settled, GhostsClosed, Outside
<1>1. CASE AuthHello(c) \/ AuthProof(c) \/ LoginRefused(c) \/ InviteProof(c)
             \/ InviteIoError(c) \/ InviteAborted(c) \/ InviteReady(c)
             \/ (\E t \in Tokens : InviteHello(c, t))
  <2>1. UNCHANGED <<rooms, nextChan, cap, announced, ghosts>>
    BY <1>1 DEF AuthHello, AuthProof, LoginRefused, InviteProof, InviteIoError,
       InviteAborted, InviteReady, InviteHello, roomVars, historyVars
  <2>2. /\ \A d \in Conns \ {c} : phase'[d] = phase[d] /\ room'[d] = room[d]
        /\ phase'[c] \notin {"entering", "joined", "session"}
        /\ phase[c] \notin {"entering", "joined", "session", "closed"}
    BY <1>1 DEF AuthHello, AuthProof, LoginRefused, InviteProof, InviteIoError,
         InviteAborted, InviteReady, InviteHello, Goto
  <2>3. room'[c] = room[c] \/ \A q, r \in room'[c] : q = r
    BY <1>1 DEF AuthHello, AuthProof, LoginRefused, InviteProof, InviteIoError,
         InviteAborted, InviteReady, InviteHello
  <2>4. Outside(c) /\ c \notin ghosts
    BY <1>0, <2>2 DEF InRoom, Outside
  <2>5. Still
    BY <2>1, <2>2, <2>3, <2>4 DEF Still, InRoom, Settled, GhostsClosed
  <2>. QED
    BY <2>5
<1>2. ASSUME NEW r \in RoomIds, NEW k \in Creds, CreateCommand(c, r, k)
      PROVE  Creates(c, r)
  <2>1. phase[c] = "command"
    BY <1>2 DEF CreateCommand, Goto
  <2>2. Outside(c)
    BY <1>0, <2>1 DEF InRoom
  <2>. QED
    BY <1>2, <2>2 DEF CreateCommand, Goto, Creates, OthersStay
<1>3. ASSUME NEW r \in RoomIds, NEW k \in Creds, JoinCommand(c, r, k)
      PROVE  Enters(c, r)
  <2>1. phase[c] = "command"
    BY <1>3 DEF JoinCommand, Goto
  <2>2. Outside(c)
    BY <1>0, <2>1 DEF InRoom
  <2>. QED
    BY <1>3, <2>2 DEF JoinCommand, JoinRoom, CanJoin, AddInvitedMember, Goto,
         Enters, OthersStay, historyVars
<1>4. CASE EnterInvited(c)
  <2>. PICK r \in room[c] :
         \/ /\ Goto(c, "consumed", "entering")
            /\ AddInvitedMember(r, c)
            /\ UNCHANGED <<historyVars, room, cap>>
         \/ /\ Goto(c, "consumed", "closed")
            /\ UNCHANGED <<roomVars, historyVars, room, cap>>
    BY <1>4 DEF EnterInvited
  <2>1. phase[c] = "consumed"
    BY DEF Goto
  <2>2. Outside(c)
    BY <1>0, <2>1 DEF InRoom
  <2>3. CASE AddInvitedMember(r, c) /\ Goto(c, "consumed", "entering")
             /\ UNCHANGED <<historyVars, room, cap>>
    <3>1. r \in RoomIds /\ room[c] = {r}
      BY DEF Settled, OneRoom
    <3>2. Enters(c, r)
      BY <2>2, <2>3, <3>1 DEF Goto, Enters, OthersStay, historyVars
    <3>. QED
      BY <3>1, <3>2 DEF Moves
  <2>4. CASE Goto(c, "consumed", "closed")
             /\ UNCHANGED <<roomVars, historyVars, room, cap>>
    <3>1. Still
      BY <2>2, <2>4 DEF Goto, Still, InRoom, Outside, roomVars, historyVars,
           Settled, GhostsClosed
    <3>. QED
      BY <3>1
  <2>. QED
    BY <2>3, <2>4
<1>. QED
  BY <1>1, <1>2, <1>3, <1>4 DEF Handshake, Moves

LEMMA SessionMoves ==
  ASSUME Settled, NEW c \in Conns, Session(c)
  PROVE  Still \/ \E r \in RoomIds : Moves(c, r)
<1>. /\ phase \in [Conns -> Phases] /\ room \in [Conns -> SUBSET RoomIds]
     /\ cap \in [Conns -> Nat] /\ ghosts \subseteq Conns
  BY DEF Settled, TypeOK, ConnTypeOK, HistoryTypeOK
<1>1. CASE SessionOkLost(c)
  <2>1. Loses(c)
    BY <1>1 DEF SessionOkLost, Goto, Loses, OthersStay, roomVars
  <2>2. InRoom(c)
    BY <2>1 DEF Loses, InRoom
  <2>3. Registered(c)
    BY <2>2 DEF Settled, SessionRegistered, Registered
  <2>4. \E r \in RoomIds : TRUE
    BY <2>3 DEF Registered
  <2>. QED
    BY <2>1, <2>4 DEF Moves
<1>2. CASE SessionOk(c)
  <2>1. /\ UNCHANGED <<rooms, nextChan, cap, announced, ghosts, room>>
        /\ phase[c] = "entering" /\ phase' = [phase EXCEPT ![c] = "joined"]
    BY <1>2 DEF SessionOk, Goto, roomVars, historyVars
  <2>2. Still
    BY <2>1 DEF Still, InRoom, Settled, GhostsClosed
  <2>. QED
    BY <2>2
<1>3. CASE AnnounceMembers(c)
  <2>. PICK r \in room[c] :
         /\ Goto(c, "joined", "session")
         /\ Exists(r) => announced' = [announced EXCEPT ![r] = rooms[r].members]
         /\ UNCHANGED <<roomVars, ghosts, room, cap>>
    BY <1>3 DEF AnnounceMembers
  <2>1. InRoom(c)
    BY DEF Goto, InRoom
  <2>2. r \in RoomIds /\ room[c] = {r} /\ Exists(r)
    BY <2>1, OwnRoom
  <2>3. Announces(c, r)
    BY <2>2 DEF Goto, Announces, OthersStay, roomVars
  <2>. QED
    BY <2>2, <2>3 DEF Moves
<1>4. CASE (\E lane \in {"high", "low"} : Packet(c, lane))
             \/ (\E r \in RoomIds, t \in Tokens, capability \in 1 .. (nextChan - 1) :
                  InviteRequest(c, r, capability, t))
             \/ Receive(c)
  <2>1. UNCHANGED <<roomVars, connVars, historyVars>>
    BY <1>4 DEF Packet, InviteRequest, Receive, DeliverHigh, HighEmpty, DeliverLow,
                LowEmpty
  <2>2. Still
    BY <2>1 DEF Still, InRoom, roomVars, connVars, historyVars, Settled, GhostsClosed
  <2>. QED
    BY <2>2
<1>5. CASE Leave(c)
  <2>. PICK r \in room[c] :
         /\ Goto(c, "session", "left")
         /\ Exists(r) => /\ RemoveMember(r, c)
                         /\ announced' = [announced EXCEPT ![r] = rooms[r].members \ {c}]
         /\ UNCHANGED <<ghosts, room, cap>>
    BY <1>5 DEF Leave
  <2>1. InRoom(c)
    BY DEF Goto, InRoom
  <2>2. r \in RoomIds /\ room[c] = {r} /\ Exists(r) /\ c \in rooms[r].members
    BY <2>1, OwnRoom
  <2>3. Leaves(c, r)
    BY <2>2 DEF Goto, Leaves, OthersStay
  <2>. QED
    BY <2>2, <2>3 DEF Moves
<1>. QED
  BY <1>1, <1>2, <1>3, <1>4, <1>5 DEF Session

LEMMA StepMoves ==
  ASSUME Settled, [Next]_vars
  PROVE  Still \/ \E c \in Conns, r \in RoomIds : Moves(c, r)
<1>1. CASE ClockTick \/ UNCHANGED vars
  <2>1. UNCHANGED <<roomVars, connVars, historyVars>>
    BY <1>1 DEF ClockTick, vars
  <2>. QED
    BY <2>1 DEF Still, InRoom, roomVars, connVars, historyVars, Settled, GhostsClosed
<1>. QED
  BY <1>1, HandshakeMoves, SessionMoves DEF Next

-----------------------------------------------------------------------------
(* What a shape does to the table: one entry changes, and how.             *)

LEMMA Created ==
  ASSUME RoomsTypeOK, NEW r \in RoomIds, NEW c \in Conns,
         \E k \in Creds : CreateRoom(r, k, c)
  PROVE  /\ ~Exists(r) /\ Exists(r)'
         /\ rooms'[r].members = {c} /\ rooms'[r].owner = c
         /\ rooms'[r].chan = nextChan /\ rooms'[r].capability = nextChan
         /\ nextChan' = nextChan + 1
         /\ \A q \in RoomIds \ {r} : rooms'[q] = rooms[q]
<1>. PICK k \in Creds : CreateRoom(r, k, c)
  OBVIOUS
<1>1. rooms'[r] = [chan |-> nextChan, cred |-> k, members |-> {c},
                   owner |-> c, capability |-> nextChan]
  BY DEF CreateRoom, RoomsTypeOK
<1>2. rooms'[r] \in RoomInfo
  BY <1>1 DEF RoomsTypeOK, RoomInfo
<1>. QED
  BY <1>1, <1>2, NoRoomAssumption DEF CreateRoom, RoomsTypeOK, Exists

LEMMA MemberAdded ==
  ASSUME RoomsTypeOK, NEW r \in RoomIds, NEW c \in Conns, AddInvitedMember(r, c)
  PROVE  /\ Exists(r) /\ Exists(r)'
         /\ rooms'[r].members = rooms[r].members \cup {c}
         /\ rooms'[r].owner = rooms[r].owner
         /\ rooms'[r].chan = rooms[r].chan
         /\ rooms'[r].capability = rooms[r].capability
         /\ nextChan' = nextChan
         /\ \A q \in RoomIds \ {r} : rooms'[q] = rooms[q]
<1>1. rooms[r] \in RoomInfo /\ rooms'[r] = WithMember(r, c)
  BY DEF AddInvitedMember, Exists, RoomsTypeOK
<1>2. WithMember(r, c) \in RoomInfo
  BY <1>1 DEF WithMember, RoomInfo
<1>. QED
  BY <1>1, <1>2, NoRoomAssumption
     DEF AddInvitedMember, WithMember, RoomsTypeOK, RoomInfo, Exists

(* The room is gone with its last member, and ownerless once its owner is  *)
(* gone.                                                                   *)
LEMMA MemberRemoved ==
  ASSUME RoomsTypeOK, NEW r \in RoomIds, NEW c \in Conns, RemoveMember(r, c)
  PROVE  /\ Exists(r)
         /\ Exists(r)' => /\ rooms'[r].members = rooms[r].members \ {c}
                          /\ rooms'[r].members # {}
                          /\ rooms'[r].chan = rooms[r].chan
                          /\ IF rooms[r].owner = c
                             THEN /\ rooms'[r].owner = NoConn
                                  /\ rooms'[r].capability = NoChan
                             ELSE /\ rooms'[r].owner = rooms[r].owner
                                  /\ rooms'[r].capability = rooms[r].capability
         /\ nextChan' = nextChan
         /\ \A q \in RoomIds \ {r} : rooms'[q] = rooms[q]
<1>1. Exists(r) /\ rooms[r] \in RoomInfo
  BY DEF RemoveMember, Exists, RoomsTypeOK
<1>. DEFINE left == WithoutMember(r, c)
<1>2. /\ left.members = rooms[r].members \ {c} /\ left.chan = rooms[r].chan
      /\ IF rooms[r].owner = c
         THEN left.owner = NoConn /\ left.capability = NoChan
         ELSE left.owner = rooms[r].owner /\ left.capability = rooms[r].capability
  BY <1>1 DEF WithoutMember, Disowned, RoomInfo
<1>3. rooms'[r] = IF left.members = {} THEN NoRoom ELSE left
  BY DEF RemoveMember, RoomsTypeOK
<1>. HIDE DEF left
<1>. QED
  BY <1>1, <1>2, <1>3 DEF RemoveMember, RoomsTypeOK, Exists

-----------------------------------------------------------------------------
(* Who is a member.                                                        *)

(* A connection outside is a member of no room. *)
LEMMA OutsideNoMember ==
  ASSUME MembersAccountedFor, NEW c, Outside(c), NEW r \in RoomIds, Exists(r)
  PROVE  c \notin rooms[r].members
BY DEF MembersAccountedFor, Outside

LEMMA SettledStep ==
  ASSUME Settled, MembersAccountedFor, [Next]_vars
  PROVE  Settled'
<1>. TypeOK' /\ SessionRegistered'
  BY TypeStep, RegisteredStep DEF Settled
<1>. OneRoom /\ GhostsClosed /\ ghosts \subseteq Conns
  BY DEF Settled, TypeOK, HistoryTypeOK
<1>1. CASE Still
  BY <1>1 DEF Still, Settled, OneRoom, GhostsClosed
<1>2. ASSUME NEW c \in Conns, NEW r \in RoomIds, Moves(c, r) PROVE Settled'
  <2>1. \A q, s \in room'[c] : q = s
    BY <1>2 DEF Moves, Creates, Enters, Loses, Announces, Leaves, OneRoom
  <2>2. /\ OthersStay(c) /\ c \notin ghosts
        /\ ghosts' = ghosts \/ (ghosts' = ghosts \cup {c} /\ phase'[c] = "closed")
    BY <1>2 DEF Moves, Creates, Enters, Loses, Announces, Leaves, GhostsClosed, Outside
  <2>. QED
    BY <2>1, <2>2 DEF Settled, OneRoom, GhostsClosed, OthersStay
<1>. QED
  BY <1>1, <1>2, StepMoves

LEMMA MembersStep ==
  ASSUME Settled, MembersAccountedFor, [Next]_vars
  PROVE  MembersAccountedFor'
<1>. RoomsTypeOK
  BY DEF Settled, TypeOK
<1>. SUFFICES ASSUME NEW q \in RoomIds, Exists(q)'
              PROVE  /\ rooms'[q].members # {}
                     /\ \A m \in rooms'[q].members :
                          q \in room'[m] /\ (InRoom(m)' \/ m \in ghosts')
  BY DEF MembersAccountedFor
<1>0. Exists(q) => \A m \in rooms[q].members : m \in Conns
  BY DEF RoomsTypeOK, RoomInfo, Exists
<1>1. CASE Still
  BY <1>0, <1>1 DEF Still, MembersAccountedFor, Outside, Exists
<1>2. ASSUME NEW c \in Conns, NEW r \in RoomIds, Creates(c, r)
      PROVE  /\ rooms'[q].members # {}
             /\ \A m \in rooms'[q].members :
                  q \in room'[m] /\ (InRoom(m)' \/ m \in ghosts')
  <2>1. CASE q = r
    BY <1>2, <2>1, Created DEF Creates, InRoom
  <2>2. CASE q # r
    <3>1. Exists(q) /\ rooms'[q] = rooms[q]
      BY <1>2, <2>2, Created DEF Creates, Exists
    <3>2. c \notin rooms[q].members
      BY <1>2, <3>1, OutsideNoMember DEF Creates
    <3>. QED
      BY <1>0, <1>2, <3>1, <3>2
         DEF Creates, OthersStay, MembersAccountedFor, InRoom
  <2>. QED
    BY <2>1, <2>2
<1>3. ASSUME NEW c \in Conns, NEW r \in RoomIds, Enters(c, r)
      PROVE  /\ rooms'[q].members # {}
             /\ \A m \in rooms'[q].members :
                  q \in room'[m] /\ (InRoom(m)' \/ m \in ghosts')
  <2>1. /\ Exists(q) /\ c \notin rooms[q].members
        /\ rooms'[q].members = IF q = r THEN rooms[q].members \cup {c} ELSE rooms[q].members
    <3>1. AddInvitedMember(r, c) /\ Outside(c)
      BY <1>3 DEF Enters
    <3>2. /\ Exists(q)
          /\ rooms'[q].members = IF q = r THEN rooms[q].members \cup {c}
                                          ELSE rooms[q].members
      BY <3>1, MemberAdded DEF Exists
    <3>. QED
      BY <3>1, <3>2, OutsideNoMember
  <2>2. InRoom(c)' /\ r \in room'[c]
    BY <1>3 DEF Enters, InRoom
  <2>. QED
    BY <1>0, <1>3, <2>1, <2>2 DEF Enters, OthersStay, MembersAccountedFor, InRoom
<1>4. ASSUME NEW c \in Conns, NEW r \in RoomIds, Loses(c) \/ Announces(c, r)
      PROVE  /\ rooms'[q].members # {}
             /\ \A m \in rooms'[q].members :
                  q \in room'[m] /\ (InRoom(m)' \/ m \in ghosts')
  <2>1. UNCHANGED <<rooms, room>> /\ (InRoom(c)' \/ c \in ghosts') /\ ghosts \subseteq ghosts'
    BY <1>4 DEF Loses, Announces, InRoom
  <2>. QED
    BY <1>0, <1>4, <2>1
       DEF Loses, Announces, OthersStay, MembersAccountedFor, InRoom, Exists
<1>5. ASSUME NEW c \in Conns, NEW r \in RoomIds, Leaves(c, r)
      PROVE  /\ rooms'[q].members # {}
             /\ \A m \in rooms'[q].members :
                  q \in room'[m] /\ (InRoom(m)' \/ m \in ghosts')
  <2>1. /\ Exists(q) /\ rooms'[q].members # {}
        /\ rooms'[q].members = rooms[q].members \ {c}
    <3>1. CASE q = r
      BY <1>5, <3>1, MemberRemoved DEF Leaves
    <3>2. CASE q # r
      <4>1. Exists(q) /\ rooms'[q] = rooms[q]
        BY <1>5, <3>2, MemberRemoved DEF Leaves, Exists
      <4>2. c \notin rooms[q].members
        BY <1>5, <3>2, <4>1 DEF Leaves, MembersAccountedFor
      <4>. QED
        BY <4>1, <4>2 DEF MembersAccountedFor
    <3>. QED
      BY <3>1, <3>2
  <2>. QED
    BY <1>0, <1>5, <2>1 DEF Leaves, OthersStay, MembersAccountedFor, InRoom
<1>. QED
  BY <1>1, <1>2, <1>3, <1>4, <1>5, StepMoves DEF Moves

-----------------------------------------------------------------------------
(* Who owns a room.                                                        *)

CapsOK == \A c \in Conns : cap[c] < nextChan

Owned(r) ==
  /\ (rooms[r].owner = NoConn) <=> (rooms[r].capability = NoChan)
  /\ rooms[r].owner # NoConn =>
       /\ rooms[r].owner \in rooms[r].members
       /\ rooms[r].capability = rooms[r].chan
       /\ \A d \in Conns : cap[d] = rooms[r].capability <=> d = rooms[r].owner

OwnerInv == ChannelsApart /\ CapsOK /\ \A r \in RoomIds : Exists(r) => Owned(r)

LEMMA OwnedEverywhere ==
  ASSUME RoomsTypeOK
  PROVE  OwnershipCoherent <=> \A r \in RoomIds : Exists(r) => Owned(r)
<1>1. ASSUME NEW r \in RoomIds, Exists(r)
      PROVE  rooms[r].owner # NoConn =>
               (   {d \in Conns : cap[d] = rooms[r].capability} = {rooms[r].owner}
               <=> \A d \in Conns : cap[d] = rooms[r].capability <=> d = rooms[r].owner)
  <2>1. rooms[r].owner \in Conns \cup {NoConn}
    BY <1>1 DEF RoomsTypeOK, Exists, RoomInfo
  <2>. QED
    BY <2>1
<1>. QED
  BY <1>1 DEF OwnershipCoherent, Owned

LEMMA OwnerStep ==
  ASSUME Settled, MembersAccountedFor, OwnerInv, [Next]_vars
  PROVE  OwnerInv'
<1>. /\ RoomsTypeOK /\ RoomsTypeOK' /\ nextChan \in Nat \ {0}
     /\ cap \in [Conns -> Nat] /\ cap' \in [Conns -> Nat]
  BY TypeStep DEF Settled, TypeOK, RoomsTypeOK, ConnTypeOK, NoChan
<1>. ChannelsApart /\ CapsOK /\ \A r \in RoomIds : Exists(r) => Owned(r)
  BY DEF OwnerInv
<1>0. \A r \in RoomIds : Exists(r) => rooms[r].chan \in Nat /\ rooms[r].owner \in Conns \cup {NoConn}
  BY DEF RoomsTypeOK, Exists, RoomInfo
<1>. SUFFICES /\ \A r \in RoomIds : Exists(r)' => Owned(r)'
              /\ ChannelsApart' /\ CapsOK'
  BY DEF OwnerInv
<1>1. CASE UNCHANGED <<rooms, nextChan, cap>>
  BY <1>1 DEF ChannelsApart, CapsOK, Owned, Exists
<1>2. ASSUME NEW c \in Conns, NEW r \in RoomIds, Creates(c, r)
      PROVE  /\ \A q \in RoomIds : Exists(q)' => Owned(q)'
             /\ ChannelsApart' /\ CapsOK'
  <2>1. /\ ~Exists(r)
        /\ rooms'[r].members = {c} /\ rooms'[r].owner = c
        /\ rooms'[r].chan = nextChan /\ rooms'[r].capability = nextChan
        /\ nextChan' = nextChan + 1
        /\ \A q \in RoomIds \ {r} : rooms'[q] = rooms[q]
    BY <1>2, Created DEF Creates
  <2>2. cap'[c] = nextChan /\ \A d \in Conns \ {c} : cap'[d] = cap[d]
    BY <1>2 DEF Creates, OthersStay
  <2>3. Owned(r)'
    BY <2>1, <2>2, NoConnAssumption DEF Owned, CapsOK, NoChan
  <2>4. ASSUME NEW q \in RoomIds \ {r}, Exists(q)' PROVE Owned(q)'
    <3>1. Exists(q) /\ rooms'[q] = rooms[q]
      BY <2>1, <2>4 DEF Exists
    <3>2. rooms[q].owner # c
      BY <1>2, <3>1, OutsideNoMember, NoConnAssumption DEF Creates, Owned
    <3>3. rooms[q].chan < nextChan
      BY <3>1 DEF ChannelsApart
    <3>. QED
      BY <1>0, <2>2, <3>1, <3>2, <3>3 DEF Owned
  <2>5. CapsOK'
    BY <2>1, <2>2 DEF CapsOK
  <2>6. ChannelsApart'
    BY <1>0, <2>1 DEF ChannelsApart, Exists
  <2>. QED
    BY <2>3, <2>4, <2>5, <2>6
<1>3. ASSUME NEW c \in Conns, NEW r \in RoomIds, Enters(c, r)
      PROVE  /\ \A q \in RoomIds : Exists(q)' => Owned(q)'
             /\ ChannelsApart' /\ CapsOK'
  <2>1. /\ AddInvitedMember(r, c) /\ UNCHANGED cap
    BY <1>3 DEF Enters
  <2>2. /\ Exists(r) /\ rooms[r].members \subseteq rooms'[r].members
        /\ rooms'[r].owner = rooms[r].owner
        /\ rooms'[r].chan = rooms[r].chan
        /\ rooms'[r].capability = rooms[r].capability
        /\ nextChan' = nextChan
        /\ \A q \in RoomIds \ {r} : rooms'[q] = rooms[q]
    BY <2>1, MemberAdded
  <2>3. \A q \in RoomIds : Exists(q)' => Owned(q)'
    BY <2>1, <2>2 DEF Owned, Exists
  <2>4. CapsOK' /\ ChannelsApart'
    BY <2>1, <2>2 DEF CapsOK, ChannelsApart, Exists
  <2>. QED
    BY <2>3, <2>4
<1>4. ASSUME NEW c \in Conns, NEW r \in RoomIds, Leaves(c, r)
      PROVE  /\ \A q \in RoomIds : Exists(q)' => Owned(q)'
             /\ ChannelsApart' /\ CapsOK'
  <2>1. /\ RemoveMember(r, c) /\ UNCHANGED cap
    BY <1>4 DEF Leaves
  <2>2. /\ Exists(r)
        /\ Exists(r)' => /\ rooms'[r].members = rooms[r].members \ {c}
                         /\ rooms'[r].chan = rooms[r].chan
                         /\ IF rooms[r].owner = c
                            THEN /\ rooms'[r].owner = NoConn
                                 /\ rooms'[r].capability = NoChan
                            ELSE /\ rooms'[r].owner = rooms[r].owner
                                 /\ rooms'[r].capability = rooms[r].capability
        /\ nextChan' = nextChan
        /\ \A q \in RoomIds \ {r} : rooms'[q] = rooms[q]
    BY <2>1, MemberRemoved
  <2>3. Exists(r)' => Owned(r)'
    BY <2>1, <2>2 DEF Owned
  <2>4. \A q \in RoomIds \ {r} : Exists(q)' => Owned(q)'
    BY <2>1, <2>2 DEF Owned, Exists
  <2>5. CapsOK'
    BY <2>1, <2>2 DEF CapsOK
  <2>6. ChannelsApart'
    <3>1. \A q \in RoomIds : Exists(q)' => Exists(q) /\ rooms'[q].chan = rooms[q].chan
      BY <2>2 DEF Exists
    <3>. QED
      BY <2>2, <3>1 DEF ChannelsApart
  <2>. QED
    BY <2>3, <2>4, <2>5, <2>6
<1>. QED
  BY <1>1, <1>2, <1>3, <1>4, StepMoves DEF Moves, Still, Loses, Announces

-----------------------------------------------------------------------------
(* Who is on the list that was broadcast last.                             *)

ListOK(r) ==
  /\ announced[r] \subseteq rooms[r].members
  /\ \A d \in Conns : phase[d] = "session" /\ r \in room[d] => d \in announced[r]

LEMMA ListsEverywhere ==
  MemberListBounds <=> \A r \in RoomIds : Exists(r) => ListOK(r)
BY DEF MemberListBounds, SessionsOf, ListOK

LEMMA ListStep ==
  ASSUME Settled, MembersAccountedFor, MemberListBounds, [Next]_vars
  PROVE  MemberListBounds'
<1>. RoomsTypeOK /\ announced \in [RoomIds -> SUBSET Conns]
  BY DEF Settled, TypeOK, HistoryTypeOK
<1>. \A r \in RoomIds : Exists(r) => ListOK(r)
  BY ListsEverywhere
<1>0. MemberListBounds' <=> \A r \in RoomIds : Exists(r)' => ListOK(r)'
  BY DEF MemberListBounds, SessionsOf, ListOK
<1>. SUFFICES ASSUME NEW q \in RoomIds, Exists(q)' PROVE ListOK(q)'
  BY <1>0
<1>1. CASE Still
  BY <1>1 DEF Still, ListOK, Exists, Outside, InRoom
<1>2. ASSUME NEW c \in Conns, NEW r \in RoomIds, Creates(c, r) PROVE ListOK(q)'
  <2>1. /\ ~Exists(r) /\ \A s \in RoomIds \ {r} : rooms'[s] = rooms[s]
    BY <1>2, Created DEF Creates
  <2>2. CASE q = r
    <3>1. announced'[q] = {}
      BY <1>2, <2>2 DEF Creates
    <3>2. \A d \in Conns : phase[d] = "session" => r \notin room[d]
      BY <2>1, OwnRoom DEF InRoom
    <3>. QED
      BY <1>2, <2>2, <3>1, <3>2 DEF Creates, OthersStay, ListOK
  <2>3. CASE q # r
    <3>1. Exists(q) /\ rooms'[q] = rooms[q] /\ announced'[q] = announced[q]
      BY <1>2, <2>1, <2>3 DEF Creates, Exists
    <3>. QED
      BY <1>2, <3>1 DEF Creates, OthersStay, ListOK
  <2>. QED
    BY <2>2, <2>3
<1>3. ASSUME NEW c \in Conns, NEW r \in RoomIds, Enters(c, r) PROVE ListOK(q)'
  <2>1. Exists(q) /\ rooms[q].members \subseteq rooms'[q].members
    <3>1. AddInvitedMember(r, c)
      BY <1>3 DEF Enters
    <3>. QED
      BY <3>1, MemberAdded DEF Exists
  <2>. QED
    BY <1>3, <2>1 DEF Enters, OthersStay, ListOK
<1>4. ASSUME NEW c \in Conns, NEW r \in RoomIds, Loses(c) PROVE ListOK(q)'
  BY <1>4 DEF Loses, OthersStay, ListOK, Exists
<1>5. ASSUME NEW c \in Conns, NEW r \in RoomIds, Announces(c, r) PROVE ListOK(q)'
  <2>1. Exists(q) /\ UNCHANGED <<rooms, room>> /\ room[c] = {r}
    BY <1>5 DEF Announces, Exists
  <2>2. CASE q = r
    <3>1. announced'[q] = rooms[q].members
      BY <1>5, <2>2 DEF Announces
    <3>2. ASSUME NEW d \in Conns, phase'[d] = "session", r \in room[d]
          PROVE  d \in rooms[r].members
      <4>1. InRoom(d)
        BY <1>5, <3>2 DEF Announces, OthersStay, InRoom
      <4>. QED
        BY <3>2, <4>1, OwnRoom
    <3>. QED
      BY <2>1, <2>2, <3>1, <3>2 DEF ListOK
  <2>3. CASE q # r
    BY <1>5, <2>1, <2>3 DEF Announces, OthersStay, ListOK
  <2>. QED
    BY <2>2, <2>3
<1>6. ASSUME NEW c \in Conns, NEW r \in RoomIds, Leaves(c, r) PROVE ListOK(q)'
  <2>1. /\ UNCHANGED room /\ phase'[c] = "left"
        /\ \A d \in Conns \ {c} : phase'[d] = phase[d]
    BY <1>6 DEF Leaves, OthersStay
  <2>2. CASE q = r
    <3>1. Exists(r) /\ rooms'[r].members = rooms[r].members \ {c}
      BY <1>6, <2>2, MemberRemoved DEF Leaves
    <3>2. announced'[r] = rooms[r].members \ {c}
      BY <1>6 DEF Leaves
    <3>3. ASSUME NEW d \in Conns, phase'[d] = "session", r \in room[d]
          PROVE  d \in rooms[r].members \ {c}
      <4>1. d # c /\ InRoom(d)
        BY <2>1, <3>3 DEF InRoom
      <4>. QED
        BY <3>3, <4>1, OwnRoom
    <3>. QED
      BY <2>1, <2>2, <3>1, <3>2, <3>3 DEF ListOK
  <2>3. CASE q # r
    <3>1. Exists(q) /\ rooms'[q] = rooms[q] /\ announced'[q] = announced[q]
      BY <1>6, <2>3, MemberRemoved DEF Leaves, Exists
    <3>. QED
      BY <2>1, <3>1 DEF ListOK
  <2>. QED
    BY <2>2, <2>3
<1>. QED
  BY <1>1, <1>2, <1>3, <1>4, <1>5, <1>6, StepMoves DEF Moves

-----------------------------------------------------------------------------
RoomInv == Settled /\ MembersAccountedFor /\ OwnerInv /\ MemberListBounds

LEMMA RoomInit == Init => RoomInv
<1>. SUFFICES ASSUME Init PROVE RoomInv
  OBVIOUS
<1>1. \A r \in RoomIds : ~Exists(r)
  BY DEF Init, RoomsInit, Exists
<1>2. MembersAccountedFor /\ MemberListBounds /\ ChannelsApart
  BY <1>1 DEF MembersAccountedFor, MemberListBounds, ChannelsApart
<1>3. CapsOK
  <2>1. nextChan = 1
    BY DEF Init, RoomsInit
  <2>2. \A c \in Conns : cap[c] = 0
    BY DEF Init, NoChan
  <2>3. \A m, n \in Nat : m = 0 /\ n = 1 => m < n
    OBVIOUS
  <2>. QED
    BY <2>1, <2>2, <2>3 DEF CapsOK
<1>4. Settled
  BY InitType DEF Init, Settled, SessionRegistered, InRoom, OneRoom, GhostsClosed
<1>. QED
  BY <1>1, <1>2, <1>3, <1>4 DEF RoomInv, OwnerInv

(* Whatever connections come, go and fail at any await, the rooms stay in   *)
(* order: types, registration, accounting, ownership and lists together.   *)
THEOREM RoomInvariance == Spec => []RoomInv
<1>1. RoomInv /\ [Next]_vars => RoomInv'
  BY SettledStep, MembersStep, OwnerStep, ListStep DEF RoomInv
<1>. QED
  BY <1>1, RoomInit, PTL DEF Spec

(* No member leaks: while a room is in the table somebody is in it, and    *)
(* everybody in it is a live connection or one lost on the way in          *)
(* (enter_room_loop, where SESSION_OK is written before RoomGuard is made).*)
THEOREM NoMemberLeaks == Spec => []MembersAccountedFor
BY RoomInvariance, PTL DEF RoomInv

(* Ownership stays with the creator of a room, a ghost included, and ends  *)
(* when it leaves; no capability of another room fits (create_room,        *)
(* RoomGuard::drop).                                                       *)
THEOREM OwnershipStays == Spec => []OwnershipCoherent
<1>1. RoomInv => OwnershipCoherent
  BY OwnedEverywhere DEF RoomInv, OwnerInv, Settled, TypeOK
<1>. QED
  BY <1>1, RoomInvariance, PTL

(* The last list of a room names every session in it and members only      *)
(* (broadcast_member_list after a join and in RoomGuard::drop).            *)
THEOREM ListsBounded == Spec => []MemberListBounds
<1>1. RoomInv => MemberListBounds
  BY DEF RoomInv
<1>. QED
  BY <1>1, RoomInvariance, PTL

-----------------------------------------------------------------------------
(* What waits for a client and what it got.                                *)

(* The packets of a queue are in the order they were sent, n at most. *)
Rising(q, n) ==
  /\ \A i \in DOMAIN q : q[i].kind = "packet" => q[i].seq <= n
  /\ \A i, j \in DOMAIN q :
       i < j /\ q[i].kind = "packet" /\ q[j].kind = "packet" => q[i].seq < q[j].seq

(* What was got on these lanes was sent before the packets of the queue. *)
Ahead(s, lanes, q) ==
  \A i \in DOMAIN s, j \in DOMAIN q :
    s[i].lane \in lanes /\ q[j].kind = "packet" => s[i].seq < q[j].seq

(* One attachment at most was got ahead of the texts of the queue. *)
OneOvertakes(s, q) ==
  \A i, k \in DOMAIN s, j \in DOMAIN q :
    Overtakes(s[i], q[j]) /\ Overtakes(s[k], q[j]) => i = k

(* A client's packets s and queues h and l after n packets were sent, with *)
(* the tasks of P between their two looks: what one of these saw first was *)
(* an empty queue, so that no attachment has yet overtaken what came since. *)
LanesOK(c, s, h, l, n, P) ==
  /\ Rising(h, n) /\ Rising(l, n)
  /\ \A i \in DOMAIN s : s[i].source # c /\ s[i].seq <= n
  /\ \A i, j \in DOMAIN s : i < j /\ s[i].lane = s[j].lane => s[i].seq < s[j].seq
  /\ Ahead(s, {"high"}, h)
  /\ Ahead(s, {"low"}, l)
  /\ OneOvertakes(s, h)
  /\ c \in P => Ahead(s, {"low"}, h)

(* The elements of a longer and of a shorter sequence. *)
LEMMA Extended ==
  ASSUME NEW T, NEW q \in Seq(T), NEW e
  PROVE  /\ DOMAIN Append(q, e) = 1 .. (Len(q) + 1)
         /\ \A i \in DOMAIN Append(q, e) :
              \/ i \in DOMAIN q /\ Append(q, e)[i] = q[i] /\ i < Len(q) + 1
              \/ i = Len(q) + 1 /\ Append(q, e)[i] = e
OBVIOUS

LEMMA Shortened ==
  ASSUME NEW T, NEW q \in Seq(T), q # <<>>
  PROVE  /\ Tail(q) \in Seq(T) /\ Head(q) = q[1] /\ Head(q) \in T
         /\ 1 \in DOMAIN q
         /\ \A i \in DOMAIN Tail(q) :
              /\ i + 1 \in DOMAIN q /\ Tail(q)[i] = q[i + 1]
              /\ 1 < i + 1
         /\ \A i, j \in DOMAIN Tail(q) : i < j => i + 1 < j + 1
         /\ \A i \in DOMAIN q : i # 1 => i - 1 \in DOMAIN Tail(q) /\ Tail(q)[i - 1] = q[i]
OBVIOUS

(* What a push does to the elements of a queue. *)
LEMMA PushElements ==
  ASSUME NEW q \in Seq(Events), NEW e \in Events
  PROVE  \/ Push(q, e) = Append(q, e) /\ Len(q) < Capacity
         \/ Push(q, e) = Append(Tail(q), e) /\ q # <<>> /\ ~(Len(q) < Capacity)
BY CapacityAssumption DEF Push

LEMMA EventFields ==
  ASSUME NEW q \in Seq(Events)
  PROVE  \A i \in DOMAIN q : q[i] \in Events /\ q[i].seq \in Nat
<1>1. \A i \in DOMAIN q : q[i] \in Events
  OBVIOUS
<1>2. \A e \in Events : e.seq \in Nat
  BY DEF Events
<1>. QED
  BY <1>1, <1>2

LEMMA RisingTail ==
  ASSUME NEW q \in Seq(Events), q # <<>>, NEW n \in Nat, Rising(q, n)
  PROVE  Rising(Tail(q), n)
BY Shortened DEF Rising

LEMMA RisingAppend ==
  ASSUME NEW q \in Seq(Events), NEW e \in Events, NEW n \in Nat, NEW m \in Nat,
         n <= m, e.kind = "packet" => n < e.seq /\ e.seq <= m, Rising(q, n)
  PROVE  Rising(Append(q, e), m)
<1>. DEFINE p == Append(q, e)
            L == Len(q) + 1
<1>1. \A i \in DOMAIN p :
        \/ i \in DOMAIN q /\ p[i] = q[i] /\ i < L
        \/ i = L /\ p[i] = e
  BY Extended
<1>2. \A i \in DOMAIN q : q[i] \in Events /\ q[i].seq \in Nat
  BY EventFields
<1>3. e.seq \in Nat /\ L \in Nat /\ \A i \in DOMAIN q : i \in Nat
  BY DEF Events
<1>. HIDE DEF p, L
<1>4. \A i \in DOMAIN p : p[i].kind = "packet" => p[i].seq <= m
  BY <1>1, <1>2, <1>3 DEF Rising
<1>5. ASSUME NEW i \in DOMAIN p, NEW j \in DOMAIN p, i < j,
             p[i].kind = "packet", p[j].kind = "packet"
      PROVE  p[i].seq < p[j].seq
  <2>1. i \in DOMAIN q /\ p[i] = q[i]
    BY <1>1, <1>3, <1>5
  <2>2. CASE j \in DOMAIN q /\ p[j] = q[j]
    BY <1>5, <2>1, <2>2 DEF Rising
  <2>3. CASE p[j] = e
    BY <1>2, <1>3, <1>5, <2>1, <2>3 DEF Rising
  <2>. QED
    BY <1>1, <2>2, <2>3
<1>. QED
  BY <1>4, <1>5 DEF Rising, p

LEMMA RisingPush ==
  ASSUME NEW q \in Seq(Events), NEW e \in Events, NEW n \in Nat, NEW m \in Nat,
         n <= m, e.kind = "packet" => n < e.seq /\ e.seq <= m, Rising(q, n)
  PROVE  Rising(Push(q, e), m)
<1>1. q # <<>> => Tail(q) \in Seq(Events) /\ Rising(Tail(q), n)
  BY RisingTail, Shortened
<1>2. CASE Push(q, e) = Append(q, e)
  BY <1>2, RisingAppend
<1>3. CASE Push(q, e) = Append(Tail(q), e) /\ q # <<>>
  BY <1>1, <1>3, RisingAppend
<1>. QED
  BY <1>2, <1>3, PushElements

LEMMA AheadTail ==
  ASSUME NEW q \in Seq(Events), q # <<>>, NEW s, NEW lanes, Ahead(s, lanes, q)
  PROVE  Ahead(s, lanes, Tail(q))
BY Shortened DEF Ahead

LEMMA AheadAppend ==
  ASSUME NEW q \in Seq(Events), NEW e \in Events, NEW n \in Nat, NEW s \in Seq(Delivered),
         e.kind = "packet" => n < e.seq, NEW lanes, Ahead(s, lanes, q),
         \A i \in DOMAIN s : s[i].seq <= n
  PROVE  Ahead(s, lanes, Append(q, e))
<1>. DEFINE p == Append(q, e)
<1>1. \A i \in DOMAIN p : (i \in DOMAIN q /\ p[i] = q[i]) \/ p[i] = e
  BY Extended
<1>2. \A i \in DOMAIN s : s[i].seq \in Nat
  <2>1. \A i \in DOMAIN s : s[i] \in Delivered
    OBVIOUS
  <2>2. \A d \in Delivered : d.seq \in Nat
    BY DEF Delivered
  <2>. QED
    BY <2>1, <2>2
<1>3. e.seq \in Nat
  BY DEF Events
<1>. HIDE DEF p
<1>4. ASSUME NEW i \in DOMAIN s, NEW j \in DOMAIN p,
             s[i].lane \in lanes, p[j].kind = "packet"
      PROVE  s[i].seq < p[j].seq
  <2>1. CASE j \in DOMAIN q /\ p[j] = q[j]
    BY <1>4, <2>1 DEF Ahead
  <2>2. CASE p[j] = e
    BY <1>2, <1>3, <1>4, <2>2
  <2>. QED
    BY <1>1, <2>1, <2>2
<1>. QED
  BY <1>4 DEF Ahead, p

LEMMA AheadPush ==
  ASSUME NEW q \in Seq(Events), NEW e \in Events, NEW n \in Nat, NEW s \in Seq(Delivered),
         e.kind = "packet" => n < e.seq, NEW lanes, Ahead(s, lanes, q),
         \A i \in DOMAIN s : s[i].seq <= n
  PROVE  Ahead(s, lanes, Push(q, e))
<1>1. q # <<>> => Tail(q) \in Seq(Events) /\ Ahead(s, lanes, Tail(q))
  BY AheadTail, Shortened
<1>. QED
  BY <1>1, AheadAppend, PushElements

LEMMA OvertakesTail ==
  ASSUME NEW q \in Seq(Events), q # <<>>, NEW s, OneOvertakes(s, q)
  PROVE  OneOvertakes(s, Tail(q))
BY Shortened DEF OneOvertakes

LEMMA OvertakesAppend ==
  ASSUME NEW q \in Seq(Events), NEW e \in Events, NEW n \in Nat, NEW s \in Seq(Delivered),
         e.kind = "packet" => n < e.seq, OneOvertakes(s, q),
         \A i \in DOMAIN s : s[i].seq <= n
  PROVE  OneOvertakes(s, Append(q, e))
<1>. DEFINE p == Append(q, e)
<1>1. \A i \in DOMAIN p : (i \in DOMAIN q /\ p[i] = q[i]) \/ p[i] = e
  BY Extended
<1>2. \A i \in DOMAIN s : ~Overtakes(s[i], e)
  <2>1. \A i \in DOMAIN s : s[i] \in Delivered
    OBVIOUS
  <2>2. \A d \in Delivered : d.seq \in Nat
    BY DEF Delivered
  <2>3. e.seq \in Nat
    BY DEF Events
  <2>. QED
    BY <2>1, <2>2, <2>3 DEF Overtakes
<1>. HIDE DEF p
<1>3. OneOvertakes(s, p)
  BY <1>1, <1>2 DEF OneOvertakes
<1>. QED
  BY <1>3 DEF p

LEMMA OvertakesPush ==
  ASSUME NEW q \in Seq(Events), NEW e \in Events, NEW n \in Nat, NEW s \in Seq(Delivered),
         e.kind = "packet" => n < e.seq, OneOvertakes(s, q),
         \A i \in DOMAIN s : s[i].seq <= n
  PROVE  OneOvertakes(s, Push(q, e))
<1>1. q # <<>> => Tail(q) \in Seq(Events) /\ OneOvertakes(s, Tail(q))
  BY OvertakesTail, Shortened
<1>. QED
  BY <1>1, OvertakesAppend, PushElements

(* An event is pushed to a queue: a notice, a list, or the next packet. *)
LEMMA LanesPush ==
  ASSUME NEW c, NEW s \in Seq(Delivered), NEW h \in Seq(Events), NEW l \in Seq(Events),
         NEW n \in Nat, NEW m \in Nat, n <= m, NEW P, LanesOK(c, s, h, l, n, P),
         NEW e \in Events, e.kind = "packet" => n < e.seq /\ e.seq <= m
  PROVE  /\ LanesOK(c, s, Push(h, e), l, m, P)
         /\ LanesOK(c, s, h, Push(l, e), m, P)
         /\ LanesOK(c, s, h, l, m, P)
<1>1. \A i \in DOMAIN s : s[i].seq \in Nat
  <2>1. \A i \in DOMAIN s : s[i] \in Delivered
    OBVIOUS
  <2>. QED
    BY <2>1 DEF Delivered
<1>2. \A i \in DOMAIN s : s[i].source # c /\ s[i].seq <= m
  BY <1>1 DEF LanesOK
<1>3. Rising(h, m) /\ Rising(l, m)
  <2>1. ASSUME NEW q \in Seq(Events), Rising(q, n) PROVE Rising(q, m)
    <3>1. \A i \in DOMAIN q : q[i].seq \in Nat
      BY EventFields
    <3>. QED
      BY <2>1, <3>1 DEF Rising
  <2>. QED
    BY <2>1 DEF LanesOK
<1>4. Rising(Push(h, e), m) /\ Rising(Push(l, e), m)
  BY RisingPush DEF LanesOK
<1>5. Ahead(s, {"high"}, Push(h, e)) /\ Ahead(s, {"low"}, Push(l, e))
  BY AheadPush DEF LanesOK
<1>6. OneOvertakes(s, Push(h, e))
  BY OvertakesPush DEF LanesOK
<1>7. c \in P => Ahead(s, {"low"}, Push(h, e))
  BY AheadPush DEF LanesOK
<1>. QED
  BY <1>2, <1>3, <1>4, <1>5, <1>6, <1>7 DEF LanesOK

LEMMA LanesDrop ==
  ASSUME NEW c, NEW s, NEW h, NEW l, NEW n, NEW P, LanesOK(c, s, h, l, n, P)
  PROVE  LanesOK(c, s, <<>>, <<>>, n, P)
BY DEF LanesOK, Rising, Ahead, OneOvertakes

(* A look at an empty high queue, and the end of a look at the low one. *)
LEMMA LanesLook ==
  ASSUME NEW c, NEW s, NEW l, NEW n, NEW P, NEW Q, NEW h, LanesOK(c, s, h, l, n, P)
  PROVE  /\ h = <<>> => LanesOK(c, s, h, l, n, Q)
         /\ c \notin Q => LanesOK(c, s, h, l, n, Q)
BY DEF LanesOK, Ahead

(* What a client has of its packets after one more event was written. *)
Read(c, s, lane, e) ==
  IF e.kind = "packet" /\ e.source # c
  THEN Append(s, [lane |-> lane, source |-> e.source, seq |-> e.seq])
  ELSE s

(* The event at the head of a queue is written to the client: the others   *)
(* of its lane stay in order, and those of the other lane are as before.   *)
LEMMA LanesRead ==
  ASSUME NEW c, NEW s \in Seq(Delivered), NEW lane \in {"high", "low"}, NEW n \in Nat,
         NEW q \in Seq(Events), q # <<>>, NEW o, Rising(q, n),
         \A i \in DOMAIN s : s[i].source # c /\ s[i].seq <= n,
         \A i, j \in DOMAIN s : i < j /\ s[i].lane = s[j].lane => s[i].seq < s[j].seq,
         Ahead(s, {lane}, q)
  PROVE  LET s2 == Read(c, s, lane, Head(q)) IN
         /\ Rising(Tail(q), n)
         /\ \A i \in DOMAIN s2 : s2[i].source # c /\ s2[i].seq <= n
         /\ \A i, j \in DOMAIN s2 :
              i < j /\ s2[i].lane = s2[j].lane => s2[i].seq < s2[j].seq
         /\ Ahead(s2, {lane}, Tail(q))
         /\ \A L : lane \notin L /\ Ahead(s, L, o) => Ahead(s2, L, o)
         /\ lane = "high" /\ OneOvertakes(s, o) => OneOvertakes(s2, o)
         /\ lane = "low" /\ Ahead(s, {"low"}, o) /\ o \in Seq(Events) => OneOvertakes(s2, o)
<1>. DEFINE e == Head(q)
            g == [lane |-> lane, source |-> e.source, seq |-> e.seq]
            L == Len(s) + 1
            p == Append(s, g)
<1>1. /\ e = q[1] /\ 1 \in DOMAIN q /\ e \in Events /\ Tail(q) \in Seq(Events)
      /\ \A i \in DOMAIN Tail(q) : i + 1 \in DOMAIN q /\ Tail(q)[i] = q[i + 1] /\ 1 < i + 1
  BY Shortened
<1>2. Rising(Tail(q), n)
  BY RisingTail
<1>3. Ahead(s, {lane}, Tail(q))
  BY AheadTail
<1>6. \A i \in DOMAIN s : s[i].seq \in Nat /\ s[i].lane \in {"high", "low"}
  <2>1. \A i \in DOMAIN s : s[i] \in Delivered
    OBVIOUS
  <2>. QED
    BY <2>1 DEF Delivered
<1>7. ASSUME Ahead(s, {"low"}, o), o \in Seq(Events),
             NEW i \in DOMAIN s, NEW j \in DOMAIN o
      PROVE  ~Overtakes(s[i], o[j])
  <2>1. o[j].seq \in Nat
    BY <1>7, EventFields
  <2>. QED
    BY <1>6, <1>7, <2>1 DEF Ahead, Overtakes
<1>4. CASE ~(e.kind = "packet" /\ e.source # c)
  <2>1. Read(c, s, lane, Head(q)) = s
    BY <1>4 DEF Read
  <2>. QED
    BY <1>2, <1>3, <1>7, <2>1 DEF OneOvertakes
<1>5. CASE e.kind = "packet" /\ e.source # c
  <2>1. Read(c, s, lane, Head(q)) = p
    BY <1>5 DEF Read
  <2>2. \A i \in DOMAIN p :
          \/ i \in DOMAIN s /\ p[i] = s[i] /\ i < L
          \/ i = L /\ p[i] = g
    BY Extended
  <2>4. g.seq = e.seq /\ g.lane = lane /\ g.source = e.source /\ e.seq \in Nat /\ e.seq <= n
    BY <1>1, <1>5 DEF Rising, Events
  <2>5. \A i \in DOMAIN s : s[i].lane = lane => s[i].seq < e.seq
    BY <1>1, <1>5 DEF Ahead
  <2>6. \A i \in DOMAIN Tail(q) : Tail(q)[i].kind = "packet" => e.seq < Tail(q)[i].seq
    BY <1>1, <1>5 DEF Rising
  <2>7. L \in Nat /\ \A i \in DOMAIN s : i \in Nat
    OBVIOUS
  <2>. HIDE DEF p, L, g, e
  <2>8. \A i \in DOMAIN p : p[i].source # c /\ p[i].seq <= n
    BY <1>5, <2>2, <2>4
  <2>9. ASSUME NEW i \in DOMAIN p, NEW j \in DOMAIN p, i < j, p[i].lane = p[j].lane
        PROVE  p[i].seq < p[j].seq
    <3>1. i \in DOMAIN s /\ p[i] = s[i]
      BY <2>2, <2>7, <2>9
    <3>2. CASE j \in DOMAIN s /\ p[j] = s[j]
      BY <2>9, <3>1, <3>2
    <3>3. CASE p[j] = g
      BY <2>4, <2>5, <2>9, <3>1, <3>3
    <3>. QED
      BY <2>2, <3>2, <3>3
  <2>10. Ahead(p, {lane}, Tail(q))
    BY <1>3, <2>2, <2>4, <2>6 DEF Ahead
  <2>11. ASSUME NEW M, lane \notin M, Ahead(s, M, o) PROVE Ahead(p, M, o)
    BY <2>2, <2>4, <2>11 DEF Ahead
  <2>12. ASSUME lane = "high", OneOvertakes(s, o) PROVE OneOvertakes(p, o)
    <3>1. \A j \in DOMAIN o : ~Overtakes(g, o[j])
      BY <2>4, <2>12 DEF Overtakes
    <3>. QED
      BY <2>2, <2>12, <3>1 DEF OneOvertakes
  <2>13. ASSUME lane = "low", Ahead(s, {"low"}, o), o \in Seq(Events) PROVE OneOvertakes(p, o)
    BY <1>7, <2>2, <2>13 DEF OneOvertakes
  <2>. QED
    BY <1>2, <2>1, <2>8, <2>9, <2>10, <2>11, <2>12, <2>13
<1>. QED
  BY <1>4, <1>5

LEMMA LanesReadHigh ==
  ASSUME NEW c, NEW s \in Seq(Delivered), NEW h \in Seq(Events), NEW l \in Seq(Events),
         NEW n \in Nat, NEW P, c \notin P, LanesOK(c, s, h, l, n, P), h # <<>>
  PROVE  LanesOK(c, Read(c, s, "high", Head(h)), Tail(h), l, n, P)
<1>. DEFINE s2 == Read(c, s, "high", Head(h))
<1>1. /\ Rising(Tail(h), n)
      /\ \A i \in DOMAIN s2 : s2[i].source # c /\ s2[i].seq <= n
      /\ \A i, j \in DOMAIN s2 : i < j /\ s2[i].lane = s2[j].lane => s2[i].seq < s2[j].seq
      /\ Ahead(s2, {"high"}, Tail(h))
  BY LanesRead DEF LanesOK
<1>2. \A L : "high" \notin L /\ Ahead(s, L, l) => Ahead(s2, L, l)
  BY LanesRead DEF LanesOK
<1>3. OneOvertakes(s, Tail(h)) => OneOvertakes(s2, Tail(h))
  BY LanesRead DEF LanesOK
<1>4. OneOvertakes(s, Tail(h))
  BY OvertakesTail DEF LanesOK
<1>5. "high" \notin {"low"}
  OBVIOUS
<1>. HIDE DEF s2
<1>. QED
  BY <1>1, <1>2, <1>3, <1>4, <1>5 DEF LanesOK, s2

LEMMA LanesReadLow ==
  ASSUME NEW c, NEW s \in Seq(Delivered), NEW h \in Seq(Events), NEW l \in Seq(Events),
         NEW n \in Nat, NEW P, c \in P, LanesOK(c, s, h, l, n, P), l # <<>>
  PROVE  LanesOK(c, Read(c, s, "low", Head(l)), h, Tail(l), n, P \ {c})
<1>. DEFINE s2 == Read(c, s, "low", Head(l))
<1>1. /\ Rising(Tail(l), n)
      /\ \A i \in DOMAIN s2 : s2[i].source # c /\ s2[i].seq <= n
      /\ \A i, j \in DOMAIN s2 : i < j /\ s2[i].lane = s2[j].lane => s2[i].seq < s2[j].seq
      /\ Ahead(s2, {"low"}, Tail(l))
  BY LanesRead DEF LanesOK
<1>2. \A L : "low" \notin L /\ Ahead(s, L, h) => Ahead(s2, L, h)
  BY LanesRead DEF LanesOK
<1>3. OneOvertakes(s2, h)
  BY LanesRead DEF LanesOK
<1>4. "low" \notin {"high"}
  OBVIOUS
<1>. HIDE DEF s2
<1>. QED
  BY <1>1, <1>2, <1>3, <1>4 DEF LanesOK, s2

-----------------------------------------------------------------------------
(* The clients' packets stay in order through every step. *)

AllLanesOK(hs, ls, n) == \A d \in Conns : LanesOK(d, got[d], hs[d], ls[d], n, polled)

LaneInv == AllLanesOK(high, low, packets)

LEMMA SentLanes ==
  ASSUME got \in [Conns -> Seq(Delivered)],
         NEW hs \in [Conns -> Seq(Events)], NEW ls \in [Conns -> Seq(Events)],
         NEW n \in Nat, NEW m \in Nat, n <= m, AllLanesOK(hs, ls, n),
         NEW subs, NEW ch,
         NEW e \in Events, e.kind = "packet" => n < e.seq /\ e.seq <= m
  PROVE  /\ AllLanesOK(Sent(hs, subs, ch, e), ls, m)
         /\ AllLanesOK(hs, Sent(ls, subs, ch, e), m)
<1>. SUFFICES ASSUME NEW d \in Conns
              PROVE  /\ LanesOK(d, got[d], Sent(hs, subs, ch, e)[d], ls[d], m, polled)
                     /\ LanesOK(d, got[d], hs[d], Sent(ls, subs, ch, e)[d], m, polled)
  BY DEF AllLanesOK
<1>1. /\ LanesOK(d, got[d], Push(hs[d], e), ls[d], m, polled)
      /\ LanesOK(d, got[d], hs[d], Push(ls[d], e), m, polled)
      /\ LanesOK(d, got[d], hs[d], ls[d], m, polled)
  <2>1. /\ got[d] \in Seq(Delivered) /\ hs[d] \in Seq(Events) /\ ls[d] \in Seq(Events)
        /\ LanesOK(d, got[d], hs[d], ls[d], n, polled)
    BY DEF AllLanesOK
  <2>. QED
    BY <2>1, LanesPush
<1>2. /\ Sent(hs, subs, ch, e)[d] \in {Push(hs[d], e), hs[d]}
      /\ Sent(ls, subs, ch, e)[d] \in {Push(ls[d], e), ls[d]}
  BY DEF Sent
<1>. QED
  BY <1>1, <1>2

LEMMA WrittenReads ==
  ASSUME got \in [Conns -> Seq(Delivered)], NEW c \in Conns, NEW lane, NEW e,
         Written(c, lane, e)
  PROVE  /\ got'[c] = Read(c, got[c], lane, e)
         /\ \A d \in Conns \ {c} : got'[d] = got[d]
BY DEF Written, Read

LEMMA LaneStep ==
  ASSUME TypeOK, LaneInv, [Next]_vars
  PROVE  LaneInv'
<1>. /\ high \in [Conns -> Seq(Events)] /\ low \in [Conns -> Seq(Events)]
     /\ got \in [Conns -> Seq(Delivered)] /\ packets \in Nat
  BY DEF TypeOK, BroadcastTypeOK, ClientTypeOK
<1>0. AllLanesOK(high, low, packets)
  BY DEF LaneInv
<1>n. Notice.kind # "packet" /\ \A S : ListEvent(S).kind # "packet"
  BY DEF Notice, ListEvent
<1>q. ASSUME NEW hs \in [Conns -> Seq(Events)], NEW ls \in [Conns -> Seq(Events)],
             AllLanesOK(hs, ls, packets), NEW subs, NEW ch, NEW e \in Events,
             e.kind # "packet"
      PROVE  AllLanesOK(Sent(hs, subs, ch, e), ls, packets)
  <2>1. packets <= packets
    OBVIOUS
  <2>. QED
    BY <1>q, <2>1, SentLanes
<1>1. CASE UNCHANGED <<high, low, got, packets, polled>>
  BY <1>1 DEF LaneInv, AllLanesOK
<1>2. ASSUME NEW hs, NEW ls, NEW n, high' = hs, low' = ls, packets' = n,
             UNCHANGED <<got, polled>>, AllLanesOK(hs, ls, n)
      PROVE  LaneInv'
  BY <1>2 DEF LaneInv, AllLanesOK
<1>3. ASSUME NEW c \in Conns, SessionOk(c) PROVE LaneInv'
  <2>1. high' = Sent(high, subscribed, chan[c], Notice) /\ UNCHANGED <<low, got, packets, polled>>
    BY <1>3 DEF SessionOk, clientVars
  <2>2. AllLanesOK(Sent(high, subscribed, chan[c], Notice), low, packets)
    BY <1>0, <1>n, <1>q, EventTypes
  <2>. QED
    BY <1>2, <2>1, <2>2
<1>4. ASSUME NEW c \in Conns, AnnounceMembers(c) PROVE LaneInv'
  <2>. PICK r \in room[c] :
         \/ high' = ListSent(high, subscribed, r, rooms[r].members) /\ Exists(r)
         \/ UNCHANGED high
    BY <1>4 DEF AnnounceMembers
  <2>0. UNCHANGED <<low, got, packets, polled>>
    BY <1>4 DEF AnnounceMembers, clientVars
  <2>1. CASE UNCHANGED high
    BY <1>1, <2>0, <2>1
  <2>2. CASE high' = ListSent(high, subscribed, r, rooms[r].members) /\ Exists(r)
    <3>1. rooms[r].members \in SUBSET Conns
      BY <2>2 DEF Exists, TypeOK, RoomsTypeOK, ConnTypeOK, RoomInfo
    <3>2. AllLanesOK(ListSent(high, subscribed, r, rooms[r].members), low, packets)
      BY <1>0, <1>n, <1>q, <3>1, EventTypes DEF ListSent
    <3>. QED
      BY <1>2, <2>0, <2>2, <3>2
  <2>. QED
    BY <2>1, <2>2
<1>5. ASSUME NEW c \in Conns, NEW lane \in {"high", "low"}, Packet(c, lane) PROVE LaneInv'
  <2>. DEFINE e == PacketEvent(c, packets + 1)
  <2>0. packets + 1 \in Nat
    OBVIOUS
  <2>1. e \in Events /\ e.seq = packets + 1
    BY <2>0, EventTypes DEF PacketEvent
  <2>2. packets' = packets + 1 /\ UNCHANGED <<got, polled>>
    BY <1>5 DEF Packet
  <2>3. \/ high' = Sent(high, subscribed, chan[c], e) /\ low' = low
        \/ low' = Sent(low, subscribed, chan[c], e) /\ high' = high
    BY <1>5 DEF Packet
  <2>. DEFINE m == packets + 1
  <2>4. m \in Nat /\ packets <= m /\ packets < m /\ m <= m /\ e.seq = m
    BY <2>1
  <2>. HIDE DEF e, m
  <2>5. /\ AllLanesOK(Sent(high, subscribed, chan[c], e), low, m)
        /\ AllLanesOK(high, Sent(low, subscribed, chan[c], e), m)
    BY <1>0, <2>1, <2>4, SentLanes
  <2>. QED
    BY <1>2, <2>2, <2>3, <2>5 DEF m
<1>6. ASSUME NEW c \in Conns, DeliverHigh(c) PROVE LaneInv'
  <2>1. /\ high[c] # <<>> /\ Written(c, "high", Head(high[c]))
        /\ high' = [high EXCEPT ![c] = Tail(high[c])] /\ UNCHANGED <<low, packets, polled>>
        /\ c \notin polled
    BY <1>6 DEF DeliverHigh
  <2>2. got'[c] = Read(c, got[c], "high", Head(high[c]))
        /\ \A d \in Conns \ {c} : got'[d] = got[d]
    BY <2>1, WrittenReads
  <2>3. LanesOK(c, Read(c, got[c], "high", Head(high[c])), Tail(high[c]), low[c], packets, polled)
    BY <1>0, <2>1, LanesReadHigh DEF AllLanesOK
  <2>. QED
    BY <1>0, <2>1, <2>2, <2>3 DEF LaneInv, AllLanesOK
<1>7. ASSUME NEW c \in Conns, DeliverLow(c) PROVE LaneInv'
  <2>1. /\ c \in polled /\ low[c] # <<>> /\ Written(c, "low", Head(low[c]))
        /\ low' = [low EXCEPT ![c] = Tail(low[c])] /\ UNCHANGED <<high, packets>>
        /\ polled' = polled \ {c}
    BY <1>7 DEF DeliverLow
  <2>2. got'[c] = Read(c, got[c], "low", Head(low[c]))
        /\ \A d \in Conns \ {c} : got'[d] = got[d]
    BY <2>1, WrittenReads
  <2>3. LanesOK(c, Read(c, got[c], "low", Head(low[c])), high[c], Tail(low[c]), packets,
                polled \ {c})
    BY <1>0, <2>1, LanesReadLow DEF AllLanesOK
  <2>4. \A d \in Conns \ {c} :
          LanesOK(d, got[d], high[d], low[d], packets, polled \ {c})
    BY <1>0 DEF AllLanesOK, LanesOK
  <2>. QED
    BY <2>1, <2>2, <2>3, <2>4 DEF LaneInv, AllLanesOK
<1>8. ASSUME NEW c \in Conns, Leave(c) PROVE LaneInv'
  <2>. DEFINE subs == [subscribed EXCEPT ![c] = NoChan]
              freed == Unsubscribed(high, c)
              noted == Sent(freed, subs, chan[c], Notice)
  <2>. PICK r \in room[c] :
         /\ low' = Unsubscribed(low, c)
         /\ IF Exists(r) THEN high' = ListSent(noted, subs, r, rooms[r].members \ {c})
                         ELSE high' = noted
    BY <1>8 DEF Leave
  <2>0. UNCHANGED <<got, packets, polled>>
    BY <1>8 DEF Leave, clientVars
  <2>1. freed \in [Conns -> Seq(Events)] /\ low' \in [Conns -> Seq(Events)]
    BY DEF Unsubscribed
  <2>2. AllLanesOK(freed, low', packets)
    BY <1>0, LanesDrop DEF AllLanesOK, Unsubscribed
  <2>. HIDE DEF freed, subs
  <2>3. noted \in [Conns -> Seq(Events)] /\ AllLanesOK(noted, low', packets)
    BY <1>n, <1>q, <2>1, <2>2, SentType, EventTypes
  <2>. HIDE DEF noted
  <2>4. Exists(r) => AllLanesOK(ListSent(noted, subs, r, rooms[r].members \ {c}), low', packets)
    <3>1. Exists(r) => rooms[r].members \ {c} \in SUBSET Conns
      BY DEF Exists, TypeOK, RoomsTypeOK, ConnTypeOK, RoomInfo
    <3>. QED
      BY <1>n, <1>q, <2>1, <2>3, <3>1, EventTypes DEF ListSent
  <2>. QED
    BY <1>2, <2>0, <2>3, <2>4
<1>12. ASSUME NEW c \in Conns, HighEmpty(c) \/ LowEmpty(c) PROVE LaneInv'
  <2>1. /\ UNCHANGED <<high, low, got, packets>>
        /\ \A d \in Conns \ {c} : d \in polled' <=> d \in polled
        /\ high[c] = <<>> \/ c \notin polled'
    BY <1>12 DEF HighEmpty, LowEmpty, clientVars
  <2>2. LanesOK(c, got[c], high[c], low[c], packets, polled')
    BY <1>0, <2>1, LanesLook DEF AllLanesOK
  <2>3. \A d \in Conns \ {c} : LanesOK(d, got[d], high[d], low[d], packets, polled')
    BY <1>0, <2>1 DEF AllLanesOK, LanesOK
  <2>. QED
    BY <2>1, <2>2, <2>3 DEF LaneInv, AllLanesOK
<1>9. ASSUME NEW c \in Conns, Session(c) PROVE LaneInv'
  <2>1. CASE SessionOkLost(c) \/ \E r \in RoomIds, t \in Tokens, capability \in 1 .. (nextChan - 1) :
                                  InviteRequest(c, r, capability, t)
    <3>1. UNCHANGED <<high, low, got, packets, polled>>
      BY <2>1 DEF SessionOkLost, InviteRequest, queueVars, clientVars
    <3>. QED
      BY <1>1, <3>1
  <2>. QED
    BY <1>3, <1>4, <1>5, <1>6, <1>7, <1>8, <1>9, <1>12, <2>1 DEF Session, Receive
<1>10. ASSUME NEW c \in Conns, Handshake(c) PROVE LaneInv'
  <2>1. UNCHANGED <<queueVars, clientVars>>
    BY <1>10 DEF Handshake, AuthHello, AuthProof, LoginRefused, CreateCommand, JoinCommand,
       InviteHello, InviteProof, InviteAborted, InviteIoError, InviteReady, EnterInvited
  <2>. QED
    BY <1>1, <2>1 DEF queueVars, clientVars
<1>11. CASE ClockTick \/ UNCHANGED vars
  BY <1>1, <1>11 DEF ClockTick, vars, queueVars, clientVars
<1>. QED
  BY <1>9, <1>10, <1>11 DEF Next

LEMMA LaneInvariance == Spec => []LaneInv
<1>1. Init => LaneInv
  BY DEF Init, BroadcastInit, LaneInv, AllLanesOK, LanesOK, Rising, Ahead,
     OneOvertakes
<1>2. LaneInv /\ TypeOK /\ [Next]_vars => LaneInv'
  BY LaneStep
<1>. QED
  BY <1>1, <1>2, TypeCorrect, PTL DEF Spec

(* Whatever was lost, a client sees the packets of a channel in the order  *)
(* they were sent, each once, and none of its own.                         *)
THEOREM PacketsInOrder == Spec => []DeliveredInOrder
<1>1. LaneInv => DeliveredInOrder
  BY DEF LaneInv, AllLanesOK, LanesOK, DeliveredInOrder
<1>. QED
  BY <1>1, LaneInvariance, PTL

(* However many texts and attachments are sent, one attachment at most     *)
(* overtakes the texts that wait for a client: it is taken between the two *)
(* looks of the biased select! of the room loop.                           *)
THEOREM TextsFirst == Spec => []AttachmentsYield
<1>1. LaneInv => AttachmentsYield
  BY DEF LaneInv, AllLanesOK, LanesOK, OneOvertakes, AttachmentsYield
<1>. QED
  BY <1>1, LaneInvariance, PTL

-----------------------------------------------------------------------------
(* What a client shows and what it will show.                              *)

(* The list a client shows once it has received the whole queue. *)
WillShow(q, v, S) ==
  \/ v = S /\ \A i \in DOMAIN q : q[i].kind # "list"
  \/ \E i \in DOMAIN q :
       /\ q[i].kind = "list" /\ q[i].members = S
       /\ \A j \in DOMAIN q : i < j => q[j].kind # "list"

LEMMA WillShowAppend ==
  ASSUME NEW q \in Seq(Events), NEW v, NEW S, NEW e
  PROVE  /\ WillShow(q, v, S) /\ e.kind # "list" => WillShow(Append(q, e), v, S)
         /\ e.kind = "list" => WillShow(Append(q, e), v, e.members)
<1>. DEFINE p == Append(q, e)
            L == Len(q) + 1
<1>1. /\ \A i \in DOMAIN p :
           \/ i \in DOMAIN q /\ p[i] = q[i] /\ i < L
           \/ i = L /\ p[i] = e
      /\ L \in DOMAIN p /\ \A i \in DOMAIN q : i \in DOMAIN p /\ p[i] = q[i]
  BY Extended
<1>2. L \in Nat /\ p[L] = e /\ \A i \in DOMAIN p : i \in Nat /\ i <= L
  OBVIOUS
<1>. HIDE DEF p, L
<1>3. e.kind = "list" => WillShow(p, v, e.members)
  <2>. SUFFICES ASSUME e.kind = "list" PROVE WillShow(p, v, e.members)
    OBVIOUS
  <2>1. \A j \in DOMAIN p : ~(L < j)
    BY <1>2
  <2>. QED
    BY <1>1, <1>2, <2>1 DEF WillShow
<1>4. WillShow(q, v, S) /\ e.kind # "list" => WillShow(p, v, S)
  <2>. SUFFICES ASSUME WillShow(q, v, S), e.kind # "list" PROVE WillShow(p, v, S)
    OBVIOUS
  <2>1. CASE v = S /\ \A i \in DOMAIN q : q[i].kind # "list"
    BY <1>1, <2>1 DEF WillShow
  <2>2. ASSUME NEW i \in DOMAIN q, q[i].kind = "list", q[i].members = S,
               \A j \in DOMAIN q : i < j => q[j].kind # "list"
        PROVE  WillShow(p, v, S)
    <3>1. i \in DOMAIN p /\ p[i] = q[i]
      BY <1>1
    <3>2. \A j \in DOMAIN p : i < j => p[j].kind # "list"
      BY <1>1, <2>2
    <3>. QED
      BY <2>2, <3>1, <3>2 DEF WillShow
  <2>. QED
    BY <2>1, <2>2 DEF WillShow
<1>. QED
  BY <1>3, <1>4 DEF p

LEMMA WillShowTail ==
  ASSUME NEW q \in Seq(Events), q # <<>>, NEW v, NEW S, WillShow(q, v, S)
  PROVE  WillShow(Tail(q), IF Head(q).kind = "list" THEN Head(q).members ELSE v, S)
<1>. DEFINE p == Tail(q)
            w == IF Head(q).kind = "list" THEN Head(q).members ELSE v
<1>1. /\ Head(q) = q[1] /\ 1 \in DOMAIN q
      /\ \A i \in DOMAIN p : i + 1 \in DOMAIN q /\ p[i] = q[i + 1] /\ 1 < i + 1
      /\ \A i, j \in DOMAIN p : i < j => i + 1 < j + 1
      /\ \A i \in DOMAIN q : i # 1 => i - 1 \in DOMAIN p /\ p[i - 1] = q[i]
  BY Shortened
<1>2. \A i \in DOMAIN q : i \in Nat /\ (i - 1) + 1 = i
  OBVIOUS
<1>3. ASSUME v = S, \A i \in DOMAIN q : q[i].kind # "list" PROVE WillShow(p, w, S)
  <2>1. w = S /\ \A i \in DOMAIN p : p[i].kind # "list"
    BY <1>1, <1>3
  <2>. QED
    BY <2>1 DEF WillShow
<1>4. ASSUME NEW i \in DOMAIN q, q[i].kind = "list", q[i].members = S,
             \A j \in DOMAIN q : i < j => q[j].kind # "list"
      PROVE  WillShow(p, w, S)
  <2>1. CASE i = 1
    <3>1. w = S /\ \A j \in DOMAIN p : p[j].kind # "list"
      BY <1>1, <1>4, <2>1
    <3>. QED
      BY <3>1 DEF WillShow
  <2>2. CASE i # 1
    <3>1. i - 1 \in DOMAIN p /\ p[i - 1] = q[i]
      BY <1>1, <2>2
    <3>2. \A j \in DOMAIN p : i - 1 < j => p[j].kind # "list"
      <4>. SUFFICES ASSUME NEW j \in DOMAIN p, i - 1 < j PROVE p[j].kind # "list"
        OBVIOUS
      <4>1. i < j + 1
        BY <1>1, <1>2, <3>1
      <4>. QED
        BY <1>1, <1>4, <4>1
    <3>. QED
      BY <1>4, <3>1, <3>2 DEF WillShow
  <2>. QED
    BY <2>1, <2>2
<1>. HIDE DEF w, p
<1>5. WillShow(p, w, S)
  <2>1. \/ v = S /\ \A i \in DOMAIN q : q[i].kind # "list"
        \/ \E i \in DOMAIN q : /\ q[i].kind = "list" /\ q[i].members = S
                              /\ \A j \in DOMAIN q : i < j => q[j].kind # "list"
    BY DEF WillShow
  <2>2. CASE v = S /\ \A i \in DOMAIN q : q[i].kind # "list"
    BY <1>3, <2>2
  <2>3. CASE \E i \in DOMAIN q : /\ q[i].kind = "list" /\ q[i].members = S
                                 /\ \A j \in DOMAIN q : i < j => q[j].kind # "list"
    BY <1>4, <2>3
  <2>. QED
    BY <2>1, <2>2, <2>3
<1>. QED
  BY <1>5 DEF w, p

(* One event sent on a channel, for a client that loses nothing by it. *)
LEMMA SentAppends ==
  ASSUME NEW qs \in [Conns -> Seq(Events)], NEW subs, NEW ch, NEW e,
         NEW d \in Conns, d \notin Overrun(qs, subs, ch)
  PROVE  /\ subs[d] = ch => Sent(qs, subs, ch, e)[d] = Append(qs[d], e)
         /\ Sent(qs, subs, ch, e)[d] = Append(qs[d], e) \/ Sent(qs, subs, ch, e)[d] = qs[d]
<1>1. Sent(qs, subs, ch, e)[d] = IF subs[d] = ch THEN Push(qs[d], e) ELSE qs[d]
  BY DEF Sent
<1>2. subs[d] = ch => Push(qs[d], e) = Append(qs[d], e)
  <2>1. subs[d] = ch => ~(Len(qs[d]) >= Capacity)
    BY DEF Overrun
  <2>2. Len(qs[d]) \in Nat
    OBVIOUS
  <2>. QED
    BY <2>1, <2>2, CapacityAssumption DEF Push
<1>. QED
  BY <1>1, <1>2

LEMMA SentShows ==
  ASSUME NEW qs \in [Conns -> Seq(Events)], NEW subs, NEW ch, NEW e, e.kind # "list",
         NEW d \in Conns, d \notin Overrun(qs, subs, ch), NEW v, NEW S,
         WillShow(qs[d], v, S)
  PROVE  WillShow(Sent(qs, subs, ch, e)[d], v, S)
<1>1. qs[d] \in Seq(Events)
  OBVIOUS
<1>2. Sent(qs, subs, ch, e)[d] = Append(qs[d], e) \/ Sent(qs, subs, ch, e)[d] = qs[d]
  BY SentAppends
<1>. QED
  BY <1>1, <1>2, WillShowAppend

LEMMA SentListShows ==
  ASSUME NEW qs \in [Conns -> Seq(Events)], NEW subs, NEW ch, NEW S,
         NEW d \in Conns, d \notin Overrun(qs, subs, ch), subs[d] = ch, NEW v
  PROVE  WillShow(Sent(qs, subs, ch, ListEvent(S))[d], v, S)
<1>. DEFINE e == ListEvent(S)
<1>1. qs[d] \in Seq(Events) /\ e.kind = "list" /\ e.members = S
  BY DEF ListEvent
<1>2. Sent(qs, subs, ch, e)[d] = Append(qs[d], e)
  <2>. HIDE DEF e
  <2>. QED
    BY SentAppends
<1>. HIDE DEF e
<1>3. WillShow(Append(qs[d], e), v, S)
  BY <1>1, WillShowAppend
<1>. QED
  BY <1>2, <1>3 DEF e

(* A client that joined reads the channel of its room. *)
SubsOK == \A d \in Conns : phase[d] \in {"joined", "session"} => subscribed[d] = chan[d]

(* Only packets take the low channel. *)
LowOK == \A d \in Conns : \A i \in DOMAIN low[d] : low[d][i].kind = "packet"

ShowOK ==
  \A d \in Conns : phase[d] = "session" /\ d \notin lagged =>
    \A r \in room[d] : WillShow(high[d], view[d], announced[r])

LEMMA SubsStep ==
  ASSUME TypeOK, SubsOK, [Next]_vars
  PROVE  SubsOK'
<1>. /\ phase \in [Conns -> Phases] /\ chan \in [Conns -> Nat]
     /\ subscribed \in [Conns -> Nat]
  BY DEF TypeOK, ConnTypeOK, BroadcastTypeOK
<1>1. CASE ClockTick \/ UNCHANGED vars
  BY <1>1 DEF ClockTick, vars, connVars, queueVars, SubsOK
<1>2. ASSUME NEW c \in Conns, Handshake(c) PROVE SubsOK'
  <2>1. /\ \A d \in Conns \ {c} : phase'[d] = phase[d] /\ chan'[d] = chan[d]
        /\ phase'[c] \notin {"joined", "session"}
        /\ UNCHANGED subscribed
    BY <1>2 DEF Handshake, AuthHello, AuthProof, LoginRefused, CreateCommand, JoinCommand,
       InviteHello, InviteProof, InviteAborted, InviteIoError, InviteReady, EnterInvited,
       Goto, queueVars
  <2>. QED
    BY <2>1 DEF SubsOK
<1>3. ASSUME NEW c \in Conns, Session(c) PROVE SubsOK'
  <2>1. CASE SessionOk(c)
    <3>1. /\ subscribed' = [subscribed EXCEPT ![c] = chan[c]] /\ UNCHANGED chan
          /\ phase' = [phase EXCEPT ![c] = "joined"]
      BY <2>1 DEF SessionOk, Goto
    <3>. QED
      BY <3>1 DEF SubsOK
  <2>2. CASE Leave(c)
    <3>1. /\ \A d \in Conns \ {c} : phase'[d] = phase[d] /\ subscribed'[d] = subscribed[d]
          /\ phase'[c] = "left" /\ UNCHANGED chan
      BY <2>2 DEF Leave, Goto
    <3>. QED
      BY <3>1 DEF SubsOK
  <2>3. CASE ~SessionOk(c) /\ ~Leave(c)
    <3>1. /\ UNCHANGED <<chan, subscribed>>
          /\ \A d \in Conns : phase'[d] \in {"joined", "session"}
                               => phase[d] \in {"joined", "session"}
      BY <1>3, <2>3 DEF Session, SessionOkLost, AnnounceMembers, Packet, InviteRequest,
         Receive, DeliverHigh, HighEmpty, DeliverLow, LowEmpty, Goto, connVars, queueVars
    <3>. QED
      BY <3>1 DEF SubsOK
  <2>. QED
    BY <2>1, <2>2, <2>3
<1>. QED
  BY <1>1, <1>2, <1>3 DEF Next

LEMMA LowStep ==
  ASSUME TypeOK, LowOK, [Next]_vars
  PROVE  LowOK'
<1>. low \in [Conns -> Seq(Events)]
  BY DEF TypeOK, BroadcastTypeOK
<1>1. CASE UNCHANGED low
  BY <1>1 DEF LowOK
<1>2. ASSUME NEW c \in Conns, NEW lane \in {"high", "low"}, Packet(c, lane), low' # low
      PROVE  LowOK'
  <2>. DEFINE e == PacketEvent(c, packets + 1)
  <2>1. low' = Sent(low, subscribed, chan[c], e)
    BY <1>2 DEF Packet
  <2>2. e \in Events /\ e.kind = "packet"
    <3>1. packets + 1 \in Nat
      BY DEF TypeOK, ClientTypeOK
    <3>. QED
      BY <3>1, EventTypes DEF PacketEvent
  <2>. HIDE DEF e
  <2>. SUFFICES ASSUME NEW d \in Conns
                PROVE  \A i \in DOMAIN low'[d] : low'[d][i].kind = "packet"
    BY DEF LowOK
  <2>3. low'[d] = Push(low[d], e) \/ low'[d] = low[d]
    BY <2>1 DEF Sent
  <2>4. \A i \in DOMAIN low[d] : low[d][i].kind = "packet"
    BY DEF LowOK
  <2>5. ASSUME NEW q \in Seq(Events), \A i \in DOMAIN q : q[i].kind = "packet"
        PROVE  \A i \in DOMAIN Append(q, e) : Append(q, e)[i].kind = "packet"
    BY <2>2, <2>5, Extended
  <2>6. low[d] # <<>> => /\ Tail(low[d]) \in Seq(Events)
                         /\ \A i \in DOMAIN Tail(low[d]) : Tail(low[d])[i].kind = "packet"
    BY <2>4, Shortened
  <2>7. \A i \in DOMAIN Push(low[d], e) : Push(low[d], e)[i].kind = "packet"
    <3>1. CASE Push(low[d], e) = Append(low[d], e)
      BY <2>4, <2>5, <3>1
    <3>2. CASE Push(low[d], e) = Append(Tail(low[d]), e) /\ low[d] # <<>>
      BY <2>5, <2>6, <3>2
    <3>. QED
      BY <2>2, <3>1, <3>2, PushElements
  <2>. QED
    BY <2>3, <2>4, <2>7
<1>3. ASSUME NEW c \in Conns, DeliverLow(c) PROVE LowOK'
  <2>1. low[c] # <<>> /\ low' = [low EXCEPT ![c] = Tail(low[c])]
    BY <1>3 DEF DeliverLow
  <2>2. \A i \in DOMAIN Tail(low[c]) : Tail(low[c])[i].kind = "packet"
    BY <2>1, Shortened DEF LowOK
  <2>. QED
    BY <2>1, <2>2 DEF LowOK
<1>4. ASSUME NEW c \in Conns, Leave(c) PROVE LowOK'
  BY <1>4 DEF Leave, Unsubscribed, LowOK
<1>5. ASSUME NEW c \in Conns, Handshake(c) \/ SessionOkLost(c) \/ SessionOk(c)
             \/ AnnounceMembers(c) \/ DeliverHigh(c) \/ HighEmpty(c) \/ LowEmpty(c)
             \/ \E r \in RoomIds, t \in Tokens, capability \in 1 .. (nextChan - 1) :
                  InviteRequest(c, r, capability, t)
      PROVE  LowOK'
  <2>1. UNCHANGED low
    BY <1>5 DEF Handshake, AuthHello, AuthProof, LoginRefused, CreateCommand, JoinCommand,
       InviteHello, InviteProof, InviteAborted, InviteIoError, InviteReady, EnterInvited,
       SessionOkLost, SessionOk, AnnounceMembers, DeliverHigh, HighEmpty, LowEmpty,
       InviteRequest, queueVars
  <2>. QED
    BY <1>1, <2>1
<1>6. CASE ClockTick \/ UNCHANGED vars
  BY <1>1, <1>6 DEF ClockTick, vars, queueVars
<1>. QED
  BY <1>1, <1>2, <1>3, <1>4, <1>5, <1>6 DEF Next, Session, Receive

LEMMA ShowStep ==
  ASSUME RoomInv, SubsOK, LowOK, ShowOK, [Next]_vars
  PROVE  ShowOK'
<1>. /\ TypeOK /\ Settled /\ ChannelsApart
  BY DEF RoomInv, Settled, OwnerInv
<1>. /\ phase \in [Conns -> Phases] /\ chan \in [Conns -> Nat]
     /\ room \in [Conns -> SUBSET RoomIds]
     /\ subscribed \in [Conns -> Nat] /\ view \in [Conns -> SUBSET Conns]
     /\ high \in [Conns -> Seq(Events)] /\ low \in [Conns -> Seq(Events)]
     /\ announced \in [RoomIds -> SUBSET Conns]
  BY DEF TypeOK, ConnTypeOK, BroadcastTypeOK, ClientTypeOK, HistoryTypeOK
<1>n. Notice.kind # "list"
  BY DEF Notice
<1>s. \A d \in Conns : InRoom(d) => \A r \in room[d] :
        r \in RoomIds /\ room[d] = {r} /\ Exists(r) /\ rooms[r].chan = chan[d]
  BY OwnRoom
<1>a. \A q, r \in RoomIds : Exists(q) /\ Exists(r) /\ rooms[q].chan = rooms[r].chan => q = r
  BY DEF ChannelsApart
<1>. SUFFICES ASSUME NEW d \in Conns, phase'[d] = "session", d \notin lagged',
                     NEW q \in room'[d]
              PROVE  WillShow(high'[d], view'[d], announced'[q])
  BY DEF ShowOK
<1>1. CASE /\ phase[d] = "session" /\ room'[d] = room[d] /\ UNCHANGED <<high, view, lagged>>
           /\ announced'[q] = announced[q]
  BY <1>1 DEF ShowOK
<1>2. CASE UNCHANGED <<phase, room, high, view, lagged, announced>>
  BY <1>1, <1>2
<1>3. ASSUME NEW c \in Conns, Handshake(c)
      PROVE  WillShow(high'[d], view'[d], announced'[q])
  <2>. DEFINE Apart ==
                /\ UNCHANGED <<high, view, lagged>> /\ phase'[c] # "session"
                /\ \A b \in Conns \ {c} : phase'[b] = phase[b] /\ room'[b] = room[b]
                /\ announced' = announced \/ \E r \in RoomIds :
                     ~Exists(r) /\ announced' = [announced EXCEPT ![r] = {}]
  <2>1. Apart
    <3>1. CASE AuthHello(c) \/ AuthProof(c) \/ LoginRefused(c) \/ InviteProof(c)
      BY <3>1 DEF AuthHello, AuthProof, LoginRefused, InviteProof, Goto, queueVars, clientVars,
         historyVars
    <3>2. CASE InviteAborted(c) \/ InviteIoError(c)
      BY <3>2 DEF InviteAborted, InviteIoError, queueVars, clientVars, historyVars
    <3>3. ASSUME NEW r \in RoomIds, NEW k \in Creds, CreateCommand(c, r, k)
          PROVE  Apart
      BY <3>3 DEF CreateCommand, CreateRoom, Goto, queueVars, clientVars
    <3>4. ASSUME NEW r \in RoomIds, NEW k \in Creds, JoinCommand(c, r, k)
          PROVE  Apart
      BY <3>4 DEF JoinCommand, Goto, queueVars, clientVars, historyVars
    <3>5. ASSUME NEW t \in Tokens, InviteHello(c, t)
          PROVE  Apart
      BY <3>5 DEF InviteHello, Goto, queueVars, clientVars, historyVars
    <3>6. CASE InviteReady(c)
      BY <3>6 DEF InviteReady, Goto, queueVars, clientVars
    <3>7. CASE EnterInvited(c)
      BY <3>7 DEF EnterInvited, Goto, queueVars, clientVars, historyVars
    <3>. QED
      BY <1>3, <3>1, <3>2, <3>3, <3>4, <3>5, <3>6, <3>7 DEF Handshake
  <2>2. phase[d] = "session" /\ room'[d] = room[d]
    BY <2>1
  <2>3. Exists(q)
    BY <1>s, <2>2 DEF InRoom
  <2>. QED
    BY <1>1, <2>1, <2>2, <2>3
<1>4. ASSUME NEW c \in Conns, SessionOk(c)
      PROVE  WillShow(high'[d], view'[d], announced'[q])
  <2>1. /\ high' = Sent(high, subscribed, chan[c], Notice)
        /\ lagged' = lagged \cup Overrun(high, subscribed, chan[c])
        /\ phase' = [phase EXCEPT ![c] = "joined"]
        /\ UNCHANGED <<view, announced, room>>
    BY <1>4 DEF SessionOk, Goto, clientVars, historyVars
  <2>2. phase[d] = "session" /\ d \notin lagged /\ d \notin Overrun(high, subscribed, chan[c])
    BY <2>1
  <2>. QED
    BY <1>n, <2>1, <2>2, SentShows, EventTypes DEF ShowOK
<1>5. ASSUME NEW c \in Conns, AnnounceMembers(c)
      PROVE  WillShow(high'[d], view'[d], announced'[q])
  <2>. PICK r \in room[c] :
         /\ Goto(c, "joined", "session")
         /\ Exists(r) =>
              /\ high' = ListSent(high, subscribed, r, rooms[r].members)
              /\ lagged' = lagged \cup Overrun(high, subscribed, rooms[r].chan)
              /\ announced' = [announced EXCEPT ![r] = rooms[r].members]
         /\ UNCHANGED <<clientVars, room>>
    BY <1>5 DEF AnnounceMembers
  <2>1. InRoom(c) /\ InRoom(d)
    BY DEF Goto, InRoom
  <2>2. r \in RoomIds /\ room[c] = {r} /\ Exists(r) /\ rooms[r].chan = chan[c]
    BY <1>s, <2>1
  <2>3. q \in RoomIds /\ Exists(q) /\ rooms[q].chan = chan[d]
    BY <1>s, <2>1
  <2>4. subscribed[d] = rooms[q].chan
    BY <2>3 DEF SubsOK, Goto
  <2>5. /\ high' = Sent(high, subscribed, rooms[r].chan, ListEvent(rooms[r].members))
        /\ d \notin Overrun(high, subscribed, rooms[r].chan) /\ d \notin lagged
        /\ view' = view /\ announced' = [announced EXCEPT ![r] = rooms[r].members]
    BY <2>2 DEF ListSent, clientVars
  <2>7. CASE q = r
    BY <2>2, <2>4, <2>5, <2>7, SentListShows
  <2>8. CASE q # r
    <3>1. subscribed[d] # rooms[r].chan
      BY <1>a, <2>2, <2>3, <2>4, <2>8
    <3>2. high'[d] = high[d]
      BY <2>5, <3>1 DEF Sent
    <3>3. d # c
      BY <2>2, <2>8
    <3>4. phase[d] = "session"
      BY <3>3 DEF Goto
    <3>. QED
      BY <2>5, <2>8, <3>2, <3>4 DEF ShowOK
  <2>. QED
    BY <2>7, <2>8
<1>6. ASSUME NEW c \in Conns, NEW lane \in {"high", "low"}, Packet(c, lane)
      PROVE  WillShow(high'[d], view'[d], announced'[q])
  <2>. DEFINE e == PacketEvent(c, packets + 1)
  <2>1. e \in Events /\ e.kind # "list"
    <3>1. packets + 1 \in Nat
      BY DEF TypeOK, ClientTypeOK
    <3>. QED
      BY <3>1, EventTypes DEF PacketEvent
  <2>2. UNCHANGED <<phase, room, view, announced>>
    BY <1>6 DEF Packet, connVars, historyVars
  <2>3. \/ high' = high
        \/ /\ high' = Sent(high, subscribed, chan[c], e)
           /\ lagged' = lagged \cup Overrun(high, subscribed, chan[c])
    BY <1>6 DEF Packet
  <2>4. lagged \subseteq lagged'
    BY <1>6 DEF Packet
  <2>. HIDE DEF e
  <2>5. WillShow(high[d], view[d], announced[q])
    BY <2>2, <2>4 DEF ShowOK
  <2>6. CASE high' = Sent(high, subscribed, chan[c], e)
             /\ d \notin Overrun(high, subscribed, chan[c])
    <3>1. WillShow(Sent(high, subscribed, chan[c], e)[d], view[d], announced[q])
      BY <2>1, <2>5, <2>6, SentShows
    <3>. QED
      BY <2>2, <2>6, <3>1
  <2>. QED
    BY <2>2, <2>3, <2>5, <2>6
<1>7. ASSUME NEW c \in Conns, DeliverHigh(c)
      PROVE  WillShow(high'[d], view'[d], announced'[q])
  <2>1. /\ high[c] # <<>> /\ Written(c, "high", Head(high[c]))
        /\ high' = [high EXCEPT ![c] = Tail(high[c])]
        /\ UNCHANGED <<phase, room, lagged, announced>>
    BY <1>7 DEF DeliverHigh, connVars, historyVars
  <2>2. WillShow(high[d], view[d], announced[q])
    BY <2>1 DEF ShowOK
  <2>3. view' = IF Head(high[c]).kind = "list"
                THEN [view EXCEPT ![c] = Head(high[c]).members] ELSE view
    BY <2>1 DEF Written
  <2>4. CASE d = c
    <3>1. WillShow(Tail(high[d]), IF Head(high[d]).kind = "list" THEN Head(high[d]).members
                                  ELSE view[d], announced[q])
      BY <2>1, <2>2, <2>4, WillShowTail
    <3>2. view'[d] = IF Head(high[d]).kind = "list" THEN Head(high[d]).members ELSE view[d]
      BY <2>3, <2>4
    <3>. QED
      BY <2>1, <2>4, <3>1, <3>2
  <2>5. CASE d # c
    BY <2>1, <2>2, <2>3, <2>5
  <2>. QED
    BY <2>4, <2>5
<1>8. ASSUME NEW c \in Conns, DeliverLow(c)
      PROVE  WillShow(high'[d], view'[d], announced'[q])
  <2>1. /\ low[c] # <<>> /\ Written(c, "low", Head(low[c]))
        /\ UNCHANGED <<phase, room, lagged, announced, high>>
    BY <1>8 DEF DeliverLow, connVars, historyVars
  <2>2. Head(low[c]).kind = "packet"
    BY <2>1, Shortened DEF LowOK
  <2>3. view' = view
    BY <2>1, <2>2 DEF Written
  <2>. QED
    BY <1>2, <2>1, <2>3
<1>9. ASSUME NEW c \in Conns, Leave(c)
      PROVE  WillShow(high'[d], view'[d], announced'[q])
  <2>. DEFINE subs == [subscribed EXCEPT ![c] = NoChan]
              freed == Unsubscribed(high, c)
              noted == Sent(freed, subs, chan[c], Notice)
  <2>. PICK r \in room[c] :
         /\ Goto(c, "session", "left")
         /\ Exists(r) =>
              /\ high' = ListSent(noted, subs, r, rooms[r].members \ {c})
              /\ lagged' = lagged \cup Overrun(freed, subs, chan[c])
                                 \cup Overrun(noted, subs, rooms[r].chan)
              /\ announced' = [announced EXCEPT ![r] = rooms[r].members \ {c}]
         /\ UNCHANGED <<clientVars, room>>
    BY <1>9 DEF Leave
  <2>1. d # c /\ phase[d] = "session" /\ InRoom(c) /\ InRoom(d)
    BY DEF Goto, InRoom
  <2>2. r \in RoomIds /\ Exists(r)
    BY <1>s, <2>1
  <2>3. q \in RoomIds /\ Exists(q) /\ rooms[q].chan = chan[d] /\ q \in room[d]
    BY <1>s, <2>1
  <2>4. subs[d] = rooms[q].chan /\ freed[d] = high[d]
    BY <2>1, <2>3 DEF SubsOK, Unsubscribed
  <2>5. freed \in [Conns -> Seq(Events)]
    BY DEF Unsubscribed
  <2>6. /\ high' = Sent(noted, subs, rooms[r].chan, ListEvent(rooms[r].members \ {c}))
        /\ d \notin Overrun(freed, subs, chan[c]) /\ d \notin Overrun(noted, subs, rooms[r].chan)
        /\ d \notin lagged
        /\ view' = view /\ announced' = [announced EXCEPT ![r] = rooms[r].members \ {c}]
    BY <2>2 DEF ListSent, clientVars
  <2>7. WillShow(freed[d], view[d], announced[q])
    BY <2>1, <2>3, <2>4, <2>6 DEF ShowOK
  <2>. HIDE DEF freed, subs
  <2>8. noted \in [Conns -> Seq(Events)] /\ WillShow(noted[d], view[d], announced[q])
    BY <1>n, <2>5, <2>6, <2>7, SentShows, SentType, EventTypes
  <2>. HIDE DEF noted
  <2>10. CASE q = r
    BY <2>2, <2>4, <2>6, <2>8, <2>10, SentListShows
  <2>11. CASE q # r
    <3>1. subs[d] # rooms[r].chan
      BY <1>a, <2>2, <2>3, <2>4, <2>11
    <3>2. high'[d] = noted[d]
      BY <2>6, <3>1 DEF Sent
    <3>. QED
      BY <2>6, <2>8, <2>11, <3>2
  <2>. QED
    BY <2>10, <2>11
<1>10. ASSUME NEW c \in Conns, SessionOkLost(c)
       PROVE  WillShow(high'[d], view'[d], announced'[q])
  <2>1. UNCHANGED <<queueVars, clientVars, announced, room>> /\ Goto(c, "entering", "closed")
    BY <1>10 DEF SessionOkLost
  <2>. QED
    BY <1>1, <2>1 DEF Goto, queueVars, clientVars
<1>11. ASSUME NEW c \in Conns, NEW r \in RoomIds, NEW t \in Tokens, NEW capability,
              InviteRequest(c, r, capability, t)
       PROVE  WillShow(high'[d], view'[d], announced'[q])
  BY <1>2, <1>11 DEF InviteRequest, queueVars, clientVars, connVars, historyVars
<1>12. CASE ClockTick \/ UNCHANGED vars
  BY <1>2, <1>12 DEF ClockTick, vars, queueVars, clientVars, connVars, historyVars
<1>13. ASSUME NEW c \in Conns, HighEmpty(c) \/ LowEmpty(c)
       PROVE  WillShow(high'[d], view'[d], announced'[q])
  BY <1>2, <1>13 DEF HighEmpty, LowEmpty, clientVars, connVars, historyVars
<1>. QED
  BY <1>3, <1>4, <1>5, <1>6, <1>7, <1>8, <1>9, <1>10, <1>11, <1>12, <1>13
     DEF Next, Session, Receive

(* A client that lost nothing and has nothing waiting shows the list       *)
(* broadcast last in its room (subscribing before the first                *)
(* broadcast_member_list, one lane for all lists).                         *)
THEOREM ClientsConverge == Spec => []ViewsConverge
<1>. DEFINE I == SubsOK /\ LowOK /\ ShowOK
<1>1. Init => I
  BY DEF Init, BroadcastInit, SubsOK, LowOK, ShowOK
<1>2. RoomInv /\ I /\ [Next]_vars => I'
  BY SubsStep, LowStep, ShowStep DEF RoomInv, Settled
<1>3. TypeOK /\ I => ViewsConverge
  BY DEF ShowOK, WillShow, ViewsConverge
<1>. HIDE DEF I
<1>. QED
  BY <1>1, <1>2, <1>3, RoomInvariance, TypeCorrect, PTL DEF Spec
=============================================================================
