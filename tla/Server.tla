------------------------------- MODULE Server -------------------------------
(***************************************************************************)
(* The server: one task per accepted connection                            *)
(* (src/server/connection.rs) over the room table, the invite table and    *)
(* the broadcast channels.  Tasks run in parallel, so every critical       *)
(* section and every await is a boundary between two actions.              *)
(*                                                                         *)
(* The life of a connection:                                               *)
(*   idle -> auth -> command -> entering      password login, CREATE/JOIN  *)
(*   idle -> proof -> ready -> consumed -> entering          invite login  *)
(*   entering -> joined -> session -> left            the room loop        *)
(*   any phase before "joined" -> closed              the handshake failed *)
(***************************************************************************)
EXTENDS Rooms, Invites, Broadcast

CONSTANT MaxPackets   \* bound on the packets the clients send

VARIABLES
  phase,      \* connection -> where its task is
  token,      \* connection -> the set holding the token of its handshake
  room,       \* connection -> the set holding the room of its handshake
  chan,       \* connection -> the RoomBroadcast its handshake cloned
  cap,        \* connection -> the owner capability of its session
  view,       \* connection -> the last member list written to its client
  packets,    \* number of packets sent, all rooms together
  got,        \* connection -> the packets written to its client, in order
  announced,  \* history: room name -> the last member list broadcast
  admitted,   \* history: token -> the connections that consumed it
  ghosts      \* history: connections lost between admission and guard

roomVars == <<rooms, nextChan>>
inviteVars == <<now, invites, minted>>
queueVars == <<subscribed, high, low, lagged, polled>>
clientVars == <<view, packets, got>>
connVars == <<phase, token, room, chan, cap>>
historyVars == <<announced, admitted, ghosts>>
vars == <<roomVars, inviteVars, queueVars, clientVars, connVars, historyVars>>

Phases == {"idle", "auth", "command", "proof", "ready", "consumed",
           "entering", "joined", "session", "left", "closed"}

Delivered ==
  [lane : {"high", "low"}, source : Conns \cup {NoConn}, seq : Nat]

ConnTypeOK ==
  /\ phase \in [Conns -> Phases]
  /\ token \in [Conns -> SUBSET Tokens]
  /\ room \in [Conns -> SUBSET RoomIds]
  /\ chan \in [Conns -> Nat]
  /\ cap \in [Conns -> Nat]

ClientTypeOK ==
  /\ view \in [Conns -> SUBSET Conns]
  /\ packets \in Nat
  /\ got \in [Conns -> Seq(Delivered)]

HistoryTypeOK ==
  /\ announced \in [RoomIds -> SUBSET Conns]
  /\ admitted \in [Tokens -> SUBSET Conns]
  /\ ghosts \subseteq Conns

TypeOK ==
  /\ RoomsTypeOK
  /\ InvitesTypeOK
  /\ BroadcastTypeOK
  /\ ConnTypeOK
  /\ ClientTypeOK
  /\ HistoryTypeOK

Init ==
  /\ RoomsInit
  /\ InvitesInit
  /\ BroadcastInit
  /\ phase = [c \in Conns |-> "idle"]
  /\ token = [c \in Conns |-> {}]
  /\ room = [c \in Conns |-> {}]
  /\ chan = [c \in Conns |-> NoChan]
  /\ cap = [c \in Conns |-> NoChan]
  /\ view = [c \in Conns |-> {}]
  /\ packets = 0
  /\ got = [c \in Conns |-> <<>>]
  /\ announced = [r \in RoomIds |-> {}]
  /\ admitted = [t \in Tokens |-> {}]
  /\ ghosts = {}

Goto(c, from, to) == phase[c] = from /\ phase' = [phase EXCEPT ![c] = to]

-----------------------------------------------------------------------------
(* Password login.                                                         *)

(* AUTH_HELLO is answered with a challenge. *)
AuthHello(c) ==
  /\ Goto(c, "idle", "auth")
  /\ UNCHANGED <<roomVars, inviteVars, queueVars, clientVars, historyVars,
                 token, room, chan, cap>>

(* The proof is right and OK and the banner ROOMS are written: nothing     *)
(* that other connections see has changed.                                 *)
AuthProof(c) ==
  /\ Goto(c, "auth", "command")
  /\ UNCHANGED <<roomVars, inviteVars, queueVars, clientVars, historyVars,
                 token, room, chan, cap>>

(* The first line, the proof or the command is missing, unreadable or      *)
(* refused, or an I/O error ends the task.                                 *)
LoginRefused(c) ==
  /\ phase[c] \in {"idle", "auth", "command"}
  /\ phase' = [phase EXCEPT ![c] = "closed"]
  /\ UNCHANGED <<roomVars, inviteVars, queueVars, clientVars, historyVars,
                 token, room, chan, cap>>

(* parse_join_command, CREATE.  A name that is taken is refused. *)
CreateCommand(c, r, k) ==
  /\ Goto(c, "command", "entering")
  /\ CreateRoom(r, k, c)
  /\ room' = [room EXCEPT ![c] = {r}]
  /\ chan' = [chan EXCEPT ![c] = nextChan]
  /\ cap' = [cap EXCEPT ![c] = nextChan]
  /\ announced' = [announced EXCEPT ![r] = {}]
  /\ UNCHANGED <<inviteVars, queueVars, clientVars, token, admitted, ghosts>>

(* parse_join_command, JOIN. *)
JoinCommand(c, r, k) ==
  /\ Goto(c, "command", "entering")
  /\ JoinRoom(r, k, c)
  /\ room' = [room EXCEPT ![c] = {r}]
  /\ chan' = [chan EXCEPT ![c] = rooms[r].chan]
  /\ UNCHANGED <<inviteVars, queueVars, clientVars, historyVars, token, cap>>

-----------------------------------------------------------------------------
(* Invite login (handle_invite_client).                                    *)

(* The hello reserves the token, or the connection is refused. *)
InviteHello(c, t) ==
  /\ Goto(c, "idle", IF CanBegin(t) THEN "proof" ELSE "closed")
  /\ BeginPendingInvite(t, c)
  /\ token' = [token EXCEPT ![c] = {t}]
  /\ room' = [room EXCEPT ![c] = IF CanBegin(t) THEN {invites[t].room} ELSE {}]
  /\ UNCHANGED <<roomVars, queueVars, clientVars, historyVars, chan, cap>>

(* The proof is right and INVITE_OK is written. *)
InviteProof(c) ==
  /\ Goto(c, "proof", "ready")
  /\ UNCHANGED <<roomVars, inviteVars, queueVars, clientVars, historyVars,
                 token, room, chan, cap>>

(* The client hangs up, or its proof or its INVITE_READY is missing or     *)
(* wrong: the token is given back.                                         *)
InviteAborted(c) ==
  /\ phase[c] \in {"proof", "ready"}
  /\ phase' = [phase EXCEPT ![c] = "closed"]
  /\ \E t \in token[c] : ResetInviteToUnused(t)
  /\ UNCHANGED <<roomVars, queueVars, clientVars, historyVars,
                 token, room, chan, cap>>

(* An I/O error, or a proof that is not hex, leaves through the ? operator *)
(* and does not give the token back.                                       *)
InviteIoError(c) ==
  /\ phase[c] \in {"proof", "ready"}
  /\ phase' = [phase EXCEPT ![c] = "closed"]
  /\ UNCHANGED <<roomVars, inviteVars, queueVars, clientVars, historyVars,
                 token, room, chan, cap>>

(* INVITE_READY consumes the token, if the reservation is still there. *)
InviteReady(c) ==
  \E t \in token[c] :
    /\ Goto(c, "ready", IF CanConsume(t, c) THEN "consumed" ELSE "closed")
    /\ ConsumeInviteReady(t, c)
    /\ admitted' = IF CanConsume(t, c)
                   THEN [admitted EXCEPT ![t] = @ \cup {c}]
                   ELSE admitted
    /\ UNCHANGED <<roomVars, queueVars, clientVars, announced, ghosts,
                   token, room, chan, cap>>

(* add_invited_member, under the other mutex: the room may be gone. *)
EnterInvited(c) ==
  \E r \in room[c] :
    \/ /\ Goto(c, "consumed", "entering")
       /\ AddInvitedMember(r, c)
       /\ chan' = [chan EXCEPT ![c] = rooms[r].chan]
       /\ UNCHANGED <<inviteVars, queueVars, clientVars, historyVars,
                      token, room, cap>>
    \/ /\ Goto(c, "consumed", "closed")
       /\ ~Exists(r)
       /\ UNCHANGED <<roomVars, inviteVars, queueVars, clientVars, historyVars,
                      token, room, chan, cap>>

-----------------------------------------------------------------------------
(* The room loop (enter_room_loop).                                        *)

(* SESSION_OK could not be written: the task ends before RoomGuard exists, *)
(* so the member it already inserted stays.                                *)
SessionOkLost(c) ==
  /\ Goto(c, "entering", "closed")
  /\ ghosts' = ghosts \cup {c}
  /\ UNCHANGED <<roomVars, inviteVars, queueVars, clientVars, announced,
                 admitted, token, room, chan, cap>>

(* Mutant of SessionOk: the connection never subscribes. *)
SessionOkUnsubscribed(c) ==
  /\ Goto(c, "entering", "joined")
  /\ high' = Sent(high, subscribed, chan[c], Notice)
  /\ lagged' = lagged \cup Overrun(high, subscribed, chan[c])
  /\ UNCHANGED <<roomVars, inviteVars, clientVars, historyVars, low, polled,
                 subscribed, token, room, chan, cap>>

(* SESSION_OK is written, the guard is armed, "joined" is sent, and only   *)
(* then does the connection subscribe to both channels.                    *)
SessionOk(c) ==
  /\ Goto(c, "entering", "joined")
  /\ high' = Sent(high, subscribed, chan[c], Notice)
  /\ lagged' = lagged \cup Overrun(high, subscribed, chan[c])
  /\ subscribed' = [subscribed EXCEPT ![c] = chan[c]]
  /\ UNCHANGED <<roomVars, inviteVars, clientVars, historyVars, low, polled,
                 token, room, chan, cap>>

(* Mutant of ListSent: the list is built and not sent. *)
ListNotSent(queues, subs, r, S) == queues

(* broadcast_member_list: the list goes to the channel the table holds. *)
ListSent(queues, subs, r, S) == Sent(queues, subs, rooms[r].chan, ListEvent(S))

(* The first member list after the subscription, under the room mutex. *)
AnnounceMembers(c) ==
  \E r \in room[c] :
    /\ Goto(c, "joined", "session")
    /\ IF Exists(r)
       THEN /\ high' = ListSent(high, subscribed, r, rooms[r].members)
            /\ lagged' = lagged \cup Overrun(high, subscribed, rooms[r].chan)
            /\ announced' = [announced EXCEPT ![r] = rooms[r].members]
       ELSE UNCHANGED <<high, lagged, announced>>
    /\ UNCHANGED <<roomVars, inviteVars, clientVars, subscribed, low, polled,
                   admitted, ghosts, token, room, chan, cap>>

(* A fresh packet of a member; attachment packets take the low channel. *)
Packet(c, lane) ==
  LET e == PacketEvent(c, packets + 1)
      queues == IF lane = "low" THEN low ELSE high
  IN /\ phase[c] = "session"
     /\ c \notin polled
     /\ packets < MaxPackets
     /\ packets' = packets + 1
     /\ lagged' = lagged \cup Overrun(queues, subscribed, chan[c])
     /\ low' = IF lane = "low" THEN Sent(low, subscribed, chan[c], e) ELSE low
     /\ high' = IF lane = "low" THEN high ELSE Sent(high, subscribed, chan[c], e)
     /\ UNCHANGED <<roomVars, inviteVars, connVars, historyVars,
                    subscribed, polled, view, got>>

(* handle_invite_request: the session must be the owner's, and both the    *)
(* session and the request must hold the capability of this very room.     *)
MayInvite(c, r, capability) ==
  /\ r \in room[c]
  /\ Exists(r)
  /\ rooms[r].owner = c
  /\ rooms[r].capability # NoChan
  /\ cap[c] = rooms[r].capability
  /\ capability = rooms[r].capability

InviteRequest(c, r, capability, t) ==
  /\ phase[c] = "session"
  /\ c \notin polled
  /\ MayInvite(c, r, capability)
  /\ InsertInviteToken(t, r)
  /\ UNCHANGED <<roomVars, queueVars, clientVars, connVars, historyVars>>

(* Mutant of Written: the client's own packets come back to it. *)
WrittenWithEcho(c, lane, e) ==
  /\ view' = IF e.kind = "list" THEN [view EXCEPT ![c] = e.members] ELSE view
  /\ got' = IF e.kind = "packet"
            THEN [got EXCEPT ![c] =
                   Append(@, [lane |-> lane, source |-> e.source, seq |-> e.seq])]
            ELSE got

(* One event written to the client.  The client's own packets are skipped. *)
Written(c, lane, e) ==
  /\ view' = IF e.kind = "list" THEN [view EXCEPT ![c] = e.members] ELSE view
  /\ got' = IF e.kind = "packet" /\ e.source # c
            THEN [got EXCEPT ![c] =
                   Append(@, [lane |-> lane, source |-> e.source, seq |-> e.seq])]
            ELSE got

(* The biased select looks at the high channel first ... *)
DeliverHigh(c) ==
  /\ phase[c] = "session"
  /\ c \notin polled
  /\ high[c] # <<>>
  /\ Written(c, "high", Head(high[c]))
  /\ high' = [high EXCEPT ![c] = Tail(@)]
  /\ UNCHANGED <<roomVars, inviteVars, connVars, historyVars,
                 subscribed, low, lagged, polled, packets>>

HighEmpty(c) ==
  /\ phase[c] = "session"
  /\ c \notin polled
  /\ high[c] = <<>>
  /\ polled' = polled \cup {c}
  /\ UNCHANGED <<roomVars, inviteVars, connVars, historyVars, clientVars,
                 subscribed, high, low, lagged>>

(* Mutant of DeliverLow: the select is not biased. *)
DeliverLowUnbiased(c) ==
  /\ phase[c] = "session"
  /\ low[c] # <<>>
  /\ Written(c, "low", Head(low[c]))
  /\ low' = [low EXCEPT ![c] = Tail(@)]
  /\ polled' = polled \ {c}
  /\ UNCHANGED <<roomVars, inviteVars, connVars, historyVars,
                 subscribed, high, lagged, packets>>

(* ... and, when that was empty, at the low one.  These are two looks: an  *)
(* event may reach the high channel in between.                            *)
DeliverLow(c) ==
  /\ c \in polled
  /\ low[c] # <<>>
  /\ Written(c, "low", Head(low[c]))
  /\ low' = [low EXCEPT ![c] = Tail(@)]
  /\ polled' = polled \ {c}
  /\ UNCHANGED <<roomVars, inviteVars, connVars, historyVars,
                 subscribed, high, lagged, packets>>

LowEmpty(c) ==
  /\ c \in polled
  /\ low[c] = <<>>
  /\ polled' = polled \ {c}
  /\ UNCHANGED <<roomVars, inviteVars, connVars, historyVars, clientVars,
                 subscribed, high, low, lagged>>

(* The task looks at its channels, and writes what it finds. *)
Receive(c) == DeliverHigh(c) \/ HighEmpty(c) \/ DeliverLow(c) \/ LowEmpty(c)

(* The loop ends on a hang-up or a failed write.  The receivers are        *)
(* dropped first, then RoomGuard: "left" on the channel of the session,    *)
(* then, under the room mutex, the removal and the new member list.        *)
Leave(c) ==
  \E r \in room[c] :
    LET subs  == [subscribed EXCEPT ![c] = NoChan]
        freed == Unsubscribed(high, c)
        noted == Sent(freed, subs, chan[c], Notice)
        rest  == rooms[r].members \ {c}
    IN /\ Goto(c, "session", "left")
       /\ c \notin polled
       /\ subscribed' = subs
       /\ low' = Unsubscribed(low, c)
       /\ IF Exists(r)
          THEN /\ RemoveMember(r, c)
               /\ high' = ListSent(noted, subs, r, rest)
               /\ lagged' = lagged \cup Overrun(freed, subs, chan[c])
                                  \cup Overrun(noted, subs, rooms[r].chan)
               /\ announced' = [announced EXCEPT ![r] = rest]
          ELSE /\ high' = noted
               /\ lagged' = lagged \cup Overrun(freed, subs, chan[c])
               /\ UNCHANGED <<roomVars, announced>>
       /\ UNCHANGED <<inviteVars, clientVars, polled, admitted, ghosts,
                      token, room, chan, cap>>

-----------------------------------------------------------------------------
ClockTick ==
  /\ Tick
  /\ UNCHANGED <<roomVars, queueVars, clientVars, connVars, historyVars>>

Handshake(c) ==
  \/ AuthHello(c)
  \/ AuthProof(c)
  \/ LoginRefused(c)
  \/ \E r \in RoomIds, k \in Creds : CreateCommand(c, r, k) \/ JoinCommand(c, r, k)
  \/ \E t \in Tokens : InviteHello(c, t)
  \/ InviteProof(c)
  \/ InviteAborted(c)
  \/ InviteIoError(c)
  \/ InviteReady(c)
  \/ EnterInvited(c)

Session(c) ==
  \/ SessionOkLost(c)
  \/ SessionOk(c)
  \/ AnnounceMembers(c)
  \/ \E lane \in {"high", "low"} : Packet(c, lane)
  \/ \E r \in RoomIds, t \in Tokens, capability \in 1 .. (nextChan - 1) :
       InviteRequest(c, r, capability, t)
  \/ Receive(c)
  \/ Leave(c)

Next == ClockTick \/ \E c \in Conns : Handshake(c) \/ Session(c)

Spec == Init /\ [][Next]_vars

(* The task of a live connection is scheduled: it announces itself, and it *)
(* goes on looking at its channels and writing what waits there.           *)
FairSpec ==
  /\ Spec
  /\ \A c \in Conns : WF_vars(AnnounceMembers(c)) /\ WF_vars(Receive(c))

-----------------------------------------------------------------------------
(* Properties.                                                             *)

InRoom(c) == phase[c] \in {"entering", "joined", "session"}

SessionsOf(r) == {c \in Conns : phase[c] = "session" /\ r \in room[c]}

(* The channel a connection holds is the channel of the room that now      *)
(* bears its name, and the connection is in that room: RoomGuard, which    *)
(* finds the room by name alone when it is dropped, can neither miss its   *)
(* room nor touch a later one, however rooms are removed and re-created.   *)
SessionRegistered ==
  \A c \in Conns : InRoom(c) =>
    \E r \in room[c] :
      Exists(r) /\ c \in rooms[r].members /\ rooms[r].chan = chan[c]

(* A room in the table has a member, and each of its members is a live     *)
(* connection or one whose SESSION_OK write failed: nothing else leaks.    *)
MembersAccountedFor ==
  \A r \in RoomIds : Exists(r) =>
    /\ rooms[r].members # {}
    /\ \A c \in rooms[r].members : r \in room[c] /\ (InRoom(c) \/ c \in ghosts)

(* A room ends with the presence of its members: no live connection, no    *)
(* room.                                                                   *)
RoomEndsWithItsMembers ==
  \A r \in RoomIds : Exists(r) => \E c \in rooms[r].members : InRoom(c)

(* However handshakes interleave, expire and are given back, a token lets  *)
(* one connection in at most.                                              *)
SingleUse == \A t \in Tokens : \A c, d \in admitted[t] : c = d

(* Ownership stays with the connection that created the room: while a room *)
(* has an owner, that one and no other holds the capability of this room,  *)
(* and a room whose owner left has no capability that could mint a token.  *)
OwnershipCoherent ==
  \A r \in RoomIds : Exists(r) =>
    /\ (rooms[r].owner = NoConn) <=> (rooms[r].capability = NoChan)
    /\ rooms[r].owner # NoConn =>
         /\ rooms[r].owner \in rooms[r].members
         /\ rooms[r].capability = rooms[r].chan
         /\ {c \in Conns : cap[c] = rooms[r].capability} = {rooms[r].owner}

(* The last member list broadcast names every session of the room, and     *)
(* nobody who is no longer a member.                                       *)
MemberListBounds ==
  \A r \in RoomIds : Exists(r) =>
    SessionsOf(r) \subseteq announced[r] /\ announced[r] \subseteq rooms[r].members

(* A client that lost no event and has nothing left to receive shows the   *)
(* last member list broadcast in its room.                                 *)
ViewsConverge ==
  \A c \in Conns : phase[c] = "session" /\ high[c] = <<>> /\ c \notin lagged =>
    \A r \in room[c] : view[c] = announced[r]

(* A client sees the packets of each channel in the order they were sent,  *)
(* whatever it lost, each once, and never its own.                         *)
DeliveredInOrder ==
  \A c \in Conns : \A i, j \in DOMAIN got[c] :
    /\ got[c][i].source # c
    /\ i < j /\ got[c][i].lane = got[c][j].lane => got[c][i].seq < got[c][j].seq

(* An attachment packet that was written before a text sent earlier. *)
Overtakes(p, e) == p.lane = "low" /\ e.kind = "packet" /\ p.seq > e.seq

(* An attachment packet reaches a client ahead of a text packet sent       *)
(* before it only if that text came between the two looks of the biased    *)
(* select: at most one attachment overtakes the texts that wait, however   *)
(* many of either are sent.                                                *)
AttachmentsYield ==
  \A c \in Conns : \A i, k \in DOMAIN got[c], j \in DOMAIN high[c] :
    Overtakes(got[c][i], high[c][j]) /\ Overtakes(got[c][k], high[c][j]) => i = k

(* Once nobody comes or goes, the clients of a room agree on who is in it: *)
(* on a list with all of them, and no other but members lost before their  *)
(* session began.                                                          *)
ViewsAgreeEventually ==
  <>[](\A c, d \in Conns :
         /\ phase[c] = "session" /\ phase[d] = "session"
         /\ chan[c] = chan[d]
         /\ c \notin lagged /\ d \notin lagged
         => /\ view[c] = view[d]
            /\ d \in view[c]
            /\ \A m \in view[c] : InRoom(m) \/ m \in ghosts)
=============================================================================
