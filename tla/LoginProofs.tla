---------------------------- MODULE LoginProofs -----------------------------
(***************************************************************************)
(* Proofs about Login, for any connections, rooms, tokens and bounds.      *)
(***************************************************************************)
EXTENDS Login, ServerProofs

(* The types of the client's side. *)
ClientsOK ==
  /\ at \in [Conns -> {"start", "waiting", "chat", "refused", "gone"}]
  /\ line \in [Conns -> ToServer \cup ToClient \cup {Nothing}]
  /\ seen \in [Conns -> SUBSET RoomIds]
  /\ code \in [Conns -> SUBSET Tokens]
  /\ action \in [Conns -> {"none", "CREATE", "JOIN"}]
  /\ keys \in [Conns -> SUBSET RoomKeys]
  /\ secret \in [Conns -> {"none", "pending", "active"}]
  /\ blob \in [Tokens -> SUBSET RoomKeys]
  /\ origin \in [Tokens -> Nat]

LEMMA TypesSplit == LoginTypeOK <=> TypeOK /\ ClientsOK
BY DEF LoginTypeOK, ClientsOK

(* What the server reads of the keys is a room and a credential.  A name   *)
(* of one word it reads as it is, and one of several words never yields a  *)
(* credential that a client derives.                                       *)
LEMMA ParsedFields ==
  ASSUME NEW k \in RoomKeys
  PROVE  /\ Parsed(k).room \in RoomIds /\ Parsed(k).cred \in Creds
         /\ IF k.room \in RoomIds
            THEN k.room \notin DOMAIN Words /\ Parsed(k) = k
            ELSE k.room \in DOMAIN Words /\ Parsed(k).cred \notin Derived
         /\ k.cred \in Derived
BY WordsAssumption DEF RoomKeys, Parsed

(* What a connection takes part in. *)
Steps(c) == Client(c) \/ User(c) \/ Serve(c) \/ ServeEnd(c)

-----------------------------------------------------------------------------
(* Each step of the composition is a step of the server or leaves it alone. *)

LEMMA ClientLeavesServer ==
  ASSUME NEW c, \/ Client(c) \/ Dial(c) \/ HangUp(c)
                \/ (\E k \in RoomKeys : Choose(c, k)) \/ (\E t \in Tokens : Redeem(c, t))
  PROVE  UNCHANGED <<vars, codeVars>>
BY DEF Client, ProveAuth, Prove, OpenBlob, Accept, Refused, Closed, Dial, HangUp, Choose,
   Redeem, Opens, Says

LEMMA ServeSteps ==
  ASSUME LoginTypeOK, NEW c \in Conns, Serve(c) \/ ServeEnd(c)
  PROVE  Handshake(c) \/ Session(c)
<1>. /\ keys[c] \subseteq RoomKeys /\ code[c] \subseteq Tokens
  BY DEF LoginTypeOK
<1>1. CASE ServeLogin(c)
  BY <1>1 DEF ServeLogin, Handshake
<1>2. CASE ServeCommand(c)
  <2>. PICK j \in keys[c] : \/ CreateCommand(c, Parsed(j).room, Parsed(j).cred)
                            \/ JoinCommand(c, Parsed(j).room, Parsed(j).cred)
                            \/ LoginRefused(c)
    BY <1>2 DEF ServeCommand, Declined
  <2>. Parsed(j).room \in RoomIds /\ Parsed(j).cred \in Creds
    BY ParsedFields
  <2>. QED
    BY DEF Handshake
<1>3. CASE ServeInvite(c)
  <2>1. \/ \E t \in code[c] : InviteHello(c, t)
        \/ InviteProof(c) \/ InviteReady(c) \/ EnterInvited(c)
    BY <1>3 DEF ServeInvite
  <2>. QED
    BY <2>1 DEF Handshake
<1>4. CASE ServeSession(c)
  BY <1>4 DEF ServeSession, Session
<1>5. CASE ServeEnd(c)
  BY <1>5 DEF ServeEnd, Handshake, Session
<1>. QED
  BY <1>1, <1>2, <1>3, <1>4, <1>5 DEF Serve

LEMMA InviteSteps ==
  ASSUME LoginTypeOK, RoomInv, NEW c \in Conns, NEW t \in Tokens, Invite(c, t)
  PROVE  Session(c)
<1>. PICK k \in keys[c] : InviteRequest(c, k.room, cap[c], t)
  BY DEF Invite
<1>1. k.room \in RoomIds
  BY DEF InviteRequest, MayInvite, LoginTypeOK, TypeOK, ConnTypeOK
<1>2. cap[c] \in 1 .. (nextChan - 1)
  <2>1. cap[c] \in Nat /\ nextChan \in Nat
    BY DEF LoginTypeOK, TypeOK, ConnTypeOK, RoomsTypeOK
  <2>2. cap[c] < nextChan
    BY DEF RoomInv, OwnerInv, CapsOK
  <2>3. cap[c] # 0
    BY DEF Invite, NoChan
  <2>. QED
    BY <2>1, <2>2, <2>3
<1>. QED
  BY <1>1, <1>2 DEF Session

LEMMA ServerStep ==
  ASSUME LoginTypeOK, RoomInv, [LoginNext]_loginVars
  PROVE  [Next]_vars
<1>1. CASE ClockTick
  BY <1>1 DEF Next
<1>2. CASE UNCHANGED loginVars
  BY <1>2 DEF loginVars
<1>3. ASSUME NEW c \in Conns, Steps(c) PROVE [Next]_vars
  <2>1. CASE Serve(c) \/ ServeEnd(c)
    BY <2>1, ServeSteps DEF Next
  <2>2. ASSUME NEW t \in Tokens, Invite(c, t) PROVE [Next]_vars
    BY <2>2, InviteSteps DEF Next
  <2>3. CASE \/ Client(c) \/ Dial(c) \/ HangUp(c)
             \/ (\E k \in RoomKeys : Choose(c, k)) \/ (\E t \in Tokens : Redeem(c, t))
    BY <2>3, ClientLeavesServer
  <2>. QED
    BY <1>3, <2>1, <2>2, <2>3 DEF Steps, User
<1>. QED
  BY <1>1, <1>2, <1>3 DEF LoginNext, Steps

-----------------------------------------------------------------------------
(* Types. *)

LEMMA ClientsUnchangedOK == ClientsOK /\ UNCHANGED clientSide => ClientsOK'
BY DEF ClientsOK, clientSide, dialogVars, choiceVars, codeVars

LEMMA ClientsStep ==
  ASSUME LoginTypeOK, [LoginNext]_loginVars
  PROVE  ClientsOK'
<1>. /\ ClientsOK /\ TypeOK
  BY TypesSplit
<1>. USE DEF ClientsOK, dialogVars, choiceVars, codeVars
<1>l. {"auth_hello", "auth_challenge", "auth_proof", "wrong_proof", "rooms", "command",
       "hello", "challenge", "proof", "invite_ok", "ready", "session_ok", "error", Nothing}
        \subseteq ToServer \cup ToClient \cup {Nothing}
  BY DEF ToServer, ToClient
<1>1. CASE UNCHANGED clientSide
  BY <1>1, ClientsUnchangedOK
<1>2. ASSUME NEW c \in Conns, Client(c) \/ Dial(c) \/ HangUp(c)
             \/ (\E k \in RoomKeys : Choose(c, k)) \/ (\E t \in Tokens : Redeem(c, t))
      PROVE  ClientsOK'
  <2>1. CASE Dial(c) \/ ProveAuth(c) \/ Prove(c) \/ Refused(c) \/ Closed(c) \/ HangUp(c)
    BY <1>l, <2>1 DEF Dial, ProveAuth, Prove, Refused, Closed, HangUp, Opens, Says
  <2>2. ASSUME NEW k \in RoomKeys, Choose(c, k) PROVE ClientsOK'
    BY <1>l, <2>2 DEF Choose, Says
  <2>3. ASSUME NEW t \in Tokens, Redeem(c, t) PROVE ClientsOK'
    BY <1>l, <2>3 DEF Redeem, Opens, Says
  <2>4. CASE OpenBlob(c)
    <3>1. OpenInviteBlob(c) \subseteq RoomKeys
      BY DEF OpenInviteBlob
    <3>. QED
      BY <1>l, <2>4, <3>1 DEF OpenBlob, Says
  <2>5. CASE Accept(c)
    BY <1>l, <2>5 DEF Accept, Says, Begun
  <2>. QED
    BY <1>2, <2>1, <2>2, <2>3, <2>4, <2>5 DEF Client
<1>3. ASSUME NEW c \in Conns, NEW t \in Tokens, Invite(c, t) PROVE ClientsOK'
  <2>1. chan[c] \in Nat
    BY DEF TypeOK, ConnTypeOK
  <2>. QED
    BY <1>3, <2>1 DEF Invite, CreateInviteBlob
<1>4. ASSUME NEW c \in Conns, Serve(c) PROVE ClientsOK'
  BY <1>l, <1>4 DEF Serve, ServeLogin, ServeCommand, ServeInvite, ServeSession, Answers
<1>5. ASSUME NEW c \in Conns, ServeEnd(c) PROVE ClientsOK'
  BY <1>l, <1>5 DEF ServeEnd
<1>. QED
  BY <1>1, <1>2, <1>3, <1>4, <1>5 DEF LoginNext, User, loginVars

-----------------------------------------------------------------------------
(* The state of one connection, on both sides. *)

Early == {"idle", "proof", "ready", "consumed"}
Inside == {"entering", "joined", "session", "left"}
LoginLines == {"auth_hello", "auth_challenge", "auth_proof", "wrong_proof", "rooms", "command"}

(* The line under way fits the phase of the task, until the task ends.     *)
Paired(c) ==
  /\ at[c] = "waiting" =>
       \/ phase[c] = "idle" /\ line[c] \in {"auth_hello", "hello"}
       \/ phase[c] = "auth" /\ line[c] \in {"auth_challenge", "auth_proof", "wrong_proof"}
       \/ phase[c] = "command" /\ line[c] \in {"rooms", "command"}
       \/ phase[c] = "proof" /\ line[c] \in {"challenge", "proof"}
       \/ phase[c] = "ready" /\ line[c] \in {"invite_ok", "ready"}
       \/ phase[c] \in {"consumed", "entering"} /\ line[c] = Nothing
       \/ phase[c] \in {"joined", "session"} /\ line[c] = "session_ok"
       \/ phase[c] = "left" /\ line[c] \in {"session_ok", Nothing}
       \/ phase[c] = "closed" /\ line[c] # "session_ok"
  /\ at[c] = "chat" => phase[c] \in Inside \ {"entering"} /\ line[c] = Nothing
  /\ at[c] = "refused" => phase[c] = "closed"
  /\ at[c] = "gone" => line[c] \notin ToClient
  /\ c \in ghosts => phase[c] = "closed" /\ line[c] # "error" /\ at[c] # "refused"

(* What was chosen and what came of it agree: an invitation goes with no   *)
(* command, CREATE with a capability of one's own, and only CREATE with a  *)
(* secret to begin with.                                                   *)
Consistent(c) ==
  /\ at[c] = "start" =>
       /\ phase[c] = "idle" /\ line[c] = Nothing
       /\ code[c] = {} /\ keys[c] = {} /\ action[c] = "none" /\ secret[c] = "none"
       /\ cap[c] = NoChan
  /\ code[c] # {} =>
       /\ phase[c] \notin {"auth", "command"} /\ line[c] \notin LoginLines
       /\ cap[c] = NoChan /\ action[c] = "none"
  /\ phase[c] \in Early \cup {"auth"} => action[c] = "none"
  /\ phase[c] \in Early \ {"idle"} => code[c] # {}
  /\ action[c] = "CREATE" /\ phase[c] \in Inside => cap[c] = chan[c] /\ cap[c] # NoChan
  /\ secret[c] = "active" => action[c] = "CREATE" /\ phase[c] \in Inside \ {"entering"}

OneChoice(c) ==
  /\ \A j, k \in keys[c] : j = k
  /\ \A s, t \in code[c] : s = t

OneBlob == \A t \in Tokens : \A j, k \in blob[t] : j = k

TaskUnmoved(c) ==
  /\ phase'[c] = phase[c] /\ token'[c] = token[c] /\ room'[c] = room[c]
  /\ chan'[c] = chan[c] /\ cap'[c] = cap[c]
  /\ c \in ghosts' <=> c \in ghosts

ClientUnmoved(c) ==
  /\ at'[c] = at[c] /\ line'[c] = line[c] /\ code'[c] = code[c]
  /\ action'[c] = action[c] /\ keys'[c] = keys[c] /\ secret'[c] = secret[c]

LEMMA TasksApart ==
  ASSUME TypeOK, NEW c \in Conns, Handshake(c) \/ Session(c), NEW d \in Conns \ {c}
  PROVE  TaskUnmoved(d)
<1>. /\ phase \in [Conns -> Phases] /\ token \in [Conns -> SUBSET Tokens]
     /\ room \in [Conns -> SUBSET RoomIds] /\ chan \in [Conns -> Nat] /\ cap \in [Conns -> Nat]
  BY DEF TypeOK, ConnTypeOK
<1>1. CASE Handshake(c)
  BY <1>1 DEF Handshake, AuthHello, AuthProof, LoginRefused, CreateCommand, JoinCommand,
     InviteHello, InviteProof, InviteAborted, InviteIoError, InviteReady, EnterInvited,
     Goto, TaskUnmoved, historyVars
<1>2. CASE Session(c)
  BY <1>2 DEF Session, SessionOkLost, SessionOk, AnnounceMembers, Packet, InviteRequest,
     Receive, DeliverHigh, HighEmpty, DeliverLow, LowEmpty, Leave, connVars, historyVars,
     Goto, TaskUnmoved
<1>. QED
  BY <1>1, <1>2

LEMMA ConnectionsApart ==
  ASSUME LoginTypeOK, RoomInv, NEW c \in Conns, Steps(c), NEW d \in Conns \ {c}
  PROVE  TaskUnmoved(d) /\ ClientUnmoved(d)
<1>. TypeOK /\ ClientsOK
  BY TypesSplit
<1>1. TaskUnmoved(d)
  <2>1. CASE \/ Client(c) \/ Dial(c) \/ HangUp(c)
             \/ (\E k \in RoomKeys : Choose(c, k)) \/ (\E t \in Tokens : Redeem(c, t))
    BY <2>1, ClientLeavesServer DEF TaskUnmoved, vars, connVars, historyVars
  <2>2. CASE Serve(c) \/ ServeEnd(c) \/ \E t \in Tokens : Invite(c, t)
    BY <2>2, ServeSteps, InviteSteps, TasksApart
  <2>. QED
    BY <2>1, <2>2 DEF Steps, User
<1>2. ClientUnmoved(d)
  <2>. USE DEF ClientUnmoved, ClientsOK, choiceVars, dialogVars
  <2>1. CASE Client(c)
    BY <2>1 DEF Client, ProveAuth, Prove, OpenBlob, Accept, Refused, Closed, Says
  <2>2. CASE User(c)
    BY <2>2 DEF User, Dial, HangUp, Choose, Redeem, Invite, Opens, Says
  <2>3. CASE Serve(c)
    BY <2>3 DEF Serve, ServeLogin, ServeCommand, ServeInvite, ServeSession, Answers
  <2>4. CASE ServeEnd(c)
    BY <2>4 DEF ServeEnd
  <2>. QED
    BY <2>1, <2>2, <2>3, <2>4 DEF Steps
<1>. QED
  BY <1>1, <1>2

OwnOK(c) == Paired(c) /\ Consistent(c)

LEMMA OwnUnmoved ==
  ASSUME NEW d, OwnOK(d), TaskUnmoved(d), ClientUnmoved(d)
  PROVE  OwnOK(d)'
BY DEF OwnOK, Paired, Consistent, TaskUnmoved, ClientUnmoved

(* The client's steps. *)
LEMMA OwnClient ==
  ASSUME LoginTypeOK, NEW c \in Conns, OwnOK(c), Client(c) \/ User(c)
  PROVE  OwnOK(c)'
<1>. TypeOK /\ ClientsOK /\ Paired(c) /\ Consistent(c)
  BY TypesSplit DEF OwnOK
<1>. USE DEF ClientsOK, choiceVars, dialogVars, Early, Inside, LoginLines, ToClient, Reads
<1>u. UNCHANGED vars => TaskUnmoved(c)
  BY DEF vars, connVars, historyVars, TaskUnmoved
<1>1. CASE Dial(c)
  BY <1>1, <1>u DEF Dial, Opens, Says, TaskUnmoved, OwnOK, Paired, Consistent, Nothing
<1>2. ASSUME NEW k \in RoomKeys, Choose(c, k) PROVE OwnOK(c)'
  BY <1>2, <1>u DEF Choose, Says, TaskUnmoved, OwnOK, Paired, Consistent, Nothing
<1>3. ASSUME NEW t \in Tokens, Redeem(c, t) PROVE OwnOK(c)'
  BY <1>3, <1>u DEF Redeem, Opens, Says, TaskUnmoved, OwnOK, Paired, Consistent, Nothing
<1>4. CASE Prove(c)
  BY <1>4, <1>u DEF Prove, Says, TaskUnmoved, OwnOK, Paired, Consistent, Nothing
<1>5. CASE OpenBlob(c)
  BY <1>5, <1>u DEF OpenBlob, Says, TaskUnmoved, OwnOK, Paired, Consistent, Nothing
<1>6. CASE Accept(c)
  BY <1>6, <1>u DEF Accept, Begun, Says, TaskUnmoved, OwnOK, Paired, Consistent, Nothing
<1>7. CASE Refused(c)
  BY <1>7, <1>u DEF Refused, Says, TaskUnmoved, OwnOK, Paired, Consistent, Nothing
<1>8. CASE HangUp(c) \/ Closed(c)
  <2>1. line'[c] \in {line[c], Nothing} /\ line'[c] \notin ToClient
        /\ at'[c] = "gone" /\ TaskUnmoved(c) /\ UNCHANGED choiceVars /\ at[c] # "start"
    BY <1>8, <1>u DEF HangUp, Closed, Says, ToServer, Nothing
  <2>. QED
    BY <2>1 DEF TaskUnmoved, OwnOK, Paired, Consistent, Nothing
<1>10. CASE ProveAuth(c)
  BY <1>10, <1>u DEF ProveAuth, Says, TaskUnmoved, OwnOK, Paired, Consistent, Nothing
<1>9. ASSUME NEW t \in Tokens, Invite(c, t) PROVE OwnOK(c)'
  <2>1. TaskUnmoved(c)
    BY <1>9 DEF Invite, InviteRequest, connVars, historyVars, TaskUnmoved
  <2>2. ClientUnmoved(c)
    BY <1>9 DEF Invite, ClientUnmoved
  <2>. QED
    BY <2>1, <2>2, OwnUnmoved
<1>. QED
  BY <1>1, <1>2, <1>3, <1>4, <1>5, <1>6, <1>7, <1>8, <1>9, <1>10 DEF Client, User

(* The steps of the task. *)
LEMMA OwnServe ==
  ASSUME LoginTypeOK, RoomInv, NEW c \in Conns, OwnOK(c), Serve(c) \/ ServeEnd(c)
  PROVE  OwnOK(c)'
<1>. TypeOK /\ ClientsOK /\ Paired(c) /\ Consistent(c)
  BY TypesSplit DEF OwnOK
<1>. /\ phase \in [Conns -> Phases] /\ token \in [Conns -> SUBSET Tokens]
     /\ room \in [Conns -> SUBSET RoomIds] /\ chan \in [Conns -> Nat] /\ cap \in [Conns -> Nat]
     /\ nextChan # NoChan
  BY DEF TypeOK, ConnTypeOK, RoomsTypeOK
<1>. USE DEF ClientsOK, choiceVars, dialogVars, Early, Inside, LoginLines, ToClient, Answers,
             Nothing, Goto, historyVars
<1>1. CASE ServeLogin(c)
  <2>0. UNCHANGED <<code, action, keys, secret>>
    BY <1>1 DEF ServeLogin
  <2>1. ASSUME line[c] = "auth_hello", AuthHello(c), Answers(c, "auth_challenge")
        PROVE  OwnOK(c)'
    BY <2>0, <2>1 DEF AuthHello, OwnOK, Paired, Consistent
  <2>2. ASSUME line[c] = "auth_proof", AuthProof(c), Answers(c, "rooms") PROVE OwnOK(c)'
    BY <2>0, <2>2 DEF AuthProof, OwnOK, Paired, Consistent
  <2>3. ASSUME line[c] = "wrong_proof", LoginRefused(c), Answers(c, "error") PROVE OwnOK(c)'
    BY <2>0, <2>3 DEF LoginRefused, OwnOK, Paired, Consistent
  <2>. QED
    BY <1>1, <2>1, <2>2, <2>3 DEF ServeLogin
<1>2. CASE ServeCommand(c)
  <2>0. line[c] = "command" /\ UNCHANGED <<choiceVars, codeVars, at>>
    BY <1>2 DEF ServeCommand
  <2>1. ASSUME NEW k, CreateCommand(c, k.room, k.cred), Answers(c, Nothing)
        PROVE  OwnOK(c)'
    BY <2>0, <2>1 DEF CreateCommand, OwnOK, Paired, Consistent
  <2>2. ASSUME NEW k, action[c] # "CREATE",
               JoinCommand(c, k.room, k.cred), Answers(c, Nothing)
        PROVE  OwnOK(c)'
    BY <2>0, <2>2 DEF JoinCommand, OwnOK, Paired, Consistent
  <2>3. ASSUME LoginRefused(c), Answers(c, "error") PROVE OwnOK(c)'
    BY <2>0, <2>3 DEF LoginRefused, OwnOK, Paired, Consistent
  <2>. QED
    BY <1>2, <2>1, <2>2, <2>3 DEF ServeCommand, Declined
<1>3. CASE ServeInvite(c)
  <2>0. UNCHANGED <<choiceVars, codeVars>>
    BY <1>3 DEF ServeInvite
  <2>1. ASSUME NEW t \in code[c], line[c] = "hello", InviteHello(c, t),
               Answers(c, IF phase'[c] = "closed" THEN "error" ELSE "challenge")
        PROVE  OwnOK(c)'
    BY <2>0, <2>1 DEF InviteHello, OwnOK, Paired, Consistent
  <2>2. ASSUME line[c] = "proof", InviteProof(c), Answers(c, "invite_ok") PROVE OwnOK(c)'
    BY <2>0, <2>2 DEF InviteProof, OwnOK, Paired, Consistent
  <2>3. ASSUME line[c] = "ready", InviteReady(c),
               Answers(c, IF phase'[c] = "closed" THEN "error" ELSE Nothing)
        PROVE  OwnOK(c)'
    BY <2>0, <2>3 DEF InviteReady, OwnOK, Paired, Consistent
  <2>4. ASSUME EnterInvited(c),
               Answers(c, IF phase'[c] = "closed" THEN "error" ELSE Nothing)
        PROVE  OwnOK(c)'
    BY <2>0, <2>4 DEF EnterInvited, OwnOK, Paired, Consistent
  <2>. QED
    BY <1>3, <2>1, <2>2, <2>3, <2>4 DEF ServeInvite
<1>4. CASE ServeSession(c)
  <2>0. UNCHANGED <<choiceVars, codeVars>>
    BY <1>4 DEF ServeSession
  <2>1. ASSUME SessionOk(c), Answers(c, "session_ok") PROVE OwnOK(c)'
    BY <2>0, <2>1 DEF SessionOk, OwnOK, Paired, Consistent
  <2>2. ASSUME AnnounceMembers(c), UNCHANGED dialogVars PROVE OwnOK(c)'
    BY <2>0, <2>2 DEF AnnounceMembers, OwnOK, Paired, Consistent
  <2>. QED
    BY <1>4, <2>1, <2>2 DEF ServeSession
<1>5. CASE ServeEnd(c)
  <2>0. /\ UNCHANGED <<at, code, action, keys, secret>> /\ at[c] # "start"
        /\ line'[c] \in {line[c], Nothing} /\ line'[c] \notin ToServer
    BY <1>5 DEF ServeEnd
  <2>1. cap'[c] = cap[c] /\ chan'[c] = chan[c]
    BY <1>5 DEF ServeEnd, LoginRefused, InviteAborted, InviteIoError, SessionOkLost, Leave
  <2>2. CASE LoginRefused(c) \/ InviteAborted(c) \/ InviteIoError(c)
    <3>1. phase[c] \in {"idle", "auth", "command", "proof", "ready"} /\ phase'[c] = "closed"
          /\ ghosts' = ghosts
      BY <2>2 DEF LoginRefused, InviteAborted, InviteIoError
    <3>. QED
      BY <2>0, <2>1, <3>1 DEF OwnOK, Paired, Consistent
  <2>3. CASE SessionOkLost(c)
    <3>1. phase[c] = "entering" /\ phase'[c] = "closed" /\ ghosts' = ghosts \cup {c}
      BY <2>3 DEF SessionOkLost
    <3>. QED
      BY <2>0, <2>1, <3>1 DEF OwnOK, Paired, Consistent
  <2>4. CASE Leave(c)
    <3>1. phase[c] = "session" /\ phase'[c] = "left" /\ ghosts' = ghosts
      BY <2>4 DEF Leave
    <3>. QED
      BY <2>0, <2>1, <3>1 DEF OwnOK, Paired, Consistent
  <2>. QED
    BY <1>5, <2>2, <2>3, <2>4 DEF ServeEnd
<1>. QED
  BY <1>1, <1>2, <1>3, <1>4, <1>5 DEF Serve

LEMMA OwnStep ==
  ASSUME LoginTypeOK, RoomInv, \A c \in Conns : OwnOK(c), [LoginNext]_loginVars
  PROVE  \A c \in Conns : OwnOK(c)'
<1>1. CASE UNCHANGED loginVars \/ (ClockTick /\ UNCHANGED clientSide)
  <2>1. \A c \in Conns : TaskUnmoved(c) /\ ClientUnmoved(c)
    BY <1>1 DEF loginVars, ClockTick, vars, connVars, historyVars, clientSide, dialogVars,
       choiceVars, TaskUnmoved, ClientUnmoved
  <2>. QED
    BY <2>1, OwnUnmoved
<1>2. ASSUME NEW c \in Conns, Steps(c), NEW d \in Conns PROVE OwnOK(d)'
  <2>1. CASE d = c
    BY <1>2, <2>1, OwnClient, OwnServe DEF Steps
  <2>2. CASE d # c
    BY <1>2, <2>2, ConnectionsApart, OwnUnmoved
  <2>. QED
    BY <2>1, <2>2
<1>. QED
  BY <1>1, <1>2 DEF LoginNext, Steps

-----------------------------------------------------------------------------
(* A capability is held by one connection. *)

CapsApart == \A c, d \in Conns : cap[c] = cap[d] /\ cap[c] # NoChan => c = d

LEMMA CapsStep ==
  ASSUME RoomInv, CapsApart, [Next]_vars
  PROVE  CapsApart'
<1>. /\ Settled /\ cap \in [Conns -> Nat] /\ nextChan \in Nat /\ CapsOK /\ RoomsTypeOK
  BY DEF RoomInv, Settled, OwnerInv, TypeOK, ConnTypeOK, RoomsTypeOK
<1>1. CASE UNCHANGED cap
  BY <1>1 DEF CapsApart
<1>2. ASSUME NEW c \in Conns, NEW r \in RoomIds, Creates(c, r) PROVE CapsApart'
  <2>1. cap'[c] = nextChan /\ \A d \in Conns \ {c} : cap'[d] = cap[d]
    BY <1>2 DEF Creates, OthersStay
  <2>2. \A d \in Conns \ {c} : cap'[d] # nextChan
    BY <2>1 DEF CapsOK
  <2>. QED
    BY <2>1, <2>2 DEF CapsApart
<1>. QED
  BY <1>1, <1>2, StepMoves DEF Moves, Still, Enters, Loses, Announces, Leaves

-----------------------------------------------------------------------------
(* The keys of a client and of an invitation.                              *)

(* An invitation encloses the keys of the room that asked for it, and that *)
(* room has a name of one word.                                            *)
BlobOK(t) ==
  /\ origin[t] < nextChan
  /\ \A k \in blob[t] :
       /\ k.room \in RoomIds
       /\ invites[t].st # "absent" => invites[t].room = k.room
       /\ Exists(k.room) /\ rooms[k.room].chan = origin[t] => rooms[k.room].cred = k.cred
  /\ \A r \in RoomIds :
       Exists(r) /\ rooms[r].chan = origin[t] => rooms[r].cred \in Derived

(* Who came in by name and key is in the room that the server read, and    *)
(* owns it if that is not the one named.                                   *)
Named(c) ==
  \E k \in keys[c] :
    /\ Parsed(k).room \in room[c]
    /\ rooms[Parsed(k).room].cred = Parsed(k).cred
    /\ k.room \notin RoomIds => cap[c] = chan[c]

(* Who was invited is in the room of its invitation, or in a later one of  *)
(* that name.                                                              *)
Brought(c) ==
  \A k \in keys[c] :
    /\ k.room \in room[c]
    /\ rooms[k.room].cred = k.cred \/ Outlived(c)

KeysOK(c) ==
  /\ code[c] \subseteq minted
  /\ code[c] # {} => keys[c] \subseteq OpenInviteBlob(c)
  /\ action[c] # "CREATE" => \A k \in keys[c] : k.room \in RoomIds
  /\ phase[c] \in Early \ {"idle"} => \A t \in code[c] : \A k \in blob[t] : k.room \in room[c]
  /\ InRoom(c) => IF code[c] = {} THEN Named(c) ELSE Brought(c)

ChoiceInv == OneBlob /\ \A c \in Conns : OneChoice(c)

KeyInv ==
  /\ ChoiceInv
  /\ \A t \in Tokens : BlobOK(t)
  /\ \A c \in Conns : KeysOK(c)

OwnInv == CapsApart /\ \A c \in Conns : OwnOK(c)

LoginInv == LoginTypeOK /\ RoomInv /\ TokenInv /\ OwnInv /\ KeyInv

(* What a step of the server leaves of the rooms: a room keeps its         *)
(* credential and its channel as long as it is there.                      *)
LEMMA RoomsKeep ==
  ASSUME Settled, [Next]_vars, NEW r \in RoomIds, Exists(r)'
  PROVE  IF Exists(r)
         THEN rooms'[r].cred = rooms[r].cred /\ rooms'[r].chan = rooms[r].chan
         ELSE rooms'[r].chan = nextChan
<1>. RoomsTypeOK
  BY DEF Settled, TypeOK
<1>0. Exists(r) => rooms[r] \in RoomInfo
  BY DEF RoomsTypeOK, Exists
<1>1. CASE UNCHANGED rooms
  BY <1>1 DEF Exists
<1>2. ASSUME NEW c \in Conns, NEW q \in RoomIds, Creates(c, q)
      PROVE  IF Exists(r) THEN rooms'[r] = rooms[r] ELSE rooms'[r].chan = nextChan
  BY <1>2, Created DEF Creates, Exists
<1>3. ASSUME NEW c \in Conns, NEW q \in RoomIds, Enters(c, q)
      PROVE  Exists(r) /\ rooms'[r].cred = rooms[r].cred /\ rooms'[r].chan = rooms[r].chan
  <2>1. Exists(q) /\ rooms' = [rooms EXCEPT ![q] = WithMember(q, c)]
    BY <1>3 DEF Enters, AddInvitedMember
  <2>. QED
    BY <1>0, <2>1 DEF WithMember, RoomInfo, RoomsTypeOK, Exists
<1>4. ASSUME NEW c \in Conns, NEW q \in RoomIds, Leaves(c, q)
      PROVE  Exists(r) /\ rooms'[r].cred = rooms[r].cred /\ rooms'[r].chan = rooms[r].chan
  <2>1. /\ Exists(q)
        /\ rooms' = [rooms EXCEPT ![q] = IF WithoutMember(q, c).members = {} THEN NoRoom
                                         ELSE WithoutMember(q, c)]
    BY <1>4 DEF Leaves, RemoveMember
  <2>2. CASE q = r
    <3>1. rooms'[r] = WithoutMember(r, c)
      BY <2>1, <2>2 DEF RoomsTypeOK, Exists
    <3>2. rooms[r] \in RoomInfo
      BY <1>0, <2>1, <2>2
    <3>3. /\ WithoutMember(r, c).cred = rooms[r].cred
          /\ WithoutMember(r, c).chan = rooms[r].chan
      BY <3>2 DEF WithoutMember, Disowned, RoomInfo
    <3>. QED
      BY <2>1, <2>2, <3>1, <3>3
  <2>3. CASE q # r
    BY <2>1, <2>3 DEF RoomsTypeOK, Exists
  <2>. QED
    BY <2>2, <2>3
<1>. QED
  BY <1>1, <1>2, <1>3, <1>4, StepMoves DEF Moves, Still, Loses, Announces, Exists

LEMMA ChannelsGrow ==
  ASSUME Settled, [Next]_vars
  PROVE  nextChan \in Nat /\ nextChan' \in Nat /\ nextChan <= nextChan'
<1>. RoomsTypeOK
  BY DEF Settled, TypeOK
<1>1. nextChan \in Nat
  BY DEF RoomsTypeOK
<1>2. nextChan' = nextChan \/ nextChan' = nextChan + 1
  BY StepMoves DEF Moves, Still, Creates, Enters, Loses, Announces, Leaves, CreateRoom,
     AddInvitedMember, RemoveMember
<1>. QED
  BY <1>1, <1>2

(* An entry of the invite table keeps its room as long as it is there. *)
LEMMA NormalizedKeeps ==
  ASSUME InvitesTypeOK, NEW t \in Tokens, Normalized[t].st # "absent"
  PROVE  invites[t].st # "absent" /\ Normalized[t].room = invites[t].room
         /\ Normalized[t] \in InviteTokenInfo
<1>1. invites[t].st # "absent"
  BY SpentNormalized
<1>2. invites[t] \in InviteTokenInfo
  BY <1>1 DEF InvitesTypeOK, Absent
<1>3. Normalized[t] = invites[t] \/ Normalized[t] = Unused(invites[t])
  BY DEF Normalized, NormalizedEntry, Absent
<1>4. Unused(invites[t]).room = invites[t].room
  BY <1>2 DEF Unused, InviteTokenInfo
<1>5. Normalized[t] \in InviteTokenInfo
  BY NormalizedType DEF Absent
<1>. QED
  BY <1>1, <1>3, <1>4, <1>5

(* The entry after an operation on another entry or on this one. *)
LEMMA EntryKeeps ==
  ASSUME InvitesTypeOK, NEW c, NEW s \in Tokens, NEW t \in Tokens,
         BeginPendingInvite(s, c) \/ ResetInviteToUnused(s) \/ ConsumeInviteReady(s, c),
         invites'[t].st # "absent"
  PROVE  invites[t].st # "absent" /\ invites'[t].room = invites[t].room
<1>0. Normalized \in [Tokens -> InviteTokenInfo \cup {Absent}]
  BY NormalizedType
<1>1. CASE invites'[t] = Normalized[t]
  BY <1>1, NormalizedKeeps
<1>2. CASE invites'[t] # Normalized[t]
  <2>1. Normalized[t].st # "absent"
        /\ \/ invites'[t] = [Normalized[t] EXCEPT !.st = "pending", !.nonce = c, !.until = now + PendingTtl]
           \/ invites'[t] = Unused(Normalized[t])
           \/ invites'[t] = [Normalized[t] EXCEPT !.st = "used"]
    BY <1>0, <1>2 DEF BeginPendingInvite, ResetInviteToUnused, ConsumeInviteReady, CanBegin, CanConsume
  <2>2. Normalized[t] \in InviteTokenInfo
    BY <2>1, NormalizedKeeps
  <2>3. invites'[t].room = Normalized[t].room
    BY <2>1, <2>2 DEF Unused, InviteTokenInfo
  <2>. QED
    BY <2>1, <2>3, NormalizedKeeps
<1>. QED
  BY <1>1, <1>2

LEMMA TableKeeps ==
  ASSUME LoginTypeOK, [LoginNext]_loginVars, ~\E c \in Conns, t \in Tokens : Invite(c, t)
  PROVE  /\ UNCHANGED <<minted, codeVars>>
         /\ \A t \in Tokens : invites'[t].st # "absent" =>
              invites[t].st # "absent" /\ invites'[t].room = invites[t].room
<1>. InvitesTypeOK /\ ClientsOK /\ token \in [Conns -> SUBSET Tokens]
  BY TypesSplit DEF TypeOK, ConnTypeOK
<1>1. CASE UNCHANGED <<invites, minted, codeVars>>
  BY <1>1
<1>2. CASE UNCHANGED loginVars \/ (ClockTick /\ UNCHANGED clientSide)
  BY <1>1, <1>2 DEF loginVars, vars, inviteVars, clientSide, ClockTick, Tick
<1>3. ASSUME NEW c, \/ Client(c) \/ Dial(c) \/ HangUp(c)
                    \/ (\E k \in RoomKeys : Choose(c, k)) \/ (\E t \in Tokens : Redeem(c, t))
      PROVE  UNCHANGED <<invites, minted, codeVars>>
  BY <1>3, ClientLeavesServer DEF vars, inviteVars
<1>4. ASSUME NEW c, ServeLogin(c) \/ ServeCommand(c) \/ ServeSession(c)
      PROVE  UNCHANGED <<invites, minted, codeVars>>
  BY <1>4 DEF ServeLogin, AuthHello, AuthProof, LoginRefused, ServeCommand, CreateCommand,
     JoinCommand, Declined, ServeSession, SessionOk, AnnounceMembers, inviteVars
<1>5. ASSUME NEW c \in Conns, ServeInvite(c) \/ ServeEnd(c)
      PROVE  /\ UNCHANGED codeVars
             /\ \/ UNCHANGED <<invites, minted>>
                \/ \E s \in Tokens :
                     /\ UNCHANGED minted
                     /\ BeginPendingInvite(s, c) \/ ResetInviteToUnused(s) \/ ConsumeInviteReady(s, c)
  <2>. USE DEF BeginPendingInvite, ResetInviteToUnused, ConsumeInviteReady
  <2>1. UNCHANGED codeVars
    BY <1>5 DEF ServeInvite, ServeEnd
  <2>2. CASE (\E s \in code[c] : InviteHello(c, s)) \/ InviteAborted(c) \/ InviteReady(c)
    <3>1. code[c] \subseteq Tokens /\ token[c] \subseteq Tokens
      BY DEF ClientsOK
    <3>. HIDE DEF BeginPendingInvite, ResetInviteToUnused, ConsumeInviteReady
    <3>2. \E s \in Tokens :
            BeginPendingInvite(s, c) \/ ResetInviteToUnused(s) \/ ConsumeInviteReady(s, c)
      BY <2>2, <3>1 DEF InviteHello, InviteAborted, InviteReady
    <3>3. UNCHANGED minted
      BY <3>2 DEF BeginPendingInvite, ResetInviteToUnused, ConsumeInviteReady
    <3>. QED
      BY <2>1, <3>2, <3>3
  <2>3. CASE InviteProof(c) \/ EnterInvited(c) \/ LoginRefused(c) \/ InviteIoError(c)
             \/ SessionOkLost(c) \/ Leave(c)
    <3>1. UNCHANGED <<invites, minted>>
      BY <2>3 DEF InviteProof, EnterInvited, LoginRefused, InviteIoError, SessionOkLost,
         Leave, inviteVars
    <3>. QED
      BY <2>1, <3>1
  <2>. QED
    BY <1>5, <2>2, <2>3 DEF ServeInvite, ServeEnd
<1>6. ASSUME NEW c \in Conns, ServeInvite(c) \/ ServeEnd(c)
      PROVE  /\ UNCHANGED <<minted, codeVars>>
             /\ \A t \in Tokens : invites'[t].st # "absent" =>
                  invites[t].st # "absent" /\ invites'[t].room = invites[t].room
  BY <1>5, <1>6, EntryKeeps
<1>. QED
  BY <1>1, <1>2, <1>3, <1>4, <1>6 DEF LoginNext, User, Serve

-----------------------------------------------------------------------------
LEMMA ChoiceStep ==
  ASSUME LoginTypeOK, ChoiceInv, [LoginNext]_loginVars
  PROVE  ChoiceInv'
<1>. ClientsOK
  BY TypesSplit
<1>. USE DEF ChoiceInv, OneBlob, OneChoice
<1>1. CASE UNCHANGED <<keys, code, blob>>
  BY <1>1
<1>2. ASSUME NEW c \in Conns, NEW k \in RoomKeys, Choose(c, k) PROVE ChoiceInv'
  BY <1>2 DEF Choose, Says, codeVars, ClientsOK
<1>3. ASSUME NEW c \in Conns, NEW t \in Tokens, Redeem(c, t) PROVE ChoiceInv'
  BY <1>3 DEF Redeem, Opens, Says, codeVars, ClientsOK
<1>4. ASSUME NEW c \in Conns, OpenBlob(c) PROVE ChoiceInv'
  <2>1. \A j, k \in OpenInviteBlob(c) : j = k
    BY DEF OpenInviteBlob, ClientsOK
  <2>2. keys' = [keys EXCEPT ![c] = OpenInviteBlob(c)] /\ UNCHANGED <<code, blob>>
    BY <1>4 DEF OpenBlob, Says, codeVars
  <2>. QED
    BY <2>1, <2>2 DEF ClientsOK
<1>5. ASSUME NEW c \in Conns, NEW t \in Tokens, Invite(c, t) PROVE ChoiceInv'
  BY <1>5 DEF Invite, CreateInviteBlob, choiceVars, ClientsOK
<1>6. ASSUME NEW c \in Conns, \/ Dial(c) \/ HangUp(c) \/ ProveAuth(c) \/ Prove(c)
                              \/ Accept(c) \/ Refused(c) \/ Closed(c)
                              \/ Serve(c) \/ ServeEnd(c)
      PROVE  ChoiceInv'
  <2>1. UNCHANGED <<keys, code, blob>>
    BY <1>6 DEF Dial, HangUp, ProveAuth, Prove, Accept, Refused, Closed, Opens, Says, Serve,
       ServeLogin, ServeCommand, ServeInvite, ServeSession, ServeEnd, choiceVars, codeVars
  <2>. QED
    BY <1>1, <2>1
<1>. QED
  BY <1>1, <1>2, <1>3, <1>4, <1>5, <1>6 DEF LoginNext, Client, User, loginVars, clientSide,
     choiceVars, codeVars

(* An invitation knows the room that asked for it: a later room of the     *)
(* same name has another channel.                                          *)
LEMMA BlobStep ==
  ASSUME LoginInv, [LoginNext]_loginVars, NEW t \in Tokens
  PROVE  BlobOK(t)'
<1>. /\ LoginTypeOK /\ RoomInv /\ Settled /\ ClientsOK /\ TypeOK /\ BlobOK(t) /\ [Next]_vars
     /\ \A c \in Conns : OwnOK(c) /\ KeysOK(c) /\ OneChoice(c)
  BY TypesSplit, ServerStep DEF LoginInv, RoomInv, KeyInv, OwnInv, ChoiceInv
<1>. /\ origin \in [Tokens -> Nat] /\ blob \in [Tokens -> SUBSET RoomKeys]
     /\ nextChan \in Nat /\ nextChan' \in Nat /\ nextChan <= nextChan' /\ origin[t] < nextChan
  BY ChannelsGrow DEF ClientsOK, BlobOK
<1>1. ASSUME ~\E c \in Conns, s \in Tokens : Invite(c, s) PROVE BlobOK(t)'
  <2>1. /\ origin' = origin /\ blob' = blob
        /\ invites'[t].st # "absent" => invites[t].st # "absent" /\ invites'[t].room = invites[t].room
    BY <1>1, TableKeeps DEF codeVars
  <2>2. origin[t] < nextChan' /\ origin[t] # nextChan
    <3>1. \A i, m, n \in Nat : i < m /\ m <= n => i < n /\ i # m
      OBVIOUS
    <3>. QED
      BY <3>1
  <2>3. ASSUME NEW k \in blob[t], Exists(k.room)', rooms'[k.room].chan = origin[t]
        PROVE  rooms'[k.room].cred = k.cred
    <3>1. k.room \in RoomIds
      BY DEF BlobOK
    <3>2. IF Exists(k.room)
          THEN rooms'[k.room].cred = rooms[k.room].cred /\ rooms'[k.room].chan = rooms[k.room].chan
          ELSE rooms'[k.room].chan = nextChan
      BY <2>3, <3>1, RoomsKeep
    <3>. QED
      BY <2>2, <2>3, <3>2 DEF BlobOK
  <2>4. ASSUME NEW r \in RoomIds, Exists(r)', rooms'[r].chan = origin[t]
        PROVE  rooms'[r].cred \in Derived
    <3>1. IF Exists(r)
          THEN rooms'[r].cred = rooms[r].cred /\ rooms'[r].chan = rooms[r].chan
          ELSE rooms'[r].chan = nextChan
      BY <2>4, RoomsKeep
    <3>. QED
      BY <2>2, <2>4, <3>1 DEF BlobOK
  <2>. QED
    BY <2>1, <2>2, <2>3, <2>4 DEF BlobOK, Exists
<1>2. ASSUME NEW c \in Conns, NEW s \in Tokens, Invite(c, s) PROVE BlobOK(t)'
  <2>0. PICK k \in keys[c] : InviteRequest(c, k.room, cap[c], s)
    BY <1>2 DEF Invite
  <2>1. /\ UNCHANGED <<rooms, nextChan>>
        /\ invites' = [invites EXCEPT ![s] =
             [st |-> "unused", room |-> k.room, expires |-> now + InviteTtl,
              nonce |-> NoConn, until |-> 0]]
        /\ blob' = [blob EXCEPT ![s] = keys[c]]
        /\ origin' = [origin EXCEPT ![s] = chan[c]]
    BY <1>2, <2>0 DEF Invite, InviteRequest, InsertInviteToken, CreateInviteBlob, roomVars
  <2>. invites \in [Tokens -> InviteTokenInfo \cup {Absent}]
    BY DEF TypeOK, InvitesTypeOK
  <2>2. CASE t # s
    <3>1. invites'[t] = invites[t] /\ blob'[t] = blob[t] /\ origin'[t] = origin[t]
      BY <2>1, <2>2
    <3>. QED
      BY <2>1, <3>1 DEF BlobOK, Exists
  <2>3. CASE t = s
    <3>1. invites'[t].room = k.room /\ blob'[t] = keys[c] /\ origin'[t] = chan[c]
      BY <2>1, <2>3
    <3>2. InRoom(c) /\ cap[c] # NoChan
      BY <1>2, <2>0 DEF Invite, InviteRequest, InRoom
    <3>3. code[c] = {}
      BY <3>2 DEF OwnOK, Consistent
    <3>0. k.room \in room[c]
      BY <2>0 DEF InviteRequest, MayInvite
    <3>5. Exists(k.room) /\ rooms[k.room].chan = chan[c] /\ k.room \in RoomIds
      BY <3>0, <3>2, OwnRoom
    <3>4. rooms[k.room].cred = k.cred /\ k.cred \in Derived
      <4>1. PICK j \in keys[c] : rooms[Parsed(j).room].cred = Parsed(j).cred
        BY <3>2, <3>3 DEF KeysOK, Named
      <4>2. j = k /\ k \in RoomKeys
        BY DEF OneChoice, ClientsOK
      <4>. QED
        BY <3>5, <4>1, <4>2, ParsedFields
    <3>8. \A r \in RoomIds : Exists(r) /\ rooms[r].chan = chan[c] => r = k.room
      BY <3>5 DEF RoomInv, OwnerInv, ChannelsApart
    <3>6. chan[c] < nextChan
      BY <3>5 DEF RoomInv, OwnerInv, ChannelsApart
    <3>7. \A j \in keys[c] : j = k
      BY DEF OneChoice
    <3>. QED
      BY <2>1, <3>1, <3>4, <3>5, <3>6, <3>7, <3>8 DEF BlobOK, Exists
  <2>. QED
    BY <2>2, <2>3
<1>. QED
  BY <1>1, <1>2

(* What has been passed on stays what it was. *)
LEMMA MintedKeep ==
  ASSUME LoginTypeOK, [LoginNext]_loginVars
  PROVE  /\ minted \subseteq minted'
         /\ \A t \in minted : blob'[t] = blob[t] /\ origin'[t] = origin[t]
<1>. ClientsOK
  BY TypesSplit
<1>1. CASE ~\E c \in Conns, s \in Tokens : Invite(c, s)
  BY <1>1, TableKeeps DEF codeVars
<1>2. ASSUME NEW c \in Conns, NEW s \in Tokens, Invite(c, s)
      PROVE  /\ minted \subseteq minted'
             /\ \A t \in minted : blob'[t] = blob[t] /\ origin'[t] = origin[t]
  BY <1>2 DEF Invite, InviteRequest, InsertInviteToken, ClientsOK
<1>. QED
  BY <1>1, <1>2

(* A connection that neither enters a room nor reserves a token. *)
Stays(d) ==
  /\ InRoom(d)' =>
       InRoom(d) /\ room'[d] = room[d] /\ chan'[d] = chan[d] /\ cap'[d] = cap[d]
  /\ phase'[d] \in Early \ {"idle"} => phase[d] \in Early \ {"idle"} /\ room'[d] = room[d]

LEMMA KeysCarried ==
  ASSUME LoginInv, [LoginNext]_loginVars, NEW d \in Conns, Stays(d),
         code'[d] = code[d], keys'[d] = keys[d], action'[d] = action[d]
  PROVE  KeysOK(d)'
<1>. /\ LoginTypeOK /\ RoomInv /\ Settled /\ ClientsOK /\ TypeOK /\ KeysOK(d) /\ [Next]_vars
     /\ SessionRegistered'
  BY TypesSplit, ServerStep, RegisteredStep DEF LoginInv, RoomInv, KeyInv, Settled
<1>. /\ code[d] \subseteq minted /\ minted \subseteq minted'
     /\ \A t \in code[d] : blob'[t] = blob[t] /\ origin'[t] = origin[t]
  BY MintedKeep DEF KeysOK
<1>1. code[d] # {} => keys'[d] \subseteq OpenInviteBlob(d)'
  BY DEF KeysOK, OpenInviteBlob
<1>2. phase'[d] \in Early \ {"idle"} => \A t \in code[d] : \A k \in blob'[t] : k.room \in room'[d]
  BY DEF Stays, KeysOK
<1>3. ASSUME InRoom(d)' PROVE IF code[d] = {} THEN Named(d)' ELSE Brought(d)'
  <2>1. /\ InRoom(d) /\ room'[d] = room[d] /\ chan'[d] = chan[d] /\ cap'[d] = cap[d]
    BY <1>3 DEF Stays
  <2>2. ASSUME NEW r \in room[d] PROVE rooms'[r].cred = rooms[r].cred
    <3>1. r \in RoomIds /\ room[d] = {r} /\ Exists(r)
      BY <2>1, <2>2, OwnRoom
    <3>2. Exists(r)'
      BY <1>3, <2>1, <3>1 DEF SessionRegistered
    <3>. QED
      BY <3>1, <3>2, RoomsKeep
  <2>3. CASE code[d] = {}
    <3>1. Named(d)
      BY <2>1, <2>3 DEF KeysOK
    <3>. QED
      BY <2>1, <2>2, <2>3, <3>1 DEF Named, Parsed
  <2>4. CASE code[d] # {}
    <3>1. Brought(d)
      BY <2>1, <2>4 DEF KeysOK
    <3>2. Outlived(d) => Outlived(d)'
      BY <2>1 DEF Outlived
    <3>. QED
      BY <2>1, <2>2, <2>4, <3>1, <3>2 DEF Brought
  <2>. QED
    BY <2>3, <2>4
<1>. QED
  BY <1>1, <1>2, <1>3 DEF KeysOK

(* The steps of the client. *)
LEMMA KeysClient ==
  ASSUME LoginInv, [LoginNext]_loginVars, NEW c \in Conns, Client(c) \/ User(c)
  PROVE  KeysOK(c)'
<1>. /\ LoginTypeOK /\ RoomInv /\ ClientsOK /\ TypeOK /\ KeysOK(c) /\ OneChoice(c)
     /\ Paired(c) /\ Consistent(c) /\ \A t \in Tokens : BlobOK(t)
  BY TypesSplit DEF LoginInv, KeyInv, OwnInv, ChoiceInv, OwnOK
<1>u. UNCHANGED <<phase, room, chan, cap>> => Stays(c)
  BY DEF Stays, InRoom
<1>1. ASSUME NEW k \in RoomKeys, Choose(c, k) PROVE KeysOK(c)'
  <2>1. /\ at[c] = "waiting" /\ line[c] = "rooms" /\ UNCHANGED <<phase, code>>
        /\ keys'[c] = {k}
        /\ action'[c] # "CREATE" => k.room \in seen[c]
    BY <1>1 DEF Choose, Reads, Says, vars, connVars, ClientsOK
  <2>2. phase[c] \in {"command", "closed"} /\ code[c] = {}
    BY <2>1 DEF Paired, Consistent, LoginLines, Nothing
  <2>3. seen[c] \subseteq RoomIds
    BY DEF ClientsOK
  <2>. QED
    BY <2>1, <2>2, <2>3 DEF KeysOK, InRoom, Early
<1>2. ASSUME NEW t \in Tokens, Redeem(c, t) PROVE KeysOK(c)'
  <2>1. /\ at[c] = "start" /\ t \in minted /\ code'[c] = {t}
        /\ UNCHANGED <<phase, keys, minted, action>>
    BY <1>2 DEF Redeem, Opens, Says, vars, connVars, inviteVars, ClientsOK
  <2>2. phase[c] = "idle" /\ keys[c] = {}
    BY <2>1 DEF Consistent
  <2>. QED
    BY <2>1, <2>2 DEF KeysOK, InRoom
<1>3. CASE OpenBlob(c)
  <2>1. /\ at[c] = "waiting" /\ line[c] = "invite_ok" /\ keys'[c] = OpenInviteBlob(c)
        /\ UNCHANGED <<phase, room, minted, code, blob>>
    BY <1>3 DEF OpenBlob, Reads, Says, vars, connVars, inviteVars, codeVars, ClientsOK
  <2>2. phase[c] \in {"ready", "closed"}
    BY <2>1 DEF Paired, Nothing
  <2>3. OpenInviteBlob(c)' = OpenInviteBlob(c)
    BY <2>1 DEF OpenInviteBlob
  <2>4. \A k \in OpenInviteBlob(c) : k.room \in RoomIds
    BY DEF OpenInviteBlob, BlobOK, ClientsOK
  <2>. QED
    BY <2>1, <2>2, <2>3, <2>4 DEF KeysOK, InRoom
<1>4. CASE Dial(c) \/ HangUp(c) \/ ProveAuth(c) \/ Prove(c) \/ Accept(c) \/ Refused(c) \/ Closed(c)
  <2>1. UNCHANGED <<phase, room, chan, cap, code, keys, action>>
    BY <1>4 DEF Dial, HangUp, ProveAuth, Prove, Accept, Refused, Closed, Opens, Says,
       choiceVars, vars, connVars
  <2>. QED
    BY <2>1, <1>u, KeysCarried
<1>5. ASSUME NEW t \in Tokens, Invite(c, t) PROVE KeysOK(c)'
  <2>1. UNCHANGED <<phase, room, chan, cap, code, keys, action>>
    BY <1>5 DEF Invite, InviteRequest, choiceVars, connVars
  <2>. QED
    BY <2>1, <1>u, KeysCarried
<1>. QED
  BY <1>1, <1>2, <1>3, <1>4, <1>5 DEF Client, User

(* The steps of the task. *)
LEMMA KeysServe ==
  ASSUME LoginInv, [LoginNext]_loginVars, NEW c \in Conns, Serve(c) \/ ServeEnd(c)
  PROVE  KeysOK(c)'
<1>. /\ LoginTypeOK /\ RoomInv /\ Settled /\ ClientsOK /\ TypeOK /\ KeysOK(c) /\ OneChoice(c)
     /\ Consistent(c) /\ \A t \in Tokens : BlobOK(t)
  BY TypesSplit DEF LoginInv, RoomInv, KeyInv, OwnInv, ChoiceInv, OwnOK
<1>. /\ phase \in [Conns -> Phases] /\ room \in [Conns -> SUBSET RoomIds]
     /\ chan \in [Conns -> Nat] /\ cap \in [Conns -> Nat] /\ RoomsTypeOK /\ InvitesTypeOK
     /\ keys[c] \subseteq RoomKeys /\ code[c] \subseteq Tokens
  BY DEF TypeOK, ConnTypeOK, ClientsOK
<1>k. UNCHANGED <<code, keys, action>>
  BY DEF Serve, ServeLogin, ServeCommand, ServeInvite, ServeSession, ServeEnd, choiceVars
<1>m. minted \subseteq minted' /\ \A t \in minted : blob'[t] = blob[t] /\ origin'[t] = origin[t]
  BY MintedKeep
<1>1. CASE Stays(c)
  BY <1>1, <1>k, KeysCarried
<1>n. ASSUME NEW k \in keys[c], phase[c] = "command", phase'[c] = "entering",
             room'[c] = {Parsed(k).room}, rooms'[Parsed(k).room].cred = Parsed(k).cred,
             k.room \notin RoomIds => cap'[c] = chan'[c]
      PROVE  KeysOK(c)'
  <2>1. code[c] = {}
    BY <1>n DEF Consistent
  <2>2. Named(c)'
    BY <1>k, <1>n DEF Named, Parsed
  <2>. QED
    BY <1>k, <1>n, <2>1, <2>2 DEF KeysOK, InRoom, Early
<1>2. ASSUME NEW k \in keys[c], CreateCommand(c, Parsed(k).room, Parsed(k).cred) PROVE KeysOK(c)'
  <2>1. Parsed(k).room \in RoomIds
    BY ParsedFields
  <2>2. /\ phase[c] = "command" /\ phase'[c] = "entering" /\ room'[c] = {Parsed(k).room}
        /\ rooms'[Parsed(k).room].cred = Parsed(k).cred /\ cap'[c] = chan'[c]
    BY <1>2, <2>1 DEF CreateCommand, Goto, CreateRoom, RoomsTypeOK
  <2>. QED
    BY <1>n, <2>2
<1>3. ASSUME NEW k \in keys[c], action[c] # "CREATE",
             JoinCommand(c, Parsed(k).room, Parsed(k).cred)
      PROVE  KeysOK(c)'
  <2>0. k.room \in RoomIds
    BY <1>3 DEF KeysOK
  <2>1. /\ Parsed(k).room \in RoomIds /\ Exists(Parsed(k).room)
        /\ rooms[Parsed(k).room].cred = Parsed(k).cred
    BY <1>3, ParsedFields DEF JoinCommand, JoinRoom, CanJoin
  <2>2. /\ phase[c] = "command" /\ phase'[c] = "entering" /\ room'[c] = {Parsed(k).room}
        /\ rooms'[Parsed(k).room] = WithMember(Parsed(k).room, c)
    BY <1>3, <2>1 DEF JoinCommand, Goto, JoinRoom, RoomsTypeOK
  <2>3. rooms'[Parsed(k).room].cred = Parsed(k).cred
    BY <2>1, <2>2 DEF WithMember, RoomsTypeOK, RoomInfo, Exists
  <2>. QED
    BY <1>n, <2>0, <2>2, <2>3
<1>4. ASSUME NEW t \in code[c], InviteHello(c, t), CanBegin(t) PROVE KeysOK(c)'
  <2>1. phase'[c] = "proof" /\ room'[c] = {invites[t].room}
    BY <1>4 DEF InviteHello, Goto
  <2>2. invites[t].st # "absent"
    BY <1>4, NormalizedKeeps DEF CanBegin
  <2>3. \A k \in blob[t] : k.room \in room'[c]
    BY <2>1, <2>2 DEF BlobOK
  <2>4. t \in minted /\ \A s \in code[c] : s = t
    BY DEF KeysOK, OneChoice
  <2>5. OpenInviteBlob(c)' = OpenInviteBlob(c)
    BY <1>k, <1>m, <2>4 DEF OpenInviteBlob
  <2>. QED
    BY <1>k, <1>m, <2>1, <2>3, <2>4, <2>5 DEF KeysOK, InRoom
<1>5. ASSUME NEW r \in room[c], phase[c] = "consumed", phase'[c] = "entering",
             AddInvitedMember(r, c), chan'[c] = rooms[r].chan, UNCHANGED room
      PROVE  KeysOK(c)'
  <2>0. r \in RoomIds /\ Exists(r)
    BY <1>5 DEF AddInvitedMember
  <2>1. rooms'[r] = WithMember(r, c)
    BY <1>5, <2>0 DEF AddInvitedMember, RoomsTypeOK
  <2>2. rooms'[r].cred = rooms[r].cred
    BY <2>0, <2>1 DEF WithMember, RoomsTypeOK, RoomInfo, Exists
  <2>3. code[c] # {} /\ code[c] \subseteq minted
    BY <1>5 DEF Consistent, Early, KeysOK
  <2>4. OpenInviteBlob(c)' = OpenInviteBlob(c)
    BY <1>k, <1>m, <2>3 DEF OpenInviteBlob
  <2>5. ASSUME NEW k \in keys[c]
        PROVE  k.room \in room[c] /\ (rooms'[k.room].cred = k.cred \/ Outlived(c)')
    <3>1. PICK t \in code[c] : k \in blob[t]
      BY <2>3 DEF KeysOK, OpenInviteBlob
    <3>2. k.room \in room[c]
      BY <1>5, <3>1 DEF KeysOK, Early
    <3>3. k.room = r
      BY <3>2 DEF Settled, OneRoom
    <3>4. origin[t] = rooms[r].chan => rooms[r].cred = k.cred
      BY <2>0, <3>1, <3>3 DEF BlobOK
    <3>5. origin'[t] = origin[t]
      BY <1>m, <2>3
    <3>6. origin[t] # rooms[r].chan => Outlived(c)'
      BY <1>5, <1>k, <3>5 DEF Outlived
    <3>. QED
      BY <2>2, <3>2, <3>3, <3>4, <3>6
  <2>. QED
    BY <1>5, <1>k, <1>m, <2>3, <2>4, <2>5 DEF KeysOK, InRoom, Early, Brought
<1>6. CASE ServeLogin(c)
  BY <1>1, <1>6 DEF ServeLogin, AuthHello, AuthProof, LoginRefused, Goto, Stays, InRoom, Early
<1>7. CASE ServeCommand(c)
  <2>1. LoginRefused(c) => Stays(c)
    BY DEF LoginRefused, Stays, InRoom, Early
  <2>. QED
    BY <1>1, <1>2, <1>3, <1>7, <2>1 DEF ServeCommand, Declined
<1>8. CASE ServeInvite(c)
  <2>1. ASSUME NEW t \in code[c], InviteHello(c, t), ~CanBegin(t) PROVE Stays(c)
    BY <2>1 DEF InviteHello, Goto, Stays, InRoom, Early
  <2>2. InviteProof(c) => Stays(c)
    BY DEF InviteProof, Goto, Stays, InRoom, Early
  <2>3. InviteReady(c) => Stays(c)
    BY DEF InviteReady, Goto, Stays, InRoom, Early
  <2>4. EnterInvited(c) =>
          \/ Stays(c)
          \/ \E r \in room[c] : /\ phase[c] = "consumed" /\ phase'[c] = "entering"
                                /\ AddInvitedMember(r, c) /\ chan'[c] = rooms[r].chan
                                /\ UNCHANGED room
    BY DEF EnterInvited, Goto, Stays, InRoom, Early
  <2>. QED
    BY <1>1, <1>4, <1>5, <1>8, <2>1, <2>2, <2>3, <2>4 DEF ServeInvite
<1>9. CASE ServeSession(c)
  BY <1>1, <1>9 DEF ServeSession, SessionOk, AnnounceMembers, Goto, Stays, InRoom, Early
<1>10. CASE ServeEnd(c)
  BY <1>1, <1>10 DEF ServeEnd, LoginRefused, InviteAborted, InviteIoError, SessionOkLost,
     Leave, Goto, Stays, InRoom, Early
<1>. QED
  BY <1>6, <1>7, <1>8, <1>9, <1>10 DEF Serve

LEMMA KeysStep ==
  ASSUME LoginInv, [LoginNext]_loginVars, NEW d \in Conns
  PROVE  KeysOK(d)'
<1>. LoginTypeOK /\ RoomInv
  BY DEF LoginInv
<1>1. CASE TaskUnmoved(d) /\ ClientUnmoved(d)
  BY <1>1, KeysCarried DEF TaskUnmoved, ClientUnmoved, Stays, InRoom
<1>2. CASE UNCHANGED loginVars \/ (ClockTick /\ UNCHANGED clientSide)
  BY <1>1, <1>2 DEF loginVars, ClockTick, vars, connVars, historyVars, clientSide, dialogVars,
     choiceVars, TaskUnmoved, ClientUnmoved
<1>3. ASSUME NEW c \in Conns, Steps(c) PROVE KeysOK(d)'
  BY <1>1, <1>3, KeysClient, KeysServe, ConnectionsApart DEF Steps
<1>. QED
  BY <1>2, <1>3 DEF LoginNext, Steps

-----------------------------------------------------------------------------
LEMMA LoginStart == LoginInit => LoginInv
<1>. SUFFICES ASSUME LoginInit PROVE LoginInv
  OBVIOUS
<1>1. RoomInv /\ TypeOK
  BY RoomInit, InitType DEF LoginInit
<1>2. TokenInv
  BY DEF LoginInit, Init, InvitesInit, TokenInv, Absent
<1>3. ClientsOK
  BY DEF LoginInit, ClientsOK, NoChan, Nothing
<1>4. CapsApart /\ \A c \in Conns : OwnOK(c)
  BY DEF LoginInit, Init, CapsApart, OwnOK, Paired, Consistent, Early, Inside, LoginLines,
     Nothing
<1>5. ChoiceInv /\ \A c \in Conns : KeysOK(c)
  BY DEF LoginInit, Init, ChoiceInv, OneBlob, OneChoice, KeysOK, InRoom
<1>6. \A t \in Tokens : BlobOK(t)
  <2>1. /\ nextChan = 1 /\ \A t \in Tokens : origin[t] = 0 /\ blob[t] = {}
        /\ \A r \in RoomIds : ~Exists(r)
    BY DEF LoginInit, Init, RoomsInit, NoChan, Exists
  <2>2. \A m, n \in Nat : m = 0 /\ n = 1 => m < n
    OBVIOUS
  <2>. QED
    BY <2>1, <2>2 DEF BlobOK
<1>. QED
  BY <1>1, <1>2, <1>3, <1>4, <1>5, <1>6, TypesSplit DEF LoginInv, OwnInv, KeyInv

LEMMA LoginStep == LoginInv /\ [LoginNext]_loginVars => LoginInv'
<1>. SUFFICES ASSUME LoginInv, [LoginNext]_loginVars PROVE LoginInv'
  OBVIOUS
<1>. /\ LoginTypeOK /\ RoomInv /\ TokenInv /\ CapsApart /\ ChoiceInv /\ TypeOK
     /\ \A c \in Conns : OwnOK(c)
  BY TypesSplit DEF LoginInv, OwnInv, KeyInv
<1>0. [Next]_vars
  BY ServerStep
<1>1. RoomInv'
  BY <1>0, SettledStep, MembersStep, OwnerStep, ListStep DEF RoomInv
<1>2. LoginTypeOK'
  <2>1. TypeOK'
    BY <1>1 DEF RoomInv, Settled
  <2>2. ClientsOK'
    BY ClientsStep
  <2>. QED
    BY <2>1, <2>2 DEF LoginTypeOK, ClientsOK
<1>3. TokenInv'
  BY <1>0, TokenStep
<1>4. OwnInv'
  BY <1>0, CapsStep, OwnStep DEF OwnInv
<1>5. KeyInv'
  BY ChoiceStep, BlobStep, KeysStep DEF KeyInv
<1>. QED
  BY <1>1, <1>2, <1>3, <1>4, <1>5 DEF LoginInv

(* Whatever the clients and the tasks do in turn, the invariant holds.     *)
THEOREM LoginInvariance == LoginSpec => []LoginInv
<1>. QED
  BY LoginStart, LoginStep, PTL DEF LoginSpec

(* The composition with the clients is an implementation of the server:    *)
(* what is proved of the server alone holds of it with its clients.        *)
THEOREM ServerWithClients == LoginSpec => Spec
<1>1. LoginInit => Init
  BY DEF LoginInit
<1>2. LoginInv /\ [LoginNext]_loginVars => [Next]_vars
  BY ServerStep DEF LoginInv
<1>. QED
  BY <1>1, <1>2, LoginInvariance, PTL DEF LoginSpec, Spec

(* Both sides of the handshakes keep to their types (connect_and_login and *)
(* handle_client).                                                         *)
THEOREM LoginTypeCorrect == LoginSpec => []LoginTypeOK
BY LoginInvariance, PTL DEF LoginInv

(* The group secret of a room is begun by its creator and nobody else.     *)
THEOREM FoundersAreAlone == LoginSpec => []OneFounder
<1>1. LoginInv => OneFounder
  BY DEF LoginInv, OwnInv, OwnOK, Consistent, CapsApart, OneFounder, Inside
<1>. QED
  BY <1>1, LoginInvariance, PTL

(* A refused client is in no room: handle_password_client and              *)
(* handle_invite_client send their error lines before they enter a member. *)
THEOREM RefusedAreOutside == LoginSpec => []RefusedLeavesNothing
<1>1. LoginInv => RefusedLeavesNothing
  <2>. SUFFICES ASSUME LoginInv, NEW c \in Conns, at[c] = "refused",
                       NEW r \in RoomIds, Exists(r), c \in rooms[r].members
                PROVE  FALSE
    BY DEF RefusedLeavesNothing
  <2>1. phase[c] = "closed" /\ c \notin ghosts
    BY DEF LoginInv, OwnInv, OwnOK, Paired
  <2>2. InRoom(c) \/ c \in ghosts
    BY DEF LoginInv, RoomInv, MembersAccountedFor
  <2>. QED
    BY <2>1, <2>2 DEF InRoom
<1>. QED
  BY <1>1, LoginInvariance, PTL

(* A client in a room holds the keys of that room, unless its invitation   *)
(* was made in an earlier room of that name, or the server read another    *)
(* name than the one it gave (parse_join_command, connect_with_invite).    *)
THEOREM KeysFitTheRoom == LoginSpec => []KeysMatchRoom
<1>1. LoginInv => KeysMatchRoom
  <2>. SUFFICES ASSUME LoginInv, NEW c \in Conns, Entered(c), ~Misread(c), NEW k \in keys[c]
                PROVE  /\ k.room \in room[c]
                       /\ rooms[k.room].cred = k.cred \/ Outlived(c)
    BY DEF KeysMatchRoom
  <2>1. KeysOK(c) /\ OneChoice(c) /\ InRoom(c)
    BY DEF LoginInv, KeyInv, ChoiceInv, Entered, InRoom
  <2>2. Named(c) \/ Brought(c)
    BY <2>1 DEF KeysOK
  <2>3. \A j \in keys[c] : j = k /\ Parsed(j) = j
    BY <2>1 DEF OneChoice, Misread, Parsed
  <2>. QED
    BY <2>2, <2>3 DEF Named, Brought
<1>. QED
  BY <1>1, LoginInvariance, PTL

(* The room that came of a name of several words has the credential of no  *)
(* key: its creator shares it with nobody but the bearers of invitations   *)
(* that an earlier room of that name made (join_room, create_invite_blob). *)
THEOREM MisreadRoomsAreShut == LoginSpec => []MisreadRoomIsShut
<1>1. LoginInv => MisreadRoomIsShut
  <2>. SUFFICES ASSUME LoginInv, NEW c \in Conns, NEW d \in Conns,
                       Entered(c), Misread(c), InRoom(d), chan[c] = chan[d]
                PROVE  cap[c] = chan[c] /\ (c = d \/ Outlived(d))
    BY DEF MisreadRoomIsShut
  <2>. /\ KeysOK(c) /\ OneChoice(c) /\ InRoom(c) /\ KeysOK(d) /\ OneChoice(d)
       /\ Settled /\ ClientsOK /\ CapsApart /\ ChannelsApart /\ RoomsTypeOK
       /\ \A t \in Tokens : BlobOK(t)
    BY TypesSplit DEF LoginInv, KeyInv, OwnInv, ChoiceInv, RoomInv, OwnerInv, Settled, TypeOK,
       Entered, InRoom
  <2>. /\ keys[c] \subseteq RoomKeys /\ keys[d] \subseteq RoomKeys
       /\ code[c] \subseteq Tokens /\ code[d] \subseteq Tokens
    BY DEF ClientsOK
  <2>0. PICK k \in keys[c] : k.room \in DOMAIN Words
    BY DEF Misread
  <2>1. k.room \notin RoomIds /\ Parsed(k).cred \notin Derived
    BY <2>0, ParsedFields
  <2>2. code[c] = {}
    <3>1. \A t \in Tokens : k \notin blob[t]
      BY <2>1 DEF BlobOK
    <3>. QED
      BY <3>1 DEF KeysOK, OpenInviteBlob
  <2>3. PICK j \in keys[c] : /\ Parsed(j).room \in room[c]
                             /\ rooms[Parsed(j).room].cred = Parsed(j).cred
                             /\ j.room \notin RoomIds => cap[c] = chan[c]
    BY <2>2 DEF KeysOK, Named
  <2>4. j = k
    BY DEF OneChoice
  <2>. DEFINE r == Parsed(k).room
  <2>5. /\ r \in RoomIds /\ Exists(r) /\ rooms[r].chan = chan[c]
        /\ rooms[r].cred \notin Derived /\ cap[c] = chan[c]
    BY <2>1, <2>3, <2>4, OwnRoom
  <2>6. chan[c] # NoChan
    BY <2>5 DEF RoomsTypeOK, RoomInfo, Exists
  <2>7. PICK q \in room[d] : q \in RoomIds /\ Exists(q) /\ rooms[q].chan = chan[d]
    BY OwnRoom DEF Settled, SessionRegistered
  <2>8. q = r /\ room[d] = {r}
    BY <2>5, <2>7, OwnRoom DEF ChannelsApart
  <2>9. CASE code[d] = {}
    <3>1. PICK i \in keys[d] : /\ Parsed(i).room \in room[d]
                               /\ rooms[Parsed(i).room].cred = Parsed(i).cred
                               /\ i.room \notin RoomIds => cap[d] = chan[d]
      BY <2>9 DEF KeysOK, Named
    <3>2. Parsed(i).cred \notin Derived
      BY <2>5, <2>8, <3>1
    <3>3. cap[d] = chan[d]
      BY <3>1, <3>2, ParsedFields
    <3>. QED
      BY <2>5, <2>6, <3>3 DEF CapsApart
  <2>10. CASE code[d] # {}
    <3>1. PICK t \in code[d] : TRUE
      BY <2>10
    <3>2. origin[t] # rooms[r].chan
      BY <2>5 DEF BlobOK
    <3>. QED
      BY <2>5, <3>1, <3>2 DEF Outlived
  <2>. QED
    BY <2>9, <2>10
<1>. QED
  BY <1>1, LoginInvariance, PTL
=============================================================================
