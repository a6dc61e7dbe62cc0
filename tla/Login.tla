------------------------------- MODULE Login --------------------------------
(***************************************************************************)
(* The two handshakes from the client's side (src/client/handshake.rs),    *)
(* composed with the connection tasks of Server.  A connection stands for  *)
(* one attempt of a client to enter; a client that tries again is another  *)
(* connection.  The two sides take turns, so one line at most is under way *)
(* on a connection.  It may break at any time: either side may notice      *)
(* first, and the line under way may be lost with it.                      *)
(*                                                                         *)
(* A user may give a room a name of several words.  The command that       *)
(* carries it is split into words by the server, which takes the first for *)
(* the name and the second for the join credential.                        *)
(***************************************************************************)
EXTENDS Server

CONSTANTS
  Derived,    \* the join credentials that room and key yield (an HMAC)
  Words       \* names of several words -> what the server makes of them

ASSUME WordsAssumption ==
  /\ Derived \subseteq Creds
  /\ DOMAIN Words \cap RoomIds = {}
  /\ Words \in [DOMAIN Words -> [room : RoomIds, cred : Creds \ Derived]]

VARIABLES
  at,       \* connection -> what its client does
  line,     \* connection -> the handshake line under way
  seen,     \* connection -> the room names of the banner ROOMS
  code,     \* connection -> the set holding the token of its invitation
  action,   \* connection -> CREATE, JOIN or, for an invitation, none
  keys,     \* connection -> the set holding the RoomCryptoState of its client
  secret,   \* connection -> the group state its client begins with
  blob,     \* token -> the set holding what its invite blob encloses
  origin    \* history: token -> the channel of the room that asked for it

dialogVars == <<at, line>>
choiceVars == <<seen, code, action, keys, secret>>
codeVars == <<blob, origin>>
clientSide == <<dialogVars, choiceVars, codeVars>>
loginVars == <<vars, clientSide>>

RoomKeys == [room : RoomIds \cup DOMAIN Words, cred : Derived]

ToServer == {"auth_hello", "auth_proof", "wrong_proof", "command",
             "hello", "proof", "ready"}
ToClient == {"auth_challenge", "rooms", "challenge", "invite_ok",
             "session_ok", "error"}
Nothing == "nothing"

LoginTypeOK ==
  /\ TypeOK
  /\ at \in [Conns -> {"start", "waiting", "chat", "refused", "gone"}]
  /\ line \in [Conns -> ToServer \cup ToClient \cup {Nothing}]
  /\ seen \in [Conns -> SUBSET RoomIds]
  /\ code \in [Conns -> SUBSET Tokens]
  /\ action \in [Conns -> {"none", "CREATE", "JOIN"}]
  /\ keys \in [Conns -> SUBSET RoomKeys]
  /\ secret \in [Conns -> {"none", "pending", "active"}]
  /\ blob \in [Tokens -> SUBSET RoomKeys]
  /\ origin \in [Tokens -> Nat]

LoginInit ==
  /\ Init
  /\ at = [c \in Conns |-> "start"]
  /\ line = [c \in Conns |-> Nothing]
  /\ seen = [c \in Conns |-> {}]
  /\ code = [c \in Conns |-> {}]
  /\ action = [c \in Conns |-> "none"]
  /\ keys = [c \in Conns |-> {}]
  /\ secret = [c \in Conns |-> "none"]
  /\ blob = [t \in Tokens |-> {}]
  /\ origin = [t \in Tokens |-> NoChan]

-----------------------------------------------------------------------------
(* The client.                                                             *)

Says(c, what) ==
  /\ line' = [line EXCEPT ![c] = what]
  /\ UNCHANGED <<vars, codeVars>>

Reads(c, what) == at[c] = "waiting" /\ line[c] = what

(* initial_serveraddr: the user picks a server or pastes an invitation, and *)
(* the client says its first line.                                         *)
Opens(c, what) ==
  /\ at[c] = "start"
  /\ at' = [at EXCEPT ![c] = "waiting"]
  /\ Says(c, what)

(* start_password_session: the hello, and a proof of the password that the *)
(* user gave, which may be wrong.                                          *)
Dial(c) ==
  /\ Opens(c, "auth_hello")
  /\ UNCHANGED choiceVars

ProveAuth(c) ==
  /\ Reads(c, "auth_challenge")
  /\ \E proof \in {"auth_proof", "wrong_proof"} : Says(c, proof)
  /\ UNCHANGED <<at, choiceVars>>

(* prompt_session_selection and the command of finish_password_room_join:  *)
(* the user names a room and its key; whether that is a JOIN or a CREATE   *)
(* is read off the banner, however old it is by now.                       *)
Choose(c, k) ==
  /\ Reads(c, "rooms")
  /\ Says(c, "command")
  /\ action' = [action EXCEPT ![c] = IF k.room \in seen[c] THEN "JOIN" ELSE "CREATE"]
  /\ keys' = [keys EXCEPT ![c] = {k}]
  /\ UNCHANGED <<at, seen, code, secret>>

(* connect_with_invite, with an invitation somebody passed on. *)
Redeem(c, t) ==
  /\ t \in minted
  /\ Opens(c, "hello")
  /\ code' = [code EXCEPT ![c] = {t}]
  /\ UNCHANGED <<seen, action, keys, secret>>

Prove(c) ==
  /\ Reads(c, "challenge")
  /\ Says(c, "proof")
  /\ UNCHANGED <<at, choiceVars>>

(* open_invite_blob: the key for it is in the invitation. *)
OpenInviteBlob(c) == UNION {blob[t] : t \in code[c]}

(* INVITE_OK brings the blob.  The client takes room and credential from   *)
(* it; the room the server names is not looked at.                         *)
OpenBlob(c) ==
  /\ Reads(c, "invite_ok")
  /\ Says(c, "ready")
  /\ keys' = [keys EXCEPT ![c] = OpenInviteBlob(c)]
  /\ UNCHANGED <<at, seen, code, action, secret>>

(* Mutant of Begun: whoever saw no such room takes it for its own. *)
BegunUnseen(c) ==
  IF \A k \in keys[c] : k.room \notin seen[c] THEN "active" ELSE "pending"

(* new_single_epoch for a CREATE, new_pending_epoch for all the others. *)
Begun(c) == IF action[c] = "CREATE" THEN "active" ELSE "pending"

(* SESSION_OK: the client makes its group state and enters the room. *)
Accept(c) ==
  /\ Reads(c, "session_ok")
  /\ Says(c, Nothing)
  /\ at' = [at EXCEPT ![c] = "chat"]
  /\ secret' = [secret EXCEPT ![c] = Begun(c)]
  /\ UNCHANGED <<seen, code, action, keys>>

(* An error line: the client goes back to the choice of a server. *)
Refused(c) ==
  /\ Reads(c, "error")
  /\ Says(c, Nothing)
  /\ at' = [at EXCEPT ![c] = "refused"]
  /\ UNCHANGED choiceVars

(* The end of the stream, or a broken connection: an error as well, while  *)
(* logging in (ok_or_else and ? after every next_line) and in the room.    *)
Closed(c) ==
  /\ at[c] \in {"waiting", "chat"}
  /\ phase[c] \in {"closed", "left"}
  /\ line[c] \notin ToClient
  /\ Says(c, Nothing)
  /\ at' = [at EXCEPT ![c] = "gone"]
  /\ UNCHANGED choiceVars

(* The user leaves or the connection breaks.  The last line may still      *)
(* reach the server.                                                       *)
HangUp(c) ==
  /\ at[c] \in {"waiting", "chat"}
  /\ at' = [at EXCEPT ![c] = "gone"]
  /\ \E last \in {line[c], Nothing} :
       last \in ToServer \cup {Nothing} /\ Says(c, last)
  /\ UNCHANGED choiceVars

-----------------------------------------------------------------------------
(* The server.  Each action is the one of Server for the line it reads.    *)

Answers(c, what) ==
  /\ line' = [line EXCEPT ![c] = IF at[c] = "gone" THEN Nothing ELSE what]
  /\ UNCHANGED at

(* The password handshake: the challenge, and the banner or BadAuth. *)
ServeLogin(c) ==
  /\ UNCHANGED <<code, action, keys, secret, codeVars>>
  /\ \/ /\ line[c] = "auth_hello"
        /\ AuthHello(c)
        /\ Answers(c, "auth_challenge")
        /\ UNCHANGED seen
     \/ /\ line[c] = "auth_proof"
        /\ AuthProof(c)
        /\ Answers(c, "rooms")
        /\ seen' = [seen EXCEPT ![c] = {r \in RoomIds : Exists(r)}]
     \/ /\ line[c] = "wrong_proof"
        /\ LoginRefused(c)
        /\ Answers(c, "error")
        /\ UNCHANGED seen

(* Mutant of Declined: the member is inserted before its credential is     *)
(* compared.                                                               *)
DeclinedLate(c, k) ==
  /\ Goto(c, "command", "closed")
  /\ rooms' = [rooms EXCEPT ![k.room] = WithMember(k.room, c)]
  /\ room' = [room EXCEPT ![c] = {k.room}]
  /\ UNCHANGED <<nextChan, inviteVars, queueVars, clientVars, historyVars,
                 token, chan, cap>>

Declined(c, k) == LoginRefused(c)

(* What the server reads in the command of a client with the keys k. *)
Parsed(k) == IF k.room \in DOMAIN Words THEN Words[k.room] ELSE k

(* parse_join_command and what follows it. *)
ServeCommand(c) ==
  /\ line[c] = "command"
  /\ UNCHANGED <<choiceVars, codeVars>>
  /\ \E k \in {Parsed(j) : j \in keys[c]} :
       IF action[c] = "CREATE"
       THEN \/ CreateCommand(c, k.room, k.cred) /\ Answers(c, Nothing)
            \/ Exists(k.room) /\ Declined(c, k) /\ Answers(c, "error")
       ELSE \/ JoinCommand(c, k.room, k.cred) /\ Answers(c, Nothing)
            \/ ~CanJoin(k.room, k.cred) /\ Declined(c, k) /\ Answers(c, "error")

(* A step of handle_invite_client: what was read, and what is answered if  *)
(* the task goes on and if it refuses.                                     *)
ServeInvite(c) ==
  /\ UNCHANGED <<choiceVars, codeVars>>
  /\ \/ /\ line[c] = "hello"
        /\ \E t \in code[c] : InviteHello(c, t)
        /\ Answers(c, IF phase'[c] = "closed" THEN "error" ELSE "challenge")
     \/ /\ line[c] = "proof"
        /\ InviteProof(c)
        /\ Answers(c, "invite_ok")
     \/ /\ line[c] = "ready"
        /\ InviteReady(c)
        /\ Answers(c, IF phase'[c] = "closed" THEN "error" ELSE Nothing)
     \/ /\ EnterInvited(c)
        /\ Answers(c, IF phase'[c] = "closed" THEN "error" ELSE Nothing)

ServeSession(c) ==
  /\ UNCHANGED <<choiceVars, codeVars>>
  /\ \/ SessionOk(c) /\ Answers(c, "session_ok")
     \/ AnnounceMembers(c) /\ UNCHANGED dialogVars

(* The client is gone or the connection breaks: a read or a write fails.   *)
(* What the server wrote before may still reach the client.                *)
ServeEnd(c) ==
  /\ at[c] # "start"
  /\ \/ LoginRefused(c) \/ InviteAborted(c) \/ InviteIoError(c)
     \/ SessionOkLost(c) \/ Leave(c)
  /\ \E last \in {line[c], Nothing} :
       last \notin ToServer /\ line' = [line EXCEPT ![c] = last]
  /\ UNCHANGED <<at, choiceVars, codeVars>>

(* create_invite_blob: room and credential of the client that asks. *)
CreateInviteBlob(c) == keys[c]

(* The user of a client that has a capability asks for an invitation.  The *)
(* request and its answer are the subject of NetworkTask.                  *)
Invite(c, t) ==
  /\ at[c] = "chat"
  /\ cap[c] # NoChan
  /\ \E k \in keys[c] : InviteRequest(c, k.room, cap[c], t)
  /\ blob' = [blob EXCEPT ![t] = CreateInviteBlob(c)]
  /\ origin' = [origin EXCEPT ![t] = chan[c]]
  /\ UNCHANGED <<dialogVars, choiceVars>>

-----------------------------------------------------------------------------
Client(c) ==
  \/ ProveAuth(c) \/ Prove(c) \/ OpenBlob(c)
  \/ Accept(c) \/ Refused(c) \/ Closed(c)

User(c) ==
  \/ Dial(c) \/ HangUp(c)
  \/ \E k \in RoomKeys : Choose(c, k)
  \/ \E t \in Tokens : Redeem(c, t) \/ Invite(c, t)

Serve(c) == ServeLogin(c) \/ ServeCommand(c) \/ ServeInvite(c) \/ ServeSession(c)

LoginNext ==
  \/ ClockTick /\ UNCHANGED clientSide
  \/ \E c \in Conns : Client(c) \/ User(c) \/ Serve(c) \/ ServeEnd(c)

LoginSpec == LoginInit /\ [][LoginNext]_loginVars

-----------------------------------------------------------------------------
(* Properties.                                                             *)

(* Its invitation was made in an earlier room of the same name. *)
Outlived(c) == \E t \in code[c] : origin[t] # chan[c]

(* The server read another name than the user gave. *)
Misread(c) == \E k \in keys[c] : k.room \in DOMAIN Words

Entered(c) == at[c] = "chat" /\ phase[c] \in {"joined", "session"}

(* A client in a room holds the keys of that room, whatever became of the  *)
(* name since it read the banner or got its invitation.  There are two     *)
(* exceptions, of the code's making: a name of several words, and an       *)
(* invitation that outlives its room and leads into the next one of that   *)
(* name, whose keys are not in its blob.                                   *)
KeysMatchRoom ==
  \A c \in Conns : Entered(c) /\ ~Misread(c) =>
    \A k \in keys[c] : /\ k.room \in room[c]
                       /\ rooms[k.room].cred = k.cred \/ Outlived(c)

(* Who gave a room a name of several words sits there alone: nobody comes  *)
(* in by name and key, nor by an invitation made there.                    *)
MisreadRoomIsShut ==
  \A c, d \in Conns :
    /\ Entered(c) /\ Misread(c) /\ InRoom(d) /\ chan[c] = chan[d]
    => /\ cap[c] = chan[c]
       /\ c = d \/ Outlived(d)

(* The group secret of epoch 0 is drawn by one client of a room, the one   *)
(* that created it: two clients that both missed each other's room in the  *)
(* banner do not both begin a group.                                       *)
OneFounder ==
  \A c, d \in Conns :
    /\ secret[c] = "active" => cap[c] = chan[c]
    /\ secret[c] = "active" /\ secret[d] = "active" /\ chan[c] = chan[d] => c = d

(* A client that was refused left nothing behind: it is in no room. *)
RefusedLeavesNothing ==
  \A c \in Conns : at[c] = "refused" =>
    \A r \in RoomIds : Exists(r) => c \notin rooms[r].members

(* A client that logged in by password is in the room it named. *)
EntersNamedRoom ==
  \A c \in Conns : Entered(c) /\ code[c] = {} =>
    \A k \in keys[c] : k.room \in room[c]
=============================================================================
