# MIST_V, specified

A TLA+ model of the chat system in this repository: a relay server that keeps
rooms and one-time invitations in memory, and clients that run the room's end
to end encryption among themselves. TLC checks the models on small instances,
TLAPS proves every safety property of the passing runs for every value of the
constants, the agreement after a rekey under the two conditions named there.
Source lines below are those of the repository (`src/...`); the full table from
definitions to lines is `map` in `PROJECT.json`.

## The system

| part | state | operations | talks to |
|---|---|---|---|
| room table (`server/room.rs`) | name -> broadcast channels, join credential, members, owner, owner capability, under one mutex | `create_room`, `join_room`, `add_invited_member`, `RoomGuard::drop`, `broadcast_member_list` | connection tasks |
| invite table (`server/invite.rs`) | token -> unused / pending(nonces, until) / used, room, expiry, under one mutex | insert, begin, reset, consume, lazy normalisation | connection tasks |
| broadcast (`server/broadcast.rs`) | two tokio broadcast channels of 500 events per room, high and low | send, recv, lag | connection tasks |
| connection tasks (`server/connection.rs`) | where the handshake is, transport keys, room, capability | password login, invite login, room loop, invite request | all of the above, the client's socket |
| client handshake (`client/handshake.rs`) | room and key the user named, CREATE or JOIN, invitation | dial, choose, redeem, accept | user, connection task |
| group crypto (`crypto/core.rs`) | epoch, roster, X25519 keys, pending transition, chains | `replace_members`, `apply_key_announce`, `build_pending_epoch_commit`, `apply_epoch_commit`, `activate_epoch` | UI thread and network task, one mutex |
| message chains (`crypto/core.rs`) | next number, skipped keys, old epochs | `encrypt_message`, `decrypt_message`, clean-up | as above |
| client loop (`client/app.rs`, `client/receiver.rs`) | messages not drained, kept commits, trigger flag | `drain_messages`, `trigger_phase2_actions` every 200 ms or key | network task, through two unbounded queues |
| network task (`client/network.rs`, `transport/`) | send queue, ACK registry, invite registry, uploads | send with ACK and retry, reader task, heartbeat | socket, client loop |
| attachments (`attachments/`) | upload job and window, files under assembly, store | pump, register, append, store | network task, client loop |
| interface, formats, safety code, utilities | local | pure functions and I/O | - |

What makes it hard: the connection tasks interleave at every await and every
mutex; a room can die and be born again under the same name while handshakes
for it are under way; invitations expire lazily; slow readers lose events; a
rekey is a protocol among clients without a leader, whose messages cross with
the member lists of the server and wait in each client's own queues; messages
are reordered between two lanes and sent again by a transport that retries.

What makes each part correct:
- rooms: a session is registered in the room it thinks it is in; a room lives
  exactly as long as its members; ownership ends with the owner.
- invitations: one admission per token.
- login: who is in a room holds its keys; one client founds a group; a refusal
  leaves nothing behind.
- broadcast: every client that loses nothing converges to the same member list;
  order per lane; attachments yield to texts.
- network task: what is confirmed was relayed, once and in order; an answer
  reaches the request it belongs to; every line ends.
- attachments: the window accounts for every chunk; done means that the server has
  the whole file, and no receiver keeps a part of one; a file is stored once, and
  only as it was hashed; the queue never stands still.
- rekey: one secret per epoch, held by that epoch's roster only; epochs advance
  by one; a rekey ends with everybody in the new epoch; a text that crosses it
  is read by those it was meant for.
- chains: each message opened once, late ones within limits, keys bounded and
  expiring.

## Modules

| module | models | proofs |
|---|---|---|
| `ServerBase` | constants of the server | |
| `Rooms` | the room table; each operation is one critical section | in `ServerProofs` |
| `Invites` | the invite table and its clock | in `ServerProofs` |
| `Broadcast` | the channels of a room | in `ServerProofs` |
| `Server` | connection tasks over the three; `MCServer` instantiates it | `ServerProofs` |
| `Login` | over `Server`: the clients' side of the handshakes; implements `Server`; `MCLogin` instantiates it | `LoginProofs` |
| `GroupCrypto` | `GroupCryptoState` as pure operators on a record | in `GroupEpochProofs` |
| `GroupEpoch` | clients and relay around it; implements `Rekey` where changes do not overlap; `MCGroupEpoch` instantiates it | `GroupEpochProofs` |
| `Rekey` | abstract: the room moves from epoch to epoch as a whole | in `GroupEpochProofs` |
| `GroupTexts` | over `GroupEpoch`: texts that cross a rekey; `MCGroupTexts` instantiates it | `GroupTextsProofs` |
| `RecvChain` | the chains of one sender at one receiver | `RecvChainProofs` |
| `Transport` | one client's connection: sequence numbers, replay window, ACKs | in `NetworkTaskProofs`, `UploadsProofs` |
| `PacketSend` | over `Transport`: packets that wait for their ACK | in `NetworkTaskProofs` |
| `NetworkTask` | over `PacketSend`: the client's loop, its invite requests, the server's answers; implements `Delivery` | `NetworkTaskProofs` |
| `Delivery` | abstract: what the network task promises | `DeliveryProofs` |
| `Uploads` | over `Transport`: the queue of attachments, sender to receiver; `MCUploads` instantiates it | `UploadsProofs` |

**Rooms, Invites, Broadcast, Server.** A connection is its own member id and
its own nonce pair (both are random in the code). The channel of a room and the
owner capability are drawn together when a room is created, so one fresh number
stands for both; two rooms of the same name have different numbers. `phase[c]`
is the await at which the task of `c` stands; each action runs from one await
or lock to the next. What merges more than one step: `SessionOk` (sending
"joined" and subscribing, which no other step of the models can tell apart),
`Leave` (dropping the receivers, "left", and the locked part of
`RoomGuard::drop`) and `InviteRequest` (the check under the room mutex and the
insertion under the invite mutex: the requester is a live member, so its room
cannot go in between). `announced`, `admitted`, `ghosts` and `lagged` are
history. Whatever ends a password login before it is in a room (the hello, the
proof or the command missing, unreadable or refused, an I/O error) is one action.

A session looks at its channels in the order of the biased `select!` of
`enter_room_loop`, and these are two looks, each under the lock of its channel:
`HighEmpty` finds nothing in the high channel and puts the connection in `polled`,
and only `DeliverLow` or `LowEmpty` takes it out again. In between others may send
in either channel. The packets and requests of the session itself, and its end, are
other branches of the same task, so they have to wait for the second look.

**Login.** Each server action is the one of `Server`, taken when the line it
reads is under way; the client's actions are what lies between two reads. The
two sides take turns, so one line per connection is enough. A password login is
hello, challenge, proof and banner, and the proof may be of the wrong password
(`ServeLogin`). A connection may break anywhere: the client hangs up and its last
line may be lost (`HangUp`), the task ends through an error and what it wrote last
may still arrive (`ServeEnd`), and a client that waits for a line of a task that
has returned reads the end of the stream, an error like any other (`Closed`).

The client puts the name of a room into its command as the user typed it, and
`parse_join_command` splits that at white space. A name of several words is
therefore another name at the server, and its second word stands where the
credential should be: `Words` says what the server makes of such a name, `Parsed`
applies it. `Derived` are the credentials that come from a key; an HMAC is never a
word somebody typed. Such a name is never in the banner, so the client always sends
CREATE.

The user's choices (room, key, invitation, when to leave) are free. A connection is
one attempt; the client that comes back is another connection. Clients are this
program's clients: lines it never sends are the subject of `Server` alone. Delivery of
events is left to `Server` too; it changes nothing a handshake looks at.

**GroupCrypto, GroupEpoch.** A key is the generation of its owner's X25519
pair, a secret is its author and draw, a roster hash is the roster: the
primitives are ideal. `Hash` is the order in which `proposer_order` ranks
candidates; TLC uses an order that rotates with every input, the proofs any
function of them. The inbox of a client joins the server's
high channel and the client's receive queue; the outbox is the queue between UI
thread and network task. Nothing is lost, and each client sees events in the
order of the channel. With `Batched` a drain and its trigger are one go, as in
the UI loop: this is exact, because a drain touches only the client's own state
and never sees the limit of 128 lines here. `Slow` says whose network task may
keep a line waiting; the others send at once. `Overlap` says whether members may
come and go while a rekey is under way.

**Rekey.** What a change of the roster comes to, without lists, announces,
proposers and queues. A room is founded in an epoch of its own; a member joins or
leaves only while all are together in the epoch of the present roster; then one
member opens the next epoch, with the next number and a secret never drawn before,
for exactly those who are in, and the others follow it one by one, none past it.
`GroupEpoch` implements it: `Group == INSTANCE Rekey WITH room <- entered, at <- At,
opened <- EpochsOpened`. `At` is the epoch number and secret each client holds,
with the roster its commit names; `EpochsOpened` are the commits issued. `Enter`
maps to `Found` or `Join`, `Leave` to `Leave`, a trigger that proposes to `Open`,
an accepted commit to `Follow`; enrolling, sending and every other line is a
stutter. `MovesAsOne == Group!Spec` is a property of `epoch_lockstep` and a theorem
under the same conditions. With `Overlap` it is false, as `epoch_split_brain` shows.

**GroupTexts.** A text is typed into the same outbox as key announces and
commits, but it is encrypted when the network task takes it, with the epoch the
UI thread has by then activated; it travels in the high lane with everything
else and is opened with what its reader has when it comes to it. `GroupTexts`
takes the steps of `GroupEpoch` unchanged and adds the text, the old epochs a
client keeps (`activate_epoch`) and, as history, the secrets each member ever
had. One copy of one text for one reader is on its way at a time: texts do not
change the state of a rekey, and a copy does not touch another but for the
numbers of the chain, which are the subject of `RecvChain`. A reader whose loop
drains in one go reads a text as soon as it is at the head of its inbox
(`Reading`), since nothing the others do until then changes what it makes of it.
Old epochs expire after 300 seconds in the code; nothing takes that long here,
and `KeysExpire` has the expiry.

**RecvChain.** A chain is one-way, so its state is the number of the next key
and the keys set aside. The sender's messages may be lost, opened late and
repeated in any order. The code trims after each key it sets aside; the numbers
grow, so trimming once at the end comes to the same.

**Transport, PacketSend, NetworkTask.** The stream keeps its order until it
breaks; what may be late is the other end. `Transport` holds what both kinds of
sending share. `PacketSend` follows `send_transport_payload_with_ack` await by
await, so that the reader task may mark an ACK between the look (`Poll`) and the
sleep (`Arm`) of `wait_for_ack`, where its wake-up is lost; subscribing and
writing are one action, since before the first write no ACK can come and later
the waiter is there already. `NetworkTask` is the loop around it: one line at a
time, and after the ACK of an invite request the wait for its answer, with the
same window between look and sleep. Answers and ACKs share the stream, so an
answer knows how many ACKs are before it. Heartbeats only take sequence numbers;
a failed one ends the task, which is part of `End`.

**Delivery.** The promise of the network task without lines, ACKs, repetitions,
timers and wake-ups: the server passes packets on in the order they were
entered; a sender is told "ok" only of one that was passed on, and "failed" at
any time; a request that was confirmed is answered with its own answer or fails.
`NetworkTask` implements it: `Promise == INSTANCE Delivery WITH
handed <- relayed, told <- outcome` (`shown` and `granted` have the same names),
and `Delivers == Promise!Spec` is a property of the run. Every step of the lines,
the reader and the timers maps to a stutter; the write that the server takes in
as fresh maps to `HandOver`, the end of a send to `Confirm` or `GiveUp`, the end
of a wait to `Answer`.

**Uploads.** One client's queue of attachments through `pump_attachment_upload`:
a file is taken from the queue and prepared by a task of its own, beside the
upload under way; a failed preparation is reported and the queue goes on; the
prepared job sends its manifest, and once that is acknowledged its chunks, a
window at a time. One action is one turn of a loop of
`process_attachment_window`, so the reader task may mark ACKs in between. Unlike
a text, a packet sent again is sealed anew, so the server takes it for a new one
and relays it again. A file on disk is hashed when it is prepared and read when
its chunks are sent, and measured before either: its size, its hash and its chunks
may be of different contents (`MayChange`, in `Prepare` and in `ReadChunk`), and then
it is in `torn`; an empty file may be, too, since it is measured and hashed apart.
`told` is the state of the transfer bar. The receiver opens a manifest once
(`RecvChain` shows why). Or it cannot open it: the one that `decrypt_message` refuses,
because the receiver is not yet in its epoch or does not know its sender, is dropped
without a trace, and the file is `missed` until the manifest is sent again and opened.
Which of the two, `Uploads` leaves open; when a text can be opened is the subject of
`GroupTexts`. Chunks without an assembly are ignored, and a file that is not what was
hashed is refused.
Time enters as `late`: the scan looks at each packet's time once, so it is
enough to let it go by before a scan, and a scan with nothing to do is left out.
ACKs that nobody will ask for again are not kept, which no step can tell. What
the user types is taken between two calls of the pump (`Resting`), as in the
`select!` of `chat_loop`. Every file is sent once.

## Runs

| run | instance | what it shows |
|---|---|---|
| `server_admission` | 3 connections (symmetric), 1 room name, 2 credentials, 1 token, token life 2, reservation 1, clock to 3, queues of 2 | registration, accounting, single use and ownership under every interleaving of two logins; the member lists broadcast are right, and who lost nothing shows the last |
| `server_packets` | 2 connections, 3 packets, queues of 2, fair | the clients of a room agree on its members in the end; order of each lane with overflow, no echo, one attachment at most ahead of the texts that wait |
| `server_ghost` | 2 connections | **violation**: the ghost member |
| `login` | 3 connections (symmetric), 1 room name and one of two words, 2 keys (symmetric), 1 token, token life 1, reservation 1, clock to 1 | keys match the room, a misread room is shut, one founder, clean refusals |
| `login_spaced_name` | 2 connections, 1 room name and one of two words, 1 key | **violation**: a room with a space in its name |
| `epoch_lockstep` | 4 members, 3 seats, up to 4 leaves, 2 groups (proposer orders), drains in one go, nobody slow | each rekey ends in agreement; implements `Rekey` |
| `epoch_texts` | 3 members, 3 seats, one slow, who also writes texts | one secret per transition, secrets stay in the roster, epochs advance by one; a text that crosses a rekey is opened by exactly those who came to its epoch and still list its sender |
| `epoch_stale_key` | the same without texts | **violation**: the stale key |
| `epoch_split_brain` | 3 members, 1 leave, changes overlap | **violation**: two secrets in one epoch |
| `recv_chain` | MaxSkip 2, TTL 1, 2 epochs of 5 messages, clock to 2 | opening, late messages, bounds and expiry |
| `network_task` | 3 packets, 2 of them invite requests, up to 3 writes each (the code's limit), replay window of 1 | implements `Delivery`; the table of requests is clean; ACKs are noticed; every line ends |
| `uploads` | a file of 2 chunks and an empty one, both on disk, window of 2, 2 attempts, lane of 2, replay window of 1 | accounting of the window, delivery or a file nobody could open, no part kept, one copy stored, every file of the queue ends |

Why the bounds are enough. Three connections are a room, a second member and
one more that races with either; one room name is what makes names collide, and
a room may be created up to three times. One token is shared by three
connections, so reservations meet, expire and are given back; the clock runs
past the token's life. Queues of two events overflow with three members,
and with three packets. Three packets are a text and two attachments, the least that
tells one attachment ahead of the text from two. `server_packets` has two connections
because what a third can do to the lists is in `server_admission`: in every state the
last list is right (`MemberListBounds`), and who has read all events shows it
(`ViewsConverge`); what is left to `ViewsAgreeEventually` is that the events are read,
in the company of packets.
Three members are the least with a proposer, a joiner and a witness. In
`epoch_lockstep` a fourth comes when one of three has left, so rosters of every
size grow and shrink again, and the order turns with the epoch and the change, so
that each candidate is at some time the first. Two skipped keys are the least that
can be trimmed from either end; five messages step over the limit and back.
A replay window of one
is the hardest case: it shows that the code's 1024 is never needed, because the
network task repeats a line before it seals another. Two chunks in a window of
two are acknowledged, lost and repeated in every order and leave the vector from
either end while it is scanned; what follows a full window was also checked with
three chunks, which takes too long to be kept with the liveness property. An
empty file is the other branch of manifest and assembly; a lane of two overflows.
Two requests are the least where a late answer can meet the next request. In
`login` three clients are an owner, the creator of the next room of that name
and the holder of an old invitation; the third may also be late with a CREATE, or
meet a room that was misread. How long tokens live is the subject of
`server_admission`, so the clock of `login` makes one step, which is enough for a
reservation to end.
Symmetry is used in `server_admission` (connections) and `login` (connections and
keys) only, with no liveness.

Mutants. Every property of a passing run has a mutant: an operator beside the
one it changes, marked "Mutant of", with a plausible mistake for which TLC finds
the property violated under the same configuration.

`CHECK_DEADLOCK FALSE` everywhere: every client may leave for good and the
bounded inputs end, so a state with no successor is a proper end.

Fairness. `server_packets` assumes that the task of a live connection is scheduled:
it announces itself (`AnnounceMembers`) and goes on looking at its channels and
writing what it finds (`Receive`). Tokio polls a task whose socket or channel is
ready; the write to the client has no timeout, so this also assumes a client that
keeps reading its socket. `epoch_lockstep` assumes that the UI
loop drains and triggers (it wakes every 200 ms) and that the network task sends
what is in its queue. `network_task` assumes that the network task runs and its
timers fire (4.5 s for an ACK, 5 s for an invite answer); `uploads` that the pump
is called (every 5 ms while there is something to send), that a preparation ends,
and that time goes by when the pump has nothing to do. Neither assumes anything of the server, the
reader task or the connection. No fairness is assumed for joins, leaves, refusals or time.

## Disagreements found

1. `server_ghost`. The member is inserted before SESSION_OK is written
   (`server/connection.rs:455`) and `RoomGuard` is built after. If the write
   fails, nobody removes the member. PRINCIPLE.md:63 says a room ends with the
   presence of its members. `MembersAccountedFor` shows this is the only leak.
2. `epoch_stale_key`. `apply_key_announce` (`crypto/core.rs:430`) checks the MAC
   over the epoch of an announce but never compares that epoch. A late announce
   becomes the sender's key in the receiver's new epoch; the true one is then
   refused, and the next commit is wrapped for a key that is gone. README.md:349
   says each member unwraps its secret and activates the new epoch. It takes
   three seats and a line that waits at its sender: `MembersActivate` proves the
   agreement for rooms of two whatever waits, and for larger rooms whose clients
   send at once.
3. `epoch_split_brain`. `replace_members` (`crypto/core.rs:368`) overwrites the
   pending transition. A joiner that leaves while its commit is on the way makes
   another member propose the leave in the same epoch; both commits lead to the
   same epoch number with different secrets. README.md:315-317 describes one
   group secret per epoch.
4. `login_spaced_name`. The prompt for a room takes a name with a space in it
   (`client/handshake.rs:323-357`), `finish_password_room_join` puts it into the command
   as it is (`:252`), and `parse_join_command` (`server/connection.rs:384-391`) takes
   the first word for the room and the second for the credential. README.md:303 and
   :309 say that the server gets the room_id and the join_credential, an HMAC of the
   key; it gets neither. `MisreadRoomIsShut` shows how it ends: the creator sits in
   a room of another name that nobody can enter with any key, and cannot invite
   anybody either, since its client asks for a room it is not in.

One thing is no disagreement, because no document speaks of it, but is good to
know: an invitation outlives its room. If the room ends and another client
creates one of the same name, the holder of the invitation is let in
(`add_invited_member` looks the room up by name, `server/room.rs:117`) with the
old room's credential, so its announces fail the MAC of the others and it never
gets a group secret. `KeysMatchRoom` shows that, but for the names of several words
above, this is the only way into a room without its keys.

## Proofs

`tlapm` proves, with SMT, Zenon and PTL only, each statement for every value of
the constants. "Inductive" names the formula that the proof carries from state
to state; each of them was first checked by TLC on the instance of its run.

**The server** (`ServerProofs`).

| theorem | statement | argument |
|---|---|---|
| `TypeCorrect` | `Spec => []TypeOK` | one step per action; that no queue exceeds its capacity is part of it |
| `SessionsRegistered` | `Spec => []SessionRegistered` | inductive with the types and the freshness of channels: every channel in use is below the next one, so a name created anew cannot be taken for the old room; a member leaves the table only by its own `Leave` |
| `TokensAreSingleUse` | `Spec => []SingleUse` | once admitted, a token is used or absent and was drawn; `InsertInviteToken` draws new tokens only, so it never becomes unused again |
| `RoomInvariance` | `Spec => []RoomInv` | every step either leaves the rooms alone or creates, enters, loses, announces or leaves (`StepMoves`), and each of the five keeps each part of `RoomInv` |
| `NoMemberLeaks` | `Spec => []MembersAccountedFor` | in `RoomInv`, with `OneRoom` (nobody is in two rooms) and `GhostsClosed` |
| `OwnershipStays` | `Spec => []OwnershipCoherent` | two rooms have two channels (`ChannelsApart`), a capability is older than the next channel (`CapsOK`), and only the owner has the room's (`Owned`); the owner is a member, maybe a ghost |
| `ListsBounded` | `Spec => []MemberListBounds` | in `RoomInv`: `Leave` announces, and so does the session right after it enters |
| `PacketsInOrder` | `Spec => []DeliveredInOrder` | what a client got and what waits for it rise in each lane (`Rising`); losing the oldest keeps it |
| `TextsFirst` | `Spec => []AttachmentsYield` | from the same `LaneInv`: of the attachments a client got, one at most was sent after a text that waits for it (`OneOvertakes`), and none as long as the task is between its two looks (`polled`), when it may take one |
| `ClientsConverge` | `Spec => []ViewsConverge` | a client on a channel that lost nothing will show the last list of its room when it comes to the end of its queue (`WillShow`) |

**The handshakes** (`LoginProofs`).

| theorem | statement | argument |
|---|---|---|
| `LoginInvariance` | `LoginSpec => []LoginInv` | the place of a client, the place of its task and the line between them are one of a few combinations (`Paired`, `Consistent`); a choice or an invitation is made once (`OneChoice`, `OneBlob`); the credential of an invitation is that of the room it was drawn in (`BlobOK`) |
| `ServerWithClients` | `LoginSpec => Spec` | every step of the composition is a step of `Server` or leaves it alone, so the theorems above hold of it |
| `LoginTypeCorrect`, `RefusedAreOutside` | `LoginTypeOK`, `RefusedLeavesNothing` | from `LoginInv`; the latter with `MembersAccountedFor` |
| `FoundersAreAlone` | `LoginSpec => []OneFounder` | a founder has the capability of its room, and no two connections have the same (`CapsApart`) |
| `KeysFitTheRoom` | `LoginSpec => []KeysMatchRoom` | a member has the credential its room was created with, or came with a blob of an earlier room of the name, or gave a name of several words (`KeysOK`) |
| `MisreadRoomsAreShut` | `LoginSpec => []MisreadRoomIsShut` | a misread room has a second word for its credential, which no key yields (`Derived`), so nobody joins it; an invitation to it would come from its owner, who asks for a room it is not in |

**The group secrets** (`GroupEpochProofs`, `GroupTextsProofs`).

| theorem | statement | argument |
|---|---|---|
| `Invariance` | `Spec => []Inv` | `Inv` ties the state of every client to the commits issued: commits in flight, kept or applied are issued ones; a member with a secret has it from a commit that names it; a commit's author has left its epoch, so one author issues one commit per epoch |
| `EpochTypeCorrect`, `SecretsStay` | `TypeOK`, `SecretsStayInRoster` | from `Inv` |
| `OneSecret` | `Spec => []OneSecretPerTransition` | the proposer of a transition is a function of group, epoch and transition, and an author issues one commit per epoch |
| `EpochsAdvance` | `Spec => EpochsAdvanceByOne` | from `Inv`: a commit that a member of an epoch accepts is for the next one |
| `MembersActivate` | `Ranked, Orderly` prove `Spec => []EveryMemberActivates` | inductive as `OrderlyInv`, below |
| `OneSecretAnEpoch` | `Ranked, Orderly` prove `Spec => []OneSecretPerEpoch` | `OrderlyInv` gives all members of the room the epoch and the secret they have, or a commit to the one they will have; the step that opens an epoch finds nobody in it |
| `GroupMovesAsOne` | `Ranked, Orderly` prove `Spec => MovesAsOne` | with `RostersNamed`: the secret a client holds was drawn for the roster it lists, or, while a change is pending, for the one before. A change of the roster finds no client with anything left to do, hence all in one epoch (`Together`); each other step of a client keeps its epoch, opens the next or follows a commit issued |
| `TextInvariance` | `TextSpec => []TextInv` | `Inv`, kept by the texts because they touch only themselves, with what the history says: a client knows the chains of exactly the secrets it had (`HistoryOK`), and a text bears the secret its author had (`TextOK`) |
| `RekeyUndisturbed`, `EpochsAdvanceWithTexts` | the four properties above, of `TextSpec` | the same lemmas |
| `RoomsMoveWithTexts` | `Ranked, Orderly` prove of `TextSpec` what the three theorems above say of `Spec` | a step of the texts leaves the rekey alone, every other is a step of `GroupEpoch` |
| `TextsAreReadable` | `TextSpec => []TextsReadable` | a reader opens a text with the state of its epoch, current or old; both directions follow from `HistoryOK` and `TextOK` |

`EveryMemberActivates` speaks only of states in which nothing is under way, so the
invariant must say how far a rekey has come at any time in between. `OrderlyInv`
does so in two steps. It first looks at each client as it will be once it has
drained the member list at the head of its inbox, if there is one (`Views`, and
`Lines` for what is left to come, `Stirred` for whether it will trigger); the list
of a change reaches all at once, so that in these views they all learn of it in the
same step. Of the views there are two cases (`Phase`). `Closing`: there are an epoch and
a secret such that each client has reached them, or has the one commit that gives
it, and will accept it, still among its lines. `Opening`: all know of one and the same transition,
nobody has proposed, and the proposer of its order has the current key of every
member or a line that brings it, and triggers when it has the last. With three seats or
more `Closing` must also say that the keys exchanged within the new epoch are
those of the new epoch (`KeysCurrent`): of a client that has yet to draw its key
nobody has one. `Frame` holds the bookkeeping, such as that no commit is ever kept
for later here.

The two hypotheses are conditions on the constants. `Ranked`: `Hash` yields
numbers. `Orderly`: changes do not overlap, and the room has two seats, or clients
drain before they trigger and send at once. Without the first part of `Orderly` two
secrets meet in one epoch (`epoch_split_brain`); without the second an old key
outlives its epoch (`epoch_stale_key`). So these theorems describe rooms at an
ordinary pace, and the two violations say where the pace begins to matter.

**The chains** (`RecvChainProofs`).

| theorem | statement | argument |
|---|---|---|
| `Invariance`, `ChainTypeCorrect`, `OneOpening` | `TypeOK`, `OpenedOnce` | a number at or above the next one was never opened; a skipped key belongs to a number never opened; opening removes the key or passes the number |
| `KeysExpireInTime` | `Spec => KeysExpire` | every skipped key expires TTL after the chain passed its number |
| `ChainsAreBounded` | `Spec => []KeysBounded` | keys of one chain have different numbers, so that trimming to the latest MaxSkip leaves as many numbers as keys |
| `LateMessagesAreReadable` | `Spec => []LateMessagesReadable` | inductive as `KeepsEnough`: the key of every message not yet opened, in time and at most MaxSkip + 1 behind is there |

**The network task** (`NetworkTaskProofs`, `DeliveryProofs`).

| theorem | statement | argument |
|---|---|---|
| `Invariance`, `TaskTypeCorrect` | `Spec => []Inv` | the lines on the wire repeat their predecessor or follow it and lead from what the server expects to what the client sealed (`WireOK`); the line at hand is the last sealed (`LineOK`); outcomes before it are settled (`OrderOK`); ACKs and answers are of what was passed on (`AcksOK`, `AnswersOK`) |
| `LinesOpen` | `Spec => []EveryLineOpens` | from `WireOK`: what is repeated is the last line accepted, which any window of one or more still knows |
| `PendingCurrent` | `Spec => []PendingIsCurrent` | part of `Inv` |
| `AckInTimeNoticed` | `Spec => AckNoticed` | `Poll` and the look after the wait both read the table, which an ACK in time has reached; a repetition whose write fails ends without a look, and is excepted |
| `Refinement` | `Spec => Delivers` | initial states map to initial states; the server's reading of a fresh line maps to `HandOver`, the end of a send to `Confirm` or `GiveUp`, the end of a wait to `Answer`, every other step to a stutter |
| `DeliveryTypes`, `DeliveryInOrder`, `DeliveryConfirmed`, `DeliveryAnswers` | of `Delivery`, under `PacketsInOrder` | `HandOver` adds the next packet and what was passed on only grows; an answer is shown only of a request that was confirmed, hence passed on, so that the server cannot change its mind about it later |
| `ToldIsTrue` | the last three, of `NetworkTask` | `Refinement` and the theorems about `Delivery`, whose hypothesis the assumptions imply |

**The uploads** (`UploadsProofs`).

| theorem | statement | argument |
|---|---|---|
| `UploadInvariance`, `UploadTypeCorrect` | `Spec => []Inv`, `[]TypeOK` | each file is ahead, queued, prepared, under way or over (`QueueOK`); every line is sealed anew, so the server opens each as fresh (`SealsOK`); what is on the wire, at the server or acknowledged was sent, and a manifest before its chunks (`SentOK`); on the wire and in the lane no manifest follows a chunk of its file (`OrderOK`); an assembly holds what reached the server and ends once (`AssemblyOK`) |
| `WindowCounts` | `Spec => []WindowAccounts` | the chunks in the window rise (`FlightOK`), so the map from places to chunks is a bijection |
| `ManifestLeads` | `Spec => []ManifestFirst` | in the lane of a receiver that lost nothing, a chunk stands behind its manifest or a manifest came, opened or not (`LaneOK`) |
| `DoneMeansDelivered` | `Spec => []DoneIsDelivered` | done needs every chunk acknowledged, hence at the server; with an empty lane all of it was taken (`LaneOK`). No manifest comes after a chunk (`OrderOK`), so either one was opened before the first chunk, and the assembly got them all and is over, or none was, and there is nothing; a file that is over is not read again, so `torn` stands |
| `StoredAtMostOnce` | `Spec => []StoredOnce` | `AssemblyOK`: an assembly that is over is never begun again |

Assumptions are the named `ASSUME`s of the modules: TTLs and bounds are naturals,
capacities positive, packets and files are positive numbers in the order they are
entered, and `NoConn` and `NoRoom` are no values of their types. TLC evaluates them in the
runs. Nothing is assumed of `Hash`: where candidates tie, all clients choose the same.
`Ranked` and `Orderly` are no assumptions of the modules but hypotheses of the
theorems that name them; `epoch_lockstep` is an instance that meets both.

Only model-checked:
- The liveness properties `ViewsAgreeEventually`, `RekeyCompletes`, `LineEnds` and
  `UploadsEnd`, which the provers cannot reach. `RekeyCompletes` is the other half
  of `EveryMemberActivates`: that the messages of a rekey are handled at some time.
- What the four violations show, on one instance each.

## Not modelled

- The terminal interface (`ui/`, `client/input.rs`), the safety code and the
  line formats: one thread over local state, or pure functions, covered by the
  unit tests. The models carry a line as what its parser returns.
- The local server (`client/local_server.rs`): finds addresses, starts a process
  and waits for its port; what it starts is `Server`.
- The attachment store (`attachments/store.rs`): each call is local file I/O
  under one lock and succeeds or fails (`unstored`). Its temporary plaintext is
  removed by a thread that sleeps and deletes; nothing else looks at it.
- The sender's own copy of a file that is done: read again from disk, and a
  failure is only a notice.
- The end of a session in the middle of uploads: the tasks are aborted with the
  process.
- Loss between server and clients during a rekey: a client that falls 500 events
  behind in the high lane has in effect lost the group; `ViewsConverge` has the
  lists, `GroupEpoch` loses nothing.
- A write that blocks because the server stopped reading: the stream takes every
  line here, so `UploadsEnd` and `LineEnds` say nothing of it.

## Plan

- An abstract specification of the room table and the invite table as the
  clients see them, implemented by `Server`.
