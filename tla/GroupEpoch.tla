----------------------------- MODULE GroupEpoch -----------------------------
(***************************************************************************)
(* The rekey of a room: the clients (client/app.rs, client/receiver.rs)    *)
(* around GroupCryptoState, and as much of the server as they see.         *)
(*                                                                         *)
(* The server sends each event to the high channel of every session of the *)
(* room at once, so each client has one inbox, fed in the order of the     *)
(* channel.  A client has one outbox, the queue between its UI thread and  *)
(* its network task.  Nothing is lost on the way here.                     *)
(***************************************************************************)
EXTENDS GroupCrypto

CONSTANTS
  Seats,    \* bound on the members of the room at one time
  MaxLeaves, \* bound on the members who leave
  Overlap,  \* whether members come and go while a rekey is under way
  Batched,  \* whether a UI loop drains its inbox and triggers in one go
  Slow      \* the members whose network task may keep a line waiting while
            \* others move; the others send at once

ASSUME RoomAssumption ==
  /\ Seats \in Nat \ {0}
  /\ MaxLeaves \in Nat
  /\ Overlap \in BOOLEAN
  /\ Batched \in BOOLEAN
  /\ Slow \subseteq Members

VARIABLES
  roster,   \* the members in the server's room table
  entered,  \* those whose session subscribed to the room
  left,     \* those who left
  crypto,   \* member -> its GroupCryptoState
  queued,   \* member -> the commits it keeps to try again
  arrivals, \* member -> number of the commits it ever kept
  due,      \* member -> whether phase2_action_needed is set
  inbox,    \* member -> the events it has not yet drained
  outbox,   \* member -> the lines its network task has not yet sent
  turn,     \* the client whose UI loop is under way, if Batched
  drawn,    \* member -> number of the secrets it drew for commits
  issued    \* history: the commits built

serverVars == <<roster, entered, left>>
vars == <<serverVars, crypto, queued, arrivals, due, inbox, outbox, turn,
          drawn, issued>>

Lists == [kind : {"list"}, members : SUBSET Members]
Messages == Lists \cup Announces \cup Commits

TypeOK ==
  /\ roster \subseteq Members
  /\ entered \subseteq roster
  /\ left \subseteq Members \ roster
  /\ crypto \in [Members -> CryptoStates]
  /\ queued \in [Members -> SUBSET Kept]
  /\ arrivals \in [Members -> Nat]
  /\ due \in [Members -> BOOLEAN]
  /\ inbox \in [Members -> Seq(Messages)]
  /\ outbox \in [Members -> Seq(Messages)]
  /\ turn \subseteq Members
  /\ drawn \in [Members -> Nat]
  /\ issued \subseteq Commits

Init ==
  /\ roster = {}
  /\ entered = {}
  /\ left = {}
  /\ \E g \in GroupIds : crypto = [m \in Members |-> NewPendingEpoch(g, m)]
  /\ queued = [m \in Members |-> {}]
  /\ arrivals = [m \in Members |-> 0]
  /\ due = [m \in Members |-> FALSE]
  /\ inbox = [m \in Members |-> <<>>]
  /\ outbox = [m \in Members |-> <<>>]
  /\ turn = {}
  /\ drawn = [m \in Members |-> 0]
  /\ issued = {}

(* Nobody is on the way in, and no client has anything left to do. *)
Quiescent ==
  /\ roster = entered
  /\ \A m \in entered : inbox[m] = <<>> /\ outbox[m] = <<>> /\ ~due[m]

(* No client outside S is in the middle of a drain, and no line is kept    *)
(* waiting that must not be.                                               *)
Undisturbed(S) ==
  /\ turn \subseteq S
  /\ \A m \in Members \ Slow : outbox[m] = <<>>

MayChange == Undisturbed({}) /\ (Overlap \/ Quiescent)

Broadcast(to, msg) ==
  [m \in Members |-> IF m \in to THEN Append(inbox[m], msg) ELSE inbox[m]]

ListOf(S) == [kind |-> "list", members |-> S]

-----------------------------------------------------------------------------
(* The server inserts m: it creates the room, or joins it. *)
Enroll(m) ==
  /\ MayChange
  /\ m \notin roster \cup left
  /\ Cardinality(roster) < Seats
  /\ roster = {} => left = {}
  /\ roster' = roster \cup {m}
  /\ crypto' = IF roster = {}
               THEN [crypto EXCEPT ![m] = NewSingleEpoch(@.group, m)]
               ELSE crypto
  /\ UNCHANGED <<entered, left, queued, arrivals, due, inbox, outbox, turn,
                 drawn, issued>>

(* The session of m subscribes and the list goes to all; the client starts *)
(* by announcing its key (app.rs, before the UI loop).                     *)
Enter(m) ==
  /\ Undisturbed({})
  /\ m \in roster \ entered
  /\ entered' = entered \cup {m}
  /\ inbox' = Broadcast(entered', ListOf(roster))
  /\ outbox' = [outbox EXCEPT ![m] = <<LocalKeyAnnounce(crypto[m])>>]
  /\ UNCHANGED <<roster, left, crypto, queued, arrivals, due, turn,
                 drawn, issued>>

(* Mutant of Leave: the session stays subscribed. *)
LeaveStaySubscribed(m) ==
  /\ MayChange
  /\ m \in entered
  /\ Cardinality(left) < MaxLeaves
  /\ roster' = roster \ {m}
  /\ left' = left \cup {m}
  /\ inbox' = Broadcast(entered, ListOf(roster'))
  /\ UNCHANGED <<entered, crypto, queued, arrivals, due, outbox, turn,
                 drawn, issued>>

(* The session of m ends, and all that is on its way to or from it. *)
Leave(m) ==
  /\ MayChange
  /\ m \in entered
  /\ Cardinality(left) < MaxLeaves
  /\ roster' = roster \ {m}
  /\ entered' = entered \ {m}
  /\ left' = left \cup {m}
  /\ inbox' = [Broadcast(entered', ListOf(roster')) EXCEPT ![m] = <<>>]
  /\ outbox' = [outbox EXCEPT ![m] = <<>>]
  /\ queued' = [queued EXCEPT ![m] = {}]
  /\ due' = [due EXCEPT ![m] = FALSE]
  /\ UNCHANGED <<crypto, arrivals, turn, drawn, issued>>

-----------------------------------------------------------------------------
(* retry_pending_epoch_commits, on state s.  Applying a commit ends the    *)
(* transition, so one pass applies at most one, and drops what it makes    *)
(* stale after it.                                                         *)
Retry(m, s) ==
  LET hits == {k \in queued[m] : Accepts(s, k.commit)}
  IN \/ /\ hits = {}
        /\ crypto' = [crypto EXCEPT ![m] = s]
        /\ queued' = [queued EXCEPT ![m] = {k \in @ : ~Ignores(s, k.commit)}]
     \/ \E k \in hits :
          LET after == ApplyEpochCommit(s, k.commit)
          IN /\ \A h \in hits : k.at <= h.at
             /\ crypto' = [crypto EXCEPT ![m] = after]
             /\ queued' = [queued EXCEPT ![m] =
                  {h \in @ : \/ h.at < k.at
                             \/ h.at > k.at /\ ~Ignores(after, h.commit)}]

(* drain_messages, one line.  A member list always asks for a trigger. *)
ReceiveList(m, msg) ==
  /\ msg.kind = "list"
  /\ Retry(m, ReplaceMembers(crypto[m], msg.members))
  /\ due' = [due EXCEPT ![m] = TRUE]
  /\ UNCHANGED arrivals

(* A key that is new, or a commit it lets in, asks for one. *)
ReceiveAnnounce(m, msg) ==
  /\ msg.kind = "announce"
  /\ Retry(m, ApplyKeyAnnounce(crypto[m], msg))
  /\ due' = [due EXCEPT ![m] = @ \/ crypto'[m] # crypto[m]]
  /\ UNCHANGED arrivals

(* A commit that is an error now is kept, and nothing is tried again. *)
ReceiveCommit(m, msg) ==
  /\ msg.kind = "commit"
  /\ \/ /\ Accepts(crypto[m], msg)
        /\ crypto' = [crypto EXCEPT ![m] = ApplyEpochCommit(@, msg)]
        /\ due' = [due EXCEPT ![m] = TRUE]
        /\ UNCHANGED <<queued, arrivals>>
     \/ /\ Ignores(crypto[m], msg)
        /\ UNCHANGED <<crypto, due, queued, arrivals>>
     \/ /\ ~Accepts(crypto[m], msg) /\ ~Ignores(crypto[m], msg)
        /\ queued' = [queued EXCEPT ![m] =
                        QueuePendingCommit(@, arrivals[m] + 1, msg)]
        /\ arrivals' = [arrivals EXCEPT ![m] = @ + 1]
        /\ UNCHANGED <<crypto, due>>

Receive(m) ==
  /\ Undisturbed({m})
  /\ m \in entered
  /\ inbox[m] # <<>>
  /\ LET msg == Head(inbox[m])
     IN ReceiveList(m, msg) \/ ReceiveAnnounce(m, msg) \/ ReceiveCommit(m, msg)
  /\ inbox' = [inbox EXCEPT ![m] = Tail(@)]
  /\ turn' = IF Batched /\ (inbox'[m] # <<>> \/ due'[m]) THEN {m} ELSE {}
  /\ UNCHANGED <<serverVars, outbox, drawn, issued>>

(* A secret nobody has drawn yet. *)
Drawn(m) == [by |-> m, draw |-> drawn[m] + 1]

(* trigger_phase2_actions: announce, and propose if it is this client's    *)
(* turn; a proposer applies its own commit at once and announces again.    *)
Announce(m) ==
  /\ \A t \in crypto[m].pending : ~CanBuild(crypto[m], t)
  /\ outbox' = [outbox EXCEPT ![m] = Append(@, LocalKeyAnnounce(crypto[m]))]
  /\ UNCHANGED <<crypto, drawn, issued>>

Propose(m, t) ==
  LET s     == crypto[m]
      c     == BuildCommit(s, t, Drawn(m))
      after == ApplyEpochCommit(s, c)
  IN /\ CanBuild(s, t)
     /\ crypto' = [crypto EXCEPT ![m] = after]
     /\ outbox' = [outbox EXCEPT ![m] =
          @ \o <<LocalKeyAnnounce(s), c, LocalKeyAnnounce(after)>>]
     /\ drawn' = [drawn EXCEPT ![m] = @ + 1]
     /\ issued' = issued \cup {c}

Trigger(m) ==
  /\ Undisturbed({m})
  /\ Batched => inbox[m] = <<>>
  /\ m \in entered
  /\ due[m]
  /\ due' = [due EXCEPT ![m] = FALSE]
  /\ turn' = {}
  /\ Announce(m) \/ \E t \in crypto[m].pending : Propose(m, t)
  /\ UNCHANGED <<serverVars, queued, arrivals, inbox>>

(* The network task sends one line and the server relays it. *)
Transmit(m) ==
  /\ turn = {}
  /\ m \in entered
  /\ outbox[m] # <<>>
  /\ outbox' = [outbox EXCEPT ![m] = Tail(@)]
  /\ inbox' = Broadcast(entered \ {m}, Head(outbox[m]))
  /\ UNCHANGED <<serverVars, crypto, queued, arrivals, due, turn, drawn, issued>>

Next == \E m \in Members :
  \/ Enroll(m) \/ Enter(m) \/ Leave(m)
  \/ Receive(m) \/ Trigger(m) \/ Transmit(m)

Spec == Init /\ [][Next]_vars

(* The UI loop drains and triggers at every tick, and the network task     *)
(* sends what it is given.                                                 *)
FairSpec ==
  /\ Spec
  /\ \A m \in Members :
       WF_vars(Receive(m)) /\ WF_vars(Trigger(m)) /\ WF_vars(Transmit(m))

-----------------------------------------------------------------------------
(* Properties.                                                             *)

(* All are in the same epoch with the same secret, and each can read each. *)
Agreed ==
  \A m \in entered :
    /\ Active(crypto[m])
    /\ crypto[m].recv = roster \ {m}
    /\ \A n \in entered : /\ crypto[n].epoch = crypto[m].epoch
                          /\ crypto[n].secret = crypto[m].secret

(* Once the messages of a rekey are handled, every member unwrapped its    *)
(* secret and activated the new epoch.                                     *)
EveryMemberActivates == Quiescent => Agreed

(* A rekey ends: as long as all who are enrolled are in, the group comes   *)
(* back to an agreement again and again.                                   *)
RekeyCompletes == []<>(entered = roster => Agreed)

(* Two members in the same epoch hold the same secret. *)
OneSecretPerEpoch ==
  \A m, n \in entered :
    /\ Active(crypto[m]) /\ Active(crypto[n])
    /\ crypto[m].epoch = crypto[n].epoch
    => crypto[m].secret = crypto[n].secret

(* In one epoch one transition has one secret, whatever the clients saw    *)
(* and in whatever order.                                                  *)
OneSecretPerTransition ==
  \A c, d \in issued :
    c.epoch = d.epoch /\ c.old = d.old /\ c.new = d.new => c.secret = d.secret

(* The commit a member's secret came from. *)
Origins(m) == {c \in issued : c.secret \in crypto[m].secret}

(* A client holds the secret of an epoch only if the commit that opened it *)
(* names the client, and it reads only members that commit names.          *)
SecretsStayInRoster ==
  \A m \in entered : \A x \in crypto[m].secret :
    \/ x = [by |-> m, draw |-> 0] /\ crypto[m].recv = {}
    \/ /\ Origins(m) # {}
       /\ \A c \in Origins(m) :
            m \in c.new /\ crypto[m].recv \subseteq c.new

(* A client that is in an epoch moves to the next one and no other; only a *)
(* joiner comes in at a later epoch; nobody goes back.                     *)
EpochsAdvanceByOne ==
  [][\A m \in Members :
       /\ crypto'[m].epoch >= crypto[m].epoch
       /\ Active(crypto[m]) => crypto'[m].epoch <= crypto[m].epoch + 1]_vars

-----------------------------------------------------------------------------
(* What the rekeys come to. *)

(* The roster for which secret x was drawn, if the commits are C: a client *)
(* that founds a room draws one for itself.                                *)
RosterOf(x, C) ==
  IF x.draw = 0 THEN {x.by} ELSE UNION {c.new : c \in {d \in C : d.secret = x}}

EpochOf(n, x, R) == [number |-> n, secret |-> x, roster |-> R]

(* The epoch that client s is in. *)
EpochIn(s, C) == {EpochOf(s.epoch, x, RosterOf(x, C)) : x \in s.secret}

At == [m \in Members |-> IF m \in entered THEN EpochIn(crypto[m], issued) ELSE {}]

EpochsOpened == {EpochOf(c.epoch + 1, c.secret, c.new) : c \in issued}

Founding == [by : Members, draw : {0}]

Group == INSTANCE Rekey WITH room <- entered, at <- At, opened <- EpochsOpened, First <- Founding

(* Where members come and go one at a time, the whole room moves from one  *)
(* epoch to the next: a change finds all members together in the epoch of  *)
(* their roster, one member opens the next, and the others follow.         *)
MovesAsOne == Group!Spec
=============================================================================
