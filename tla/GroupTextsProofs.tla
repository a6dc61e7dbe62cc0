-------------------------- MODULE GroupTextsProofs --------------------------
(***************************************************************************)
(* Proofs about GroupTexts: what a member opens and what it does not.      *)
(***************************************************************************)
EXTENDS GroupTexts, GroupEpochProofs

(* Event e is a member list with x, or one without. *)
Says(e, x)  == e.kind = "list" /\ x \in e.members
Omits(e, x) == e.kind = "list" /\ x \notin e.members

(* After event i of q, a list without x says that x is gone, and none      *)
(* later has it.                                                           *)
Gone(q, x, i, R) ==
  \A j \in DOMAIN q : i < j /\ Omits(q[j], x) =>
    x \notin R /\ \A k \in DOMAIN q : j < k => ~Says(q[k], x)

(* That holds from where x is first heard of. *)
QueueOK(q, R, G) ==
  \A x \in Members : \A i \in DOMAIN q :
    Says(q[i], x) => x \in G /\ Gone(q, x, i, R)

Ever == roster \cup left

KnowsOK(n) ==
  \A x \in crypto[n].members \ {n} : x \in Ever /\ Gone(inbox[n], x, 0, roster)

(* Whom client n ever shared an epoch with, and lists no more, is gone.    *)
MetOK(n) ==
  \A c \in issued : c.secret \in held[n] => \A x \in c.new \ {n} :
    /\ x \in Ever /\ Gone(inbox[n], x, 0, roster)
    /\ x \notin crypto[n].members =>
         x \notin roster /\ \A k \in DOMAIN inbox[n] : ~Says(inbox[n][k], x)

(* Client n reads with recv those of the epoch of secret x it still lists. *)
Reads(n, x, recv) ==
  \A c \in issued : c.secret = x =>
    \A y \in c.new \ {n} : y \in crypto[n].members => y \in recv

(* An epoch that client n left behind. *)
PastOK(n, o) ==
  /\ o.epoch \in Nat /\ o.epoch < crypto[n].epoch /\ o.secret \in held[n]
  /\ Opened(n, o.secret, o.epoch, o.recv, issued)
  /\ Reads(n, o.secret, o.recv \cap o.members)

HistoryOK(n) ==
  /\ crypto[n].secret \subseteq held[n]
  /\ \A x \in held[n] : x \in crypto[n].secret \/ \E o \in old[n] : o.secret = x
  /\ \A o \in old[n] : PastOK(n, o)
  /\ \A x \in crypto[n].secret : Reads(n, x, crypto[n].recv)
  /\ n \notin Ever => held[n] = {}

TextOK(t) ==
  /\ t \in [by : Members, epoch : Nat, secret : Secrets, to : Members, behind : Nat]
  /\ t.by # t.to
  /\ Opened(t.by, t.secret, t.epoch, {}, issued)

OutboxOK ==
  \A n \in Members : \A i \in DOMAIN outbox[n] : outbox[n][i].kind # "list"

TextInv ==
  /\ Inv
  /\ OutboxOK
  /\ \A n \in Members : QueueOK(inbox[n], roster, Ever)
  /\ \A n \in Members : KnowsOK(n) /\ MetOK(n) /\ HistoryOK(n)
  /\ \A t \in texts : TextOK(t)

-----------------------------------------------------------------------------
(* The events of a client, and the rosters they tell of.                   *)

(* How the events waiting for a client change: one is read, all are lost   *)
(* with the session, or one is added, a list being that of roster R.       *)
Flows(q, r, R) ==
  \/ r = q
  \/ r = <<>>
  \/ q # <<>> /\ r = Tail(q)
  \/ \E e \in Messages : r = Append(q, e) /\ (e.kind = "list" => e.members = R)

LEMMA Lengthened ==
  ASSUME NEW n \in Nat, NEW k \in 1 .. n + 1
  PROVE  k \in Nat /\ (k = n + 1 \/ k \in 1 .. n)
  OBVIOUS

LEMMA Earlier ==
  ASSUME NEW n \in Nat, NEW b \in 1 .. n, NEW a \in 1 .. n + 1, a < b
  PROVE  a \in 1 .. n
  OBVIOUS

LEMMA GoneStays ==
  ASSUME NEW q \in Seq(Messages), NEW r, NEW R, NEW S, Flows(q, r, S),
         NEW x, NEW i \in Nat, NEW j \in Nat, Gone(q, x, i, R), x \in S => x \in R,
         IF q # <<>> /\ r = Tail(q) THEN j >= i - 1 ELSE j >= i
  PROVE  Gone(r, x, j, S)
  <1> SUFFICES ASSUME NEW a \in DOMAIN r, j < a, Omits(r[a], x)
               PROVE  x \notin S /\ \A b \in DOMAIN r : a < b => ~Says(r[b], x)
    BY DEF Gone
  <1>1. CASE r = <<>>
    BY <1>1
  <1>2. CASE q # <<>> /\ r = Tail(q)
    <2>1. /\ a \in Nat /\ Len(q) \in Nat /\ a + 1 \in DOMAIN q /\ r[a] = q[a + 1]
          /\ i < a + 1
      BY <1>2
    <2>2. x \notin R /\ \A k \in DOMAIN q : a + 1 < k => ~Says(q[k], x)
      BY <2>1 DEF Gone
    <2>3. ASSUME NEW b \in DOMAIN r, a < b PROVE ~Says(r[b], x)
      <3>1. b \in Nat /\ b + 1 \in DOMAIN q /\ r[b] = q[b + 1] /\ a + 1 < b + 1
        BY <1>2, <2>1, <2>3
      <3> QED
        BY <2>2, <3>1
    <2> QED
      BY <2>2, <2>3
  <1>3. CASE r = q /\ ~(q # <<>> /\ r = Tail(q))
    <2>1. a \in DOMAIN q /\ i < a /\ Omits(q[a], x)
      BY <1>3
    <2> QED
      BY <1>3, <2>1 DEF Gone
  <1>4. CASE /\ \E e \in Messages : r = Append(q, e) /\ (e.kind = "list" => e.members = S)
             /\ ~(q # <<>> /\ r = Tail(q))
    <2>1. PICK e \in Messages : r = Append(q, e) /\ (e.kind = "list" => e.members = S)
      BY <1>4
    <2>2. /\ Len(q) \in Nat /\ DOMAIN r = 1 .. Len(q) + 1 /\ DOMAIN q = 1 .. Len(q)
          /\ r[Len(q) + 1] = e /\ \A k \in DOMAIN q : r[k] = q[k]
      BY <2>1
    <2>6. \A k \in DOMAIN r : k \in Nat /\ (k = Len(q) + 1 \/ k \in DOMAIN q)
      BY <2>2, Lengthened
    <2>5. a \in Nat /\ i < a
      <3>1. i <= j /\ a \in Nat
        BY <1>4, <2>6
      <3> QED
        BY <3>1
    <2>3. x \notin S
      <3>1. CASE a = Len(q) + 1
        BY <2>1, <2>2, <3>1 DEF Omits
      <3>2. CASE a \in DOMAIN q
        <4>1. i < a /\ Omits(q[a], x)
          BY <2>2, <2>5, <3>2
        <4> QED
          BY <3>2, <4>1 DEF Gone
      <3> QED
        BY <2>6, <3>1, <3>2
    <2>4. ASSUME NEW b \in DOMAIN r, a < b PROVE ~Says(r[b], x)
      <3>1. CASE b = Len(q) + 1
        BY <2>1, <2>2, <2>3, <3>1 DEF Says
      <3>2. CASE b \in DOMAIN q
        <4>1. a \in DOMAIN q /\ i < a /\ Omits(q[a], x) /\ r[b] = q[b]
          <5>2. a \in DOMAIN q
            BY <2>2, <2>4, <3>2, Earlier
          <5> QED
            BY <2>2, <2>5, <3>2, <5>2
        <4> QED
          BY <2>4, <3>2, <4>1 DEF Gone
      <3> QED
        BY <2>6, <3>1, <3>2
    <2> QED
      BY <2>3, <2>4
  <1> QED
    BY <1>1, <1>2, <1>3, <1>4 DEF Flows

LEMMA QueueStays ==
  ASSUME NEW q \in Seq(Messages), NEW r, NEW R, NEW S, NEW G, NEW H,
         Flows(q, r, S), QueueOK(q, R, G),
         G \subseteq H, S \subseteq H, S \cap G \subseteq R
  PROVE  QueueOK(r, S, H)
  <1> SUFFICES ASSUME NEW x \in Members, NEW i \in DOMAIN r, Says(r[i], x)
               PROVE  x \in H /\ Gone(r, x, i, S)
    BY DEF QueueOK
  <1>1. CASE q # <<>> /\ r = Tail(q)
    <2>1. i \in Nat /\ i + 1 \in DOMAIN q /\ r[i] = q[i + 1] /\ i + 1 \in Nat
      BY <1>1
    <2>2. x \in G /\ Gone(q, x, i + 1, R)
      BY <2>1 DEF QueueOK
    <2>3. i >= (i + 1) - 1 /\ (x \in S => x \in R)
      BY <2>1, <2>2
    <2> QED
      BY <1>1, <2>1, <2>2, <2>3, GoneStays
  <1>2. CASE i \in DOMAIN q /\ r[i] = q[i] /\ ~(q # <<>> /\ r = Tail(q))
    <2>1. i \in Nat /\ x \in G /\ Gone(q, x, i, R)
      BY <1>2 DEF QueueOK
    <2>2. i >= i /\ (x \in S => x \in R)
      BY <2>1
    <2> QED
      BY <1>2, <2>1, <2>2, GoneStays
  <1>3. ASSUME NEW e \in Messages, r = Append(q, e), i = Len(q) + 1,
               e.kind = "list" => e.members = S
        PROVE  x \in H /\ Gone(r, x, i, S)
    <2>1. r[i] = e /\ DOMAIN r = 1 .. i /\ i \in Nat
      BY <1>3
    <2>2. x \in S
      BY <1>3, <2>1 DEF Says
    <2> QED
      BY <2>1, <2>2 DEF Gone
  <1>4. CASE r = q
    BY <1>1, <1>2, <1>4
  <1>5. ASSUME NEW e \in Messages, r = Append(q, e), e.kind = "list" => e.members = S
        PROVE  x \in H /\ Gone(r, x, i, S)
    <2>1. /\ i = Len(q) + 1 \/ (i \in DOMAIN q /\ r[i] = q[i])
      BY <1>5
    <2> QED
      BY <1>1, <1>2, <1>3, <1>5, <2>1
  <1> QED
    BY <1>1, <1>4, <1>5 DEF Flows

-----------------------------------------------------------------------------
(* What a step of the room does to each client.                            *)

MemberStep(n) ==
  \/ /\ Evolves(crypto[n], crypto'[n], issued')
     /\ \/ crypto'[n].members = crypto[n].members
        \/ /\ inbox[n] # <<>> /\ inbox'[n] = Tail(inbox[n])
           /\ Head(inbox[n]).kind = "list"
           /\ crypto'[n].members = Head(inbox[n]).members \cup {n}
  \/ /\ n \notin Ever
     /\ crypto'[n].secret = {[by |-> n, draw |-> 0]} /\ crypto'[n].epoch = 0
     /\ crypto'[n].recv = {} /\ crypto'[n].members = {n}

RoomStep ==
  /\ Ever \subseteq Ever' /\ roster' \subseteq Ever' /\ roster' \cap Ever \subseteq roster
  /\ issued \subseteq issued'
  /\ \A n \in Members : Flows(inbox[n], inbox'[n], roster') /\ MemberStep(n)
  /\ \A n \in Members \ Ever' : crypto'[n] = crypto[n]

LEMMA SameState ==
  ASSUME Inv, NEW n \in Members, crypto'[n] = crypto[n]
  PROVE  MemberStep(n)
  <1>1. crypto[n] \in CryptoStates /\ RosterOK(crypto[n])
    BY DEF Inv, TypeOK
  <1>2. Evolves(crypto[n], crypto[n], issued')
    BY <1>1 DEF Evolves, Stays, RosterOK
  <1> QED
    BY <1>2 DEF MemberStep

LEMMA EvolvedState ==
  ASSUME Inv, NEW m \in Members, NEW n \in Members, NEW S,
         \E t : /\ Evolves(crypto[m], t, issued') /\ t.members = S
                /\ crypto' = [crypto EXCEPT ![m] = t]
  PROVE  /\ n # m => crypto'[n] = crypto[n]
         /\ n = m => Evolves(crypto[n], crypto'[n], issued') /\ crypto'[n].members = S
  <1>1. crypto \in [Members -> CryptoStates]
    BY DEF Inv, TypeOK
  <1> QED
    BY <1>1

LEMMA BroadcastFlows ==
  ASSUME Inv, NEW to, NEW e \in Messages, NEW n \in Members, NEW R,
         e.kind = "list" => e.members = R
  PROVE  Flows(inbox[n], Broadcast(to, e)[n], R)
  BY DEF Broadcast, Flows

LEMMA EnrollRoom ==
  ASSUME Inv, NEW m \in Members, Enroll(m)
  PROVE  RoomStep
  <1>1. /\ m \notin Ever /\ roster' = roster \cup {m}
        /\ UNCHANGED <<left, inbox, issued>>
    BY DEF Enroll, Ever
  <1>2. \A n \in Members : Flows(inbox[n], inbox'[n], roster')
    BY <1>1 DEF Flows
  <1>3. ASSUME NEW n \in Members PROVE MemberStep(n)
    <2>1. crypto \in [Members -> CryptoStates] /\ crypto[m].group \in GroupIds
      BY DEF Inv, TypeOK, CryptoStates
    <2>2. \/ crypto'[n] = crypto[n]
          \/ n = m /\ crypto'[n] = NewSingleEpoch(crypto[m].group, m)
      BY <2>1 DEF Enroll
    <2>3. CASE n = m /\ crypto'[n] = NewSingleEpoch(crypto[m].group, m)
      BY <1>1, <2>1, <2>3, NewSingleEpochType DEF MemberStep
    <2> QED
      BY <2>2, <2>3, SameState
  <1>4. \A n \in Members \ Ever' : crypto'[n] = crypto[n]
    <2>1. crypto \in [Members -> CryptoStates] /\ m \in Ever'
      BY <1>1 DEF Inv, TypeOK, Ever
    <2> QED
      BY <2>1 DEF Enroll
  <1> QED
    BY <1>1, <1>2, <1>3, <1>4 DEF RoomStep, Ever

LEMMA EnterRoom ==
  ASSUME Inv, NEW m \in Members, Enter(m)
  PROVE  RoomStep
  <1>1. /\ UNCHANGED <<roster, left, crypto, issued>>
        /\ inbox' = Broadcast(entered', ListOf(roster))
    BY DEF Enter
  <1>2. ListOf(roster) \in Messages /\ ListOf(roster).members = roster
    BY DEF Inv, TypeOK, ListOf, Messages, Lists
  <1>3. \A n \in Members : Flows(inbox[n], inbox'[n], roster')
    BY <1>1, <1>2, BroadcastFlows
  <1> QED
    BY <1>1, <1>3, SameState DEF RoomStep, Ever

LEMMA LeaveRoom ==
  ASSUME Inv, NEW m \in Members, Leave(m)
  PROVE  RoomStep
  <1> DEFINE b == Broadcast(entered', ListOf(roster'))
  <1>1. /\ UNCHANGED <<crypto, issued>>
        /\ roster' = roster \ {m} /\ left' = left \cup {m}
        /\ inbox' = [b EXCEPT ![m] = <<>>]
    BY DEF Leave
  <1>2. ListOf(roster') \in Messages /\ ListOf(roster').members = roster'
    BY <1>1 DEF Inv, TypeOK, ListOf, Messages, Lists
  <1>3. \A n \in Members : Flows(inbox[n], b[n], roster')
    BY <1>2, BroadcastFlows
  <1>4. \A n \in Members : inbox'[n] = b[n] \/ inbox'[n] = <<>>
    BY <1>1 DEF Broadcast
  <1> HIDE DEF b
  <1>5. \A n \in Members : Flows(inbox[n], inbox'[n], roster')
    BY <1>3, <1>4 DEF Flows
  <1> QED
    BY <1>1, <1>5, SameState DEF RoomStep, Ever

LEMMA TransmitRoom ==
  ASSUME Inv, OutboxOK, NEW m \in Members, Transmit(m)
  PROVE  RoomStep
  <1>1. /\ UNCHANGED <<roster, left, crypto, issued>>
        /\ inbox' = Broadcast(entered \ {m}, Head(outbox[m]))
    BY DEF Transmit, serverVars
  <1>2. outbox[m] \in Seq(Messages) /\ outbox[m] # <<>>
    BY DEF Inv, TypeOK, Transmit
  <1>3. Head(outbox[m]) \in Messages /\ Head(outbox[m]).kind # "list"
    BY <1>2 DEF OutboxOK
  <1>4. \A n \in Members : Flows(inbox[n], inbox'[n], roster')
    BY <1>1, <1>3, BroadcastFlows
  <1> QED
    BY <1>1, <1>4, SameState DEF RoomStep, Ever

LEMMA ReceiveRoom ==
  ASSUME Inv, NEW m \in Members, Receive(m)
  PROVE  RoomStep
  <1>1. /\ UNCHANGED <<roster, left, issued>>
        /\ inbox \in [Members -> Seq(Messages)]
        /\ inbox[m] # <<>> /\ inbox' = [inbox EXCEPT ![m] = Tail(@)]
    BY DEF Receive, serverVars, Inv, TypeOK
  <1>2. \A n \in Members : Flows(inbox[n], inbox'[n], roster')
    BY <1>1 DEF Flows
  <1>3. \E t : /\ Evolves(crypto[m], t, issued') /\ t.members = ListedBy(m)
               /\ crypto' = [crypto EXCEPT ![m] = t]
    BY <1>1, ReceiveStep
  <1>4. ASSUME NEW n \in Members PROVE MemberStep(n)
    <2>1. CASE n # m
      BY <1>3, <2>1, EvolvedState, SameState
    <2>2. CASE n = m
      <3>1. Evolves(crypto[n], crypto'[n], issued') /\ crypto'[n].members = ListedBy(m)
        <4>1. crypto \in [Members -> CryptoStates]
          BY DEF Inv, TypeOK
        <4> QED
          BY <1>3, <2>2, <4>1
      <3> QED
        BY <1>1, <2>2, <3>1 DEF ListedBy, MemberStep
    <2> QED
      BY <2>1, <2>2
  <1>5. \A n \in Members \ Ever' : crypto'[n] = crypto[n]
    <2>1. crypto \in [Members -> CryptoStates] /\ m \in Ever'
      BY <1>1 DEF Inv, TypeOK, Ever, Receive
    <2> QED
      BY <1>3, <2>1
  <1> QED
    BY <1>1, <1>2, <1>4, <1>5 DEF RoomStep, Ever

LEMMA TriggerRoom ==
  ASSUME Inv, NEW m \in Members, Trigger(m)
  PROVE  RoomStep
  <1>1. UNCHANGED <<roster, left, inbox>>
    BY DEF Trigger, serverVars
  <1>2. \A n \in Members : Flows(inbox[n], inbox'[n], roster')
    BY <1>1 DEF Flows
  <1>3. /\ issued \subseteq issued'
        /\ \E t : /\ Evolves(crypto[m], t, issued') /\ t.members = crypto[m].members
                  /\ crypto' = [crypto EXCEPT ![m] = t]
    BY TriggerStep
  <1>4. ASSUME NEW n \in Members PROVE MemberStep(n)
    <2>1. CASE n # m
      BY <1>3, <2>1, EvolvedState, SameState
    <2>2. CASE n = m
      <3>1. /\ Evolves(crypto[n], crypto'[n], issued')
            /\ crypto'[n].members = crypto[n].members
        BY <1>3, <2>2, EvolvedState
      <3> QED
        BY <3>1 DEF MemberStep
    <2> QED
      BY <2>1, <2>2
  <1>5. \A n \in Members \ Ever' : crypto'[n] = crypto[n]
    <2>1. crypto \in [Members -> CryptoStates] /\ m \in Ever'
      BY <1>1 DEF Inv, TypeOK, Ever, Trigger
    <2> QED
      BY <1>3, <2>1
  <1> QED
    BY <1>1, <1>2, <1>3, <1>4, <1>5 DEF RoomStep, Ever

LEMMA StepRoom ==
  ASSUME Inv, OutboxOK, NEW m \in Members, Step(m)
  PROVE  RoomStep
  BY EnrollRoom, EnterRoom, LeaveRoom, TransmitRoom, ReceiveRoom, TriggerRoom
     DEF Step, ReceiveBefore

(* No client sends a member list. *)
LEMMA StepOutbox ==
  ASSUME Inv, OutboxOK, NEW m \in Members, Step(m)
  PROVE  OutboxOK'
  <1>1. /\ outbox \in [Members -> Seq(Messages)]
        /\ crypto[m] \in CryptoStates
    BY DEF Inv, TypeOK
  <1>2. \A n \in Members \ {m} : outbox'[n] = outbox[n]
    BY <1>1 DEF Step, Enroll, Enter, Leave, Transmit, Trigger, Announce, Propose,
                ReceiveBefore, Receive
  <1>3. ASSUME NEW i \in DOMAIN outbox'[m] PROVE outbox'[m][i].kind # "list"
    <2>1. CASE UNCHANGED outbox
      BY <2>1 DEF OutboxOK
    <2>2. CASE Leave(m)
      BY <1>1, <1>3, <2>2 DEF Leave
    <2>3. CASE Enter(m)
      <3>1. outbox'[m] = <<LocalKeyAnnounce(crypto[m])>>
        BY <1>1, <2>3 DEF Enter
      <3> QED
        BY <1>3, <3>1 DEF LocalKeyAnnounce
    <2>4. CASE Transmit(m)
      <3>1. outbox[m] \in Seq(Messages) /\ outbox[m] # <<>> /\ outbox'[m] = Tail(outbox[m])
        BY <1>1, <2>4 DEF Transmit
      <3>2. i \in Nat /\ i + 1 \in DOMAIN outbox[m] /\ outbox'[m][i] = outbox[m][i + 1]
        BY <1>3, <3>1
      <3> QED
        BY <3>2 DEF OutboxOK
    <2>5. CASE Trigger(m)
      <3>1. CASE Announce(m)
        <4>1. outbox'[m] = Append(outbox[m], LocalKeyAnnounce(crypto[m]))
          BY <1>1, <3>1 DEF Announce
        <4>2. LocalKeyAnnounce(crypto[m]).kind # "list"
          BY DEF LocalKeyAnnounce
        <4>3. outbox[m] \in Seq(Messages)
          BY <1>1
        <4> HIDE DEF LocalKeyAnnounce
        <4> QED
          BY <1>3, <4>1, <4>2, <4>3 DEF OutboxOK
      <3>2. ASSUME NEW t \in crypto[m].pending, Propose(m, t)
            PROVE  outbox'[m][i].kind # "list"
        <4> DEFINE s == crypto[m]
                   c == BuildCommit(s, t, Drawn(m))
                   y == <<LocalKeyAnnounce(s), c, LocalKeyAnnounce(ApplyEpochCommit(s, c))>>
        <4>1. /\ outbox[m] \in Seq(Messages)
              /\ outbox'[m] = outbox[m] \o y
          BY <1>1, <3>2 DEF Propose
        <4>2. \A j \in DOMAIN y : y[j].kind # "list"
          BY DEF LocalKeyAnnounce, BuildCommit
        <4>3. y \in Seq({y[j] : j \in DOMAIN y})
          OBVIOUS
        <4> HIDE DEF y
        <4>4. CASE i \in DOMAIN outbox[m]
          BY <4>1, <4>3, <4>4 DEF OutboxOK
        <4>5. CASE i \notin DOMAIN outbox[m]
          <5>1. i - Len(outbox[m]) \in DOMAIN y /\ outbox'[m][i] = y[i - Len(outbox[m])]
            BY <1>3, <4>1, <4>3, <4>5
          <5> QED
            BY <4>2, <5>1
        <4> QED
          BY <4>4, <4>5
      <3> QED
        BY <2>5, <3>1, <3>2 DEF Trigger
    <2> QED
      BY <2>1, <2>2, <2>3, <2>4, <2>5 DEF Step, Enroll, ReceiveBefore, Receive
  <1> QED
    BY <1>2, <1>3 DEF OutboxOK

-----------------------------------------------------------------------------
(* Where the secrets come from.                                            *)

LEMMA Origin ==
  ASSUME Inv, Inv', issued \subseteq issued', NEW n \in Members,
         NEW x, NEW e, NEW recv, Opened(n, x, e, recv, issued),
         NEW c \in issued', c.secret = x
  PROVE  c \in issued /\ e = c.epoch + 1 /\ n \in c.new /\ recv \subseteq c.new
  <1>1. IssuedOK(c)'
    BY DEF Inv
  <1>2. c.secret.draw # 0
    BY <1>1 DEF IssuedOK
  <1>3. PICK d \in issued : /\ d.secret = x /\ e = d.epoch + 1
                            /\ n \in d.new /\ recv \subseteq d.new
    BY <1>2 DEF Opened
  <1>4. c = d
    BY <1>3 DEF Inv
  <1> QED
    BY <1>3, <1>4

LEMMA OpenedStays ==
  ASSUME NEW n, NEW x, NEW e, NEW recv, NEW less \in SUBSET recv, NEW C, NEW D,
         C \subseteq D, Opened(n, x, e, recv, C)
  PROVE  Opened(n, x, e, less, D)
  BY DEF Opened

LEMMA HeldOrigin ==
  ASSUME Inv, NEW n \in Members, HistoryOK(n), NEW x \in held[n]
  PROVE  \E e, recv : Opened(n, x, e, recv, issued)
  <1>1. CASE x \in crypto[n].secret
    BY <1>1 DEF Inv, HeldOK
  <1>2. ASSUME NEW o \in old[n], o.secret = x
        PROVE  \E e, recv : Opened(n, x, e, recv, issued)
    BY <1>2 DEF HistoryOK, PastOK
  <1> QED
    BY <1>1, <1>2 DEF HistoryOK

LEMMA HeldCommit ==
  ASSUME Inv, Inv', issued \subseteq issued', NEW n \in Members, HistoryOK(n),
         NEW c \in issued', c.secret \in held[n]
  PROVE  c \in issued
  BY HeldOrigin, Origin

-----------------------------------------------------------------------------
(* The parts of the invariant, over a step of the room.                    *)

Recorded ==
  /\ old' = [n \in Members |-> old[n] \cup Retired(n)]
  /\ held' = [n \in Members |-> held[n] \cup crypto'[n].secret]

LEMMA GoneOn ==
  ASSUME Inv, RoomStep, NEW n \in Members, NEW x \in Ever,
         Gone(inbox[n], x, 0, roster)
  PROVE  Gone(inbox'[n], x, 0, roster')
  <1>1. /\ inbox[n] \in Seq(Messages) /\ Flows(inbox[n], inbox'[n], roster')
        /\ x \in roster' => x \in roster
    BY DEF Inv, TypeOK, RoomStep
  <1>2. IF inbox[n] # <<>> /\ inbox'[n] = Tail(inbox[n]) THEN 0 >= 0 - 1 ELSE 0 >= 0
    OBVIOUS
  <1> QED
    BY <1>1, <1>2, GoneStays

LEMMA SilentOn ==
  ASSUME Inv, RoomStep, NEW n \in Members, NEW x \in Ever \ roster,
         \A k \in DOMAIN inbox[n] : ~Says(inbox[n][k], x)
  PROVE  \A k \in DOMAIN inbox'[n] : ~Says(inbox'[n][k], x)
  <1> DEFINE q == inbox[n]
             r == inbox'[n]
  <1>1. /\ q \in Seq(Messages) /\ Flows(q, r, roster') /\ x \notin roster'
        /\ \A k \in DOMAIN q : ~Says(q[k], x)
    BY DEF Inv, TypeOK, RoomStep
  <1> HIDE DEF q, r
  <1> SUFFICES ASSUME NEW k \in DOMAIN r PROVE ~Says(r[k], x)
    BY DEF q, r
  <1>2. CASE r = q \/ r = <<>>
    BY <1>1, <1>2
  <1>3. CASE q # <<>> /\ r = Tail(q)
    <2>1. k + 1 \in DOMAIN q /\ r[k] = q[k + 1]
      BY <1>1, <1>3
    <2> QED
      BY <1>1, <2>1
  <1>4. ASSUME NEW e \in Messages, r = Append(q, e), e.kind = "list" => e.members = roster'
        PROVE  ~Says(r[k], x)
    <2>1. r[k] = e \/ (k \in DOMAIN q /\ r[k] = q[k])
      BY <1>1, <1>4
    <2>2. ~Says(e, x)
      BY <1>1, <1>4 DEF Says
    <2> QED
      BY <1>1, <2>1, <2>2
  <1> QED
    BY <1>1, <1>2, <1>3, <1>4 DEF Flows

LEMMA QueuesOn ==
  ASSUME Inv, RoomStep, NEW n \in Members, QueueOK(inbox[n], roster, Ever)
  PROVE  QueueOK(inbox'[n], roster', Ever')
  <1>1. /\ inbox[n] \in Seq(Messages) /\ Flows(inbox[n], inbox'[n], roster')
        /\ Ever \subseteq Ever' /\ roster' \subseteq Ever' /\ roster' \cap Ever \subseteq roster
    BY DEF Inv, TypeOK, RoomStep
  <1> QED
    BY <1>1, QueueStays

LEMMA KnowsOn ==
  ASSUME Inv, RoomStep, NEW n \in Members, QueueOK(inbox[n], roster, Ever), KnowsOK(n)
  PROVE  KnowsOK(n)'
  <1> SUFFICES ASSUME NEW x \in crypto'[n].members \ {n}
               PROVE  x \in Ever' /\ Gone(inbox'[n], x, 0, roster')
    BY DEF KnowsOK
  <1>1. MemberStep(n) /\ Ever \subseteq Ever'
    BY DEF RoomStep
  <1>2. CASE crypto'[n].members = crypto[n].members
    BY <1>1, <1>2, GoneOn DEF KnowsOK
  <1>3. CASE /\ inbox[n] # <<>> /\ inbox'[n] = Tail(inbox[n])
             /\ Head(inbox[n]).kind = "list"
             /\ crypto'[n].members = Head(inbox[n]).members \cup {n}
    <2>1. /\ inbox[n] \in Seq(Messages) /\ 1 \in DOMAIN inbox[n]
          /\ inbox[n][1] = Head(inbox[n])
      BY <1>3 DEF Inv, TypeOK
    <2>2. inbox[n][1] \in Messages
      BY <2>1
    <2>3. x \in Members /\ Says(inbox[n][1], x)
      BY <1>3, <2>1, <2>2 DEF Says, Messages, Lists, Announces, Commits
    <2>4. x \in Ever /\ Gone(inbox[n], x, 1, roster)
      BY <2>1, <2>3 DEF QueueOK
    <2>5. /\ Flows(inbox[n], inbox'[n], roster')
          /\ x \in roster' => x \in roster
      BY <2>4 DEF RoomStep
    <2>6. IF inbox[n] # <<>> /\ inbox'[n] = Tail(inbox[n]) THEN 0 >= 1 - 1 ELSE 0 >= 1
      BY <1>3
    <2> QED
      BY <1>1, <2>1, <2>4, <2>5, <2>6, GoneStays
  <1>4. CASE crypto'[n].members = {n}
    BY <1>4
  <1> QED
    BY <1>1, <1>2, <1>3, <1>4 DEF MemberStep

(* A list that leaves out x, whom client n listed, is the last word on x.  *)
LEMMA LeftOut ==
  ASSUME Inv, RoomStep, NEW n \in Members, n \in Ever, NEW x \in Ever, x # n,
         Gone(inbox[n], x, 0, roster),
         x \in crypto[n].members, x \notin crypto'[n].members
  PROVE  x \notin roster' /\ \A k \in DOMAIN inbox'[n] : ~Says(inbox'[n][k], x)
  <1>1. MemberStep(n) /\ (x \in roster' => x \in roster)
    BY DEF RoomStep
  <1>2. /\ inbox[n] # <<>> /\ inbox'[n] = Tail(inbox[n])
        /\ Head(inbox[n]).kind = "list"
        /\ x \notin Head(inbox[n]).members
    BY <1>1 DEF MemberStep
  <1>3. inbox[n] \in Seq(Messages) /\ 1 \in DOMAIN inbox[n] /\ inbox[n][1] = Head(inbox[n])
    BY <1>2 DEF Inv, TypeOK
  <1>4. x \notin roster /\ \A k \in DOMAIN inbox[n] : 1 < k => ~Says(inbox[n][k], x)
    BY <1>2, <1>3 DEF Gone, Omits
  <1>5. ASSUME NEW k \in DOMAIN inbox'[n] PROVE ~Says(inbox'[n][k], x)
    <2>1. k + 1 \in DOMAIN inbox[n] /\ 1 < k + 1 /\ inbox'[n][k] = inbox[n][k + 1]
      BY <1>2, <1>3
    <2> QED
      BY <1>4, <2>1
  <1> QED
    BY <1>1, <1>4, <1>5

(* Nobody comes back on the list of a client who shared an epoch with it.  *)
LEMMA NoReturn ==
  ASSUME Inv, RoomStep, NEW n \in Members, n \in Ever, MetOK(n),
         NEW c \in issued, c.secret \in held[n], NEW y \in c.new \ {n},
         y \in crypto'[n].members
  PROVE  y \in crypto[n].members
  <1>1. SUFFICES ASSUME y \notin crypto[n].members PROVE FALSE
    OBVIOUS
  <1>2. \A k \in DOMAIN inbox[n] : ~Says(inbox[n][k], y)
    BY <1>1 DEF MetOK
  <1>3. MemberStep(n)
    BY DEF RoomStep
  <1>4. /\ inbox[n] # <<>> /\ Head(inbox[n]).kind = "list"
        /\ y \in Head(inbox[n]).members
    BY <1>1, <1>3 DEF MemberStep
  <1>5. inbox[n] \in Seq(Messages) /\ 1 \in DOMAIN inbox[n] /\ inbox[n][1] = Head(inbox[n])
    BY <1>4 DEF Inv, TypeOK
  <1> QED
    BY <1>2, <1>4, <1>5 DEF Says

LEMMA MetOn ==
  ASSUME Inv, Inv', RoomStep, Recorded, NEW n \in Members,
         KnowsOK(n)', MetOK(n), HistoryOK(n)
  PROVE  MetOK(n)'
  <1> SUFFICES ASSUME NEW c \in issued', c.secret \in held'[n], NEW x \in c.new \ {n}
               PROVE  /\ x \in Ever' /\ Gone(inbox'[n], x, 0, roster')
                      /\ x \notin crypto'[n].members =>
                           /\ x \notin roster'
                           /\ \A k \in DOMAIN inbox'[n] : ~Says(inbox'[n][k], x)
    BY DEF MetOK
  <1>1. /\ Ever \subseteq Ever' /\ issued \subseteq issued' /\ MemberStep(n)
        /\ held'[n] = held[n] \cup crypto'[n].secret
        /\ roster' \cap Ever \subseteq roster
    BY DEF RoomStep, Recorded
  <1>2. CASE c.secret \in held[n]
    <2>1. c \in issued /\ n \in Ever
      BY <1>1, <1>2, HeldCommit DEF HistoryOK
    <2>2. /\ x \in Ever /\ Gone(inbox[n], x, 0, roster)
          /\ x \notin crypto[n].members =>
               x \notin roster /\ \A k \in DOMAIN inbox[n] : ~Says(inbox[n][k], x)
      BY <1>2, <2>1 DEF MetOK
    <2>3. x \in Ever' /\ Gone(inbox'[n], x, 0, roster')
      BY <1>1, <2>2, GoneOn
    <2>4. CASE x \notin crypto[n].members
      BY <1>1, <2>2, <2>3, <2>4, SilentOn
    <2>5. CASE x \in crypto[n].members
      BY <2>1, <2>2, <2>3, <2>5, LeftOut
    <2> QED
      BY <2>4, <2>5
  <1>3. CASE c.secret \notin held[n]
    <2>1. c.secret \in crypto'[n].secret
      BY <1>1, <1>3
    <2>2. c.secret.draw # 0
      <3>1. IssuedOK(c)'
        BY DEF Inv
      <3> QED
        BY <3>1 DEF IssuedOK
    <2>3. ~Stays(crypto[n], crypto'[n])
      BY <1>3, <2>1 DEF Stays, HistoryOK
    <2>4. PICK d \in issued' : Enters(crypto[n], crypto'[n], d)
      BY <1>1, <2>1, <2>2, <2>3 DEF MemberStep, Evolves
    <2>5. c = d
      BY <2>1, <2>4 DEF Enters, Inv
    <2>6. x \in crypto'[n].members
      BY <2>4, <2>5 DEF Enters
    <2> QED
      BY <2>6 DEF KnowsOK
  <1> QED
    BY <1>2, <1>3

LEMMA ReadsOn ==
  ASSUME Inv, Inv', RoomStep, NEW n \in Members, n \in Ever, MetOK(n), HistoryOK(n),
         NEW x \in held[n], NEW recv, NEW less, Reads(n, x, recv),
         recv \cap crypto'[n].members \subseteq less
  PROVE  Reads(n, x, less)'
  <1> SUFFICES ASSUME NEW c \in issued', c.secret = x,
                      NEW y \in c.new \ {n}, y \in crypto'[n].members
               PROVE  y \in less
    BY DEF Reads
  <1>1. c \in issued
    BY HeldCommit DEF RoomStep
  <1>2. y \in crypto[n].members
    BY <1>1, NoReturn
  <1> QED
    BY <1>1, <1>2 DEF Reads

(* The epoch that ends, if one does. *)
LEMMA RetiredEpoch ==
  ASSUME Inv, NEW n \in Members
  PROVE  /\ Stays(crypto[n], crypto'[n]) => Retired(n) = {}
         /\ (\E c \in issued' : Enters(crypto[n], crypto'[n], c)) =>
              Retired(n) =
                {[epoch |-> crypto[n].epoch, secret |-> x,
                  members |-> crypto'[n].members,
                  recv |-> crypto[n].recv \cap crypto'[n].members]
                 : x \in crypto[n].secret}
         /\ crypto[n].secret = {} => Retired(n) = {}
  <1>1. crypto[n].gen \in Nat
    BY DEF Inv, TypeOK, CryptoStates
  <1>2. ASSUME Stays(crypto[n], crypto'[n]) PROVE Retired(n) = {}
    BY <1>2 DEF Stays, Retired
  <1>3. ASSUME NEW c \in issued', Enters(crypto[n], crypto'[n], c)
        PROVE  crypto'[n].gen # crypto[n].gen
    BY <1>1, <1>3 DEF Enters
  <1>4. ASSUME crypto[n].secret = {} PROVE Retired(n) = {}
    BY <1>4 DEF Retired
  <1>5. crypto'[n].gen # crypto[n].gen =>
          Retired(n) =
            {[epoch |-> crypto[n].epoch, secret |-> x,
              members |-> crypto'[n].members,
              recv |-> crypto[n].recv \cap crypto'[n].members]
             : x \in crypto[n].secret}
    BY DEF Retired
  <1> QED
    BY <1>2, <1>3, <1>4, <1>5

LEMMA HistoryOn ==
  ASSUME Inv, Inv', RoomStep, Recorded, NEW n \in Members, MetOK(n), HistoryOK(n)
  PROVE  HistoryOK(n)'
  <1>1. /\ Ever \subseteq Ever' /\ issued \subseteq issued' /\ MemberStep(n)
        /\ held'[n] = held[n] \cup crypto'[n].secret
        /\ old'[n] = old[n] \cup Retired(n)
    BY DEF RoomStep, Recorded
  <1>2. /\ crypto[n].secret \subseteq held[n]
        /\ \A x \in held[n] : x \in crypto[n].secret \/ \E o \in old[n] : o.secret = x
        /\ \A o \in old[n] : PastOK(n, o)
        /\ \A x \in crypto[n].secret : Reads(n, x, crypto[n].recv)
        /\ n \notin Ever => held[n] = {}
    BY DEF HistoryOK
  <1>3. /\ crypto[n].epoch \in Nat /\ crypto'[n].epoch \in Nat /\ issued' \subseteq Commits
        /\ HeldOK(n, crypto[n], issued)
    BY DEF Inv, TypeOK, CryptoStates
  <1>4. n \notin Ever' => held'[n] = {}
    <2>1. n \notin Ever' => held[n] = {} /\ crypto'[n] = crypto[n]
      BY <1>1, <1>2 DEF RoomStep
    <2> QED
      BY <1>1, <1>2, <2>1
  <1>5. CASE n \notin Ever
    <2>1. held[n] = {} /\ crypto[n].secret = {} /\ old[n] = {}
      BY <1>2, <1>5 DEF PastOK
    <2>2. old'[n] = {} /\ held'[n] = crypto'[n].secret
      BY <1>1, <2>1, RetiredEpoch
    <2>3. ASSUME NEW x \in crypto'[n].secret PROVE Reads(n, x, crypto[n].recv)'
      <3> SUFFICES ASSUME NEW c \in issued', c.secret = x,
                          NEW y \in c.new \ {n}, y \in crypto'[n].members
                   PROVE  y \in crypto'[n].recv
        BY DEF Reads
      <3>1. CASE crypto'[n].members = {n}
        BY <3>1
      <3>2. CASE Stays(crypto[n], crypto'[n])
        BY <2>1, <2>3, <3>2 DEF Stays
      <3>3. ASSUME NEW d \in issued', Enters(crypto[n], crypto'[n], d)
            PROVE  y \in crypto'[n].recv
        <4>1. crypto[n].me = n
          BY DEF Inv, Identities
        <4> QED
          BY <3>3, <4>1 DEF Enters
      <3> QED
        BY <1>1, <3>1, <3>2, <3>3 DEF MemberStep, Evolves
    <2> QED
      BY <1>4, <2>2, <2>3 DEF HistoryOK
  <1>6. CASE n \in Ever /\ Stays(crypto[n], crypto'[n])
    <2>1. /\ old'[n] = old[n] /\ held'[n] = held[n]
          /\ crypto'[n].secret = crypto[n].secret /\ crypto'[n].epoch = crypto[n].epoch
          /\ crypto'[n].recv = crypto[n].recv \cap crypto'[n].members
      BY <1>1, <1>2, <1>6, RetiredEpoch DEF Stays
    <2>2. ASSUME NEW x \in crypto'[n].secret PROVE Reads(n, x, crypto[n].recv)'
      BY <1>2, <1>6, <2>1, ReadsOn
    <2>3. ASSUME NEW o \in old'[n] PROVE PastOK(n, o)'
      <3>1. PastOK(n, o)
        BY <1>2, <2>1
      <3>2. Reads(n, o.secret, o.recv \cap o.members)'
        BY <1>6, <3>1, ReadsOn DEF PastOK
      <3>3. Opened(n, o.secret, o.epoch, o.recv, issued')
        BY <1>1, <3>1 DEF PastOK, Opened
      <3> QED
        BY <2>1, <3>1, <3>2, <3>3 DEF PastOK
    <2> QED
      BY <1>2, <1>4, <2>1, <2>2, <2>3 DEF HistoryOK
  <1>7. ASSUME n \in Ever, NEW d \in issued', Enters(crypto[n], crypto'[n], d)
        PROVE  HistoryOK(n)'
    <2>1. /\ d.epoch \in Nat /\ crypto'[n].epoch = d.epoch + 1
          /\ crypto[n].epoch <= d.epoch
          /\ crypto'[n].secret = {d.secret} /\ crypto'[n].members = d.new
          /\ crypto'[n].recv = d.new \ {n}
      <3>1. crypto[n].me = n
        BY DEF Inv, Identities
      <3> QED
        BY <1>3, <1>7, <3>1 DEF Enters, Commits
    <2>2. crypto[n].epoch < crypto'[n].epoch
      BY <1>3, <2>1
    <2>3. ASSUME NEW x \in crypto'[n].secret PROVE Reads(n, x, crypto[n].recv)'
      BY <2>1 DEF Reads
    <2>4. ASSUME NEW o \in old[n] PROVE PastOK(n, o)'
      <3>1. PastOK(n, o)
        BY <1>2
      <3>2. Reads(n, o.secret, o.recv \cap o.members)'
        BY <1>7, <3>1, ReadsOn DEF PastOK
      <3>3. Opened(n, o.secret, o.epoch, o.recv, issued')
        BY <1>1, <3>1 DEF PastOK, Opened
      <3>4. o.epoch \in Nat /\ o.epoch < crypto'[n].epoch /\ o.secret \in held'[n]
        BY <1>1, <1>3, <2>2, <3>1 DEF PastOK
      <3> QED
        BY <3>2, <3>3, <3>4 DEF PastOK
    <2>5. ASSUME NEW o \in Retired(n) PROVE PastOK(n, o)'
      <3>1. PICK x \in crypto[n].secret :
              o = [epoch |-> crypto[n].epoch, secret |-> x,
                   members |-> crypto'[n].members,
                   recv |-> crypto[n].recv \cap crypto'[n].members]
        BY <1>7, RetiredEpoch
      <3>2. /\ o.epoch = crypto[n].epoch /\ o.secret = x
            /\ o.members = crypto'[n].members
            /\ o.recv = crypto[n].recv \cap crypto'[n].members
        BY <3>1
      <3>3. x \in held[n] /\ Reads(n, x, crypto[n].recv)
        BY <1>2
      <3>4. \A less : less = o.recv \cap o.members => Reads(n, x, less)'
        BY <1>7, <3>2, <3>3, ReadsOn
      <3>5. Reads(n, o.secret, o.recv \cap o.members)'
        BY <3>2, <3>4
      <3>6. Opened(n, x, crypto[n].epoch, crypto[n].recv, issued)
        BY <1>3 DEF HeldOK
      <3>7. Opened(n, o.secret, o.epoch, o.recv, issued')
        BY <1>1, <3>2, <3>6, OpenedStays
      <3>8. o.epoch \in Nat /\ o.epoch < crypto'[n].epoch /\ o.secret \in held'[n]
        BY <1>1, <1>3, <2>2, <3>2, <3>3
      <3> QED
        BY <3>5, <3>7, <3>8 DEF PastOK
    <2>6. /\ \A x \in crypto'[n].secret : Reads(n, x, crypto[n].recv)'
          /\ \A o \in old'[n] : PastOK(n, o)'
          /\ crypto'[n].secret \subseteq held'[n]
      BY <1>1, <2>3, <2>4, <2>5
    <2>7. \A x \in crypto[n].secret : \E o \in old'[n] : o.secret = x
      <3> SUFFICES ASSUME NEW x \in crypto[n].secret
                   PROVE  \E o \in old'[n] : o.secret = x
        OBVIOUS
      <3> DEFINE o == [epoch |-> crypto[n].epoch, secret |-> x,
                       members |-> crypto'[n].members,
                       recv |-> crypto[n].recv \cap crypto'[n].members]
      <3>1. o \in Retired(n)
        BY <1>7, RetiredEpoch
      <3>2. o.secret = x
        OBVIOUS
      <3> HIDE DEF o
      <3> QED
        BY <1>1, <3>1, <3>2
    <2>8. \A x \in held'[n] : x \in crypto'[n].secret \/ \E o \in old'[n] : o.secret = x
      BY <1>1, <1>2, <2>7
    <2> QED
      BY <1>4, <2>6, <2>8 DEF HistoryOK
  <1> QED
    BY <1>1, <1>5, <1>6, <1>7 DEF MemberStep, Evolves

-----------------------------------------------------------------------------
(* The invariant.                                                          *)

LEMMA TextsInit == TextInit => TextInv
  <1> SUFFICES ASSUME TextInit PROVE TextInv
    OBVIOUS
  <1>1. Inv
    BY InitInv DEF TextInit
  <1>2. PICK g \in GroupIds : crypto = [m \in Members |-> NewPendingEpoch(g, m)]
    BY DEF TextInit, Init
  <1>3. \A n \in Members :
          /\ crypto[n].secret = {} /\ crypto[n].members = {n}
          /\ inbox[n] = <<>> /\ outbox[n] = <<>>
          /\ old[n] = {} /\ held[n] = {}
    BY <1>2, NewPendingEpochType DEF TextInit, Init
  <1>4. \A n \in Members : QueueOK(inbox[n], roster, Ever)
    BY <1>3 DEF QueueOK
  <1>5. \A n \in Members : KnowsOK(n) /\ MetOK(n) /\ HistoryOK(n)
    BY <1>3 DEF KnowsOK, MetOK, HistoryOK
  <1>6. OutboxOK
    BY <1>3 DEF OutboxOK
  <1> QED
    BY <1>1, <1>4, <1>5, <1>6 DEF TextInv, TextInit

LEMMA TextStays ==
  ASSUME NEW t, TextOK(t), issued \subseteq issued'
  PROVE  TextOK(t)'
  BY DEF TextOK, Opened

(* What becomes of the text leaves the rest as it is. *)
LEMMA TextInvStep ==
  ASSUME TextInv, UNCHANGED <<serverVars, crypto, queued, arrivals, due, inbox,
                              outbox, drawn, issued, old, held>>,
         turn' \subseteq Members, \A t \in texts' : TextOK(t)
  PROVE  TextInv'
  <1>1. Inv /\ TypeOK' /\ InFlightOK'
    BY DEF TextInv, Inv, TypeOK, InFlightOK, serverVars, Known
  <1>2. Inv'
    BY <1>1, QuietStep DEF serverVars
  <1>3. Ever' = Ever
    BY DEF Ever, serverVars
  <1>4. \A n \in Members : QueueOK(inbox[n], roster, Ever)'
    BY <1>3 DEF TextInv, serverVars
  <1>5. ASSUME NEW n \in Members PROVE KnowsOK(n)' /\ MetOK(n)' /\ HistoryOK(n)'
    <2>1. KnowsOK(n) /\ MetOK(n) /\ HistoryOK(n)
      BY DEF TextInv
    <2>2. KnowsOK(n)'
      BY <1>3, <2>1 DEF KnowsOK, serverVars
    <2>3. MetOK(n)'
      BY <1>3, <2>1 DEF MetOK, serverVars
    <2>4. HistoryOK(n)'
      BY <1>3, <2>1 DEF HistoryOK, PastOK, Reads, serverVars
    <2> QED
      BY <2>2, <2>3, <2>4
  <1>6. OutboxOK'
    BY DEF TextInv, OutboxOK
  <1>7. \A t \in texts' : TextOK(t)'
    BY TextStays
  <1> QED
    BY <1>2, <1>4, <1>5, <1>6, <1>7 DEF TextInv

LEMMA SendTextInv ==
  ASSUME TextInv, NEW m \in Members, SendText(m)
  PROVE  TextInv'
  <1>1. PICK n \in entered \ {m} :
          texts' = {[by |-> m, epoch |-> crypto[m].epoch, secret |-> x,
                     to |-> n, behind |-> Len(inbox[n])] : x \in crypto[m].secret}
    BY DEF SendText
  <1>2. /\ n \in Members /\ Len(inbox[n]) \in Nat
        /\ crypto[m].epoch \in Nat /\ crypto[m].secret \subseteq Secrets
        /\ HeldOK(m, crypto[m], issued) /\ turn \subseteq Members
    <2>1. TypeOK /\ HeldOK(m, crypto[m], issued)
      BY DEF TextInv, Inv
    <2>2. n \in Members /\ turn \subseteq Members
      BY <2>1 DEF TypeOK
    <2>3. inbox[n] \in Seq(Messages) /\ crypto[m] \in CryptoStates
      BY <2>1, <2>2 DEF TypeOK
    <2> QED
      BY <2>1, <2>2, <2>3 DEF CryptoStates
  <1>3. ASSUME NEW x \in crypto[m].secret
        PROVE  TextOK([by |-> m, epoch |-> crypto[m].epoch, secret |-> x,
                       to |-> n, behind |-> Len(inbox[n])])
    <2>1. Opened(m, x, crypto[m].epoch, {}, issued)
      BY <1>2 DEF HeldOK, Opened
    <2> QED
      BY <1>2, <2>1 DEF TextOK
  <1>4. \A t \in texts' : TextOK(t)
    BY <1>1, <1>3
  <1>5. /\ UNCHANGED <<serverVars, crypto, queued, arrivals, due, inbox,
                       outbox, drawn, issued, old, held>>
        /\ turn' \subseteq Members
    BY <1>2 DEF SendText, vars
  <1> QED
    BY <1>4, <1>5, TextInvStep

LEMMA OpenTextInv ==
  ASSUME TextInv, NEW n \in Members, OpenText(n)
  PROVE  TextInv'
  <1>1. texts' = {} /\ turn' \subseteq Members
    BY DEF OpenText
  <1>2. UNCHANGED <<serverVars, crypto, queued, arrivals, due, inbox,
                    outbox, drawn, issued, old, held>>
    BY DEF OpenText
  <1> QED
    BY <1>1, <1>2, TextInvStep

LEMMA StepNext ==
  ASSUME NEW m \in Members, Step(m)
  PROVE  Next
  BY DEF Step, ReceiveBefore, Next

LEMMA StepTextInv ==
  ASSUME TextInv, NEW m \in Members, Step(m)
  PROVE  TextInv'
  <1>1. Inv /\ OutboxOK
    BY DEF TextInv
  <1>2. Inv'
    BY <1>1, StepNext, NextInv
  <1>3. RoomStep /\ Recorded /\ OutboxOK'
    BY <1>1, StepRoom, StepOutbox DEF Step, Recorded
  <1>4. ASSUME NEW n \in Members
        PROVE  QueueOK(inbox'[n], roster', Ever') /\ KnowsOK(n)' /\ MetOK(n)' /\ HistoryOK(n)'
    <2>1. QueueOK(inbox[n], roster, Ever) /\ KnowsOK(n) /\ MetOK(n) /\ HistoryOK(n)
      BY DEF TextInv
    <2> QED
      BY <1>1, <1>2, <1>3, <2>1, QueuesOn, KnowsOn, MetOn, HistoryOn
  <1>5. ASSUME NEW t \in texts' PROVE TextOK(t)'
    <2>1. issued \subseteq issued'
      BY <1>3 DEF RoomStep
    <2>2. CASE t \in texts
      BY <2>1, <2>2, TextStays DEF TextInv
    <2>3. CASE ReceiveBefore(m)
      <3>1. PICK u \in texts : t = [u EXCEPT !.behind = IF u.to = m THEN @ - 1 ELSE @]
        BY <2>3 DEF ReceiveBefore
      <3>2. TextOK(u) /\ ~Reaches(u, m)
        BY <2>3 DEF TextInv, ReceiveBefore
      <3>3. u.to = m => u.behind - 1 \in Nat
        BY <3>2 DEF TextOK, Reaches
      <3>4. TextOK(t)
        BY <3>1, <3>2, <3>3 DEF TextOK
      <3> QED
        BY <2>1, <3>4, TextStays
    <2> QED
      BY <2>2, <2>3 DEF Step
  <1> QED
    BY <1>2, <1>3, <1>4, <1>5 DEF TextInv

LEMMA TextNextInv == TextInv /\ [TextNext]_textVars => TextInv'
  <1> SUFFICES ASSUME TextInv, [TextNext]_textVars PROVE TextInv'
    OBVIOUS
  <1>1. CASE UNCHANGED textVars
    <2>1. \A t \in texts' : TextOK(t)
      BY <1>1 DEF textVars, TextInv
    <2>2. turn' \subseteq Members
      BY <1>1 DEF textVars, vars, TextInv, Inv, TypeOK
    <2> QED
      BY <1>1, <2>1, <2>2, TextInvStep DEF textVars, vars
  <1> QED
    BY <1>1, SendTextInv, OpenTextInv, StepTextInv DEF TextNext

(* The invariant holds in every state the room and its texts reach. *)
THEOREM TextInvariance == TextSpec => []TextInv
  BY TextsInit, TextNextInv, PTL DEF TextSpec

-----------------------------------------------------------------------------
(* What follows from the invariant.                                        *)

(* A text never disturbs a rekey: with texts under way as without them the *)
(* state has its type, a transition has one secret, and a client holds     *)
(* only secrets of commits that name it.                                   *)
THEOREM RekeyUndisturbed ==
  TextSpec => [](TypeOK /\ OneSecretPerTransition /\ SecretsStayInRoster)
  <1>1. TextInv => TypeOK /\ OneSecretPerTransition /\ SecretsStayInRoster
    BY TransitionHasOneSecret, HeldSecretsStay DEF TextInv, Inv
  <1> QED
    BY <1>1, TextInvariance, PTL

(* Nor does it take a client past the next epoch, or back. *)
THEOREM EpochsAdvanceWithTexts == TextSpec => EpochsAdvanceByOne
  <1>1. TextInv /\ TextInv' /\ [TextNext]_textVars =>
          [\A m \in Members :
             /\ crypto'[m].epoch >= crypto[m].epoch
             /\ Active(crypto[m]) => crypto'[m].epoch <= crypto[m].epoch + 1]_vars
    <2> SUFFICES ASSUME TextInv, TextInv', [TextNext]_textVars, NEW m \in Members
                 PROVE  Advances(m)
      BY DEF Advances
    <2>1. Next \/ UNCHANGED crypto
      BY StepNext DEF TextNext, SendText, OpenText, textVars, vars
    <2> QED
      BY <2>1, AdvanceStep DEF TextInv
  <1> QED
    BY <1>1, TextInvariance, PTL DEF TextSpec, EpochsAdvanceByOne

(* Nor does it stop one, or part the room: what a room does whose members  *)
(* come and go one at a time it does with texts as well, all in one epoch  *)
(* whenever nothing is left to do, one secret to an epoch, and the move    *)
(* from one epoch to the next made by all.                                 *)
THEOREM RoomsMoveWithTexts ==
  ASSUME Ranked, Orderly
  PROVE  TextSpec => []EveryMemberActivates /\ []OneSecretPerEpoch /\ MovesAsOne
  <1>. DEFINE J == OrderlyInv /\ OneSecretPerEpoch /\ RostersNamed
              rest == <<serverVars, crypto, queued, due, inbox, outbox, drawn, issued>>
  <1>1. [TextNext]_textVars => Next \/ UNCHANGED rest
    BY StepNext DEF TextNext, SendText, OpenText, textVars, vars
  <1>2. Init => Group!Init
    <2>1. ASSUME Init PROVE At = [m \in Members |-> {}] /\ EpochsOpened = {}
      BY <2>1 DEF Init, At, EpochsOpened
    <2>. QED
      BY <2>1 DEF Init, Group!Init
  <1>3. TextInit => Init
    BY DEF TextInit
  <1>4. TextInv => Inv
    BY DEF TextInv
  <1>5. UNCHANGED rest => UNCHANGED Group!vars
    BY RoomRests DEF serverVars
  <1>6. CASE Members = {}
    <2>1. Inv => EveryMemberActivates /\ OneSecretPerEpoch
      BY <1>6 DEF Inv, TypeOK, EveryMemberActivates, Agreed, OneSecretPerEpoch
    <2>2. [TextNext]_textVars => [Group!Next]_Group!vars
      BY <1>1, <1>5, <1>6 DEF Next
    <2>. HIDE DEF rest
    <2>. QED
      BY <1>2, <1>3, <1>4, <2>1, <2>2, TextInvariance, PTL DEF TextSpec, MovesAsOne, Group!Spec
  <1>7. CASE Members # {}
    <2>1. Init => J
      BY <1>7, OrderlyInit DEF Init, OneSecretPerEpoch, RostersNamed
    <2>2. Inv /\ J /\ Next => J'
      BY OrderlyNext, SecretNext, NamedNext
    <2>3. J /\ UNCHANGED rest => J'
      <3>. SUFFICES ASSUME J, UNCHANGED rest PROVE J'
        OBVIOUS
      <3>1. UNCHANGED <<roster, entered, left, crypto, queued, due, inbox, outbox, issued>>
        BY DEF serverVars
      <3>2. Views' = Views /\ Lines' = Lines /\ Stirred' = Stirred
        BY <3>1 DEF Views, Lines, Stirred
      <3>3. Frame'
        BY <3>1 DEF OrderlyInv, Frame, FewSeats, OnTheWayIn
      <3>4. OrderlyInv'
        BY <3>1, <3>2, <3>3 DEF OrderlyInv
      <3>5. OneSecretPerEpoch' /\ RostersNamed'
        BY <3>1, <3>2 DEF OneSecretPerEpoch, RostersNamed
      <3>. QED
        BY <3>4, <3>5
    <2>4. Inv /\ J /\ Next => [Group!Next]_Group!vars
      BY MovesNext
    <2>5. Inv /\ J => EveryMemberActivates /\ OneSecretPerEpoch
      BY OrderlyActivates
    <2>. HIDE DEF J, rest
    <2>6. Inv /\ J /\ [TextNext]_textVars => J' /\ [Group!Next]_Group!vars
      BY <1>1, <1>5, <2>2, <2>3, <2>4
    <2>. QED
      BY <1>2, <1>3, <1>4, <2>1, <2>5, <2>6, TextInvariance, PTL
      DEF TextSpec, MovesAsOne, Group!Spec
  <1>. QED
    BY <1>6, <1>7

(* A text is opened by the members of its epoch who hold its secret and    *)
(* still list its author, and by no one else, however many epochs went by  *)
(* since (activate_epoch, decrypt_message, decrypt_for_epoch).             *)
THEOREM TextsAreReadable == TextSpec => []TextsReadable
  <1>1. TextInv => TextsReadable
    <2> SUFFICES ASSUME TextInv, NEW t \in texts, NEW n \in Members, t.to = n
                 PROVE  /\ Opens(n, t) =>
                             t.secret \in held[n] /\ InEpoch(n, t) /\ InEpoch(t.by, t)
                        /\ t.secret \in held[n] /\ t.by \in crypto[n].members =>
                             Opens(n, t)
      BY DEF TextsReadable, Reaches
    <2>1. /\ TextOK(t) /\ HistoryOK(n) /\ Inv
          /\ HeldOK(n, crypto[n], issued) /\ t.by # n
      BY DEF TextInv, Inv, TextOK
    <2>2. ASSUME NEW recv, NEW e, Opened(n, t.secret, e, recv, issued), t.by \in recv
          PROVE  InEpoch(n, t) /\ InEpoch(t.by, t)
      BY <2>2 DEF Opened, InEpoch
    <2>3. ASSUME Opens(n, t)
          PROVE  t.secret \in held[n] /\ InEpoch(n, t) /\ InEpoch(t.by, t)
      <3>1. CASE t.secret \in crypto[n].secret /\ t.by \in crypto[n].recv
        BY <2>1, <2>2, <3>1 DEF HistoryOK, HeldOK
      <3>2. ASSUME NEW o \in old[n], t.by \in o.recv, t.secret = o.secret
            PROVE  t.secret \in held[n] /\ InEpoch(n, t) /\ InEpoch(t.by, t)
        <4>1. PastOK(n, o)
          BY <2>1 DEF HistoryOK
        <4> QED
          BY <2>2, <3>2, <4>1 DEF PastOK
      <3> QED
        BY <2>3, <3>1, <3>2 DEF Opens, Decrypts
    <2>4. ASSUME t.secret \in held[n], t.by \in crypto[n].members
          PROVE  Opens(n, t)
      <3>1. \A e, recv : Opened(n, t.secret, e, recv, issued) =>
              \E c \in issued : /\ c.secret = t.secret /\ c.epoch + 1 = e
                                /\ c.epoch + 1 = t.epoch /\ t.by \in c.new
        <4> SUFFICES ASSUME NEW e, NEW recv, Opened(n, t.secret, e, recv, issued)
                     PROVE  \E c \in issued : /\ c.secret = t.secret /\ c.epoch + 1 = e
                                              /\ c.epoch + 1 = t.epoch /\ t.by \in c.new
          OBVIOUS
        <4>1. Opened(t.by, t.secret, t.epoch, {}, issued)
          BY <2>1 DEF TextOK
        <4>2. \A c \in issued : c.secret.draw # 0
          BY <2>1 DEF Inv, IssuedOK
        <4>3. \A c, d \in issued : c.secret = d.secret => c = d
          BY <2>1 DEF Inv
        <4>4. ~(t.secret = [by |-> n, draw |-> 0] /\ t.secret = [by |-> t.by, draw |-> 0])
          BY <2>1
        <4> QED
          BY <4>1, <4>2, <4>3, <4>4 DEF Opened
      <3>2. CASE t.secret \in crypto[n].secret
        <4>1. PICK c \in issued : /\ c.secret = t.secret /\ c.epoch + 1 = crypto[n].epoch
                                  /\ c.epoch + 1 = t.epoch /\ t.by \in c.new
          BY <2>1, <3>1, <3>2 DEF HeldOK
        <4>2. t.by \in crypto[n].recv
          BY <2>1, <2>4, <3>2, <4>1 DEF HistoryOK, Reads
        <4> QED
          BY <2>4, <3>2, <4>1, <4>2 DEF Opens, Decrypts
      <3>3. ASSUME NEW o \in old[n], o.secret = t.secret PROVE Opens(n, t)
        <4>1. PastOK(n, o)
          BY <2>1 DEF HistoryOK
        <4>2. PICK c \in issued : /\ c.secret = t.secret /\ c.epoch + 1 = o.epoch
                                  /\ c.epoch + 1 = t.epoch /\ t.by \in c.new
          BY <3>1, <3>3, <4>1 DEF PastOK
        <4>3. t.epoch = o.epoch /\ t.epoch # crypto[n].epoch
          <5>1. crypto[n].epoch \in Nat
            BY <2>1 DEF Inv, TypeOK, CryptoStates
          <5> QED
            BY <4>1, <4>2, <5>1 DEF PastOK
        <4>4. t.by \in o.recv /\ t.by \in o.members
          BY <2>1, <2>4, <3>3, <4>1, <4>2 DEF PastOK, Reads
        <4> QED
          BY <3>3, <4>3, <4>4 DEF Opens, Decrypts
      <3> QED
        BY <2>1, <2>4, <3>2, <3>3 DEF HistoryOK
    <2> QED
      BY <2>3, <2>4
  <1> QED
    BY <1>1, TextInvariance, PTL
=============================================================================
