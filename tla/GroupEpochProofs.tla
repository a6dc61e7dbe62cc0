-------------------------- MODULE GroupEpochProofs --------------------------
(***************************************************************************)
(* Proofs about GroupEpoch: type correctness, one secret per transition,   *)
(* secrets that stay in the roster of their commit; and, for a room that   *)
(* changes one member at a time, that nobody is left behind in a rekey,    *)
(* that an epoch has one secret, and that the room moves from epoch to     *)
(* epoch as a whole (Rekey).                                               *)
(***************************************************************************)
EXTENDS GroupEpoch, FiniteSetTheorems, WellFoundedInduction, TLAPS

(* A change of one member, and it is named. *)
OneChange(c) ==
  \/ c.type = "Join" /\ c.affected \notin c.old /\ c.new = c.old \cup {c.affected}
  \/ c.type = "Leave" /\ c.affected \in c.old /\ c.new = c.old \ {c.affected}

(* A client lists itself and whom it reads, and its pending transition     *)
(* leads to its list; a client in an epoch was there before it.            *)
RosterOK(s) ==
  /\ s.me \in s.members
  /\ s.recv \subseteq s.members
  /\ \A t \in s.pending : OneChange(t) /\ t.new = s.members
  /\ s.secret # {} => \A t \in s.pending : s.me \in t.old

(* Every commit was built by the one member whose turn it was, who has     *)
(* been past its epoch ever since.                                         *)
IssuedOK(c) ==
  /\ OneChange(c)
  /\ c.by \in roster \cup left
  /\ c.epoch < crypto[c.by].epoch
  /\ \A m \in Members : c.by = ProposerOf(crypto[m].group, c.epoch, c)
  /\ c.secret.by = c.by
  /\ c.secret.draw \in 1 .. drawn[c.by]

(* Secret x of epoch e, with which client m reads the members of recv, is  *)
(* from the creation of the room or from a commit that names them.         *)
Opened(m, x, e, recv, C) ==
  \/ x = [by |-> m, draw |-> 0] /\ e = 0 /\ recv = {}
  \/ \E c \in C : /\ c.secret = x /\ e = c.epoch + 1
                  /\ m \in c.new /\ recv \subseteq c.new

(* Client m holds one secret. *)
HeldOK(m, s, C) ==
  \A x \in s.secret : s.secret = {x} /\ Opened(m, x, s.epoch, s.recv, C)

Identities ==
  /\ \A m \in Members : crypto[m].me = m
  /\ \A m, n \in Members : crypto[m].group = crypto[n].group

Known(msg) == msg.kind = "commit" => msg \in issued

(* A commit on its way was issued. *)
InFlightOK ==
  \A m \in Members :
    /\ \A i \in DOMAIN inbox[m] : Known(inbox[m][i])
    /\ \A i \in DOMAIN outbox[m] : Known(outbox[m][i])
    /\ \A k \in queued[m] : k.commit \in issued

Inv ==
  /\ TypeOK
  /\ Identities
  /\ InFlightOK
  /\ \A m \in Members : RosterOK(crypto[m]) /\ HeldOK(m, crypto[m], issued)
  /\ \A m \in Members \ (roster \cup left) : crypto[m].epoch = 0
  /\ \A c \in issued : IssuedOK(c)
  /\ \A c, d \in issued :
       c.secret = d.secret \/ (c.by = d.by /\ c.epoch = d.epoch) => c = d

-----------------------------------------------------------------------------
(* The steps of a client's state. *)

LEMMA ActivateEpochType ==
  ASSUME NEW s \in CryptoStates, NEW e \in Nat, NEW x \in Secrets
  PROVE  /\ ActivateEpoch(s, e, x) \in CryptoStates
         /\ ActivateEpoch(s, e, x).group = s.group
         /\ ActivateEpoch(s, e, x).me = s.me
         /\ ActivateEpoch(s, e, x).epoch = e
         /\ ActivateEpoch(s, e, x).secret = {x}
         /\ ActivateEpoch(s, e, x).pending = {}
         /\ ActivateEpoch(s, e, x).members = s.members
         /\ ActivateEpoch(s, e, x).recv = s.members \ {s.me}
         /\ ActivateEpoch(s, e, x).gen = s.gen + 1
  <1> DEFINE k == [y \in Members |-> IF y = s.me THEN s.gen + 1 ELSE Unknown]
  <1>0. s.gen + 1 \in Nat /\ {x} \in SUBSET Secrets /\ s.members \ {s.me} \in SUBSET Members
    BY DEF CryptoStates
  <1>1. k \in Keys
    BY <1>0 DEF Keys, Unknown
  <1>2. ActivateEpoch(s, e, x) =
          [s EXCEPT !.epoch = e, !.secret = {x}, !.recv = s.members \ {s.me},
                    !.pending = {}, !.gen = s.gen + 1, !.keys = k]
    BY DEF ActivateEpoch, CryptoStates
  <1> HIDE DEF k
  <1> QED
    BY <1>0, <1>1, <1>2 DEF CryptoStates

LEMMA NewPendingEpochType ==
  ASSUME NEW g \in GroupIds, NEW m \in Members
  PROVE  /\ NewPendingEpoch(g, m) \in CryptoStates
         /\ NewPendingEpoch(g, m).group = g
         /\ NewPendingEpoch(g, m).me = m
         /\ NewPendingEpoch(g, m).epoch = 0
         /\ NewPendingEpoch(g, m).secret = {}
         /\ NewPendingEpoch(g, m).pending = {}
         /\ NewPendingEpoch(g, m).members = {m}
         /\ NewPendingEpoch(g, m).recv = {}
  BY DEF NewPendingEpoch, CryptoStates, Keys, Unknown

LEMMA NewSingleEpochType ==
  ASSUME NEW g \in GroupIds, NEW m \in Members
  PROVE  /\ NewSingleEpoch(g, m) \in CryptoStates
         /\ NewSingleEpoch(g, m).group = g
         /\ NewSingleEpoch(g, m).me = m
         /\ NewSingleEpoch(g, m).epoch = 0
         /\ NewSingleEpoch(g, m).members = {m}
         /\ RosterOK(NewSingleEpoch(g, m))
         /\ NewSingleEpoch(g, m).secret = {[by |-> m, draw |-> 0]}
         /\ NewSingleEpoch(g, m).recv = {}
  <1> DEFINE s == NewPendingEpoch(g, m)
             x == [by |-> m, draw |-> 0]
  <1>1. s \in CryptoStates /\ s.group = g /\ s.me = m /\ s.members = {m}
    BY NewPendingEpochType
  <1>2. x \in Secrets
    BY DEF Secrets
  <1>3. NewSingleEpoch(g, m) = ActivateEpoch(s, 0, x)
    BY DEF NewSingleEpoch
  <1> HIDE DEF s, x
  <1>4. /\ ActivateEpoch(s, 0, x) \in CryptoStates
        /\ ActivateEpoch(s, 0, x).group = s.group
        /\ ActivateEpoch(s, 0, x).me = s.me
        /\ ActivateEpoch(s, 0, x).epoch = 0
        /\ ActivateEpoch(s, 0, x).secret = {x}
        /\ ActivateEpoch(s, 0, x).pending = {}
        /\ ActivateEpoch(s, 0, x).members = s.members
        /\ ActivateEpoch(s, 0, x).recv = s.members \ {s.me}
    BY <1>1, <1>2, ActivateEpochType
  <1> QED
    BY <1>1, <1>3, <1>4 DEF RosterOK, x

LEMMA DetectedTransitions ==
  ASSUME NEW old \in SUBSET Members, NEW new \in SUBSET Members,
         NEW t \in DetectRosterTransition(old, new)
  PROVE  t \in Transitions /\ OneChange(t) /\ t.new = new /\ t.old = old
  <1>1. CASE \E x \in Members :
               x \notin old /\ new = old \cup {x} /\ t = Transition("Join", x, old, new)
    BY <1>1 DEF Transition, Transitions, Events, OneChange
  <1>2. CASE \E x \in old : new = old \ {x} /\ t = Transition("Leave", x, old, new)
    BY <1>2 DEF Transition, Transitions, Events, OneChange
  <1> QED
    BY <1>1, <1>2 DEF DetectRosterTransition

LEMMA InitialTransitions ==
  ASSUME NEW m \in Members, NEW old, NEW new \in SUBSET Members, m \in new,
         NEW t \in DetectInitialJoinTransition(m, old, new)
  PROVE  t \in Transitions /\ OneChange(t) /\ t.new = new
  BY DEF DetectInitialJoinTransition, Transition, Transitions, Events, OneChange

(* What one step of a client does to its state: it stays in its epoch and  *)
(* keeps its secret, or enters the epoch of a commit.                      *)
Stays(s, t) ==
  /\ t.epoch = s.epoch /\ t.secret = s.secret /\ t.gen = s.gen
  /\ t.recv = s.recv \cap t.members

Enters(s, t, c) ==
  /\ t.epoch = c.epoch + 1 /\ t.secret = {c.secret} /\ t.gen = s.gen + 1
  /\ s.epoch <= c.epoch
  /\ Active(s) => s.epoch = c.epoch
  /\ s.me \in c.new
  /\ t.members = c.new /\ t.recv = c.new \ {s.me}

Evolves(s, t, C) ==
  /\ t \in CryptoStates
  /\ t.group = s.group /\ t.me = s.me
  /\ RosterOK(t)
  /\ Stays(s, t) \/ \E c \in C : Enters(s, t, c)

LEMMA ReplaceMembersType ==
  ASSUME NEW s \in CryptoStates, RosterOK(s), NEW list \in SUBSET Members
  PROVE  LET t == ReplaceMembers(s, list)
         IN /\ t \in CryptoStates
            /\ t.group = s.group /\ t.me = s.me
            /\ t.members = list \cup {s.me}
            /\ Stays(s, t)
            /\ RosterOK(t)
  <1> DEFINE t == ReplaceMembers(s, list)
             next == list \cup {s.me}
  <1>1. /\ s.me \in Members /\ s.members \in SUBSET Members
        /\ s.pending \in SUBSET Transitions /\ next \in SUBSET Members
        /\ s.me \in next
    BY DEF CryptoStates
  <1>2. /\ t.pending \in SUBSET Transitions
        /\ \A p \in t.pending : OneChange(p) /\ p.new = next
        /\ s.secret # {} => \A p \in t.pending : s.me \in p.old
    <2>1. t.pending = IF s.initialized /\ s.members = next THEN s.pending
                      ELSE IF s.initialized \/ Active(s)
                      THEN DetectRosterTransition(s.members, next)
                      ELSE DetectInitialJoinTransition(s.me, s.members, next)
      BY DEF ReplaceMembers, CryptoStates
    <2>2. \A p \in DetectRosterTransition(s.members, next) :
            p \in Transitions /\ OneChange(p) /\ p.new = next /\ p.old = s.members
      BY <1>1, DetectedTransitions
    <2>3. \A p \in DetectInitialJoinTransition(s.me, s.members, next) :
            p \in Transitions /\ OneChange(p) /\ p.new = next
      BY <1>1, InitialTransitions
    <2>4. s.members = next =>
            \A p \in s.pending : OneChange(p) /\ p.new = next
      BY DEF RosterOK
    <2>5. /\ s.me \in s.members
          /\ s.secret # {} => \A p \in s.pending : s.me \in p.old
      BY DEF RosterOK
    <2> QED
      BY <1>1, <2>1, <2>2, <2>3, <2>4, <2>5 DEF Active
  <1>3. /\ t.members = next /\ t.recv = s.recv \cap next
        /\ t.group = s.group /\ t.me = s.me /\ t.epoch = s.epoch
        /\ t.secret = s.secret /\ t.gen = s.gen /\ t.initialized = TRUE
        /\ t.keys = [x \in Members |-> IF x \in next THEN s.keys[x] ELSE Unknown]
    BY DEF ReplaceMembers, CryptoStates
  <1>4. t \in CryptoStates
    <2> DEFINE k == [x \in Members |-> IF x \in next THEN s.keys[x] ELSE Unknown]
               p == t.pending
    <2>1. k \in Keys
      BY DEF CryptoStates, Keys, Unknown
    <2>2. t = [s EXCEPT !.members = next, !.keys = k, !.recv = @ \cap next,
                        !.pending = p, !.initialized = TRUE]
      BY DEF ReplaceMembers, CryptoStates
    <2>3. p \in SUBSET Transitions
      BY <1>2
    <2> HIDE DEF t, k, p, next
    <2> QED
      BY <1>1, <2>1, <2>2, <2>3 DEF CryptoStates
  <1> HIDE DEF t
  <1>5. Stays(s, t)
    BY <1>3 DEF Stays
  <1>6. RosterOK(t)
    BY <1>1, <1>2, <1>3 DEF RosterOK
  <1> QED
    BY <1>3, <1>4, <1>5, <1>6 DEF t, next

LEMMA ApplyKeyAnnounceType ==
  ASSUME NEW s \in CryptoStates, RosterOK(s), NEW a \in Announces
  PROVE  LET t == ApplyKeyAnnounce(s, a)
         IN /\ t \in CryptoStates
            /\ t.group = s.group /\ t.me = s.me
            /\ t.members = s.members
            /\ Stays(s, t)
            /\ RosterOK(t)
  <1> DEFINE t == ApplyKeyAnnounce(s, a)
  <1>1. t \in CryptoStates
    BY DEF ApplyKeyAnnounce, CryptoStates, Announces, Keys, Unknown
  <1>2. /\ t.group = s.group /\ t.me = s.me /\ t.members = s.members
        /\ t.epoch = s.epoch /\ t.secret = s.secret /\ t.gen = s.gen
        /\ t.recv = s.recv /\ t.pending = s.pending
    BY DEF ApplyKeyAnnounce, CryptoStates
  <1>3. s.recv \subseteq s.members
    BY DEF RosterOK
  <1> HIDE DEF t
  <1>4. Stays(s, t)
    BY <1>2, <1>3 DEF Stays
  <1>5. RosterOK(t)
    BY <1>2 DEF RosterOK
  <1> QED
    BY <1>1, <1>2, <1>4, <1>5 DEF t

LEMMA AcceptedCommits ==
  ASSUME NEW s \in CryptoStates, RosterOK(s), NEW c \in Commits, Accepts(s, c)
  PROVE  LET t == ApplyEpochCommit(s, c)
         IN /\ t \in CryptoStates
            /\ t.group = s.group /\ t.me = s.me
            /\ t.members = s.members
            /\ Enters(s, t, c)
            /\ RosterOK(t)
  <1> DEFINE t == ApplyEpochCommit(s, c)
  <1>1. c.epoch \in Nat /\ c.secret \in Secrets /\ s.epoch \in Nat
    BY DEF Commits, CryptoStates
  <1>2. PICK p \in s.pending :
          /\ c.epoch = s.epoch \/ CanAcceptFromLaterEpoch(s, p, c)
          /\ c.old = p.old /\ c.new = p.new /\ s.me \in c.new
    BY DEF Accepts
  <1>3. c.new = s.members /\ (s.secret # {} => s.me \in p.old)
    BY <1>2 DEF RosterOK
  <1>4. /\ s.epoch <= c.epoch
        /\ Active(s) => s.epoch = c.epoch
    BY <1>1, <1>2, <1>3 DEF CanAcceptFromLaterEpoch, Active
  <1>5. /\ t \in CryptoStates /\ t.group = s.group /\ t.me = s.me
        /\ t.epoch = c.epoch + 1 /\ t.secret = {c.secret} /\ t.pending = {}
        /\ t.members = s.members /\ t.recv = s.members \ {s.me}
        /\ t.gen = s.gen + 1
    <2>1. c.epoch + 1 \in Nat
      BY <1>1
    <2> QED
      BY <1>1, <2>1, ActivateEpochType DEF ApplyEpochCommit
  <1> HIDE DEF t
  <1>6. Enters(s, t, c)
    BY <1>2, <1>3, <1>4, <1>5 DEF Enters
  <1>7. RosterOK(t)
    BY <1>2, <1>3, <1>5 DEF RosterOK
  <1> QED
    BY <1>5, <1>6, <1>7 DEF t

-----------------------------------------------------------------------------
(* Receiving. *)

LEMMA RetryStep ==
  ASSUME Inv, NEW m \in Members, NEW s \in CryptoStates, RosterOK(s),
         s.group = crypto[m].group, s.me = crypto[m].me,
         Stays(crypto[m], s), Retry(m, s)
  PROVE  /\ \E t : /\ Evolves(crypto[m], t, issued)
                   /\ t.members = s.members
                   /\ crypto' = [crypto EXCEPT ![m] = t]
         /\ queued' \in [Members -> SUBSET Kept]
         /\ \A n \in Members : queued'[n] \subseteq queued[n]
  <1> DEFINE hits == {k \in queued[m] : Accepts(s, k.commit)}
  <1>1. /\ queued \in [Members -> SUBSET Kept]
        /\ s.epoch \in Nat /\ issued \subseteq Commits
        /\ \A k \in queued[m] : k.commit \in issued
    BY DEF Inv, TypeOK, InFlightOK, CryptoStates
  <1>2. CASE /\ crypto' = [crypto EXCEPT ![m] = s]
             /\ queued' = [queued EXCEPT ![m] = {k \in @ : ~Ignores(s, k.commit)}]
    <2>1. Evolves(crypto[m], s, issued)
      BY <1>1 DEF Evolves
    <2> QED
      BY <1>1, <1>2, <2>1
  <1>3. ASSUME NEW k \in hits,
               crypto' = [crypto EXCEPT ![m] = ApplyEpochCommit(s, k.commit)],
               queued' = [queued EXCEPT ![m] =
                 {h \in @ : \/ h.at < k.at
                            \/ /\ h.at > k.at
                               /\ ~Ignores(ApplyEpochCommit(s, k.commit), h.commit)}]
        PROVE  /\ Evolves(crypto[m], ApplyEpochCommit(s, k.commit), issued)
               /\ ApplyEpochCommit(s, k.commit).members = s.members
               /\ queued' \in [Members -> SUBSET Kept]
               /\ \A n \in Members : queued'[n] \subseteq queued[n]
    <2>1. k.commit \in issued /\ k.commit \in Commits /\ Accepts(s, k.commit)
      BY <1>1
    <2>2. LET t == ApplyEpochCommit(s, k.commit)
          IN /\ t \in CryptoStates
             /\ t.group = s.group /\ t.me = s.me
             /\ t.members = s.members
             /\ Enters(s, t, k.commit)
             /\ RosterOK(t)
      BY <2>1, AcceptedCommits
    <2>3. Enters(crypto[m], ApplyEpochCommit(s, k.commit), k.commit)
      BY <2>2 DEF Enters, Stays, Active
    <2>4. Evolves(crypto[m], ApplyEpochCommit(s, k.commit), issued)
      BY <2>1, <2>2, <2>3 DEF Evolves
    <2> QED
      BY <1>1, <1>3, <2>2, <2>4
  <1> QED
    BY <1>2, <1>3 DEF Retry

(* Whom client m lists after its next event. *)
ListedBy(m) == IF Head(inbox[m]).kind = "list"
               THEN Head(inbox[m]).members \cup {m} ELSE crypto[m].members

(* A received message changes one client, and keeps only issued commits. *)
LEMMA ReceiveStep ==
  ASSUME Inv, NEW m \in Members, Receive(m)
  PROVE  /\ \E t : /\ Evolves(crypto[m], t, issued)
                   /\ t.members = ListedBy(m)
                   /\ crypto' = [crypto EXCEPT ![m] = t]
         /\ queued' \in [Members -> SUBSET Kept]
         /\ \A n \in Members : \A k \in queued'[n] : k.commit \in issued
         /\ arrivals' \in [Members -> Nat]
         /\ due' \in [Members -> BOOLEAN]
  <1> DEFINE msg == Head(inbox[m])
  <1>1. /\ inbox[m] \in Seq(Messages) /\ inbox[m] # <<>>
        /\ queued \in [Members -> SUBSET Kept]
        /\ arrivals \in [Members -> Nat] /\ due \in [Members -> BOOLEAN]
        /\ crypto \in [Members -> CryptoStates] /\ issued \subseteq Commits
        /\ \A n \in Members : \A k \in queued[n] : k.commit \in issued
        /\ RosterOK(crypto[m])
    BY DEF Inv, TypeOK, InFlightOK, Receive
  <1>2. msg \in Messages /\ msg = inbox[m][1] /\ 1 \in DOMAIN inbox[m]
    BY <1>1
  <1>3. Known(msg)
    BY <1>2 DEF Inv, InFlightOK
  <1>4. /\ crypto[m] \in CryptoStates
        /\ crypto[m].epoch \in Nat
    BY <1>1 DEF CryptoStates
  <1>8. crypto[m].me = m
    BY DEF Inv, Identities
  <1> HIDE DEF msg
  <1>5. CASE ReceiveList(m, msg)
    <2>1. msg.members \in SUBSET Members
      BY <1>2, <1>5 DEF ReceiveList, Messages, Lists, Announces, Commits
    <2>2. LET t == ReplaceMembers(crypto[m], msg.members)
          IN /\ t \in CryptoStates
             /\ t.group = crypto[m].group /\ t.me = crypto[m].me
             /\ t.members = ListedBy(m)
             /\ Stays(crypto[m], t)
             /\ RosterOK(t)
      <3>1. ListedBy(m) = msg.members \cup {crypto[m].me}
        BY <1>5, <1>8 DEF ListedBy, ReceiveList, msg
      <3> QED
        BY <1>1, <1>4, <2>1, <3>1, ReplaceMembersType
    <2>3. Retry(m, ReplaceMembers(crypto[m], msg.members))
      BY <1>5 DEF ReceiveList
    <2>4. /\ \E t : /\ Evolves(crypto[m], t, issued)
                    /\ t.members = ListedBy(m)
                    /\ crypto' = [crypto EXCEPT ![m] = t]
          /\ queued' \in [Members -> SUBSET Kept]
          /\ \A n \in Members : queued'[n] \subseteq queued[n]
      BY <2>2, <2>3, RetryStep
    <2> QED
      BY <1>1, <1>5, <2>4 DEF ReceiveList
  <1>6. CASE ReceiveAnnounce(m, msg)
    <2>1. msg \in Announces
      BY <1>2, <1>6 DEF ReceiveAnnounce, Messages, Lists, Announces, Commits
    <2>2. LET t == ApplyKeyAnnounce(crypto[m], msg)
          IN /\ t \in CryptoStates
             /\ t.group = crypto[m].group /\ t.me = crypto[m].me
             /\ t.members = ListedBy(m)
             /\ Stays(crypto[m], t)
             /\ RosterOK(t)
      <3>1. ListedBy(m) = crypto[m].members
        BY <1>6 DEF ListedBy, ReceiveAnnounce, msg
      <3> QED
        BY <1>1, <1>4, <2>1, <3>1, ApplyKeyAnnounceType
    <2>3. Retry(m, ApplyKeyAnnounce(crypto[m], msg))
      BY <1>6 DEF ReceiveAnnounce
    <2>4. /\ \E t : /\ Evolves(crypto[m], t, issued)
                    /\ t.members = ListedBy(m)
                    /\ crypto' = [crypto EXCEPT ![m] = t]
          /\ queued' \in [Members -> SUBSET Kept]
          /\ \A n \in Members : queued'[n] \subseteq queued[n]
      BY <2>2, <2>3, RetryStep
    <2>5. due' \in [Members -> BOOLEAN] /\ UNCHANGED arrivals
      <3>1. due' = [due EXCEPT ![m] = @ \/ crypto'[m] # crypto[m]]
        BY <1>6 DEF ReceiveAnnounce
      <3>2. (due[m] \/ crypto'[m] # crypto[m]) \in BOOLEAN
        BY <1>1
      <3>3. UNCHANGED arrivals
        BY <1>6 DEF ReceiveAnnounce
      <3> QED
        BY <1>1, <3>1, <3>2, <3>3, Zenon
    <2> QED
      BY <1>1, <2>4, <2>5
  <1>7. CASE ReceiveCommit(m, msg)
    <2>1. msg \in Commits /\ msg \in issued
      BY <1>2, <1>3, <1>7 DEF ReceiveCommit, Messages, Lists, Announces, Commits, Known
    <2>7. ListedBy(m) = crypto[m].members
      BY <1>7 DEF ListedBy, ReceiveCommit, msg
    <2>2. CASE /\ Accepts(crypto[m], msg)
               /\ crypto' = [crypto EXCEPT ![m] = ApplyEpochCommit(@, msg)]
               /\ due' = [due EXCEPT ![m] = TRUE]
               /\ UNCHANGED <<queued, arrivals>>
      <3>1. LET t == ApplyEpochCommit(crypto[m], msg)
            IN /\ t \in CryptoStates
               /\ t.group = crypto[m].group /\ t.me = crypto[m].me
               /\ t.members = ListedBy(m)
               /\ Enters(crypto[m], t, msg)
               /\ RosterOK(t)
        BY <1>1, <1>4, <2>1, <2>2, <2>7, AcceptedCommits
      <3>2. Evolves(crypto[m], ApplyEpochCommit(crypto[m], msg), issued)
        BY <2>1, <3>1 DEF Evolves
      <3> QED
        BY <1>1, <2>2, <3>1, <3>2
    <2>3. Evolves(crypto[m], crypto[m], issued)
      BY <1>1, <1>4 DEF Evolves, Stays, RosterOK
    <2>4. crypto = [crypto EXCEPT ![m] = crypto[m]]
      BY <1>1
    <2>5. CASE UNCHANGED <<crypto, due, queued, arrivals>>
      BY <1>1, <2>3, <2>4, <2>7, <2>5
    <2>6. CASE /\ queued' = [queued EXCEPT ![m] =
                              QueuePendingCommit(@, arrivals[m] + 1, msg)]
               /\ arrivals' = [arrivals EXCEPT ![m] = @ + 1]
               /\ UNCHANGED <<crypto, due>>
      <3>1. /\ QueuePendingCommit(queued[m], arrivals[m] + 1, msg) \in SUBSET Kept
            /\ \A k \in QueuePendingCommit(queued[m], arrivals[m] + 1, msg) :
                 k.commit \in issued
        <4>1. [at |-> arrivals[m] + 1, commit |-> msg] \in Kept
          BY <1>1, <2>1 DEF Kept
        <4> QED
          BY <1>1, <2>1, <4>1 DEF QueuePendingCommit
      <3> QED
        BY <1>1, <2>3, <2>4, <2>7, <2>6, <3>1
    <2> QED
      BY <1>7, <2>2, <2>5, <2>6 DEF ReceiveCommit
  <1> QED
    BY <1>5, <1>6, <1>7 DEF Receive, msg

-----------------------------------------------------------------------------
(* The invariant. *)

LEMMA InitInv == Init => Inv
  <1> SUFFICES ASSUME Init PROVE Inv
    OBVIOUS
  <1>1. PICK g \in GroupIds : crypto = [m \in Members |-> NewPendingEpoch(g, m)]
    BY DEF Init
  <1>2. \A m \in Members :
          /\ crypto[m] \in CryptoStates
          /\ crypto[m].me = m /\ crypto[m].group = g
          /\ crypto[m].pending = {} /\ crypto[m].secret = {}
          /\ crypto[m].members = {m} /\ crypto[m].recv = {}
          /\ crypto[m].epoch = 0
    BY <1>1, NewPendingEpochType
  <1>3. TypeOK
    BY <1>1, <1>2 DEF Init, TypeOK
  <1>4. Identities
    BY <1>2 DEF Identities
  <1>5. InFlightOK
    BY DEF Init, InFlightOK
  <1>6. \A m \in Members : RosterOK(crypto[m]) /\ HeldOK(m, crypto[m], issued)
    BY <1>2 DEF RosterOK, HeldOK, Opened
  <1> QED
    BY <1>2, <1>3, <1>4, <1>5, <1>6 DEF Inv, Init

(* A client that evolves keeps the part of the invariant about clients. *)
LEMMA EvolveStep ==
  ASSUME Inv, NEW m \in Members,
         issued \subseteq issued', issued' \subseteq Commits,
         \E t : Evolves(crypto[m], t, issued') /\ crypto' = [crypto EXCEPT ![m] = t]
  PROVE  /\ crypto' \in [Members -> CryptoStates]
         /\ Identities'
         /\ \A n \in Members : /\ RosterOK(crypto'[n])
                               /\ HeldOK(n, crypto'[n], issued')
                               /\ crypto'[n].group = crypto[n].group
                               /\ crypto'[n].epoch >= crypto[n].epoch
  <1>1. PICK t : /\ Evolves(crypto[m], t, issued')
                 /\ crypto' = [crypto EXCEPT ![m] = t]
    OBVIOUS
  <1>2. /\ crypto \in [Members -> CryptoStates]
        /\ \A n \in Members : /\ crypto[n] \in CryptoStates
                              /\ crypto[n].epoch \in Nat
                              /\ RosterOK(crypto[n])
                              /\ HeldOK(n, crypto[n], issued)
    BY DEF Inv, TypeOK, CryptoStates
  <1>3. /\ crypto' \in [Members -> CryptoStates]
        /\ crypto'[m] = t
        /\ \A n \in Members \ {m} : crypto'[n] = crypto[n]
    BY <1>1, <1>2 DEF Evolves
  <1>4. /\ t.group = crypto[m].group /\ t.me = crypto[m].me
        /\ t.epoch >= crypto[m].epoch
    <2>1. \A c \in issued' : c.epoch \in Nat
      BY DEF Commits
    <2> QED
      BY <1>1, <1>2, <2>1 DEF Evolves, Stays, Enters
  <1>5. crypto[m].me = m
    BY DEF Inv, Identities
  <1>6. \A n \in Members : crypto'[n].group = crypto[n].group
    BY <1>3, <1>4
  <1>7. Identities'
    BY <1>3, <1>4, <1>6 DEF Inv, Identities
  <1>8. \A n \in Members \ {m} : HeldOK(n, crypto'[n], issued')
    BY <1>2, <1>3 DEF HeldOK, Opened
  <1>9. HeldOK(m, t, issued')
    <2>1. CASE Stays(crypto[m], t)
      BY <1>2, <2>1 DEF HeldOK, Opened, Stays
    <2>2. CASE \E c \in issued' : Enters(crypto[m], t, c)
      BY <1>5, <2>2 DEF HeldOK, Opened, Enters
    <2> QED
      BY <1>1, <2>1, <2>2 DEF Evolves
  <1>10. RosterOK(t)
    BY <1>1 DEF Evolves
  <1>11. \A n \in Members : crypto'[n].epoch >= crypto[n].epoch
    BY <1>2, <1>3, <1>4
  <1> QED
    BY <1>2, <1>3, <1>6, <1>7, <1>8, <1>9, <1>10, <1>11

(* A commit stays as it should while its author moves on. *)
LEMMA IssuedStep ==
  ASSUME Inv, crypto' \in [Members -> CryptoStates],
         roster \cup left \subseteq (roster \cup left)',
         drawn' \in [Members -> Nat],
         \A n \in Members : /\ drawn'[n] >= drawn[n]
                            /\ crypto'[n].group = crypto[n].group
                            /\ n \in roster \cup left =>
                                 crypto'[n].epoch >= crypto[n].epoch
  PROVE  \A c \in issued : IssuedOK(c)'
  <1> SUFFICES ASSUME NEW c \in issued PROVE IssuedOK(c)'
    OBVIOUS
  <1>1. /\ c \in Commits /\ IssuedOK(c)
        /\ drawn \in [Members -> Nat] /\ crypto \in [Members -> CryptoStates]
    BY DEF Inv, TypeOK
  <1>2. /\ c.by \in Members /\ c.epoch \in Nat /\ c.by \in roster \cup left
        /\ c.secret.draw \in Nat
    BY <1>1 DEF Commits, Secrets, IssuedOK
  <1>3. crypto[c.by].epoch \in Nat /\ crypto'[c.by].epoch \in Nat
    BY <1>1, <1>2 DEF CryptoStates
  <1>4. c.epoch < crypto'[c.by].epoch
    BY <1>1, <1>2, <1>3 DEF IssuedOK
  <1>5. \A m \in Members : c.by = ProposerOf(crypto'[m].group, c.epoch, c)
    BY <1>1 DEF IssuedOK
  <1>6. c.secret.draw \in 1 .. drawn'[c.by]
    BY <1>1, <1>2 DEF IssuedOK
  <1> QED
    BY <1>1, <1>2, <1>4, <1>5, <1>6 DEF IssuedOK

LEMMA BroadcastType ==
  ASSUME Inv, NEW to \in SUBSET Members, NEW msg \in Messages, Known(msg)
  PROVE  /\ Broadcast(to, msg) \in [Members -> Seq(Messages)]
         /\ \A m \in Members : \A i \in DOMAIN Broadcast(to, msg)[m] :
              Known(Broadcast(to, msg)[m][i])
  <1>1. /\ inbox \in [Members -> Seq(Messages)]
        /\ \A m \in Members : \A i \in DOMAIN inbox[m] : Known(inbox[m][i])
    BY DEF Inv, TypeOK, InFlightOK
  <1> QED
    BY <1>1 DEF Broadcast

LEMMA EnrollInv ==
  ASSUME Inv, NEW m \in Members, Enroll(m)
  PROVE  Inv'
  <1>1. /\ TypeOK /\ Identities /\ InFlightOK
        /\ \A c \in issued : IssuedOK(c)
        /\ m \notin roster \cup left
    BY DEF Inv, Enroll
  <1>2. /\ crypto \in [Members -> CryptoStates]
        /\ \A n \in Members : crypto[n] \in CryptoStates /\ crypto[n].group \in GroupIds
    BY <1>1 DEF TypeOK, CryptoStates
  <1> DEFINE s == NewSingleEpoch(crypto[m].group, m)
  <1>3. /\ s \in CryptoStates /\ s.group = crypto[m].group /\ s.me = m
        /\ RosterOK(s) /\ HeldOK(m, s, issued)
    BY <1>2, NewSingleEpochType DEF HeldOK, Opened
  <1>4. crypto' = crypto \/ crypto' = [crypto EXCEPT ![m] = s]
    BY DEF Enroll
  <1> HIDE DEF s
  <1>5. TypeOK'
    <2>1. crypto' \in [Members -> CryptoStates]
      BY <1>2, <1>3, <1>4
    <2> QED
      BY <1>1, <2>1 DEF Enroll, TypeOK
  <1>6. Identities' /\ \A n \in Members : crypto'[n].group = crypto[n].group
    BY <1>1, <1>2, <1>3, <1>4 DEF Identities
  <1>7. InFlightOK'
    BY <1>1 DEF Enroll, InFlightOK, Known
  <1>8. \A n \in Members : RosterOK(crypto'[n]) /\ HeldOK(n, crypto'[n], issued')
    BY <1>2, <1>3, <1>4 DEF Inv, Enroll
  <1>9. \A c \in issued' : IssuedOK(c)'
    <2>1. \A n \in Members : n \in roster \cup left =>
            crypto'[n].epoch >= crypto[n].epoch
      BY <1>1, <1>2, <1>4 DEF CryptoStates
    <2>2. \A n \in Members : drawn'[n] >= drawn[n]
      BY <1>1 DEF Enroll, TypeOK
    <2>3. issued' = issued /\ roster \cup left \subseteq (roster \cup left)'
      BY DEF Enroll
    <2>4. crypto' \in [Members -> CryptoStates] /\ drawn' \in [Members -> Nat]
      BY <1>5 DEF TypeOK
    <2> QED
      BY <1>6, <2>1, <2>2, <2>3, <2>4, IssuedStep
  <1> QED
    BY <1>5, <1>6, <1>7, <1>8, <1>9 DEF Inv, Enroll

(* Steps that leave the clients' states and the commits alone. *)
LEMMA QuietStep ==
  ASSUME Inv, TypeOK', InFlightOK', UNCHANGED <<crypto, drawn, issued>>,
         roster \cup left \subseteq (roster \cup left)'
  PROVE  Inv'
  <1>1. /\ crypto' = crypto /\ issued' = issued
        /\ \A n \in Members : crypto[n] \in CryptoStates /\ crypto[n].epoch \in Nat
        /\ drawn \in [Members -> Nat]
    BY DEF Inv, TypeOK, CryptoStates
  <1>2. \A c \in issued : IssuedOK(c)'
    <2>1. crypto' \in [Members -> CryptoStates] /\ drawn' \in [Members -> Nat]
      BY DEF TypeOK
    <2>2. \A n \in Members : /\ drawn'[n] >= drawn[n]
                             /\ crypto'[n].group = crypto[n].group
                             /\ crypto'[n].epoch >= crypto[n].epoch
      BY <1>1
    <2> QED
      BY <2>1, <2>2, IssuedStep
  <1> QED
    BY <1>1, <1>2 DEF Inv, Identities

LEMMA EnterInv ==
  ASSUME Inv, NEW m \in Members, Enter(m)
  PROVE  Inv'
  <1>1. TypeOK /\ InFlightOK
    BY DEF Inv
  <1>2. entered' \in SUBSET Members /\ ListOf(roster) \in Messages /\ Known(ListOf(roster))
    BY <1>1 DEF Enter, TypeOK, ListOf, Messages, Lists, Known
  <1>3. /\ inbox' \in [Members -> Seq(Messages)]
        /\ \A n \in Members : \A i \in DOMAIN inbox'[n] : Known(inbox'[n][i])
    BY <1>2, BroadcastType DEF Enter
  <1>4. /\ LocalKeyAnnounce(crypto[m]) \in Messages
        /\ LocalKeyAnnounce(crypto[m]).kind = "announce"
    BY <1>1 DEF TypeOK, CryptoStates, LocalKeyAnnounce, Messages, Announces
  <1>5. /\ outbox' \in [Members -> Seq(Messages)]
        /\ \A n \in Members : \A i \in DOMAIN outbox'[n] : Known(outbox'[n][i])
    BY <1>1, <1>4 DEF Enter, TypeOK, InFlightOK, Known
  <1>6. TypeOK'
    BY <1>1, <1>3, <1>5 DEF Enter, TypeOK
  <1>7. InFlightOK'
    BY <1>1, <1>3, <1>5 DEF Enter, InFlightOK, Known
  <1> QED
    BY <1>6, <1>7, QuietStep DEF Enter

LEMMA LeaveInv ==
  ASSUME Inv, NEW m \in Members, Leave(m)
  PROVE  Inv'
  <1>1. TypeOK /\ InFlightOK
    BY DEF Inv
  <1>2. /\ entered' \in SUBSET Members
        /\ ListOf(roster') \in Messages /\ Known(ListOf(roster'))
    BY <1>1 DEF Leave, TypeOK, ListOf, Messages, Lists, Known
  <1> DEFINE b == Broadcast(entered', ListOf(roster'))
  <1>3. /\ b \in [Members -> Seq(Messages)]
        /\ \A n \in Members : \A i \in DOMAIN b[n] : Known(b[n][i])
    BY <1>2, BroadcastType
  <1>4. inbox' = [b EXCEPT ![m] = <<>>]
    BY DEF Leave
  <1> HIDE DEF b
  <1>5. /\ inbox' \in [Members -> Seq(Messages)]
        /\ \A n \in Members : \A i \in DOMAIN inbox'[n] : Known(inbox'[n][i])
    BY <1>3, <1>4
  <1>6. TypeOK'
    BY <1>1, <1>5 DEF Leave, TypeOK
  <1>7. InFlightOK'
    BY <1>1, <1>5 DEF Leave, TypeOK, InFlightOK, Known
  <1> QED
    BY <1>6, <1>7, QuietStep DEF Leave

LEMMA TransmitInv ==
  ASSUME Inv, NEW m \in Members, Transmit(m)
  PROVE  Inv'
  <1>1. TypeOK /\ InFlightOK
    BY DEF Inv
  <1>2. /\ outbox[m] \in Seq(Messages) /\ outbox[m] # <<>>
        /\ \A i \in DOMAIN outbox[m] : Known(outbox[m][i])
    BY <1>1 DEF Transmit, TypeOK, InFlightOK
  <1>3. Head(outbox[m]) \in Messages /\ Known(Head(outbox[m]))
    BY <1>2
  <1>4. /\ inbox' \in [Members -> Seq(Messages)]
        /\ \A n \in Members : \A i \in DOMAIN inbox'[n] : Known(inbox'[n][i])
    <2>1. entered \ {m} \in SUBSET Members
      BY <1>1 DEF TypeOK
    <2> QED
      BY <1>3, <2>1, BroadcastType DEF Transmit
  <1>5. /\ Tail(outbox[m]) \in Seq(Messages)
        /\ \A i \in DOMAIN Tail(outbox[m]) : Known(Tail(outbox[m])[i])
    BY <1>2
  <1>6. /\ outbox' \in [Members -> Seq(Messages)]
        /\ \A n \in Members : \A i \in DOMAIN outbox'[n] : Known(outbox'[n][i])
    BY <1>1, <1>5 DEF Transmit, TypeOK, InFlightOK
  <1>7. TypeOK'
    BY <1>1, <1>4, <1>6 DEF Transmit, TypeOK, serverVars
  <1>8. InFlightOK'
    BY <1>1, <1>4, <1>6 DEF Transmit, InFlightOK, Known, serverVars
  <1> QED
    BY <1>7, <1>8, QuietStep DEF Transmit, serverVars

LEMMA ReceiveInv ==
  ASSUME Inv, NEW m \in Members, Receive(m)
  PROVE  Inv'
  <1>1. TypeOK /\ InFlightOK /\ issued' = issued
    BY DEF Inv, Receive
  <1>2. /\ \E t : /\ Evolves(crypto[m], t, issued')
                  /\ crypto' = [crypto EXCEPT ![m] = t]
        /\ queued' \in [Members -> SUBSET Kept]
        /\ \A n \in Members : \A k \in queued'[n] : k.commit \in issued
        /\ arrivals' \in [Members -> Nat]
        /\ due' \in [Members -> BOOLEAN]
    BY <1>1, ReceiveStep
  <1>3. /\ crypto' \in [Members -> CryptoStates]
        /\ Identities'
        /\ \A n \in Members : /\ RosterOK(crypto'[n])
                              /\ HeldOK(n, crypto'[n], issued')
                              /\ crypto'[n].group = crypto[n].group
                              /\ crypto'[n].epoch >= crypto[n].epoch
    <2>1. issued' \subseteq Commits
      BY <1>1 DEF TypeOK
    <2> QED
      BY <1>1, <1>2, <2>1, EvolveStep
  <1>10. \A n \in Members \ (roster \cup left)' : crypto'[n].epoch = 0
    <2>1. m \in roster /\ UNCHANGED <<roster, left>>
      BY <1>1 DEF Receive, serverVars, TypeOK
    <2>2. \A n \in Members \ {m} : crypto'[n] = crypto[n]
      BY <1>1, <1>2 DEF TypeOK
    <2> QED
      BY <2>1, <2>2 DEF Inv
  <1>4. /\ inbox[m] \in Seq(Messages) /\ inbox[m] # <<>>
        /\ \A i \in DOMAIN inbox[m] : Known(inbox[m][i])
    BY <1>1 DEF Receive, TypeOK, InFlightOK
  <1>5. /\ Tail(inbox[m]) \in Seq(Messages)
        /\ \A i \in DOMAIN Tail(inbox[m]) : Known(Tail(inbox[m])[i])
    BY <1>4
  <1>6. /\ inbox' \in [Members -> Seq(Messages)]
        /\ \A n \in Members : \A i \in DOMAIN inbox'[n] : Known(inbox'[n][i])
    BY <1>1, <1>5 DEF Receive, TypeOK, InFlightOK
  <1>7. TypeOK'
    BY <1>1, <1>2, <1>3, <1>6 DEF Receive, TypeOK, serverVars
  <1>8. InFlightOK'
    BY <1>1, <1>2, <1>6 DEF Receive, InFlightOK, Known, serverVars
  <1>9. \A c \in issued : IssuedOK(c)'
    <2>1. roster \cup left \subseteq (roster \cup left)'
      BY DEF Receive, serverVars
    <2>2. drawn' \in [Members -> Nat] /\ \A n \in Members : drawn'[n] >= drawn[n]
      BY <1>1 DEF Receive, TypeOK
    <2> QED
      BY <1>3, <2>1, <2>2, IssuedStep
  <1> QED
    BY <1>1, <1>3, <1>7, <1>8, <1>9, <1>10 DEF Inv

(* A proposal is a new commit, whose author enters the epoch it opens. *)
LEMMA ProposedCommit ==
  ASSUME Inv, NEW m \in Members, NEW t \in crypto[m].pending, CanBuild(crypto[m], t)
  PROVE  LET c == BuildCommit(crypto[m], t, Drawn(m))
         IN /\ c \in Commits /\ OneChange(c)
            /\ c.epoch = crypto[m].epoch /\ c.by = m
            /\ c.secret = [by |-> m, draw |-> drawn[m] + 1]
            /\ c.new = crypto[m].members
            /\ c.kind = "commit"
            /\ \A n \in Members : m = ProposerOf(crypto[n].group, c.epoch, c)
  <1> DEFINE c == BuildCommit(crypto[m], t, Drawn(m))
  <1>1. /\ crypto[m] \in CryptoStates /\ crypto[m].me = m
        /\ drawn[m] \in Nat /\ t \in Transitions
        /\ OneChange(t) /\ t.new = crypto[m].members
    <2>1. crypto[m] \in CryptoStates /\ crypto[m].me = m /\ drawn[m] \in Nat
      BY DEF Inv, TypeOK, Identities
    <2>2. RosterOK(crypto[m])
      BY DEF Inv
    <2> QED
      BY <2>1, <2>2 DEF RosterOK, CryptoStates
  <1>2. /\ c.kind = "commit" /\ c.type = t.type /\ c.affected = t.affected
        /\ c.epoch = crypto[m].epoch /\ c.old = t.old /\ c.new = t.new
        /\ c.by = m /\ c.secret = Drawn(m)
    BY <1>1 DEF BuildCommit
  <1>3. c \in Commits
    <2> DEFINE w == [x \in Members |-> IF x \in t.new THEN crypto[m].keys[x] ELSE Unknown]
    <2>1. w \in Keys
      BY <1>1 DEF CryptoStates, Keys, Unknown
    <2>2. c = [kind |-> "commit", type |-> t.type, affected |-> t.affected,
               epoch |-> crypto[m].epoch, old |-> t.old, new |-> t.new, by |-> m,
               wraps |-> w, secret |-> Drawn(m)]
      BY <1>1 DEF BuildCommit
    <2>3. Drawn(m) \in Secrets
      BY <1>1 DEF Drawn, Secrets
    <2> HIDE DEF c, w
    <2> QED
      BY <1>1, <2>1, <2>2, <2>3 DEF Commits, CryptoStates, Transitions
  <1> HIDE DEF c
  <1>4. ProposerOf(crypto[m].group, c.epoch, c) = m
    BY <1>1, <1>2 DEF CanBuild, ProposerOf
  <1>5. \A n \in Members : crypto[n].group = crypto[m].group
    BY DEF Inv, Identities
  <1>6. \A n \in Members : m = ProposerOf(crypto[n].group, c.epoch, c)
    BY <1>4, <1>5
  <1>7. OneChange(c)
    BY <1>1, <1>2 DEF OneChange
  <1> QED
    BY <1>1, <1>2, <1>3, <1>6, <1>7 DEF c, Drawn

(* A trigger leaves its client in its epoch, or takes it to the next.      *)
LEMMA TriggerStep ==
  ASSUME Inv, NEW m \in Members, Trigger(m)
  PROVE  /\ \E t : /\ Evolves(crypto[m], t, issued')
                   /\ t.members = crypto[m].members
                   /\ crypto' = [crypto EXCEPT ![m] = t]
         /\ issued \subseteq issued'
  <1>1. /\ crypto \in [Members -> CryptoStates] /\ crypto[m] \in CryptoStates
        /\ RosterOK(crypto[m]) /\ crypto[m].me = m
    BY DEF Inv, TypeOK, Identities
  <1>2. CASE Announce(m)
    <2>1. Evolves(crypto[m], crypto[m], issued')
      BY <1>1 DEF Evolves, Stays, RosterOK
    <2> QED
      BY <1>1, <1>2, <2>1 DEF Announce
  <1>3. ASSUME NEW p \in crypto[m].pending, Propose(m, p)
        PROVE  /\ \E t : /\ Evolves(crypto[m], t, issued')
                         /\ t.members = crypto[m].members
                         /\ crypto' = [crypto EXCEPT ![m] = t]
               /\ issued \subseteq issued'
    <2> DEFINE s     == crypto[m]
               c     == BuildCommit(s, p, Drawn(m))
               after == ApplyEpochCommit(s, c)
    <2>1. /\ c \in Commits /\ c.epoch = s.epoch /\ c.new = s.members
      BY <1>3, ProposedCommit DEF Propose
    <2>2. crypto' = [crypto EXCEPT ![m] = after] /\ issued' = issued \cup {c}
      BY <1>3 DEF Propose
    <2>3. s \in CryptoStates /\ RosterOK(s) /\ s.epoch \in Nat
      BY <1>1 DEF CryptoStates
    <2> HIDE DEF c, s
    <2>4. /\ after \in CryptoStates /\ after.group = s.group /\ after.me = s.me
          /\ after.epoch = c.epoch + 1 /\ after.secret = {c.secret}
          /\ after.pending = {} /\ after.members = s.members
          /\ after.recv = s.members \ {s.me} /\ after.gen = s.gen + 1
      <3>1. c.epoch + 1 \in Nat /\ c.secret \in Secrets
        BY <2>1, <2>3 DEF Commits
      <3> QED
        BY <2>3, <3>1, ActivateEpochType DEF ApplyEpochCommit
    <2> HIDE DEF after
    <2>5. s.me \in s.members
      BY <2>3 DEF RosterOK
    <2>6. RosterOK(after)
      BY <2>4, <2>5 DEF RosterOK
    <2>7. Enters(s, after, c)
      BY <2>1, <2>3, <2>4, <2>5 DEF Enters
    <2>8. Evolves(s, after, issued')
      BY <2>2, <2>4, <2>6, <2>7 DEF Evolves
    <2> QED
      BY <2>2, <2>4, <2>8 DEF s
  <1> QED
    BY <1>2, <1>3 DEF Trigger

LEMMA ProposeInv ==
  ASSUME Inv, NEW m \in Members, NEW t \in crypto[m].pending, Trigger(m), Propose(m, t)
  PROVE  Inv'
  <1> DEFINE s     == crypto[m]
             c     == BuildCommit(s, t, Drawn(m))
             after == ApplyEpochCommit(s, c)
  <1>1. /\ TypeOK /\ InFlightOK /\ s \in CryptoStates /\ s.me = m /\ RosterOK(s)
        /\ m \in roster /\ s.epoch \in Nat /\ drawn[m] \in Nat
        /\ crypto \in [Members -> CryptoStates]
    BY DEF Inv, TypeOK, Identities, CryptoStates, Trigger
  <1>2. /\ c \in Commits /\ OneChange(c)
        /\ c.epoch = s.epoch /\ c.by = m
        /\ c.secret = [by |-> m, draw |-> drawn[m] + 1]
        /\ c.new = s.members /\ c.kind = "commit"
        /\ \A n \in Members : m = ProposerOf(crypto[n].group, c.epoch, c)
    BY ProposedCommit DEF Propose
  <1>3. /\ crypto' = [crypto EXCEPT ![m] = after]
        /\ drawn' = [drawn EXCEPT ![m] = @ + 1]
        /\ issued' = issued \cup {c}
        /\ outbox' = [outbox EXCEPT ![m] =
             @ \o <<LocalKeyAnnounce(s), c, LocalKeyAnnounce(after)>>]
    BY DEF Propose
  <1> HIDE DEF c
  <1>4. /\ after \in CryptoStates /\ after.group = s.group /\ after.me = s.me
        /\ after.epoch = c.epoch + 1 /\ after.secret = {c.secret}
        /\ after.pending = {} /\ after.members = s.members
        /\ after.recv = s.members \ {s.me} /\ after.gen = s.gen + 1
    <2>1. c.epoch + 1 \in Nat /\ c.secret \in Secrets
      BY <1>1, <1>2 DEF Commits
    <2>2. after = ActivateEpoch(s, c.epoch + 1, c.secret)
      BY DEF ApplyEpochCommit
    <2> HIDE DEF after, s
    <2>3. \A e \in Nat, x \in Secrets :
            /\ ActivateEpoch(s, e, x) \in CryptoStates
            /\ ActivateEpoch(s, e, x).group = s.group
            /\ ActivateEpoch(s, e, x).me = s.me
            /\ ActivateEpoch(s, e, x).epoch = e
            /\ ActivateEpoch(s, e, x).secret = {x}
            /\ ActivateEpoch(s, e, x).pending = {}
            /\ ActivateEpoch(s, e, x).members = s.members
            /\ ActivateEpoch(s, e, x).recv = s.members \ {s.me}
            /\ ActivateEpoch(s, e, x).gen = s.gen + 1
      BY <1>1, ActivateEpochType
    <2> QED
      BY <2>1, <2>2, <2>3
  <1> HIDE DEF after, s
  <1>6. /\ crypto' \in [Members -> CryptoStates]
        /\ Identities'
        /\ \A n \in Members : /\ RosterOK(crypto'[n])
                              /\ HeldOK(n, crypto'[n], issued')
                              /\ crypto'[n].group = crypto[n].group
                              /\ crypto'[n].epoch >= crypto[n].epoch
    <2>1. issued \subseteq issued' /\ issued' \subseteq Commits
      BY <1>1, <1>2, <1>3 DEF TypeOK
    <2> QED
      BY <2>1, TriggerStep, EvolveStep
  <1>7. /\ outbox' \in [Members -> Seq(Messages)]
        /\ \A n \in Members : \A i \in DOMAIN outbox'[n] :
             outbox'[n][i].kind = "commit" => outbox'[n][i] \in issued'
    <2> DEFINE a == LocalKeyAnnounce(s)
               b == LocalKeyAnnounce(after)
    <2>1. /\ a \in Messages /\ b \in Messages /\ c \in Messages
          /\ a.kind = "announce" /\ b.kind = "announce"
      BY <1>1, <1>2, <1>4 DEF LocalKeyAnnounce, CryptoStates, Messages, Announces
    <2> HIDE DEF a, b
    <2>2. /\ <<a, c, b>> \in Seq(Messages)
          /\ \A i \in DOMAIN <<a, c, b>> :
               <<a, c, b>>[i].kind = "commit" => <<a, c, b>>[i] \in issued'
      BY <1>3, <2>1
    <2>3. /\ outbox \in [Members -> Seq(Messages)]
          /\ \A n \in Members : \A i \in DOMAIN outbox[n] :
               outbox[n][i].kind = "commit" => outbox[n][i] \in issued'
      BY <1>1, <1>3 DEF TypeOK, InFlightOK, Known
    <2>4. outbox' = [outbox EXCEPT ![m] = outbox[m] \o <<a, c, b>>]
      BY <1>3 DEF a, b
    <2> DEFINE z == outbox[m] \o <<a, c, b>>
               y == <<a, c, b>>
    <2>5. z \in Seq(Messages)
      BY <2>2, <2>3
    <2>6. \A i \in DOMAIN z : z[i].kind = "commit" => z[i] \in issued'
      <3>1. /\ y \in Seq(Messages) /\ outbox[m] \in Seq(Messages)
            /\ z = outbox[m] \o y
        BY <2>2, <2>3
      <3>2. \A i \in DOMAIN y : y[i].kind = "commit" => y[i] \in issued'
        BY <2>2
      <3> HIDE DEF y, z
      <3>3. \A i \in DOMAIN z : \/ i \in DOMAIN outbox[m] /\ z[i] = outbox[m][i]
                              \/ \E j \in DOMAIN y : z[i] = y[j]
        <4> SUFFICES ASSUME NEW i \in DOMAIN z
                     PROVE  \/ i \in DOMAIN outbox[m] /\ z[i] = outbox[m][i]
                            \/ \E j \in DOMAIN y : z[i] = y[j]
          OBVIOUS
        <4>1. /\ i \in Nat /\ i >= 1 /\ i <= Len(outbox[m]) + Len(y)
              /\ Len(outbox[m]) \in Nat /\ Len(y) \in Nat
          BY <3>1
        <4>2. CASE i <= Len(outbox[m])
          BY <3>1, <4>1, <4>2
        <4>3. CASE i > Len(outbox[m])
          <5>1. /\ i - Len(outbox[m]) \in DOMAIN y
                /\ z[i] = y[i - Len(outbox[m])]
            BY <3>1, <4>1, <4>3
          <5> QED
            BY <5>1
        <4> QED
          BY <4>1, <4>2, <4>3
      <3> QED
        BY <2>3, <3>2, <3>3
    <2> HIDE DEF z, y
    <2>7. outbox' = [outbox EXCEPT ![m] = z]
      BY <2>4 DEF z
    <2> QED
      BY <2>3, <2>5, <2>6, <2>7
  <1>8. TypeOK'
    <2>1. /\ drawn' \in [Members -> Nat] /\ issued' \subseteq Commits
          /\ due' \in [Members -> BOOLEAN] /\ turn' \subseteq Members
      BY <1>1, <1>2, <1>3 DEF Trigger, TypeOK
    <2> QED
      BY <1>1, <1>6, <1>7, <2>1 DEF Trigger, TypeOK, serverVars
  <1>9. InFlightOK'
    BY <1>1, <1>3, <1>7 DEF Trigger, InFlightOK, Known
  <1>10. /\ drawn' \in [Members -> Nat]
         /\ \A n \in Members : drawn'[n] >= drawn[n]
         /\ drawn'[m] = drawn[m] + 1
    <2>1. drawn \in [Members -> Nat]
      BY <1>1 DEF TypeOK
    <2>2. \A n \in Members : drawn'[n] = IF n = m THEN drawn[m] + 1 ELSE drawn[n]
      BY <1>3, <2>1
    <2>3. \A k \in Nat : k + 1 \in Nat /\ k + 1 >= k /\ k >= k
      OBVIOUS
    <2>4. drawn' \in [Members -> Nat]
      BY <1>3, <2>1
    <2> QED
      BY <2>1, <2>2, <2>3, <2>4
  <1>11. \A d \in issued : IssuedOK(d)'
    <2>1. roster \cup left \subseteq (roster \cup left)'
      BY DEF Trigger, serverVars
    <2> QED
      BY <1>6, <1>10, <2>1, IssuedStep
  <1>12. ASSUME NEW d \in issued', d = c PROVE IssuedOK(d)'
    <2>1. m \in (roster \cup left)'
      BY <1>1 DEF Trigger, serverVars
    <2>2. c.epoch < crypto'[m].epoch
      BY <1>1, <1>2, <1>3, <1>4
    <2>3. \A n \in Members : m = ProposerOf(crypto'[n].group, c.epoch, c)
      BY <1>2, <1>6
    <2>4. c.secret.by = m /\ c.secret.draw \in 1 .. drawn'[m]
      BY <1>1, <1>2, <1>10
    <2> QED
      BY <1>2, <1>12, <2>1, <2>2, <2>3, <2>4 DEF IssuedOK
  <1>13. \A d \in issued : d.secret # c.secret /\ ~(d.by = c.by /\ d.epoch = c.epoch)
    <2> SUFFICES ASSUME NEW d \in issued
                 PROVE  d.secret # c.secret /\ ~(d.by = c.by /\ d.epoch = c.epoch)
      OBVIOUS
    <2>1. IssuedOK(d) /\ d \in Commits
      BY <1>1 DEF Inv, TypeOK
    <2>2. /\ d.epoch \in Nat /\ d.epoch < crypto[d.by].epoch
          /\ d.secret.by = d.by /\ d.secret.draw \in 1 .. drawn[d.by]
      BY <2>1 DEF IssuedOK, Commits
    <2>3. ~(d.by = m /\ d.epoch = s.epoch)
      BY <1>1, <2>2 DEF s
    <2>4. d.secret # c.secret
      <3>1. SUFFICES ASSUME d.secret = c.secret PROVE FALSE
        OBVIOUS
      <3>2. d.by = m /\ d.secret.draw = drawn[m] + 1
        BY <1>2, <2>2, <3>1
      <3> QED
        BY <1>1, <2>2, <3>2
    <2> QED
      BY <1>2, <2>3, <2>4
  <1>14. \A d, e \in issued' :
           d.secret = e.secret \/ (d.by = e.by /\ d.epoch = e.epoch) => d = e
    BY <1>3, <1>13 DEF Inv
  <1>15. \A d \in issued' : IssuedOK(d)'
    BY <1>3, <1>11, <1>12
  <1>16. \A n \in Members \ (roster \cup left)' : crypto'[n].epoch = 0
    BY <1>1, <1>3 DEF Trigger, serverVars, Inv
  <1> QED
    BY <1>6, <1>8, <1>9, <1>14, <1>15, <1>16 DEF Inv

LEMMA TriggerInv ==
  ASSUME Inv, NEW m \in Members, Trigger(m)
  PROVE  Inv'
  <1>1. CASE Announce(m)
    <2>1. TypeOK /\ InFlightOK
      BY DEF Inv
    <2>2. /\ LocalKeyAnnounce(crypto[m]) \in Messages
          /\ LocalKeyAnnounce(crypto[m]).kind = "announce"
      BY <2>1 DEF TypeOK, CryptoStates, LocalKeyAnnounce, Messages, Announces
    <2>3. /\ outbox' \in [Members -> Seq(Messages)]
          /\ \A n \in Members : \A i \in DOMAIN outbox'[n] : Known(outbox'[n][i])
      BY <1>1, <2>1, <2>2 DEF Announce, TypeOK, InFlightOK, Known
    <2>4. TypeOK'
      <3>1. due' \in [Members -> BOOLEAN] /\ turn' \subseteq Members
        BY <2>1 DEF Trigger, TypeOK
      <3> QED
        BY <1>1, <2>1, <2>3, <3>1 DEF Trigger, Announce, TypeOK, serverVars
    <2>5. InFlightOK'
      BY <1>1, <2>1, <2>3 DEF Trigger, Announce, InFlightOK, Known
    <2> QED
      BY <1>1, <2>4, <2>5, QuietStep DEF Trigger, Announce, serverVars
  <1>2. CASE \E t \in crypto[m].pending : Propose(m, t)
    BY <1>2, ProposeInv
  <1> QED
    BY <1>1, <1>2 DEF Trigger

LEMMA StutterInv ==
  ASSUME Inv, UNCHANGED vars
  PROVE  Inv'
  <1>1. TypeOK' /\ InFlightOK'
    BY DEF Inv, vars, serverVars, TypeOK, InFlightOK, Known
  <1> QED
    BY <1>1, QuietStep DEF vars, serverVars

LEMMA NextInv == Inv /\ [Next]_vars => Inv'
  <1> SUFFICES ASSUME Inv, [Next]_vars PROVE Inv'
    OBVIOUS
  <1>1. CASE UNCHANGED vars
    BY <1>1, StutterInv
  <1>2. ASSUME NEW m \in Members, Enroll(m) PROVE Inv'
    BY <1>2, EnrollInv
  <1>3. ASSUME NEW m \in Members, Enter(m) PROVE Inv'
    BY <1>3, EnterInv
  <1>4. ASSUME NEW m \in Members, Leave(m) PROVE Inv'
    BY <1>4, LeaveInv
  <1>5. ASSUME NEW m \in Members, Receive(m) PROVE Inv'
    BY <1>5, ReceiveInv
  <1>6. ASSUME NEW m \in Members, Trigger(m) PROVE Inv'
    BY <1>6, TriggerInv
  <1>7. ASSUME NEW m \in Members, Transmit(m) PROVE Inv'
    BY <1>7, TransmitInv
  <1> QED
    BY <1>1, <1>2, <1>3, <1>4, <1>5, <1>6, <1>7 DEF Next

(* The invariant holds in every state the room reaches. *)
THEOREM Invariance == Spec => []Inv
  BY InitInv, NextInv, PTL DEF Spec

-----------------------------------------------------------------------------
(* What follows from the invariant. *)

(* Every state of the rekey has its type, for any number of members and    *)
(* any order of the candidates. *)
THEOREM EpochTypeCorrect == Spec => []TypeOK
  <1>1. Inv => TypeOK
    BY DEF Inv
  <1> QED
    BY <1>1, Invariance, PTL

(* The hash may rank the candidates as it likes: two commits of one        *)
(* transition and epoch have one author, who built one.                    *)
LEMMA TransitionHasOneSecret == Inv => OneSecretPerTransition
  <1> SUFFICES ASSUME Inv, NEW c \in issued, NEW d \in issued,
                      c.epoch = d.epoch, c.old = d.old, c.new = d.new
               PROVE  c = d
    BY DEF OneSecretPerTransition
  <1>1. /\ c \in Commits /\ d \in Commits
        /\ IssuedOK(c) /\ IssuedOK(d)
    BY DEF Inv, TypeOK
  <1>2. c.type = d.type /\ c.affected = d.affected
    BY <1>1 DEF IssuedOK, OneChange, Commits
  <1>3. PICK m \in Members : TRUE
    BY <1>1 DEF Commits
  <1>4. /\ c.by = ProposerOf(crypto[m].group, c.epoch, c)
        /\ d.by = ProposerOf(crypto[m].group, d.epoch, d)
    BY <1>1 DEF IssuedOK
  <1>5. c.by = d.by
    BY <1>2, <1>4 DEF ProposerOf
  <1> QED
    BY <1>5 DEF Inv

(* A step of a client stays in its epoch, or enters the next one, or, if   *)
(* the client is in none yet, a later one.                                 *)
Advances(m) ==
  /\ crypto'[m].epoch >= crypto[m].epoch
  /\ Active(crypto[m]) => crypto'[m].epoch <= crypto[m].epoch + 1

LEMMA AdvanceStep ==
  ASSUME Inv, Inv', Next \/ UNCHANGED crypto, NEW n \in Members
  PROVE  Advances(n)
  <1>1. /\ crypto \in [Members -> CryptoStates] /\ issued' \subseteq Commits
        /\ \A k \in Members : crypto[k].epoch \in Nat /\ crypto'[k].epoch \in Nat
    BY DEF Inv, TypeOK, CryptoStates
  <1>2. CASE crypto' = crypto
    BY <1>1, <1>2 DEF Advances
  <1>3. ASSUME NEW m \in Members,
               \E t : /\ Evolves(crypto[m], t, issued')
                     /\ crypto' = [crypto EXCEPT ![m] = t]
        PROVE  Advances(n)
    <2>1. PICK t : /\ Evolves(crypto[m], t, issued')
                   /\ crypto' = [crypto EXCEPT ![m] = t]
      BY <1>3
    <2>2. CASE n # m
      BY <1>1, <2>1, <2>2 DEF Advances
    <2>3. CASE n = m
      <3>1. crypto'[n] = t
        BY <1>1, <2>1, <2>3
      <3>2. CASE Stays(crypto[m], t)
        BY <1>1, <2>3, <3>1, <3>2 DEF Stays, Advances
      <3>3. ASSUME NEW c \in issued', Enters(crypto[m], t, c) PROVE Advances(n)
        <4>1. c.epoch \in Nat
          BY <1>1 DEF Commits
        <4> QED
          BY <1>1, <2>3, <3>1, <3>3, <4>1 DEF Enters, Advances
      <3> QED
        BY <2>1, <3>2, <3>3 DEF Evolves
    <2> QED
      BY <2>2, <2>3
  <1>4. ASSUME NEW m \in Members, Receive(m) PROVE Advances(n)
    <2>1. issued' = issued
      BY <1>4 DEF Receive
    <2> QED
      BY <1>3, <1>4, <2>1, ReceiveStep
  <1>5. ASSUME NEW m \in Members, Trigger(m) PROVE Advances(n)
    BY <1>3, <1>5, TriggerStep
  <1>6. ASSUME NEW m \in Members, Enroll(m) PROVE Advances(n)
    <2> DEFINE s == NewSingleEpoch(crypto[m].group, m)
    <2>1. crypto' = crypto \/ crypto' = [crypto EXCEPT ![m] = s]
      BY <1>6 DEF Enroll
    <2>2. s.epoch = 0 /\ crypto[m].epoch = 0
      <3>1. crypto[m].group \in GroupIds
        BY <1>1 DEF CryptoStates
      <3>2. m \in Members \ (roster \cup left)
        BY <1>6 DEF Enroll
      <3> QED
        BY <3>1, <3>2, NewSingleEpochType DEF Inv
    <2> HIDE DEF s
    <2> QED
      BY <1>1, <2>1, <2>2 DEF Advances
  <1>7. ASSUME NEW m \in Members, Enter(m) \/ Leave(m) \/ Transmit(m)
        PROVE  Advances(n)
    BY <1>2, <1>7 DEF Enter, Leave, Transmit
  <1> QED
    BY <1>2, <1>4, <1>5, <1>6, <1>7 DEF Next

(* A client that is in an epoch moves to the next one and no other; only a *)
(* joiner comes in at a later epoch, and nobody goes back                  *)
(* (validate_epoch_commit, can_accept_from_later_epoch).                   *)
THEOREM EpochsAdvance == Spec => EpochsAdvanceByOne
  <1>1. Inv /\ Inv' /\ [Next]_vars =>
          [\A m \in Members :
             /\ crypto'[m].epoch >= crypto[m].epoch
             /\ Active(crypto[m]) => crypto'[m].epoch <= crypto[m].epoch + 1]_vars
    BY AdvanceStep DEF Advances
  <1> QED
    BY <1>1, Invariance, PTL DEF Spec, EpochsAdvanceByOne

(* In one epoch one transition of the roster has one secret, whatever the  *)
(* clients saw and in whatever order (proposer_order, can_build_pending).  *)
THEOREM OneSecret == Spec => []OneSecretPerTransition
  BY TransitionHasOneSecret, Invariance, PTL

(* The commits that share a member's secret are one commit, and a secret   *)
(* that came with a commit is no creator's.                                *)
LEMMA HeldSecretsStay == Inv => SecretsStayInRoster
  <1> SUFFICES ASSUME Inv, NEW m \in entered, NEW x \in crypto[m].secret
               PROVE  \/ x = [by |-> m, draw |-> 0] /\ crypto[m].recv = {}
                      \/ /\ Origins(m) # {}
                         /\ \A c \in Origins(m) :
                              m \in c.new /\ crypto[m].recv \subseteq c.new
    BY DEF SecretsStayInRoster
  <1>1. m \in Members /\ HeldOK(m, crypto[m], issued)
    BY DEF Inv, TypeOK
  <1>2. CASE \E c \in issued : /\ c.secret = x /\ m \in c.new
                               /\ crypto[m].recv \subseteq c.new
    <2>1. PICK c \in issued : /\ c.secret = x /\ m \in c.new
                              /\ crypto[m].recv \subseteq c.new
      BY <1>2
    <2>2. c \in Origins(m)
      BY <2>1 DEF Origins
    <2>3. crypto[m].secret = {x}
      BY <1>1 DEF HeldOK, Opened
    <2>4. ASSUME NEW d \in Origins(m) PROVE d = c
      <3>1. d \in issued /\ d.secret = c.secret
        BY <2>1, <2>3 DEF Origins
      <3> QED
        BY <3>1 DEF Inv
    <2> QED
      BY <2>1, <2>2, <2>4
  <1> QED
    BY <1>1, <1>2 DEF HeldOK, Opened

(* A client holds the secret of an epoch only if the commit that opened it *)
(* names the client, and reads only members that commit names              *)
(* (activate_epoch, replace_members).                                      *)
THEOREM SecretsStay == Spec => []SecretsStayInRoster
  BY HeldSecretsStay, Invariance, PTL

-----------------------------------------------------------------------------
(* Where every member activates.                                           *)

(* The order of proposers compares numbers. *)
Ranked ==
  \A g \in GroupIds, e \in Nat, y \in Events, a, c \in Members : Hash(g, e, y, a, c) \in Nat

(* One change of the roster at a time; and two members at most, or clients *)
(* that drain before they trigger and send at once.                        *)
Orderly == ~Overlap /\ (Seats <= 2 \/ (Batched /\ Slow = {}))

(* The lines on their way to m that the server has not relayed: where they *)
(* matter, one client at most has any.                                     *)
Unsent(box, m) ==
  IF \E n \in Members \ {m} : box[n] # <<>>
  THEN box[CHOOSE n \in Members \ {m} : box[n] # <<>>]
  ELSE <<>>

ListFirst(q) == q # <<>> /\ Head(q).kind = "list"

(* A client s as it will be once it has drained the list that comes first  *)
(* in its inbox q, and the lines after it, u among them.                   *)
Viewed(s, q) == IF ListFirst(q) THEN ReplaceMembers(s, Head(q).members) ELSE s

Ahead(q, u) == IF ListFirst(q) THEN Tail(q \o u) ELSE q \o u

Views == [m \in Members |-> Viewed(crypto[m], inbox[m])]

Lines == [m \in Members |-> Ahead(inbox[m], Unsent(outbox, m))]

(* Whether it is about to trigger. *)
Stirred == [m \in Members |-> due[m] \/ ListFirst(inbox[m])]

Calm(q) == \A i \in DOMAIN q : q[i].kind = "announce"

(* Client s has the secret x of epoch e and reads all of R. *)
Reached(s, q, R, e, x) ==
  /\ s.secret = {x} /\ s.epoch = e
  /\ s.members = R /\ s.recv = R \ {s.me} /\ s.pending = {}
  /\ Calm(q)

OnTurn(s) == Active(s) /\ \E t \in s.pending : ProposerOf(s.group, s.epoch, t) = s.me

(* It does not, and the commit that gives it is on its way. *)
Awaits(s, q, R, e, x) ==
  /\ s.members = R
  /\ ~OnTurn(s)
  /\ \E k \in DOMAIN q :
       /\ q[k].kind = "commit" /\ q[k].epoch + 1 = e /\ q[k].secret = x
       /\ Accepts(s, q[k])
       /\ \A i \in DOMAIN q : i # k => q[i].kind = "announce"

(* The announces of q that will not be forgotten at once. *)
Current(q, i) == \A j \in DOMAIN q : j >= i => q[j].kind = "announce"

(* What the clients of R know of the keys drawn with the epoch: nothing of *)
(* a client that has yet to draw, and nothing else than its key.           *)
KeysCurrent(v, q, d, R) ==
  \A m, n \in R : m # n =>
    /\ Calm(q[m]) /\ v[m].keys[n] # Unknown => Calm(q[n]) /\ v[m].keys[n] = v[n].gen
    /\ \A i \in DOMAIN q[m] :
         Current(q[m], i) /\ q[m][i].member = n => Calm(q[n]) /\ q[m][i].key = v[n].gen
    /\ Calm(q[n]) /\ ~d[n] =>
         \/ Calm(q[m]) /\ v[m].keys[n] # Unknown
         \/ \E i \in DOMAIN q[m] : Current(q[m], i) /\ q[m][i].member = n

(* No change is open: who has not activated the epoch is about to. *)
Closing(v, q, d, R) ==
  /\ \E e \in Nat, x \in Secrets :
       \A m \in R : Reached(v[m], q[m], R, e, x) \/ Awaits(v[m], q[m], R, e, x)
  /\ Seats > 2 => KeysCurrent(v, q, d, R)

(* The proposer p of transition t has the keys it needs or will get them,  *)
(* and triggers when it has them all.                                      *)
Proposing(v, q, d, R, t, e, p) ==
  /\ Active(v[p])
  /\ ProposerOf(v[p].group, e, t) = p
  /\ \A n \in R \ {p} :
       /\ v[p].keys[n] # Unknown => v[p].keys[n] = v[n].gen
       /\ \A i \in DOMAIN q[p] : q[p][i].member = n => q[p][i].key = v[n].gen
       /\ v[p].keys[n] = Unknown => \E i \in DOMAIN q[p] : q[p][i].member = n
  /\ (\A n \in R : v[p].keys[n] # Unknown) => d[p]

(* All of R know of transition t, and nobody has proposed. *)
Opening(v, q, d, R, t) ==
  /\ t.new = R /\ OneChange(t)
  /\ \A m \in R : v[m].members = R /\ v[m].pending = {t} /\ Calm(q[m])
  /\ \E e \in Nat, p \in R :
       /\ \A m \in R :
            \/ Active(v[m]) /\ v[m].epoch = e
            \/ ~Active(v[m]) /\ v[m].epoch = 0 /\ t.type = "Join" /\ t.affected = m
       /\ Proposing(v, q, d, R, t, e, p)

Phase(v, q, d, R) == Closing(v, q, d, R) \/ \E t \in Transitions : Opening(v, q, d, R, t)

(* A client knows its own key, and of others those it lists. *)
KeysOwn(m, s) ==
  /\ s.gen # Unknown /\ s.keys[m] = s.gen
  /\ \A n \in Members \ s.members : s.keys[n] = Unknown

FewSeats == Seats <= 2 => \A a, b, c \in roster : a = b \/ a = c \/ b = c

(* Nothing moves while a member is on the way in. *)
OnTheWayIn(j) ==
  /\ roster = entered \cup {j}
  /\ \A m \in entered : inbox[m] = <<>> /\ outbox[m] = <<>> /\ ~due[m]
  /\ crypto[j] = IF entered = {} THEN NewSingleEpoch(crypto[j].group, j)
                                 ELSE NewPendingEpoch(crypto[j].group, j)

ListsLead(q) == \A i \in DOMAIN q : i # 1 => q[i].kind # "list"

Frame ==
  /\ IsFiniteSet(roster) /\ FewSeats
  /\ \A j \in roster \ entered : OnTheWayIn(j)
  /\ \A m \in Members \ (roster \cup left) :
       crypto[m] = NewPendingEpoch(crypto[m].group, m)
  /\ \A m \in Members : KeysOwn(m, crypto[m]) /\ queued[m] = {}
  /\ \A m \in Members \ entered : inbox[m] = <<>> /\ outbox[m] = <<>> /\ ~due[m]
  /\ \A m \in Members :
       /\ ListsLead(inbox[m])
       /\ \A i \in DOMAIN outbox[m] : outbox[m][i].kind # "list"
       /\ due[m] => ~ListFirst(inbox[m])
  /\ Seats > 2 => \A m, n \in Members : outbox[m] # <<>> /\ outbox[n] # <<>> => m = n

OrderlyInv == Frame /\ Phase(Views, Lines, Stirred, entered)

-----------------------------------------------------------------------------
(* The lines on their way. *)

(* A line is taken from the front, or put at the end. *)
LEMMA FirstTaken ==
  ASSUME NEW T, NEW q \in Seq(T), q # <<>>
  PROVE  /\ Head(q) = q[1] /\ Head(q) \in T /\ 1 \in DOMAIN q /\ Tail(q) \in Seq(T)
         /\ \A i \in DOMAIN Tail(q) : i + 1 \in DOMAIN q /\ i + 1 # 1 /\ Tail(q)[i] = q[i + 1]
         /\ \A i \in DOMAIN q : i # 1 => i - 1 \in DOMAIN Tail(q) /\ Tail(q)[i - 1] = q[i]
  OBVIOUS

LEMMA PutLast ==
  ASSUME NEW T, NEW q \in Seq(T), NEW e \in T
  PROVE  /\ Append(q, e) \in Seq(T) /\ Append(q, e) # <<>>
         /\ DOMAIN Append(q, e) = DOMAIN q \cup {Len(q) + 1} /\ Len(q) + 1 \notin DOMAIN q
         /\ \A i \in DOMAIN q : Append(q, e)[i] = q[i]
         /\ Append(q, e)[Len(q) + 1] = e
         /\ \A i \in DOMAIN q : i \in Nat /\ i < Len(q) + 1
  OBVIOUS

(* Whether a line matters does not change as announces come and go. *)
LEMMA AnnounceTaken ==
  ASSUME NEW q \in Seq(Messages), q # <<>>, Head(q).kind = "announce"
  PROVE  /\ Calm(Tail(q)) <=> Calm(q)
         /\ \A i \in DOMAIN Tail(q) : Current(Tail(q), i) <=> Current(q, i + 1)
  <1>1. /\ Head(q) = q[1] /\ 1 \in DOMAIN q /\ Tail(q) \in Seq(Messages)
        /\ \A i \in DOMAIN Tail(q) : i + 1 \in DOMAIN q /\ Tail(q)[i] = q[i + 1]
        /\ \A i \in DOMAIN q : i # 1 => i - 1 \in DOMAIN Tail(q) /\ Tail(q)[i - 1] = q[i]
        /\ \A i \in DOMAIN q : i \in Nat
        /\ \A i \in DOMAIN Tail(q) : i \in Nat /\ i # 0
    BY FirstTaken
  <1>. DEFINE r == Tail(q)
  <1>. HIDE DEF r
  <1>2. Calm(r) <=> Calm(q)
    <2>1. ASSUME Calm(q), NEW i \in DOMAIN r PROVE r[i].kind = "announce"
      BY <1>1, <2>1 DEF Calm, r
    <2>2. ASSUME Calm(r), NEW i \in DOMAIN q, i # 1 PROVE q[i].kind = "announce"
      BY <1>1, <2>2 DEF Calm, r
    <2>. QED
      BY <1>1, <2>1, <2>2 DEF Calm
  <1>3. ASSUME NEW i \in DOMAIN r PROVE Current(r, i) <=> Current(q, i + 1)
    <2>1. ASSUME Current(r, i), NEW j \in DOMAIN q, j >= i + 1 PROVE q[j].kind = "announce"
      <3>1. j # 1 /\ j - 1 >= i /\ j - 1 \in DOMAIN r /\ r[j - 1] = q[j]
        BY <1>1, <2>1 DEF r
      <3>. QED
        BY <2>1, <3>1 DEF Current
    <2>2. ASSUME Current(q, i + 1), NEW j \in DOMAIN r, j >= i PROVE r[j].kind = "announce"
      <3>1. j + 1 \in DOMAIN q /\ j + 1 >= i + 1 /\ r[j] = q[j + 1]
        BY <1>1, <2>2 DEF r
      <3>. QED
        BY <2>2, <3>1 DEF Current
    <2>. QED
      BY <2>1, <2>2 DEF Current
  <1>. QED
    BY <1>2, <1>3 DEF r

LEMMA AnnounceAdded ==
  ASSUME NEW q \in Seq(Messages), NEW a \in Messages, a.kind = "announce"
  PROVE  /\ Calm(Append(q, a)) <=> Calm(q)
         /\ \A i \in DOMAIN q : Current(Append(q, a), i) <=> Current(q, i)
         /\ Current(Append(q, a), Len(q) + 1)
  <1>1. /\ DOMAIN Append(q, a) = DOMAIN q \cup {Len(q) + 1} /\ Len(q) + 1 \notin DOMAIN q
        /\ \A i \in DOMAIN q : Append(q, a)[i] = q[i] /\ i \in Nat /\ i < Len(q) + 1
        /\ Append(q, a)[Len(q) + 1] = a
    BY PutLast
  <1>2. Len(q) + 1 \in Nat
    OBVIOUS
  <1>. DEFINE r == Append(q, a)
              L == Len(q) + 1
  <1>. HIDE DEF r, L
  <1>3. Calm(r) <=> Calm(q)
    BY <1>1 DEF Calm, r
  <1>4. ASSUME NEW i \in DOMAIN q PROVE Current(r, i) <=> Current(q, i)
    BY <1>1 DEF Current, r
  <1>5. Current(r, L)
    BY <1>1, <1>2 DEF Current, r, L
  <1>. QED
    BY <1>3, <1>4, <1>5 DEF r, L

-----------------------------------------------------------------------------
(* What the clients of a room hold, know and will receive. *)

Crew(v, q, d, R) ==
  /\ v \in [Members -> CryptoStates] /\ q \in [Members -> Seq(Messages)]
  /\ d \in [Members -> BOOLEAN] /\ R \subseteq Members
  /\ \A m \in Members : v[m].me = m /\ KeysOwn(m, v[m])
  /\ \A m, n \in Members : v[m].group = v[n].group

(* The kind of a line tells what it is. *)
LEMMA KindsApart ==
  ASSUME NEW a \in Messages
  PROVE  /\ a.kind = "announce" => a \in Announces
         /\ a.kind = "commit" => a \in Commits
         /\ a.kind = "list" => a \in Lists
         /\ a.kind \in {"announce", "commit", "list"}
  BY DEF Messages, Lists, Announces, Commits

(* What a client knows after an announce, and after a commit. *)
LEMMA LearnedKey ==
  ASSUME NEW s \in CryptoStates, NEW a \in Announces
  PROVE  LET u == ApplyKeyAnnounce(s, a)
         IN /\ u \in CryptoStates
            /\ u.group = s.group /\ u.me = s.me /\ u.epoch = s.epoch
            /\ u.secret = s.secret /\ u.members = s.members /\ u.recv = s.recv
            /\ u.pending = s.pending /\ u.gen = s.gen
            /\ \A n \in Members : u.keys[n] =
                 IF n = a.member /\ n \in s.members /\ s.keys[n] = Unknown
                 THEN a.key ELSE s.keys[n]
  BY DEF ApplyKeyAnnounce, CryptoStates, Announces, Keys, Unknown

(* Neither whose turn it is nor whether a commit is taken depends on the   *)
(* keys known of others.                                                   *)
LEMMA KeysAside ==
  ASSUME NEW s, NEW u, u.group = s.group, u.me = s.me, u.epoch = s.epoch,
         u.secret = s.secret, u.pending = s.pending, u.gen = s.gen
  PROVE  /\ OnTurn(u) <=> OnTurn(s)
         /\ \A c : Accepts(u, c) <=> Accepts(s, c)
  BY DEF OnTurn, Active, Accepts, CanAcceptFromLaterEpoch

LEMMA EnteredEpoch ==
  ASSUME NEW s \in CryptoStates, NEW c \in Commits
  PROVE  LET u == ApplyEpochCommit(s, c)
         IN /\ u \in CryptoStates
            /\ u.group = s.group /\ u.me = s.me /\ u.epoch = c.epoch + 1
            /\ u.secret = {c.secret} /\ u.members = s.members
            /\ u.recv = s.members \ {s.me} /\ u.pending = {}
            /\ u.gen = s.gen + 1
            /\ \A n \in Members : u.keys[n] = IF n = s.me THEN s.gen + 1 ELSE Unknown
  <1>1. c.epoch + 1 \in Nat /\ c.secret \in Secrets
    BY DEF Commits
  <1>2. \A n \in Members : ActivateEpoch(s, c.epoch + 1, c.secret).keys[n] =
                             IF n = s.me THEN s.gen + 1 ELSE Unknown
    BY DEF ActivateEpoch, CryptoStates
  <1>. QED
    BY <1>1, <1>2, ActivateEpochType DEF ApplyEpochCommit

(* Nothing but the clients of R matters. *)
LEMMA PhaseAgrees ==
  ASSUME NEW v, NEW q, NEW d, NEW w, NEW r, NEW f, NEW R,
         \A m \in R : w[m] = v[m] /\ r[m] = q[m] /\ f[m] = d[m],
         Phase(v, q, d, R)
  PROVE  Phase(w, r, f, R)
  <1>1. Closing(v, q, d, R) => Closing(w, r, f, R)
    <2>1. KeysCurrent(v, q, d, R) => KeysCurrent(w, r, f, R)
      BY DEF KeysCurrent
    <2>. QED
      BY <2>1 DEF Closing
  <1>2. ASSUME NEW t, Opening(v, q, d, R, t) PROVE Opening(w, r, f, R, t)
    <2>1. \A e : \A p \in R : Proposing(v, q, d, R, t, e, p) => Proposing(w, r, f, R, t, e, p)
      BY DEF Proposing
    <2>. QED
      BY <1>2, <2>1 DEF Opening
  <1>. QED
    BY <1>1, <1>2 DEF Phase

(* An announce is drained. *)
Hears(v, q, d, w, r, f, m) ==
  /\ q[m] # <<>> /\ Head(q[m]).kind = "announce"
  /\ w = [v EXCEPT ![m] = ApplyKeyAnnounce(v[m], Head(q[m]))]
  /\ r = [q EXCEPT ![m] = Tail(q[m])]
  /\ \A n \in Members \ {m} : f[n] = d[n]
  /\ d[m] \/ w[m] # v[m] => f[m]

(* Nothing changes but the keys that the client knows; the room stays in   *)
(* its phase.                                                              *)
LEMMA HeardCrew ==
  ASSUME NEW v, NEW q, NEW d, NEW R, NEW w, NEW r, NEW f, NEW m \in R,
         Crew(v, q, d, R), Hears(v, q, d, w, r, f, m)
  PROVE  LET a == Head(q[m])
         IN /\ a \in Announces /\ a.member \in Members
            /\ m \in Members /\ q[m] \in Seq(Messages)
            /\ w[m] \in CryptoStates
            /\ \A n \in Members :
                 /\ w[n].me = v[n].me /\ w[n].group = v[n].group
                 /\ w[n].epoch = v[n].epoch /\ w[n].secret = v[n].secret
                 /\ w[n].members = v[n].members /\ w[n].recv = v[n].recv
                 /\ w[n].pending = v[n].pending /\ w[n].gen = v[n].gen
                 /\ Calm(r[n]) <=> Calm(q[n])
                 /\ n # m => w[n] = v[n] /\ r[n] = q[n]
            /\ r[m] = Tail(q[m])
            /\ \A n \in Members : w[m].keys[n] =
                 IF n = a.member /\ n \in v[m].members /\ v[m].keys[n] = Unknown
                 THEN a.key ELSE v[m].keys[n]
  <1>1. /\ m \in Members /\ q[m] \in Seq(Messages) /\ q[m] # <<>>
        /\ v \in [Members -> CryptoStates] /\ q \in [Members -> Seq(Messages)]
    BY DEF Crew, Hears
  <1>. DEFINE a == Head(q[m])
  <1>2. a \in Announces /\ a.member \in Members
    <2>1. a \in Messages /\ a.kind = "announce"
      BY <1>1, FirstTaken DEF Hears
    <2>2. a \in Announces
      BY <2>1, KindsApart
    <2>. QED
      BY <2>2 DEF Announces
  <1>3. Calm(Tail(q[m])) <=> Calm(q[m])
    BY <1>1, AnnounceTaken DEF Hears
  <1>. HIDE DEF a
  <1>4. /\ w = [v EXCEPT ![m] = ApplyKeyAnnounce(v[m], a)]
        /\ r = [q EXCEPT ![m] = Tail(q[m])]
    BY DEF Hears, a
  <1>5. LET u == ApplyKeyAnnounce(v[m], a)
        IN /\ u \in CryptoStates
           /\ u.group = v[m].group /\ u.me = v[m].me /\ u.epoch = v[m].epoch
           /\ u.secret = v[m].secret /\ u.members = v[m].members /\ u.recv = v[m].recv
           /\ u.pending = v[m].pending /\ u.gen = v[m].gen
           /\ \A n \in Members : u.keys[n] =
                IF n = a.member /\ n \in v[m].members /\ v[m].keys[n] = Unknown
                THEN a.key ELSE v[m].keys[n]
    BY <1>1, <1>2, LearnedKey
  <1>. QED
    BY <1>1, <1>2, <1>3, <1>4, <1>5 DEF a

LEMMA HeardClosing ==
  ASSUME NEW v, NEW q, NEW d, NEW R, NEW w, NEW r, NEW f, NEW m \in R,
         Crew(v, q, d, R), Hears(v, q, d, w, r, f, m), Closing(v, q, d, R)
  PROVE  Closing(w, r, f, R)
  <1>. DEFINE a == Head(q[m])
  <1>1. /\ a \in Announces /\ a.member \in Members
        /\ m \in Members /\ q[m] \in Seq(Messages)
        /\ w[m] \in CryptoStates
        /\ \A n \in Members :
             /\ w[n].me = v[n].me /\ w[n].group = v[n].group
             /\ w[n].epoch = v[n].epoch /\ w[n].secret = v[n].secret
             /\ w[n].members = v[n].members /\ w[n].recv = v[n].recv
             /\ w[n].pending = v[n].pending /\ w[n].gen = v[n].gen
             /\ Calm(r[n]) <=> Calm(q[n])
             /\ n # m => w[n] = v[n] /\ r[n] = q[n]
        /\ r[m] = Tail(q[m])
        /\ \A n \in Members : w[m].keys[n] =
             IF n = a.member /\ n \in v[m].members /\ v[m].keys[n] = Unknown
             THEN a.key ELSE v[m].keys[n]
    BY HeardCrew
  <1>2. /\ a = q[m][1] /\ 1 \in DOMAIN q[m] /\ a.kind = "announce"
        /\ \A i \in DOMAIN r[m] : i + 1 \in DOMAIN q[m] /\ i + 1 # 1 /\ r[m][i] = q[m][i + 1]
        /\ \A i \in DOMAIN q[m] : i # 1 => i - 1 \in DOMAIN r[m] /\ r[m][i - 1] = q[m][i]
        /\ \A i \in DOMAIN r[m] : Current(r[m], i) <=> Current(q[m], i + 1)
        /\ \A i \in DOMAIN q[m] : i \in Nat
        /\ \A i \in DOMAIN r[m] : i \in Nat
    <2>1. q[m] # <<>> /\ Head(q[m]).kind = "announce"
      BY DEF Hears
    <2>. QED
      BY <1>1, <2>1, FirstTaken, AnnounceTaken
  <1>3. /\ R \subseteq Members
        /\ \A n \in Members : v[n].gen # Unknown
    BY DEF Crew, KeysOwn
  <1>. HIDE DEF a
  <1>4. ASSUME NEW e \in Nat, NEW x \in Secrets,
               \A n \in R : Reached(v[n], q[n], R, e, x) \/ Awaits(v[n], q[n], R, e, x)
        PROVE  \A n \in R : Reached(w[n], r[n], R, e, x) \/ Awaits(w[n], r[n], R, e, x)
    <2>1. \A n \in R : Reached(v[n], q[n], R, e, x) => Reached(w[n], r[n], R, e, x)
      BY <1>1, <1>3 DEF Reached
    <2>2. ASSUME Awaits(v[m], q[m], R, e, x) PROVE Awaits(w[m], r[m], R, e, x)
      <3>1. PICK k \in DOMAIN q[m] :
              /\ q[m][k].kind = "commit" /\ q[m][k].epoch + 1 = e /\ q[m][k].secret = x
              /\ Accepts(v[m], q[m][k])
              /\ \A i \in DOMAIN q[m] : i # k => q[m][i].kind = "announce"
        BY <2>2 DEF Awaits
      <3>2. k # 1 /\ k - 1 \in DOMAIN r[m] /\ r[m][k - 1] = q[m][k]
        BY <1>2, <3>1
      <3>3. \A i \in DOMAIN r[m] : i # k - 1 => r[m][i].kind = "announce"
        BY <1>2, <3>1
      <3>4. Accepts(w[m], q[m][k]) /\ (OnTurn(w[m]) <=> OnTurn(v[m]))
        BY <1>1, <3>1, KeysAside
      <3>5. w[m].members = R /\ ~OnTurn(w[m])
        BY <1>1, <2>2, <3>4 DEF Awaits
      <3>6. /\ r[m][k - 1].kind = "commit" /\ r[m][k - 1].epoch + 1 = e
            /\ r[m][k - 1].secret = x /\ Accepts(w[m], r[m][k - 1])
        BY <3>1, <3>2, <3>4
      <3>. QED
        BY <3>2, <3>3, <3>5, <3>6 DEF Awaits
    <2>. QED
      BY <1>1, <1>3, <1>4, <2>1, <2>2
  <1>5. ASSUME Seats > 2 PROVE KeysCurrent(w, r, f, R)
    <2>1. KeysCurrent(v, q, d, R) /\ \A n \in R : v[n].members = R
      BY <1>5 DEF Closing, Reached, Awaits
    <2>. SUFFICES ASSUME NEW x \in R, NEW y \in R, x # y
                  PROVE  /\ Calm(r[x]) /\ w[x].keys[y] # Unknown =>
                              Calm(r[y]) /\ w[x].keys[y] = w[y].gen
                         /\ \A i \in DOMAIN r[x] : Current(r[x], i) /\ r[x][i].member = y =>
                              Calm(r[y]) /\ r[x][i].key = w[y].gen
                         /\ Calm(r[y]) /\ ~f[y] =>
                              \/ Calm(r[x]) /\ w[x].keys[y] # Unknown
                              \/ \E i \in DOMAIN r[x] : Current(r[x], i) /\ r[x][i].member = y
      BY DEF KeysCurrent
    <2>2. /\ Calm(q[x]) /\ v[x].keys[y] # Unknown => Calm(q[y]) /\ v[x].keys[y] = v[y].gen
          /\ \A i \in DOMAIN q[x] :
               Current(q[x], i) /\ q[x][i].member = y => Calm(q[y]) /\ q[x][i].key = v[y].gen
          /\ Calm(q[y]) /\ ~d[y] =>
               \/ Calm(q[x]) /\ v[x].keys[y] # Unknown
               \/ \E i \in DOMAIN q[x] : Current(q[x], i) /\ q[x][i].member = y
      BY <2>1 DEF KeysCurrent
    <2>3. /\ x \in Members /\ y \in Members
          /\ Calm(r[x]) <=> Calm(q[x])
          /\ Calm(r[y]) <=> Calm(q[y])
          /\ w[y].gen = v[y].gen /\ v[y].gen # Unknown
          /\ ~f[y] => ~d[y]
      BY <1>1, <1>3 DEF Hears
    <2>4. CASE x # m
      BY <1>1, <2>2, <2>3, <2>4
    <2>5. CASE x = m
      <3>1. Current(q[m], 1) <=> Calm(q[m])
        BY <1>2 DEF Current, Calm
      <3>2. w[m].keys[y] = IF y = a.member /\ v[m].keys[y] = Unknown THEN a.key ELSE v[m].keys[y]
        BY <1>1, <2>1, <2>3
      <3>3. /\ v[m].keys[y] # Unknown => w[m].keys[y] = v[m].keys[y]
            /\ Calm(q[m]) /\ y = a.member => w[m].keys[y] = v[y].gen
        BY <1>2, <2>2, <2>3, <2>5, <3>1, <3>2
      <3>4. Calm(r[m]) /\ w[m].keys[y] # Unknown => Calm(r[y]) /\ w[m].keys[y] = w[y].gen
        BY <1>2, <2>2, <2>3, <2>5, <3>1, <3>2
      <3>5. \A i \in DOMAIN r[m] : Current(r[m], i) /\ r[m][i].member = y =>
              Calm(r[y]) /\ r[m][i].key = w[y].gen
        BY <1>2, <2>2, <2>3, <2>5
      <3>6. ASSUME Calm(r[y]) /\ ~f[y], ~(Calm(r[m]) /\ w[m].keys[y] # Unknown)
            PROVE  \E i \in DOMAIN r[m] : Current(r[m], i) /\ r[m][i].member = y
        <4>1. PICK i \in DOMAIN q[m] : Current(q[m], i) /\ q[m][i].member = y
          BY <2>2, <2>3, <2>5, <3>3, <3>6
        <4>2. i # 1
          BY <1>2, <2>3, <2>5, <3>1, <3>3, <3>6, <4>1
        <4>3. i - 1 \in DOMAIN r[m] /\ r[m][i - 1] = q[m][i] /\ Current(r[m], i - 1)
          BY <1>2, <4>1, <4>2
        <4>. QED
          BY <4>1, <4>3
      <3>. QED
        BY <2>5, <3>4, <3>5, <3>6
    <2>. QED
      BY <2>4, <2>5
  <1>. QED
    BY <1>4, <1>5 DEF Closing

LEMMA HeardOpening ==
  ASSUME NEW v, NEW q, NEW d, NEW R, NEW w, NEW r, NEW f, NEW m \in R, NEW t,
         Crew(v, q, d, R), Hears(v, q, d, w, r, f, m), Opening(v, q, d, R, t)
  PROVE  Opening(w, r, f, R, t)
  <1>. DEFINE a == Head(q[m])
  <1>1. /\ a \in Announces /\ a.member \in Members
        /\ m \in Members /\ q[m] \in Seq(Messages)
        /\ \A n \in Members :
             /\ w[n].me = v[n].me /\ w[n].group = v[n].group
             /\ w[n].epoch = v[n].epoch /\ w[n].secret = v[n].secret
             /\ w[n].members = v[n].members
             /\ w[n].pending = v[n].pending /\ w[n].gen = v[n].gen
             /\ Calm(r[n]) <=> Calm(q[n])
             /\ n # m => w[n] = v[n] /\ r[n] = q[n]
        /\ r[m] = Tail(q[m])
        /\ \A n \in Members : w[m].keys[n] =
             IF n = a.member /\ n \in v[m].members /\ v[m].keys[n] = Unknown
             THEN a.key ELSE v[m].keys[n]
    BY HeardCrew
  <1>2. /\ a = q[m][1] /\ 1 \in DOMAIN q[m]
        /\ \A i \in DOMAIN r[m] : i + 1 \in DOMAIN q[m] /\ r[m][i] = q[m][i + 1]
        /\ \A i \in DOMAIN q[m] : i # 1 => i - 1 \in DOMAIN r[m] /\ r[m][i - 1] = q[m][i]
    <2>1. q[m] # <<>>
      BY DEF Hears
    <2>. QED
      BY <1>1, <2>1, FirstTaken
  <1>3. /\ R \subseteq Members
        /\ \A n \in Members : v[n].gen # Unknown
    BY DEF Crew, KeysOwn
  <1>. HIDE DEF a
  <1>4. ASSUME NEW e, NEW p \in R, Proposing(v, q, d, R, t, e, p)
        PROVE  Proposing(w, r, f, R, t, e, p)
    <2>1. /\ Active(w[p]) /\ ProposerOf(w[p].group, e, t) = p
      BY <1>1, <1>3, <1>4 DEF Proposing, Active
    <2>2. ASSUME NEW n \in R \ {p}
          PROVE  /\ w[p].keys[n] # Unknown => w[p].keys[n] = w[n].gen
                 /\ \A i \in DOMAIN r[p] : r[p][i].member = n => r[p][i].key = w[n].gen
                 /\ w[p].keys[n] = Unknown => \E i \in DOMAIN r[p] : r[p][i].member = n
      <3>1. /\ v[p].keys[n] # Unknown => v[p].keys[n] = v[n].gen
            /\ \A i \in DOMAIN q[p] : q[p][i].member = n => q[p][i].key = v[n].gen
            /\ v[p].keys[n] = Unknown => \E i \in DOMAIN q[p] : q[p][i].member = n
        BY <1>4 DEF Proposing
      <3>2. n \in Members /\ w[n].gen = v[n].gen /\ v[n].gen # Unknown /\ n \in v[p].members
        BY <1>1, <1>3 DEF Opening
      <3>3. CASE p # m
        BY <1>1, <1>3, <3>1, <3>2, <3>3
      <3>4. CASE p = m
        <4>1. \A i \in DOMAIN r[m] : r[m][i].member = n => r[m][i].key = w[n].gen
          BY <1>2, <3>1, <3>2, <3>4
        <4>2. /\ v[m].keys[n] # Unknown => w[m].keys[n] = v[m].keys[n]
              /\ n = a.member => w[m].keys[n] = v[n].gen
          BY <1>1, <1>2, <3>1, <3>2, <3>4
        <4>3. w[m].keys[n] # Unknown => w[m].keys[n] = w[n].gen
          BY <1>1, <3>1, <3>2, <3>4, <4>2
        <4>4. ASSUME w[m].keys[n] = Unknown PROVE \E i \in DOMAIN r[m] : r[m][i].member = n
          <5>1. PICK i \in DOMAIN q[m] : q[m][i].member = n
            BY <3>1, <3>4, <4>2, <4>4
          <5>2. i # 1
            BY <1>2, <3>2, <4>2, <4>4, <5>1
          <5>. QED
            BY <1>2, <5>1, <5>2
        <4>. QED
          BY <3>4, <4>1, <4>3, <4>4
      <3>. QED
        BY <3>3, <3>4
    <2>3. ASSUME \A n \in R : w[p].keys[n] # Unknown PROVE f[p]
      <3>1. CASE w[p] # v[p]
        BY <1>1, <1>3, <3>1 DEF Hears
      <3>2. CASE w[p] = v[p]
        BY <1>3, <1>4, <2>3, <3>2 DEF Proposing, Hears
      <3>. QED
        BY <3>1, <3>2
    <2>. QED
      BY <2>1, <2>2, <2>3 DEF Proposing
  <1>. QED
    <2>1. \A n \in R : n \in Members /\ (Active(w[n]) <=> Active(v[n]))
      BY <1>1, <1>3 DEF Active
    <2>. QED
      BY <1>1, <1>4, <2>1 DEF Opening

(* A commit is drained and applied. *)
Obeys(v, q, d, w, r, f, m) ==
  /\ q[m] # <<>> /\ Head(q[m]).kind = "commit"
  /\ w = [v EXCEPT ![m] = ApplyEpochCommit(v[m], Head(q[m]))]
  /\ r = [q EXCEPT ![m] = Tail(q[m])]
  /\ \A n \in Members \ {m} : f[n] = d[n]
  /\ f[m]

(* A commit comes to those only who will take it. *)
LEMMA CommitAwaited ==
  ASSUME NEW v, NEW q, NEW d, NEW R, NEW m \in R, NEW e \in Nat, NEW x \in Secrets,
         Crew(v, q, d, R), q[m] # <<>>, Head(q[m]).kind = "commit",
         Awaits(v[m], q[m], R, e, x)
  PROVE  /\ Accepts(v[m], Head(q[m]))
         /\ \A i \in DOMAIN q[m] : i # 1 => q[m][i].kind = "announce"
         /\ Head(q[m]).epoch + 1 = e /\ Head(q[m]).secret = x
         /\ v[m].members = R
  <1>1. Head(q[m]) = q[m][1] /\ 1 \in DOMAIN q[m]
    BY FirstTaken DEF Crew
  <1>. QED
    BY <1>1 DEF Awaits

(* In a room that is in its phase there is no other commit. *)
LEMMA CommitsWelcome ==
  ASSUME NEW v, NEW q, NEW d, NEW R, NEW m \in R,
         Crew(v, q, d, R), Phase(v, q, d, R),
         q[m] # <<>>, Head(q[m]).kind = "commit"
  PROVE  /\ Closing(v, q, d, R)
         /\ Accepts(v[m], Head(q[m])) /\ Head(q[m]) \in Commits
         /\ ~Calm(q[m])
         /\ \A i \in DOMAIN q[m] : i # 1 => q[m][i].kind = "announce"
  <1>1. /\ Head(q[m]) = q[m][1] /\ 1 \in DOMAIN q[m] /\ Head(q[m]) \in Commits
    BY FirstTaken, KindsApart DEF Crew
  <1>2. ~Calm(q[m])
    BY <1>1 DEF Calm
  <1>3. Closing(v, q, d, R)
    BY <1>2 DEF Phase, Opening
  <1>4. PICK e \in Nat, x \in Secrets : Reached(v[m], q[m], R, e, x) \/ Awaits(v[m], q[m], R, e, x)
    BY <1>3 DEF Closing
  <1>5. Awaits(v[m], q[m], R, e, x)
    BY <1>2, <1>4 DEF Reached
  <1>6. Accepts(v[m], Head(q[m])) /\ \A i \in DOMAIN q[m] : i # 1 => q[m][i].kind = "announce"
    BY <1>5, CommitAwaited
  <1>. QED
    BY <1>1, <1>2, <1>3, <1>6

(* The client comes to where the commit leads. *)
LEMMA ObeyedClosing ==
  ASSUME NEW v, NEW q, NEW d, NEW R, NEW w, NEW r, NEW f, NEW m \in R,
         Crew(v, q, d, R), Obeys(v, q, d, w, r, f, m), Phase(v, q, d, R)
  PROVE  Closing(w, r, f, R)
  <1>. DEFINE c == Head(q[m])
              u == ApplyEpochCommit(v[m], c)
  <1>1. /\ R \subseteq Members /\ m \in Members
        /\ v[m] \in CryptoStates /\ v[m].me = m /\ q[m] \in Seq(Messages) /\ q[m] # <<>>
        /\ \A n \in Members : v[n].gen # Unknown
        /\ w = [v EXCEPT ![m] = u] /\ r = [q EXCEPT ![m] = Tail(q[m])]
        /\ v \in [Members -> CryptoStates] /\ q \in [Members -> Seq(Messages)]
        /\ f[m] /\ \A n \in Members \ {m} : f[n] = d[n]
    BY DEF Crew, KeysOwn, Obeys
  <1>2. /\ Closing(v, q, d, R)
        /\ c \in Commits
        /\ ~Calm(q[m])
        /\ \A i \in DOMAIN q[m] : i # 1 => q[m][i].kind = "announce"
    <2>1. q[m] # <<>> /\ c.kind = "commit"
      BY DEF Obeys
    <2>. QED
      BY <2>1, CommitsWelcome
  <1>3. /\ q[m][1] = c /\ 1 \in DOMAIN q[m]
        /\ \A i \in DOMAIN r[m] : i + 1 \in DOMAIN q[m] /\ i + 1 # 1 /\ r[m][i] = q[m][i + 1]
        /\ \A i \in DOMAIN q[m] : i # 1 => i - 1 \in DOMAIN r[m] /\ r[m][i - 1] = q[m][i]
        /\ \A i \in DOMAIN q[m] : i \in Nat /\ i >= 1
        /\ \A i \in DOMAIN r[m] : i \in Nat /\ i >= 1
        /\ c.kind = "commit"
    BY <1>1, FirstTaken DEF Obeys
  <1>4. /\ u.epoch = c.epoch + 1
        /\ u.secret = {c.secret} /\ u.members = v[m].members
        /\ u.recv = v[m].members \ {m} /\ u.pending = {} /\ u.me = m
        /\ \A n \in Members : n # m => u.keys[n] = Unknown
    BY <1>1, <1>2, EnteredEpoch
  <1>. HIDE DEF c, u
  <1>5. Calm(r[m])
    BY <1>2, <1>3 DEF Calm
  <1>6. \A n \in Members \ {m} : w[n] = v[n] /\ r[n] = q[n]
    BY <1>1
  <1>7. w[m] = u
    BY <1>1
  <1>8. ASSUME NEW e \in Nat, NEW x \in Secrets,
               \A n \in R : Reached(v[n], q[n], R, e, x) \/ Awaits(v[n], q[n], R, e, x)
        PROVE  \A n \in R : Reached(w[n], r[n], R, e, x) \/ Awaits(w[n], r[n], R, e, x)
    <2>1. c.epoch + 1 = e /\ c.secret = x /\ v[m].members = R
      <3>1. q[m] # <<>> /\ Head(q[m]).kind = "commit"
        BY DEF Obeys
      <3>2. Awaits(v[m], q[m], R, e, x)
        BY <1>2, <1>8 DEF Reached
      <3>. QED
        BY <3>1, <3>2, CommitAwaited DEF c
    <2>2. Reached(w[m], r[m], R, e, x)
      BY <1>4, <1>5, <1>7, <2>1 DEF Reached
    <2>. QED
      BY <1>1, <1>6, <1>8, <2>2
  <1>9. ASSUME KeysCurrent(v, q, d, R) PROVE KeysCurrent(w, r, f, R)
    <2>. SUFFICES ASSUME NEW x \in R, NEW y \in R, x # y
                  PROVE  /\ Calm(r[x]) /\ w[x].keys[y] # Unknown =>
                              Calm(r[y]) /\ w[x].keys[y] = w[y].gen
                         /\ \A i \in DOMAIN r[x] : Current(r[x], i) /\ r[x][i].member = y =>
                              Calm(r[y]) /\ r[x][i].key = w[y].gen
                         /\ Calm(r[y]) /\ ~f[y] =>
                              \/ Calm(r[x]) /\ w[x].keys[y] # Unknown
                              \/ \E i \in DOMAIN r[x] : Current(r[x], i) /\ r[x][i].member = y
      BY DEF KeysCurrent
    <2>1. /\ Calm(q[x]) /\ v[x].keys[y] # Unknown => Calm(q[y]) /\ v[x].keys[y] = v[y].gen
          /\ \A i \in DOMAIN q[x] :
               Current(q[x], i) /\ q[x][i].member = y => Calm(q[y]) /\ q[x][i].key = v[y].gen
          /\ Calm(q[y]) /\ ~d[y] =>
               \/ Calm(q[x]) /\ v[x].keys[y] # Unknown
               \/ \E i \in DOMAIN q[x] : Current(q[x], i) /\ q[x][i].member = y
      BY <1>9 DEF KeysCurrent
    <2>2. x \in Members /\ y \in Members
      BY <1>1
    <2>3. CASE x # m /\ y # m
      BY <1>1, <1>6, <2>1, <2>2, <2>3
    <2>4. CASE y = m
      BY <1>1, <1>2, <1>6, <2>1, <2>2, <2>4
    <2>5. CASE x = m
      <3>1. /\ w[y] = v[y] /\ r[y] = q[y] /\ f[y] = d[y] /\ w[m].keys[y] = Unknown
        BY <1>1, <1>4, <1>6, <1>7, <2>2, <2>5
      <3>2. \A i \in DOMAIN q[m] : Current(q[m], i) <=> i # 1
        BY <1>2, <1>3 DEF Current
      <3>3. \A i \in DOMAIN r[m] : Current(r[m], i)
        BY <1>5 DEF Current, Calm
      <3>4. \A i \in DOMAIN r[m] : r[m][i].member = y => Calm(r[y]) /\ r[m][i].key = w[y].gen
        BY <1>3, <2>1, <2>5, <3>1, <3>2
      <3>5. ASSUME Calm(r[y]) /\ ~f[y] PROVE \E i \in DOMAIN r[m] : r[m][i].member = y
        <4>1. PICK i \in DOMAIN q[m] : i # 1 /\ q[m][i].member = y
          BY <1>2, <2>1, <2>5, <3>1, <3>2, <3>5
        <4>. QED
          BY <1>3, <4>1
      <3>. QED
        BY <2>5, <3>1, <3>3, <3>4, <3>5
    <2>. QED
      BY <2>3, <2>4, <2>5
  <1>. QED
    BY <1>2, <1>8, <1>9 DEF Closing

(* A client announces its key; where there may be more than two, nothing   *)
(* is on its way to it then.                                               *)
Calls(v, q, d, r, f, m, R) ==
  /\ \A n \in R \ {m} : r[n] = Append(q[n], LocalKeyAnnounce(v[m]))
  /\ r[m] = q[m]
  /\ \A n \in Members \ {m} : f[n] = d[n]
  /\ ~f[m]
  /\ Seats > 2 => q[m] = <<>>

(* What the others have to drain then. *)
LEMMA CallTypes ==
  ASSUME NEW s \in CryptoStates
  PROVE  LET a == LocalKeyAnnounce(s)
         IN /\ a \in Messages /\ a.kind = "announce" /\ a.member = s.me /\ a.key = s.gen
  BY DEF LocalKeyAnnounce, Messages, Announces, CryptoStates

LEMMA CalledLines ==
  ASSUME NEW v, NEW q, NEW d, NEW R, NEW r, NEW f, NEW m \in R,
         Crew(v, q, d, R), Calls(v, q, d, r, f, m, R)
  PROVE  LET a == LocalKeyAnnounce(v[m])
         IN /\ R \subseteq Members /\ m \in Members
            /\ a.kind = "announce" /\ a.member = m /\ a.key = v[m].gen /\ v[m].me = m
            /\ r[m] = q[m] /\ ~f[m] /\ \A n \in Members \ {m} : f[n] = d[n]
            /\ Seats > 2 => q[m] = <<>>
            /\ \A n \in R \ {m} :
                 /\ Calm(r[n]) <=> Calm(q[n])
                 /\ DOMAIN r[n] = DOMAIN q[n] \cup {Len(q[n]) + 1}
                 /\ \A i \in DOMAIN q[n] :
                      r[n][i] = q[n][i] /\ (Current(r[n], i) <=> Current(q[n], i))
                 /\ r[n][Len(q[n]) + 1] = a /\ Current(r[n], Len(q[n]) + 1)
  <1>. DEFINE a == LocalKeyAnnounce(v[m])
  <1>1. /\ R \subseteq Members /\ m \in Members
        /\ \A n \in R : q[n] \in Seq(Messages)
        /\ v[m] \in CryptoStates /\ v[m].me = m
    BY DEF Crew
  <1>2. a \in Messages /\ a.kind = "announce" /\ a.member = m /\ a.key = v[m].gen
    BY <1>1, CallTypes
  <1>3. \A n \in R \ {m} : r[n] = Append(q[n], a)
    BY DEF Calls
  <1>4. /\ r[m] = q[m] /\ ~f[m] /\ \A n \in Members \ {m} : f[n] = d[n]
        /\ Seats > 2 => q[m] = <<>>
    BY DEF Calls
  <1>. HIDE DEF a
  <1>5. ASSUME NEW n \in R \ {m}
        PROVE  /\ Calm(r[n]) <=> Calm(q[n])
               /\ DOMAIN r[n] = DOMAIN q[n] \cup {Len(q[n]) + 1}
               /\ \A i \in DOMAIN q[n] :
                    r[n][i] = q[n][i] /\ (Current(r[n], i) <=> Current(q[n], i))
               /\ r[n][Len(q[n]) + 1] = a /\ Current(r[n], Len(q[n]) + 1)
    <2>1. r[n] = Append(q[n], a) /\ q[n] \in Seq(Messages)
      BY <1>1, <1>3
    <2>2. /\ DOMAIN r[n] = DOMAIN q[n] \cup {Len(q[n]) + 1}
          /\ \A i \in DOMAIN q[n] : r[n][i] = q[n][i]
          /\ r[n][Len(q[n]) + 1] = a
      BY <1>2, <2>1, PutLast
    <2>3. /\ Calm(r[n]) <=> Calm(q[n])
          /\ \A i \in DOMAIN q[n] : Current(r[n], i) <=> Current(q[n], i)
          /\ Current(r[n], Len(q[n]) + 1)
      BY <1>2, <2>1, AnnounceAdded
    <2>. QED
      BY <2>2, <2>3
  <1>. QED
    BY <1>1, <1>2, <1>4, <1>5 DEF a

(* A client that announces and does not propose leaves the room in its     *)
(* phase.                                                                  *)
LEMMA CalledClosing ==
  ASSUME NEW v, NEW q, NEW d, NEW R, NEW r, NEW f, NEW m \in R,
         Crew(v, q, d, R), Calls(v, q, d, r, f, m, R), Closing(v, q, d, R)
  PROVE  Closing(v, r, f, R)
  <1>. DEFINE a == LocalKeyAnnounce(v[m])
  <1>1. /\ R \subseteq Members /\ m \in Members
        /\ a.kind = "announce" /\ a.member = m /\ a.key = v[m].gen /\ v[m].me = m
        /\ r[m] = q[m] /\ ~f[m] /\ \A n \in Members \ {m} : f[n] = d[n]
        /\ Seats > 2 => q[m] = <<>>
        /\ \A n \in R \ {m} :
             /\ Calm(r[n]) <=> Calm(q[n])
             /\ DOMAIN r[n] = DOMAIN q[n] \cup {Len(q[n]) + 1}
             /\ \A i \in DOMAIN q[n] :
                  r[n][i] = q[n][i] /\ (Current(r[n], i) <=> Current(q[n], i))
             /\ r[n][Len(q[n]) + 1] = a /\ Current(r[n], Len(q[n]) + 1)
    BY CalledLines
  <1>. HIDE DEF a
  <1>6. ASSUME NEW e, NEW x, NEW n \in R, Reached(v[n], q[n], R, e, x) \/ Awaits(v[n], q[n], R, e, x)
        PROVE  Reached(v[n], r[n], R, e, x) \/ Awaits(v[n], r[n], R, e, x)
    <2>1. CASE n = m
      BY <1>1, <1>6, <2>1
    <2>2. CASE n # m /\ Reached(v[n], q[n], R, e, x)
      BY <1>1, <2>2 DEF Reached
    <2>3. CASE n # m /\ Awaits(v[n], q[n], R, e, x)
      <3>1. PICK k \in DOMAIN q[n] :
              /\ q[n][k].kind = "commit" /\ q[n][k].epoch + 1 = e /\ q[n][k].secret = x
              /\ Accepts(v[n], q[n][k])
              /\ \A i \in DOMAIN q[n] : i # k => q[n][i].kind = "announce"
        BY <2>3 DEF Awaits
      <3>2. k \in DOMAIN r[n] /\ r[n][k] = q[n][k]
        BY <1>1, <2>3, <3>1
      <3>3. \A i \in DOMAIN r[n] : i # k => r[n][i].kind = "announce"
        BY <1>1, <2>3, <3>1
      <3>. QED
        BY <2>3, <3>1, <3>2, <3>3 DEF Awaits
    <2>. QED
      BY <1>6, <2>1, <2>2, <2>3
  <1>7. ASSUME KeysCurrent(v, q, d, R), Seats > 2 PROVE KeysCurrent(v, r, f, R)
    <2>. SUFFICES ASSUME NEW x \in R, NEW y \in R, x # y
                  PROVE  /\ Calm(r[x]) /\ v[x].keys[y] # Unknown =>
                              Calm(r[y]) /\ v[x].keys[y] = v[y].gen
                         /\ \A i \in DOMAIN r[x] : Current(r[x], i) /\ r[x][i].member = y =>
                              Calm(r[y]) /\ r[x][i].key = v[y].gen
                         /\ Calm(r[y]) /\ ~f[y] =>
                              \/ Calm(r[x]) /\ v[x].keys[y] # Unknown
                              \/ \E i \in DOMAIN r[x] : Current(r[x], i) /\ r[x][i].member = y
      BY DEF KeysCurrent
    <2>1. /\ Calm(q[x]) /\ v[x].keys[y] # Unknown => Calm(q[y]) /\ v[x].keys[y] = v[y].gen
          /\ \A i \in DOMAIN q[x] :
               Current(q[x], i) /\ q[x][i].member = y => Calm(q[y]) /\ q[x][i].key = v[y].gen
          /\ Calm(q[y]) /\ ~d[y] =>
               \/ Calm(q[x]) /\ v[x].keys[y] # Unknown
               \/ \E i \in DOMAIN q[x] : Current(q[x], i) /\ q[x][i].member = y
      BY <1>7 DEF KeysCurrent
    <2>2. Calm(q[m])
      BY <1>1, <1>7 DEF Calm
    <2>3. (Calm(r[x]) <=> Calm(q[x])) /\ (Calm(r[y]) <=> Calm(q[y]))
      BY <1>1
    <2>4. \A i \in DOMAIN r[x] : Current(r[x], i) /\ r[x][i].member = y =>
            Calm(r[y]) /\ r[x][i].key = v[y].gen
      <3>1. CASE x = m
        BY <1>1, <2>1, <2>3, <3>1
      <3>2. CASE x # m
        BY <1>1, <2>1, <2>2, <2>3, <3>2
      <3>. QED
        BY <3>1, <3>2
    <2>5. ASSUME Calm(r[y]) /\ ~f[y]
          PROVE  \/ Calm(r[x]) /\ v[x].keys[y] # Unknown
                 \/ \E i \in DOMAIN r[x] : Current(r[x], i) /\ r[x][i].member = y
      <3>1. CASE y = m
        BY <1>1, <3>1
      <3>2. CASE y # m
        <4>1. \/ Calm(q[x]) /\ v[x].keys[y] # Unknown
              \/ \E i \in DOMAIN q[x] : Current(q[x], i) /\ q[x][i].member = y
          BY <1>1, <2>1, <2>3, <2>5, <3>2
        <4>. QED
          BY <1>1, <2>3, <4>1
      <3>. QED
        BY <3>1, <3>2
    <2>. QED
      BY <2>1, <2>3, <2>4, <2>5
  <1>. QED
    BY <1>6, <1>7 DEF Closing

LEMMA CalledOpening ==
  ASSUME NEW v, NEW q, NEW d, NEW R, NEW r, NEW f, NEW m \in R, NEW t,
         Crew(v, q, d, R), Calls(v, q, d, r, f, m, R), Opening(v, q, d, R, t),
         ~CanBuild(v[m], t)
  PROVE  Opening(v, r, f, R, t)
  <1>. DEFINE a == LocalKeyAnnounce(v[m])
  <1>1. /\ R \subseteq Members /\ m \in Members
        /\ a.kind = "announce" /\ a.member = m /\ a.key = v[m].gen /\ v[m].me = m
        /\ r[m] = q[m] /\ ~f[m] /\ \A n \in Members \ {m} : f[n] = d[n]
        /\ Seats > 2 => q[m] = <<>>
        /\ \A n \in R \ {m} :
             /\ Calm(r[n]) <=> Calm(q[n])
             /\ DOMAIN r[n] = DOMAIN q[n] \cup {Len(q[n]) + 1}
             /\ \A i \in DOMAIN q[n] :
                  r[n][i] = q[n][i] /\ (Current(r[n], i) <=> Current(q[n], i))
             /\ r[n][Len(q[n]) + 1] = a /\ Current(r[n], Len(q[n]) + 1)
    BY CalledLines
  <1>. HIDE DEF a
  <1>6. \A n \in R : Calm(r[n])
    BY <1>1 DEF Opening
  <1>7. ASSUME NEW e, NEW p \in R, Active(v[p]) => v[p].epoch = e,
               Proposing(v, q, d, R, t, e, p)
        PROVE  Proposing(v, r, f, R, t, e, p)
    <2>1. Active(v[p]) /\ ProposerOf(v[p].group, e, t) = p
      BY <1>7 DEF Proposing
    <2>2. ASSUME NEW n \in R \ {p}
          PROVE  /\ v[p].keys[n] # Unknown => v[p].keys[n] = v[n].gen
                 /\ \A i \in DOMAIN r[p] : r[p][i].member = n => r[p][i].key = v[n].gen
                 /\ v[p].keys[n] = Unknown => \E i \in DOMAIN r[p] : r[p][i].member = n
      <3>1. /\ v[p].keys[n] # Unknown => v[p].keys[n] = v[n].gen
            /\ \A i \in DOMAIN q[p] : q[p][i].member = n => q[p][i].key = v[n].gen
            /\ v[p].keys[n] = Unknown => \E i \in DOMAIN q[p] : q[p][i].member = n
        BY <1>7 DEF Proposing
      <3>2. CASE p = m
        BY <1>1, <3>1, <3>2
      <3>3. CASE p # m
        BY <1>1, <3>1, <3>3
      <3>. QED
        BY <3>2, <3>3
    <2>3. ASSUME \A n \in R : v[p].keys[n] # Unknown PROVE f[p]
      <3>1. CASE p # m
        BY <1>1, <1>7, <2>3, <3>1 DEF Proposing
      <3>2. CASE p = m
        <4>1. t.new = R /\ v[m].members = R /\ v[m].epoch = e
          BY <1>7, <2>1, <3>2 DEF Opening
        <4>2. CanBuild(v[m], t)
          BY <1>1, <2>1, <2>3, <3>2, <4>1 DEF CanBuild
        <4>. QED
          BY <4>2
      <3>. QED
        BY <3>1, <3>2
    <2>. QED
      BY <2>1, <2>2, <2>3 DEF Proposing
  <1>. QED
    BY <1>6, <1>7 DEF Opening

(* A client proposes: it announces, sends the commit that it has applied   *)
(* itself, and announces the key it has drawn.                             *)
Leads(v, q, d, w, r, f, m, R, t, x) ==
  LET c == BuildCommit(v[m], t, x)
      u == ApplyEpochCommit(v[m], c)
  IN /\ t \in v[m].pending /\ CanBuild(v[m], t)
     /\ w = [v EXCEPT ![m] = u]
     /\ \A n \in R \ {m} :
          r[n] = q[n] \o <<LocalKeyAnnounce(v[m]), c, LocalKeyAnnounce(u)>>
     /\ r[m] = q[m]
     /\ ~f[m]
     /\ Seats > 2 => q[m] = <<>>

(* The commit, and the lines that are sent. *)
LEMMA ProposalTypes ==
  ASSUME NEW s \in CryptoStates, NEW t \in Transitions, NEW x \in Secrets
  PROVE  LET c == BuildCommit(s, t, x)
         IN /\ c \in Commits
            /\ c.kind = "commit" /\ c.type = t.type /\ c.affected = t.affected
            /\ c.epoch = s.epoch /\ c.old = t.old /\ c.new = t.new
            /\ c.by = s.me /\ c.secret = x
            /\ \A n \in Members : n \in t.new => c.wraps[n] = s.keys[n]
  <1>. DEFINE k == [n \in Members |-> IF n \in t.new THEN s.keys[n] ELSE Unknown]
  <1>1. k \in Keys
    BY DEF CryptoStates, Keys, Unknown
  <1>2. BuildCommit(s, t, x) =
          [kind |-> "commit", type |-> t.type, affected |-> t.affected, epoch |-> s.epoch,
           old |-> t.old, new |-> t.new, by |-> s.me, wraps |-> k, secret |-> x]
    BY DEF BuildCommit
  <1>3. \A n \in Members : n \in t.new => k[n] = s.keys[n]
    OBVIOUS
  <1>. HIDE DEF k
  <1>. QED
    BY <1>1, <1>2, <1>3 DEF Commits, CryptoStates, Transitions

LEMMA ThreeAdded ==
  ASSUME NEW T, NEW q \in Seq(T), NEW a \in T, NEW b \in T, NEW c \in T
  PROVE  LET s == q \o <<a, b, c>>
             L == Len(q)
         IN /\ s \in Seq(T)
            /\ DOMAIN s = DOMAIN q \cup {L + 1, L + 2, L + 3}
            /\ \A i \in DOMAIN q : s[i] = q[i] /\ i \in Nat /\ i < L + 1
            /\ s[L + 1] = a /\ s[L + 2] = b /\ s[L + 3] = c
            /\ L \in Nat
  <1>1. q \o <<a, b, c>> \in Seq(T)
    OBVIOUS
  <1>2. Len(q \o <<a, b, c>>) = Len(q) + 3
    OBVIOUS
  <1>3. \A i \in 1 .. Len(q) : (q \o <<a, b, c>>)[i] = q[i]
    OBVIOUS
  <1>4. (q \o <<a, b, c>>)[Len(q) + 1] = a
    OBVIOUS
  <1>5. (q \o <<a, b, c>>)[Len(q) + 2] = b
    OBVIOUS
  <1>6. (q \o <<a, b, c>>)[Len(q) + 3] = c
    OBVIOUS
  <1>. DEFINE s == q \o <<a, b, c>>
              L == Len(q)
  <1>. HIDE DEF s
  <1>7. L \in Nat /\ DOMAIN q = 1 .. L
    OBVIOUS
  <1>8. DOMAIN s = 1 .. L + 3
    BY <1>1, <1>2, <1>7 DEF s
  <1>9. DOMAIN s = DOMAIN q \cup {L + 1, L + 2, L + 3}
    BY <1>7, <1>8
  <1>. QED
    BY <1>1, <1>3, <1>4, <1>5, <1>6, <1>7, <1>9 DEF s

(* The commit is welcome to all who know of the transition. *)
LEMMA ProposalWelcome ==
  ASSUME NEW s, NEW c, NEW t \in s.pending, NEW p,
         s.me \in c.new, c.old = t.old, c.new = t.new, c.type = t.type,
         c.affected = t.affected, OneChange(t), c.by = p, c.epoch \in Nat,
         \/ s.epoch = c.epoch
         \/ s.epoch = 0 /\ t.type = "Join" /\ t.affected = s.me,
         ProposerOf(s.group, c.epoch, t) = p,
         c.wraps[s.me] = s.gen
  PROVE  Accepts(s, c)
  <1>1. ProposerOf(s.group, c.epoch, c) = ProposerOf(s.group, c.epoch, t)
    BY DEF ProposerOf
  <1>2. c.epoch = s.epoch \/ CanAcceptFromLaterEpoch(s, t, c)
    BY DEF CanAcceptFromLaterEpoch, OneChange
  <1>. QED
    BY <1>1, <1>2 DEF Accepts

(* Then the change is closed, but for those to whom the commit is on its   *)
(* way.                                                                    *)
LEMMA LedClosing ==
  ASSUME NEW v, NEW q, NEW d, NEW R, NEW w, NEW r, NEW f, NEW m \in R, NEW t,
         NEW x \in Secrets, Crew(v, q, d, R), Leads(v, q, d, w, r, f, m, R, t, x),
         Phase(v, q, d, R)
  PROVE  Closing(w, r, f, R)
  <1>. DEFINE c == BuildCommit(v[m], t, x)
              u == ApplyEpochCommit(v[m], c)
              a == LocalKeyAnnounce(v[m])
              b == LocalKeyAnnounce(u)
  <1>1. /\ R \subseteq Members /\ m \in Members
        /\ v \in [Members -> CryptoStates] /\ q \in [Members -> Seq(Messages)]
        /\ \A n \in Members : v[n].me = n /\ v[n].gen # Unknown /\ v[n].keys[n] = v[n].gen
        /\ \A n, o \in Members : v[n].group = v[o].group
        /\ v[m].epoch \in Nat
    BY DEF Crew, KeysOwn, CryptoStates
  <1>2. /\ t \in v[m].pending /\ CanBuild(v[m], t)
        /\ w = [v EXCEPT ![m] = u]
        /\ \A n \in R \ {m} : r[n] = q[n] \o <<a, c, b>>
        /\ r[m] = q[m] /\ ~f[m]
        /\ Seats > 2 => q[m] = <<>>
    BY DEF Leads
  <1>3. OnTurn(v[m]) /\ v[m].pending # {}
    BY <1>2 DEF CanBuild, OnTurn
  <1>4. /\ Opening(v, q, d, R, t) /\ t \in Transitions
    <2>1. ~Closing(v, q, d, R)
      BY <1>3 DEF Closing, Reached, Awaits
    <2>2. PICK o \in Transitions : Opening(v, q, d, R, o)
      BY <2>1 DEF Phase
    <2>3. v[m].pending = {o}
      BY <2>2 DEF Opening
    <2>. QED
      BY <1>2, <2>2, <2>3
  <1>5. /\ t.new = R /\ OneChange(t)
        /\ \A n \in R : v[n].members = R /\ v[n].pending = {t} /\ Calm(q[n])
    BY <1>4 DEF Opening
  <1>6. PICK e \in Nat, p \in R :
          /\ \A n \in R :
               \/ Active(v[n]) /\ v[n].epoch = e
               \/ ~Active(v[n]) /\ v[n].epoch = 0 /\ t.type = "Join" /\ t.affected = n
          /\ Proposing(v, q, d, R, t, e, p)
    BY <1>4 DEF Opening
  <1>7. /\ Active(v[m]) /\ v[m].epoch = e /\ p = m
        /\ ProposerOf(v[m].group, e, t) = m
        /\ \A n \in R : v[m].keys[n] # Unknown
    <2>1. Active(v[m]) /\ ProposerOf(v[m].group, v[m].epoch, t) = m
      BY <1>1, <1>2 DEF CanBuild
    <2>2. v[m].epoch = e
      BY <1>6, <2>1
    <2>3. ProposerOf(v[p].group, e, t) = p /\ v[p].group = v[m].group
      BY <1>1, <1>6 DEF Proposing
    <2>. QED
      BY <1>2, <1>5, <2>1, <2>2, <2>3 DEF CanBuild
  <1>8. \A n \in R : v[m].keys[n] = v[n].gen
    BY <1>1, <1>6, <1>7 DEF Proposing
  <1>9. /\ c \in Commits
        /\ c.kind = "commit" /\ c.type = t.type /\ c.affected = t.affected
        /\ c.epoch = e /\ c.old = t.old /\ c.new = R
        /\ c.by = m /\ c.secret = x
        /\ \A n \in R : c.wraps[n] = v[n].gen
    <2>1. v[m] \in CryptoStates /\ v[m].me = m
      BY <1>1
    <2>2. \A n \in Members : n \in t.new => c.wraps[n] = v[m].keys[n]
      BY <1>4, <2>1, ProposalTypes
    <2>3. \A n \in R : c.wraps[n] = v[n].gen
      BY <1>1, <1>5, <1>8, <2>2
    <2>4. /\ c \in Commits
          /\ c.kind = "commit" /\ c.type = t.type /\ c.affected = t.affected
          /\ c.epoch = v[m].epoch /\ c.old = t.old /\ c.new = t.new
          /\ c.by = v[m].me /\ c.secret = x
      BY <1>4, <2>1, ProposalTypes
    <2>. QED
      BY <1>5, <1>7, <2>1, <2>3, <2>4
  <1>. HIDE DEF c
  <1>10. /\ u \in CryptoStates /\ u.epoch = e + 1 /\ u.secret = {x}
         /\ u.members = R /\ u.recv = R \ {m} /\ u.pending = {} /\ u.me = m
         /\ \A n \in Members : n # m => u.keys[n] = Unknown
    <2>1. v[m] \in CryptoStates /\ v[m].me = m /\ v[m].members = R
      BY <1>1, <1>5
    <2>2. /\ u \in CryptoStates /\ u.epoch = c.epoch + 1 /\ u.secret = {c.secret}
          /\ u.members = v[m].members /\ u.recv = v[m].members \ {v[m].me} /\ u.pending = {}
          /\ u.me = v[m].me
          /\ \A n \in Members : u.keys[n] = IF n = v[m].me THEN v[m].gen + 1 ELSE Unknown
      BY <1>9, <2>1, EnteredEpoch
    <2>. QED
      BY <1>9, <2>1, <2>2
  <1>. HIDE DEF u
  <1>11. /\ a \in Messages /\ a.kind = "announce"
         /\ b \in Messages /\ b.kind = "announce" /\ b.member = m /\ b.key = u.gen
    BY <1>1, <1>10, CallTypes
  <1>. HIDE DEF a, b
  <1>12. w[m] = u /\ \A n \in Members \ {m} : w[n] = v[n]
    BY <1>1, <1>2
  <1>13. ASSUME NEW n \in R \ {m}
         PROVE  LET L == Len(q[n])
                IN /\ DOMAIN r[n] = DOMAIN q[n] \cup {L + 1, L + 2, L + 3}
                   /\ \A i \in DOMAIN q[n] :
                        r[n][i] = q[n][i] /\ r[n][i].kind = "announce" /\ i \in Nat /\ i < L + 1
                   /\ r[n][L + 1] = a /\ r[n][L + 2] = c /\ r[n][L + 3] = b
                   /\ L \in Nat
    <2>1. c \in Messages
      BY <1>9 DEF Messages
    <2>2. q[n] \in Seq(Messages) /\ r[n] = q[n] \o <<a, c, b>>
      BY <1>1, <1>2
    <2>3. LET s == q[n] \o <<a, c, b>>
              L == Len(q[n])
          IN /\ DOMAIN s = DOMAIN q[n] \cup {L + 1, L + 2, L + 3}
             /\ \A i \in DOMAIN q[n] : s[i] = q[n][i] /\ i \in Nat /\ i < L + 1
             /\ s[L + 1] = a /\ s[L + 2] = c /\ s[L + 3] = b
             /\ L \in Nat
      BY <1>11, <2>1, <2>2, ThreeAdded
    <2>4. \A i \in DOMAIN q[n] : q[n][i].kind = "announce"
      BY <1>5 DEF Calm
    <2>. QED
      BY <2>2, <2>3, <2>4
  <1>14. Reached(w[m], r[m], R, e + 1, x)
    BY <1>2, <1>5, <1>10, <1>12 DEF Reached
  <1>15. ASSUME NEW n \in R \ {m} PROVE Awaits(w[n], r[n], R, e + 1, x)
    <2>. DEFINE L == Len(q[n])
    <2>1. w[n] = v[n] /\ v[n].members = R /\ v[n].me = n /\ v[n].pending = {t} /\ n \in Members
      BY <1>1, <1>5, <1>12
    <2>2. v[n].group = v[m].group
      BY <1>1
    <2>3. ~OnTurn(v[n])
      <3>1. Active(v[n]) => v[n].epoch = e
        BY <1>6
      <3>. QED
        BY <1>7, <2>1, <2>2, <3>1 DEF OnTurn
    <2>4. Accepts(v[n], c)
      <3>1. \/ v[n].epoch = c.epoch
            \/ v[n].epoch = 0 /\ t.type = "Join" /\ t.affected = v[n].me
        BY <1>6, <1>9, <2>1
      <3>2. ProposerOf(v[n].group, c.epoch, t) = m
        BY <1>7, <1>9, <2>2
      <3>3. v[n].me \in c.new /\ c.wraps[v[n].me] = v[n].gen
        BY <1>9, <2>1
      <3>. QED
        BY <1>5, <1>9, <2>1, <3>1, <3>2, <3>3, ProposalWelcome
    <2>5. L + 2 \in DOMAIN r[n] /\ r[n][L + 2] = c
      BY <1>13
    <2>6. \A i \in DOMAIN r[n] : i # L + 2 => r[n][i].kind = "announce"
      BY <1>11, <1>13
    <2>7. /\ r[n][L + 2].kind = "commit" /\ r[n][L + 2].epoch + 1 = e + 1
          /\ r[n][L + 2].secret = x /\ Accepts(w[n], r[n][L + 2])
      BY <1>9, <2>1, <2>4, <2>5
    <2>. HIDE DEF L
    <2>8. w[n].members = R /\ ~OnTurn(w[n])
      BY <2>1, <2>3
    <2>. QED
      BY <2>5, <2>6, <2>7, <2>8 DEF Awaits
  <1>16. ASSUME Seats > 2 PROVE KeysCurrent(w, r, f, R)
    <2>1. r[m] = <<>>
      BY <1>2, <1>16
    <2>2. ASSUME NEW n \in R \ {m}
          PROVE  /\ ~Calm(r[n])
                 /\ \A i \in DOMAIN r[n] : Current(r[n], i) => r[n][i] = b
                 /\ \E i \in DOMAIN r[n] : Current(r[n], i) /\ r[n][i] = b
      <3>. DEFINE L == Len(q[n])
      <3>1. /\ DOMAIN r[n] = DOMAIN q[n] \cup {L + 1, L + 2, L + 3}
            /\ \A i \in DOMAIN q[n] : i \in Nat /\ i < L + 1
            /\ r[n][L + 2] = c /\ r[n][L + 3] = b /\ L \in Nat
        BY <1>13
      <3>. HIDE DEF L
      <3>2. ~Calm(r[n])
        BY <1>9, <3>1 DEF Calm
      <3>3. ASSUME NEW i \in DOMAIN r[n], Current(r[n], i) PROVE i = L + 3
        <4>1. ~(L + 2 >= i)
          BY <1>9, <3>1, <3>3 DEF Current
        <4>. QED
          BY <3>1, <4>1
      <3>4. Current(r[n], L + 3)
        <4>1. \A j \in DOMAIN r[n] : j >= L + 3 => j = L + 3
          BY <3>1
        <4>. QED
          BY <1>11, <3>1, <4>1 DEF Current
      <3>. QED
        BY <3>1, <3>2, <3>3, <3>4
    <2>3. DOMAIN r[m] = {} /\ Calm(r[m])
      BY <2>1 DEF Calm
    <2>4. \A n \in Members \ {m} : w[m].keys[n] = Unknown
      BY <1>10, <1>12
    <2>. SUFFICES ASSUME NEW y \in R, NEW z \in R, y # z
                  PROVE  /\ Calm(r[y]) /\ w[y].keys[z] # Unknown =>
                              Calm(r[z]) /\ w[y].keys[z] = w[z].gen
                         /\ \A i \in DOMAIN r[y] : Current(r[y], i) /\ r[y][i].member = z =>
                              Calm(r[z]) /\ r[y][i].key = w[z].gen
                         /\ Calm(r[z]) /\ ~f[z] =>
                              \/ Calm(r[y]) /\ w[y].keys[z] # Unknown
                              \/ \E i \in DOMAIN r[y] : Current(r[y], i) /\ r[y][i].member = z
      BY DEF KeysCurrent
    <2>5. CASE y = m
      <3>1. ~Calm(r[z]) /\ w[y].keys[z] = Unknown
        BY <1>1, <2>2, <2>4, <2>5
      <3>. QED
        BY <2>3, <2>5, <3>1
    <2>6. CASE y # m
      <3>1. /\ ~Calm(r[y])
            /\ \A i \in DOMAIN r[y] : Current(r[y], i) => r[y][i] = b
            /\ \E i \in DOMAIN r[y] : Current(r[y], i) /\ r[y][i] = b
        BY <2>2, <2>6
      <3>2. CASE z = m
        BY <1>11, <1>12, <2>3, <3>1, <3>2
      <3>3. CASE z # m
        <4>1. ~Calm(r[z])
          BY <2>2, <3>3
        <4>. QED
          BY <1>11, <3>1, <3>3, <4>1
      <3>. QED
        BY <3>2, <3>3
    <2>. QED
      BY <2>5, <2>6
  <1>. QED
    <2>1. e + 1 \in Nat
      OBVIOUS
    <2>2. \A n \in R : Reached(w[n], r[n], R, e + 1, x) \/ Awaits(w[n], r[n], R, e + 1, x)
      BY <1>14, <1>15
    <2>. QED
      BY <1>16, <2>1, <2>2 DEF Closing

-----------------------------------------------------------------------------
(* A change opens where all is quiet. *)

(* There is a first in the order of proposers. *)
LEMMA LowestNumber ==
  ASSUME NEW S \in SUBSET Nat, S # {}
  PROVE  \E m \in S : \A n \in S : m <= n
  <1>1. PICK m \in S : \A n \in S : ~ (<<n, m>> \in OpToRel(<, Nat))
    BY NatLessThanWellFounded, WFMin
  <1>2. \A n \in S : ~(n < m)
    BY <1>1 DEF OpToRel
  <1>. QED
    BY <1>2

LEMMA ProposerRanked ==
  ASSUME Ranked, NEW g \in GroupIds, NEW e \in Nat, NEW y \in Events, NEW a \in Members,
         NEW C \in SUBSET Members, C # {}
  PROVE  FirstProposer(g, e, y, a, C) \in C
  <1>. DEFINE T == {Hash(g, e, y, a, c) : c \in C}
  <1>1. T \in SUBSET Nat /\ T # {}
    BY DEF Ranked
  <1>2. PICK x \in T : \A z \in T : x <= z
    BY <1>1, LowestNumber
  <1>3. \E c \in C : \A z \in C : Hash(g, e, y, a, c) <= Hash(g, e, y, a, z)
    BY <1>2
  <1>. QED
    BY <1>3 DEF FirstProposer

(* Where nothing is on its way and nobody triggers, all have reached the   *)
(* epoch.                                                                  *)
LEMMA Settled ==
  ASSUME NEW v, NEW q, NEW d, NEW R, Crew(v, q, d, R), Phase(v, q, d, R),
         \A m \in R : q[m] = <<>> /\ ~d[m]
  PROVE  /\ \E e \in Nat, x \in Secrets : \A m \in R : Reached(v[m], q[m], R, e, x)
         /\ Seats > 2 => \A m, n \in R : m # n => v[m].keys[n] = v[n].gen
  <1>1. /\ R \subseteq Members
        /\ \A m \in R : DOMAIN q[m] = {} /\ Calm(q[m])
        /\ \A m \in R : v[m].keys[m] # Unknown
    <2>1. R \subseteq Members /\ \A m \in Members : v[m].keys[m] # Unknown
      BY DEF Crew, KeysOwn
    <2>2. \A m \in R : DOMAIN q[m] = {}
      OBVIOUS
    <2>. QED
      BY <2>1, <2>2 DEF Calm
  <1>2. ASSUME NEW t, Opening(v, q, d, R, t) PROVE FALSE
    <2>1. PICK e \in Nat, p \in R : Proposing(v, q, d, R, t, e, p)
      BY <1>2 DEF Opening
    <2>2. \A n \in R \ {p} : v[p].keys[n] # Unknown
      BY <1>1, <2>1 DEF Proposing
    <2>. QED
      BY <1>1, <2>1, <2>2 DEF Proposing
  <1>3. Closing(v, q, d, R)
    BY <1>2 DEF Phase
  <1>4. \A m \in R : \A e, x : ~Awaits(v[m], q[m], R, e, x)
    BY <1>1 DEF Awaits
  <1>5. ASSUME Seats > 2, NEW m \in R, NEW n \in R, m # n PROVE v[m].keys[n] = v[n].gen
    BY <1>1, <1>3, <1>5 DEF Closing, KeysCurrent
  <1>. QED
    BY <1>3, <1>4, <1>5 DEF Closing

(* What a client knows after a list. *)
LEMMA ListTaken ==
  ASSUME NEW s \in CryptoStates, NEW S \in SUBSET Members, s.me \in S
  PROVE  LET u == ReplaceMembers(s, S)
         IN /\ u.group = s.group /\ u.me = s.me /\ u.epoch = s.epoch
            /\ u.secret = s.secret /\ u.members = S /\ u.recv = s.recv \cap S
            /\ u.gen = s.gen
            /\ \A n \in Members : u.keys[n] = IF n \in S THEN s.keys[n] ELSE Unknown
            /\ s.members # S /\ Active(s) => u.pending = DetectRosterTransition(s.members, S)
            /\ ~Active(s) /\ ~s.initialized =>
                 u.pending = DetectInitialJoinTransition(s.me, s.members, S)
  <1>1. S \cup {s.me} = S
    OBVIOUS
  <1>. QED
    BY <1>1 DEF ReplaceMembers, CryptoStates

(* One more member, or one less, is one transition. *)
LEMMA JoinDetected ==
  ASSUME NEW R \in SUBSET Members, NEW j \in Members \ R
  PROVE  DetectRosterTransition(R, R \cup {j}) = {Transition("Join", j, R, R \cup {j})}
  <1>1. {y \in Members : y \notin R /\ R \cup {j} = R \cup {y}} = {j}
    OBVIOUS
  <1>2. {y \in R : R \cup {j} = R \ {y}} = {}
    OBVIOUS
  <1>. QED
    BY <1>1, <1>2 DEF DetectRosterTransition

LEMMA LeaveDetected ==
  ASSUME NEW R \in SUBSET Members, NEW j \in R
  PROVE  DetectRosterTransition(R, R \ {j}) = {Transition("Leave", j, R, R \ {j})}
  <1>1. {y \in R : R \ {j} = R \ {y}} = {j}
    OBVIOUS
  <1>2. {y \in Members : y \notin R /\ R \ {j} = R \cup {y}} = {}
    OBVIOUS
  <1>. QED
    BY <1>1, <1>2 DEF DetectRosterTransition

(* Its fields. *)
LEMMA TransitionFields ==
  ASSUME NEW y \in Events, NEW j \in Members, NEW R \in SUBSET Members, NEW S \in SUBSET Members
  PROVE  LET t == Transition(y, j, R, S)
         IN t \in Transitions /\ t.type = y /\ t.affected = j /\ t.old = R /\ t.new = S
  BY DEF Transition, Transitions

(* The list of a joiner is out, and its announce follows. *)
Joins(v, q, d, w, r, f, j, R) ==
  LET S == R \cup {j}
  IN /\ v[j] = NewPendingEpoch(v[j].group, j)
     /\ \A m \in R : q[m] = <<>> /\ ~d[m]
     /\ \A m \in S : w[m] = ReplaceMembers(v[m], S) /\ f[m]
     /\ \A m \in R : r[m] = <<LocalKeyAnnounce(v[j])>>
     /\ r[j] = <<>>
     /\ Seats <= 2 => \A a, b \in R : a = b

(* All know of the join, and the first in the order is about to trigger. *)
LEMMA JoinOpens ==
  ASSUME Ranked, NEW v, NEW q, NEW d, NEW R, R # {}, NEW j \in Members \ R,
         NEW w, NEW r, NEW f,
         Crew(v, q, d, R), Phase(v, q, d, R), Joins(v, q, d, w, r, f, j, R)
  PROVE  Phase(w, r, f, R \cup {j})
  <1>. DEFINE S == R \cup {j}
              t == Transition("Join", j, R, S)
              a == LocalKeyAnnounce(v[j])
  <1>1. /\ R \in SUBSET Members /\ S \in SUBSET Members /\ j \in Members /\ j \notin R
        /\ \A m \in Members : v[m] \in CryptoStates /\ v[m].me = m
        /\ \A m \in Members : v[m].group \in GroupIds
        /\ \A m, n \in Members : v[m].group = v[n].group
        /\ \A m \in Members : v[m].gen # Unknown /\ v[m].keys[m] = v[m].gen
        /\ \A m \in Members : \A n \in Members \ v[m].members : v[m].keys[n] = Unknown
    BY DEF Crew, KeysOwn, CryptoStates
  <1>2. \A m \in S : w[m] = ReplaceMembers(v[m], S) /\ f[m]
    BY DEF Joins
  <1>3. PICK e \in Nat, x \in Secrets : \A m \in R : Reached(v[m], q[m], R, e, x)
    BY Settled DEF Joins
  <1>4. /\ a \in Messages /\ a.kind = "announce" /\ a.member = j /\ a.key = v[j].gen
    BY <1>1, CallTypes
  <1>. HIDE DEF a
  <1>5. /\ t \in Transitions /\ t.type = "Join" /\ t.affected = j /\ t.old = R /\ t.new = S
    BY <1>1, TransitionFields DEF Events
  <1>6. /\ v[j].epoch = 0 /\ v[j].secret = {} /\ v[j].members = {j} /\ ~v[j].initialized
    BY DEF Joins, NewPendingEpoch
  <1>7. ASSUME NEW m \in S
        PROVE  /\ w[m].group = v[m].group /\ w[m].me = m /\ w[m].epoch = v[m].epoch
               /\ w[m].secret = v[m].secret /\ w[m].members = S /\ w[m].gen = v[m].gen
               /\ \A n \in S : w[m].keys[n] = v[m].keys[n]
               /\ w[m].pending = {t}
    <2>1. LET u == ReplaceMembers(v[m], S)
          IN /\ u.group = v[m].group /\ u.me = v[m].me /\ u.epoch = v[m].epoch
             /\ u.secret = v[m].secret /\ u.members = S /\ u.gen = v[m].gen
             /\ \A n \in Members : u.keys[n] = IF n \in S THEN v[m].keys[n] ELSE Unknown
             /\ v[m].members # S /\ Active(v[m]) =>
                  u.pending = DetectRosterTransition(v[m].members, S)
             /\ ~Active(v[m]) /\ ~v[m].initialized =>
                  u.pending = DetectInitialJoinTransition(m, v[m].members, S)
      BY <1>1, ListTaken
    <2>2. CASE m = j
      <3>1. DetectInitialJoinTransition(j, {j}, S) = {t}
        <4>1. S # {j} /\ S \ {j} = R
          BY <1>1
        <4>. QED
          BY <4>1 DEF DetectInitialJoinTransition
      <3>. QED
        BY <1>1, <1>2, <1>6, <2>1, <2>2, <3>1 DEF Active
    <2>3. CASE m \in R
      <3>1. v[m].members = R /\ v[m].secret = {x} /\ R # S
        BY <1>1, <1>3, <2>3 DEF Reached
      <3>2. DetectRosterTransition(R, S) = {t}
        BY <1>1, JoinDetected
      <3>. QED
        BY <1>1, <1>2, <2>1, <3>1, <3>2 DEF Active
    <2>. QED
      BY <2>2, <2>3
  <1>. HIDE DEF t
  <1>8. \A m \in S : Calm(r[m])
    <2>1. \A m \in R : r[m] = <<a>>
      BY DEF Joins, a
    <2>2. \A m \in R : DOMAIN r[m] = {1} /\ r[m][1] = a
      BY <2>1
    <2>3. DOMAIN r[j] = {}
      BY DEF Joins
    <2>. QED
      BY <1>4, <2>2, <2>3 DEF Calm
  <1>9. ASSUME NEW m \in R PROVE DOMAIN r[m] = {1} /\ r[m][1] = a
    <2>1. r[m] = <<a>>
      BY DEF Joins, a
    <2>. QED
      BY <2>1
  <1>. DEFINE p == FirstProposer(v[j].group, e, "Join", j, R)
  <1>10. p \in R
    BY <1>1, ProposerRanked DEF Events
  <1>. HIDE DEF p
  <1>11. Proposing(w, r, f, S, t, e, p)
    <2>1. Active(w[p]) /\ p \in S
      BY <1>3, <1>7, <1>10 DEF Active, Reached
    <2>2. ProposerOf(w[p].group, e, t) = p
      <3>1. w[p].group = v[j].group
        BY <1>1, <1>7, <1>10
      <3>. QED
        BY <1>5, <3>1 DEF ProposerOf, ProposerCandidates, p
    <2>3. ASSUME NEW n \in S \ {p}
          PROVE  /\ w[p].keys[n] # Unknown => w[p].keys[n] = w[n].gen
                 /\ \A i \in DOMAIN r[p] : r[p][i].member = n => r[p][i].key = w[n].gen
                 /\ w[p].keys[n] = Unknown => \E i \in DOMAIN r[p] : r[p][i].member = n
      <3>1. w[p].keys[n] = v[p].keys[n] /\ w[n].gen = v[n].gen
        BY <1>7, <1>10
      <3>2. DOMAIN r[p] = {1} /\ r[p][1] = a
        BY <1>9, <1>10
      <3>3. CASE n = j
        <4>1. v[p].keys[n] = Unknown
          BY <1>1, <1>3, <1>10, <3>3 DEF Reached
        <4>. QED
          BY <1>4, <3>1, <3>2, <3>3, <4>1
      <3>4. CASE n # j
        <4>1. Seats > 2
          <5>1. ~(Seats <= 2)
            BY <1>10, <3>4 DEF Joins
          <5>. QED
            BY <5>1, RoomAssumption
        <4>2. v[p].keys[n] = v[n].gen
          <5>1. Seats > 2 => \A y, z \in R : y # z => v[y].keys[z] = v[z].gen
            BY Settled DEF Joins
          <5>. QED
            BY <1>10, <3>4, <4>1, <5>1
        <4>. QED
          BY <1>1, <1>4, <3>1, <3>2, <3>4, <4>2
      <3>. QED
        BY <3>3, <3>4
    <2>4. f[p]
      BY <1>2, <1>10
    <2>. QED
      BY <2>1, <2>2, <2>3, <2>4 DEF Proposing
  <1>12. \A m \in S :
           \/ Active(w[m]) /\ w[m].epoch = e
           \/ ~Active(w[m]) /\ w[m].epoch = 0 /\ t.type = "Join" /\ t.affected = m
    <2>1. ~Active(w[j]) /\ w[j].epoch = 0
      BY <1>6, <1>7 DEF Active
    <2>2. ASSUME NEW m \in R PROVE Active(w[m]) /\ w[m].epoch = e
      <3>1. v[m].secret = {x} /\ v[m].epoch = e
        BY <1>3 DEF Reached
      <3>. QED
        BY <1>7, <3>1 DEF Active
    <2>. QED
      BY <1>5, <2>1, <2>2
  <1>13. OneChange(t)
    BY <1>1, <1>5 DEF OneChange
  <1>14. \A m \in S : w[m].members = S /\ w[m].pending = {t}
    BY <1>7
  <1>15. Opening(w, r, f, S, t)
    <2>1. p \in S
      BY <1>10
    <2>. QED
      BY <1>5, <1>8, <1>11, <1>12, <1>13, <1>14, <2>1 DEF Opening
  <1>. QED
    BY <1>5, <1>15 DEF Phase

(* The list of one that left is out. *)
Leaves(v, q, d, w, r, f, j, R) ==
  LET S == R \ {j}
  IN /\ \A m \in R : q[m] = <<>> /\ ~d[m]
     /\ \A m \in S : w[m] = ReplaceMembers(v[m], S) /\ f[m] /\ r[m] = <<>>
     /\ Seats <= 2 => \A a, b \in S : a = b

(* So do those who stay. *)
LEMMA LeaveOpens ==
  ASSUME Ranked, NEW v, NEW q, NEW d, NEW R, NEW j \in R, NEW w, NEW r, NEW f,
         Crew(v, q, d, R), Phase(v, q, d, R), Leaves(v, q, d, w, r, f, j, R)
  PROVE  Phase(w, r, f, R \ {j})
  <1>. DEFINE S == R \ {j}
              t == Transition("Leave", j, R, S)
  <1>1. /\ R \in SUBSET Members /\ S \in SUBSET Members /\ j \in Members /\ j \in R
        /\ \A m \in Members : v[m] \in CryptoStates /\ v[m].me = m
        /\ \A m \in Members : v[m].group \in GroupIds
        /\ \A m, n \in Members : v[m].group = v[n].group
        /\ \A m \in Members : v[m].gen # Unknown
    BY DEF Crew, KeysOwn, CryptoStates
  <1>2. \A m \in S : w[m] = ReplaceMembers(v[m], S) /\ f[m] /\ r[m] = <<>>
    BY DEF Leaves
  <1>3. PICK e \in Nat, x \in Secrets : \A m \in R : Reached(v[m], q[m], R, e, x)
    BY Settled DEF Leaves
  <1>5. /\ t \in Transitions /\ t.type = "Leave" /\ t.affected = j /\ t.old = R /\ t.new = S
    BY <1>1, TransitionFields DEF Events
  <1>7. ASSUME NEW m \in S
        PROVE  /\ w[m].group = v[m].group /\ w[m].epoch = e
               /\ w[m].secret = {x} /\ w[m].members = S /\ w[m].gen = v[m].gen
               /\ \A n \in S : w[m].keys[n] = v[m].keys[n]
               /\ w[m].pending = {t}
    <2>1. LET u == ReplaceMembers(v[m], S)
          IN /\ u.group = v[m].group /\ u.epoch = v[m].epoch
             /\ u.secret = v[m].secret /\ u.members = S /\ u.gen = v[m].gen
             /\ \A n \in Members : u.keys[n] = IF n \in S THEN v[m].keys[n] ELSE Unknown
             /\ v[m].members # S /\ Active(v[m]) =>
                  u.pending = DetectRosterTransition(v[m].members, S)
      BY <1>1, ListTaken
    <2>2. /\ v[m].members = R /\ v[m].secret = {x} /\ v[m].epoch = e /\ R # S
      BY <1>1, <1>3 DEF Reached
    <2>3. DetectRosterTransition(R, S) = {t}
      BY <1>1, LeaveDetected
    <2>. QED
      BY <1>1, <1>2, <2>1, <2>2, <2>3 DEF Active
  <1>. HIDE DEF t
  <1>8. \A m \in S : DOMAIN r[m] = {} /\ Calm(r[m])
    BY <1>2 DEF Calm
  <1>9. CASE S = {}
    <2>1. [by |-> j, draw |-> 0] \in Secrets
      BY <1>1 DEF Secrets
    <2>2. KeysCurrent(w, r, f, S)
      BY <1>9 DEF KeysCurrent
    <2>3. Closing(w, r, f, S)
      BY <1>9, <2>1, <2>2 DEF Closing
    <2>. QED
      BY <2>3 DEF Phase
  <1>10. CASE S # {}
    <2>. DEFINE p == FirstProposer(v[j].group, e, "Leave", j, S)
    <2>1. p \in S
      BY <1>1, <1>10, ProposerRanked DEF Events
    <2>. HIDE DEF p
    <2>2. Proposing(w, r, f, S, t, e, p)
      <3>1. Active(w[p]) /\ f[p]
        BY <1>2, <1>7, <2>1 DEF Active
      <3>2. ProposerOf(w[p].group, e, t) = p
        <4>1. w[p].group = v[j].group
          BY <1>1, <1>7, <2>1
        <4>. QED
          BY <1>5, <4>1 DEF ProposerOf, ProposerCandidates, p
      <3>3. ASSUME NEW n \in S \ {p}
            PROVE  w[p].keys[n] = w[n].gen /\ w[n].gen # Unknown
        <4>1. Seats > 2
          <5>1. ~(Seats <= 2)
            BY <2>1, <3>3 DEF Leaves
          <5>. QED
            BY <5>1, RoomAssumption
        <4>2. Seats > 2 => \A y, z \in R : y # z => v[y].keys[z] = v[z].gen
          BY Settled DEF Leaves
        <4>. QED
          BY <1>1, <1>7, <2>1, <4>1, <4>2
      <3>. QED
        BY <1>8, <2>1, <3>1, <3>2, <3>3 DEF Proposing
    <2>3. OneChange(t)
      BY <1>1, <1>5 DEF OneChange
    <2>4. Opening(w, r, f, S, t)
      <3>1. \A m \in S : /\ Active(w[m]) /\ w[m].epoch = e
                        /\ w[m].members = S /\ w[m].pending = {t} /\ Calm(r[m])
        BY <1>7, <1>8 DEF Active
      <3>. QED
        BY <1>5, <2>1, <2>2, <2>3, <3>1 DEF Opening
    <2>. QED
      BY <1>5, <2>4 DEF Phase
  <1>. QED
    BY <1>9, <1>10

(* A list of the client alone changes nothing that counts. *)
LEMMA LoneList ==
  ASSUME NEW s \in CryptoStates, s.members = {s.me}, Active(s)
  PROVE  LET u == ReplaceMembers(s, {s.me})
         IN /\ u.epoch = s.epoch /\ u.secret = s.secret /\ u.me = s.me
            /\ u.members = {s.me} /\ u.recv = s.recv \cap {s.me}
            /\ s.pending = {} => u.pending = {}
  <1>1. DetectRosterTransition({s.me}, {s.me}) = {}
    BY DEF DetectRosterTransition
  <1>2. {s.me} \cup {s.me} = {s.me}
    OBVIOUS
  <1>. QED
    BY <1>1, <1>2 DEF ReplaceMembers, CryptoStates

(* The first member gets its own list. *)
LEMMA FounderCloses ==
  ASSUME NEW w, NEW r, NEW f, NEW j \in Members, NEW g \in GroupIds,
         w[j] = ReplaceMembers(NewSingleEpoch(g, j), {j}), r[j] = <<>>
  PROVE  Phase(w, r, f, {j})
  <1>. DEFINE s == NewSingleEpoch(g, j)
              x == [by |-> j, draw |-> 0]
  <1>1. /\ s.epoch = 0 /\ s.secret = {x} /\ s.me = j /\ s.members = {j}
        /\ s.recv = {} /\ ~s.initialized /\ s.pending = {}
    BY DEF NewSingleEpoch, NewPendingEpoch, ActivateEpoch
  <1>2. s \in CryptoStates
    BY NewSingleEpochType
  <1>3. /\ w[j].epoch = 0 /\ w[j].secret = {x} /\ w[j].me = j /\ w[j].members = {j}
        /\ w[j].recv = {} /\ w[j].pending = {}
    <2>1. PICK u \in CryptoStates : u = s
      BY <1>2
    <2>2. w[j] = ReplaceMembers(u, {u.me}) /\ Active(u) /\ u.members = {u.me}
      BY <1>1, <2>1 DEF Active
    <2>3. /\ w[j].epoch = u.epoch /\ w[j].secret = u.secret /\ w[j].me = u.me
          /\ w[j].members = {u.me} /\ w[j].recv = u.recv \cap {u.me}
          /\ u.pending = {} => w[j].pending = {}
      BY <2>2, LoneList
    <2>. QED
      BY <1>1, <2>1, <2>3
  <1>4. Calm(r[j])
    BY DEF Calm
  <1>5. Reached(w[j], r[j], {j}, 0, x)
    BY <1>3, <1>4 DEF Reached
  <1>6. 0 \in Nat /\ x \in Secrets
    BY DEF Secrets
  <1>7. KeysCurrent(w, r, f, {j})
    BY DEF KeysCurrent
  <1>. HIDE DEF x
  <1>. QED
    BY <1>5, <1>6, <1>7 DEF Phase, Closing

-----------------------------------------------------------------------------
(* What is on its way, from the state.                                     *)

(* Only one client has lines on their way that matter. *)
LEMMA OneUnsent ==
  ASSUME NEW box, NEW m, NEW n \in Members \ {m},
         \A o \in Members \ {m} : box[o] # <<>> => o = n
  PROVE  Unsent(box, m) = box[n]
  BY DEF Unsent

LEMMA NoneUnsent ==
  ASSUME NEW box, NEW m, \A o \in Members \ {m} : box[o] = <<>>
  PROVE  Unsent(box, m) = <<>>
  BY DEF Unsent

LEMMA SameUnsent ==
  ASSUME NEW box, NEW bin, NEW m, \A o \in Members \ {m} : bin[o] = box[o]
  PROVE  Unsent(bin, m) = Unsent(box, m)
  <1>1. (CHOOSE n \in Members \ {m} : bin[n] # <<>>) = (CHOOSE n \in Members \ {m} : box[n] # <<>>)
    <2>1. \A n : (n \in Members \ {m} /\ bin[n] # <<>>) <=> (n \in Members \ {m} /\ box[n] # <<>>)
      OBVIOUS
    <2>. QED
      BY <2>1, Zenon
  <1>. QED
    BY <1>1 DEF Unsent

LEMMA UnsentType ==
  ASSUME NEW box \in [Members -> Seq(Messages)], NEW m
  PROVE  Unsent(box, m) \in Seq(Messages)
  BY DEF Unsent

(* The front of what is on its way. *)
LEMMA Front ==
  ASSUME NEW q \in Seq(Messages), NEW u \in Seq(Messages), q # <<>>
  PROVE  /\ q \o u # <<>> /\ Head(q \o u) = Head(q) /\ Tail(q \o u) = Tail(q) \o u
         /\ Tail(q) \in Seq(Messages)
  OBVIOUS

LEMMA AheadType ==
  ASSUME NEW q \in Seq(Messages), NEW u \in Seq(Messages)
  PROVE  Ahead(q, u) \in Seq(Messages)
  <1>1. q # <<>> => q \o u \in Seq(Messages) /\ q \o u # <<>>
    OBVIOUS
  <1>. QED
    BY <1>1 DEF Ahead, ListFirst

(* A line is relayed. *)
LEMMA AheadSent ==
  ASSUME NEW q \in Seq(Messages), NEW u \in Seq(Messages), u # <<>>, Head(u).kind # "list",
         NEW s \in CryptoStates
  PROVE  LET r == Append(q, Head(u))
         IN /\ ListFirst(r) <=> ListFirst(q)
            /\ Ahead(r, Tail(u)) = Ahead(q, u)
            /\ Viewed(s, r) = Viewed(s, q)
  <1>. DEFINE r == Append(q, Head(u))
  <1>1. Head(u) \in Messages /\ Tail(u) \in Seq(Messages) /\ r \in Seq(Messages)
    OBVIOUS
  <1>2. r \o Tail(u) = q \o u
    OBVIOUS
  <1>3. CASE q = <<>>
    <2>1. r # <<>> /\ Head(r) = Head(u)
      BY <1>3
    <2>2. ~ListFirst(r) /\ ~ListFirst(q)
      BY <1>3, <2>1 DEF ListFirst
    <2>. QED
      BY <1>2, <2>2 DEF Ahead, Viewed
  <1>4. CASE q # <<>>
    <2>1. r # <<>> /\ Head(r) = Head(q)
      BY <1>4
    <2>. HIDE DEF r
    <2>2. ListFirst(r) <=> ListFirst(q)
      BY <1>4, <2>1 DEF ListFirst
    <2>. QED
      BY <1>2, <2>1, <2>2 DEF Ahead, Viewed, r
  <1>. QED
    BY <1>3, <1>4

(* A line is drained. *)
LEMMA AheadDrained ==
  ASSUME NEW q \in Seq(Messages), NEW u \in Seq(Messages), q # <<>>, ~ListFirst(Tail(q))
  PROVE  /\ ListFirst(q) => Ahead(Tail(q), u) = Ahead(q, u)
         /\ ~ListFirst(q) => /\ Ahead(q, u) # <<>> /\ Head(Ahead(q, u)) = Head(q)
                             /\ Tail(Ahead(q, u)) = Ahead(Tail(q), u)
  BY Front DEF Ahead

(* A line is handed over. *)
LEMMA AheadAdded ==
  ASSUME NEW q \in Seq(Messages), NEW u \in Seq(Messages), NEW z \in Seq(Messages)
  PROVE  Ahead(q, u \o z) = Ahead(q, u) \o z
  <1>1. q \o (u \o z) = (q \o u) \o z
    OBVIOUS
  <1>2. q \o u \in Seq(Messages)
    OBVIOUS
  <1>3. ASSUME q # <<>> PROVE Tail(q \o (u \o z)) = Tail(q \o u) \o z
    BY <1>1, <1>2, <1>3, Front
  <1>. QED
    BY <1>1, <1>3 DEF Ahead, ListFirst

(* A list is always first, so none is next. *)
LEMMA NoListNext ==
  ASSUME NEW q \in Seq(Messages), q # <<>>, ListsLead(q)
  PROVE  ~ListFirst(Tail(q)) /\ ListsLead(Tail(q))
  <1>1. \A i \in DOMAIN Tail(q) : Tail(q)[i].kind # "list"
    BY FirstTaken DEF ListsLead
  <1>2. Tail(q) \in Seq(Messages) /\ (Tail(q) # <<>> => Head(Tail(q)) = Tail(q)[1] /\ 1 \in DOMAIN Tail(q))
    BY FirstTaken
  <1>. QED
    BY <1>1, <1>2 DEF ListFirst, ListsLead

(* The client after the list is a client like others. *)
LEMMA ListedKeys ==
  ASSUME NEW s \in CryptoStates, NEW S \in SUBSET Members, KeysOwn(s.me, s)
  PROVE  KeysOwn(s.me, ReplaceMembers(s, S))
  BY DEF KeysOwn, ReplaceMembers, CryptoStates

LEMMA Viewing ==
  ASSUME NEW s \in CryptoStates, NEW q \in Seq(Messages), RosterOK(s), KeysOwn(s.me, s)
  PROVE  LET u == Viewed(s, q)
         IN /\ u \in CryptoStates /\ u.me = s.me /\ u.group = s.group
            /\ KeysOwn(s.me, u)
  <1>1. CASE ListFirst(q)
    <2>1. Head(q) \in Messages /\ Head(q).kind = "list"
      BY <1>1 DEF ListFirst
    <2>2. Head(q).members \in SUBSET Members
      BY <2>1, KindsApart DEF Lists
    <2>. QED
      BY <1>1, <2>2, ReplaceMembersType, ListedKeys DEF Viewed
  <1>2. CASE ~ListFirst(q)
    BY <1>2 DEF Viewed
  <1>. QED
    BY <1>1, <1>2

LEMMA CrewNow == Inv /\ Frame => Crew(Views, Lines, Stirred, entered)
  <1>. SUFFICES ASSUME Inv, Frame PROVE Crew(Views, Lines, Stirred, entered)
    OBVIOUS
  <1>1. /\ crypto \in [Members -> CryptoStates]
        /\ inbox \in [Members -> Seq(Messages)] /\ outbox \in [Members -> Seq(Messages)]
        /\ due \in [Members -> BOOLEAN] /\ entered \subseteq Members
    BY DEF Inv, TypeOK
  <1>2. \A m \in Members : crypto[m].me = m /\ RosterOK(crypto[m]) /\ KeysOwn(m, crypto[m])
    BY DEF Inv, Identities, Frame
  <1>3. \A m, n \in Members : crypto[m].group = crypto[n].group
    BY DEF Inv, Identities
  <1>4. ASSUME NEW m \in Members
        PROVE  /\ Views[m] \in CryptoStates /\ Views[m].me = m
               /\ Views[m].group = crypto[m].group /\ KeysOwn(m, Views[m])
    BY <1>1, <1>2, Viewing DEF Views
  <1>5. ASSUME NEW m \in Members PROVE Lines[m] \in Seq(Messages)
    BY <1>1, UnsentType, AheadType DEF Lines
  <1>6. Views \in [Members -> CryptoStates]
    BY <1>4 DEF Views
  <1>7. Lines \in [Members -> Seq(Messages)]
    BY <1>5 DEF Lines
  <1>8. Stirred \in [Members -> BOOLEAN]
    BY <1>1 DEF Stirred, ListFirst
  <1>. QED
    BY <1>1, <1>3, <1>4, <1>6, <1>7, <1>8 DEF Crew

(* What m has to drain, besides its inbox, is with one other client. *)
LEMMA OneSender ==
  ASSUME Inv, Frame, NEW m \in entered, NEW n \in Members \ {m}, NEW o \in Members \ {m},
         outbox[n] # <<>>, outbox[o] # <<>>
  PROVE  n = o
  <1>1. CASE Seats > 2
    BY <1>1 DEF Frame
  <1>2. CASE Seats <= 2
    <2>1. n \in entered /\ o \in entered /\ entered \subseteq roster
      BY DEF Frame, Inv, TypeOK
    <2>. QED
      BY <1>2, <2>1 DEF Frame, FewSeats
  <1>. QED
    BY <1>1, <1>2, RoomAssumption

(* The server relays a line: it is on its way as before. *)
LEMMA TransmitPhase ==
  ASSUME Inv, OrderlyInv, NEW m \in Members, Transmit(m)
  PROVE  Phase(Views', Lines', Stirred', entered')
  <1>1. /\ m \in entered /\ outbox[m] # <<>>
        /\ outbox' = [outbox EXCEPT ![m] = Tail(@)]
        /\ inbox' = Broadcast(entered \ {m}, Head(outbox[m]))
        /\ entered' = entered /\ crypto' = crypto /\ due' = due
    BY DEF Transmit, serverVars
  <1>2. /\ inbox \in [Members -> Seq(Messages)] /\ outbox \in [Members -> Seq(Messages)]
        /\ crypto \in [Members -> CryptoStates] /\ entered \subseteq Members
    BY DEF Inv, TypeOK
  <1>3. Frame /\ Phase(Views, Lines, Stirred, entered)
    BY DEF OrderlyInv
  <1>4. Head(outbox[m]).kind # "list"
    <2>1. Head(outbox[m]) = outbox[m][1] /\ 1 \in DOMAIN outbox[m]
      BY <1>1, <1>2, FirstTaken
    <2>. QED
      BY <1>3, <2>1 DEF Frame
  <1>5. ASSUME NEW n \in entered
        PROVE  Views'[n] = Views[n] /\ Lines'[n] = Lines[n] /\ Stirred'[n] = Stirred[n]
    <2>1. /\ n \in Members
          /\ Views[n] = Viewed(crypto[n], inbox[n])
          /\ Views'[n] = Viewed(crypto[n], inbox'[n])
          /\ Lines[n] = Ahead(inbox[n], Unsent(outbox, n))
          /\ Lines'[n] = Ahead(inbox'[n], Unsent(outbox', n))
          /\ Stirred[n] = (due[n] \/ ListFirst(inbox[n]))
          /\ Stirred'[n] = (due[n] \/ ListFirst(inbox'[n]))
      BY <1>1, <1>2 DEF Views, Lines, Stirred
    <2>2. CASE n = m
      <3>1. inbox'[n] = inbox[n]
        BY <1>1, <2>1, <2>2 DEF Broadcast
      <3>2. Unsent(outbox', n) = Unsent(outbox, n)
        BY <1>1, <1>2, <2>2, SameUnsent
      <3>. QED
        BY <2>1, <3>1, <3>2
    <2>3. CASE n # m
      <3>1. inbox'[n] = Append(inbox[n], Head(outbox[m]))
        BY <1>1, <2>1, <2>3 DEF Broadcast
      <3>2. \A o \in Members \ {n} : outbox[o] # <<>> => o = m
        BY <1>1, <1>3, <2>3, OneSender DEF OrderlyInv
      <3>3. Unsent(outbox, n) = outbox[m]
        BY <2>3, <3>2, OneUnsent
      <3>4. outbox'[m] = Tail(outbox[m]) /\ \A o \in Members \ {m} : outbox'[o] = outbox[o]
        BY <1>1, <1>2
      <3>5. Unsent(outbox', n) = Tail(outbox[m])
        <4>1. \A o \in Members \ {n} : outbox'[o] # <<>> => o = m
          BY <3>2, <3>4
        <4>. QED
          BY <2>3, <3>4, <4>1, OneUnsent
      <3>6. /\ ListFirst(inbox'[n]) <=> ListFirst(inbox[n])
            /\ Ahead(inbox'[n], Tail(outbox[m])) = Ahead(inbox[n], outbox[m])
            /\ Viewed(crypto[n], inbox'[n]) = Viewed(crypto[n], inbox[n])
        <4>1. /\ inbox[n] \in Seq(Messages) /\ outbox[m] \in Seq(Messages)
              /\ crypto[n] \in CryptoStates /\ outbox[m] # <<>>
          BY <1>1, <1>2, <2>1
        <4>. QED
          BY <1>4, <3>1, <4>1, AheadSent
      <3>. QED
        BY <2>1, <3>3, <3>5, <3>6
    <2>. QED
      BY <2>2, <2>3
  <1>. QED
    BY <1>1, <1>3, <1>5, PhaseAgrees

(* No commit is kept, and none is ignored. *)
LEMMA CommitTaken ==
  ASSUME Inv, OrderlyInv, NEW m \in entered, inbox[m] # <<>>, Head(inbox[m]).kind = "commit"
  PROVE  Accepts(crypto[m], Head(inbox[m])) /\ ~Ignores(crypto[m], Head(inbox[m]))
  <1>1. /\ inbox \in [Members -> Seq(Messages)] /\ outbox \in [Members -> Seq(Messages)]
        /\ m \in Members
    BY DEF Inv, TypeOK
  <1>2. Frame /\ Phase(Views, Lines, Stirred, entered)
    BY DEF OrderlyInv
  <1>3. Crew(Views, Lines, Stirred, entered)
    BY <1>2, CrewNow
  <1>4. ~ListFirst(inbox[m])
    BY DEF ListFirst
  <1>5. /\ inbox[m] \in Seq(Messages) /\ Unsent(outbox, m) \in Seq(Messages)
        /\ ListsLead(inbox[m])
    BY <1>1, <1>2, UnsentType DEF Frame
  <1>6. Ahead(inbox[m], Unsent(outbox, m)) # <<>>
        /\ Head(Ahead(inbox[m], Unsent(outbox, m))) = Head(inbox[m])
    BY <1>4, <1>5, AheadDrained, NoListNext
  <1>7. Lines[m] # <<>> /\ Head(Lines[m]) = Head(inbox[m]) /\ Views[m] = crypto[m]
    BY <1>1, <1>4, <1>6 DEF Lines, Views, Viewed
  <1>8. Accepts(crypto[m], Head(inbox[m]))
    BY <1>2, <1>3, <1>7, CommitsWelcome
  <1>. QED
    BY <1>8 DEF Accepts, Ignores

(* A client drains a line: a list was counted as drained, and an announce  *)
(* and a commit keep the phase.                                            *)
LEMMA ReceivePhase ==
  ASSUME Inv, OrderlyInv, NEW m \in Members, Receive(m)
  PROVE  Phase(Views', Lines', Stirred', entered')
  <1>. DEFINE msg == Head(inbox[m])
  <1>1. /\ m \in entered /\ inbox[m] # <<>>
        /\ ReceiveList(m, msg) \/ ReceiveAnnounce(m, msg) \/ ReceiveCommit(m, msg)
        /\ inbox' = [inbox EXCEPT ![m] = Tail(@)]
        /\ entered' = entered /\ outbox' = outbox
    BY DEF Receive, serverVars
  <1>2. /\ crypto \in [Members -> CryptoStates] /\ queued \in [Members -> SUBSET Kept]
        /\ inbox \in [Members -> Seq(Messages)] /\ outbox \in [Members -> Seq(Messages)]
        /\ due \in [Members -> BOOLEAN] /\ entered \subseteq Members
    BY DEF Inv, TypeOK
  <1>3. Frame /\ Phase(Views, Lines, Stirred, entered)
    BY DEF OrderlyInv
  <1>4. Crew(Views, Lines, Stirred, entered)
    BY <1>3, CrewNow
  <1>5. /\ queued[m] = {} /\ ListsLead(inbox[m]) /\ (due[m] => ~ListFirst(inbox[m]))
    BY <1>3 DEF Frame
  <1>6. /\ ~ListFirst(inbox'[m]) /\ inbox'[m] = Tail(inbox[m])
        /\ \A n \in Members \ {m} : inbox'[n] = inbox[n]
    BY <1>1, <1>2, <1>5, NoListNext
  <1>7. ASSUME NEW s, Retry(m, s) PROVE crypto' = [crypto EXCEPT ![m] = s]
    BY <1>5, <1>7 DEF Retry
  <1>. DEFINE u == Unsent(outbox, m)
  <1>8. /\ m \in Members /\ u \in Seq(Messages) /\ inbox[m] \in Seq(Messages)
        /\ Views[m] = Viewed(crypto[m], inbox[m])
        /\ Views'[m] = crypto'[m]
        /\ Lines[m] = Ahead(inbox[m], u)
        /\ Lines'[m] = Ahead(Tail(inbox[m]), u)
        /\ Stirred[m] = (due[m] \/ ListFirst(inbox[m]))
        /\ Stirred'[m] = (due'[m] \/ FALSE)
    <2>1. u \in Seq(Messages)
      BY <1>2, UnsentType
    <2>2. u' = u
      BY <1>1
    <2>. QED
      BY <1>2, <1>6, <2>1, <2>2 DEF Views, Lines, Stirred, Viewed
  <1>. HIDE DEF u
  <1>9. ASSUME NEW n \in Members \ {m}
        PROVE  /\ crypto'[n] = crypto[n] => Views'[n] = Views[n]
               /\ Lines'[n] = Lines[n]
               /\ due'[n] = due[n] => Stirred'[n] = Stirred[n]
    BY <1>1, <1>6 DEF Views, Lines, Stirred
  <1>10. CASE ReceiveList(m, msg)
    <2>1. /\ ListFirst(inbox[m])
          /\ crypto' = [crypto EXCEPT ![m] = ReplaceMembers(crypto[m], msg.members)]
          /\ due' = [due EXCEPT ![m] = TRUE]
      BY <1>1, <1>7, <1>10 DEF ReceiveList, ListFirst
    <2>2. Lines'[m] = Lines[m]
      BY <1>1, <1>6, <1>8, <2>1, AheadDrained
    <2>3. Views'[m] = Views[m]
      BY <1>2, <1>8, <2>1 DEF Viewed
    <2>4. Stirred'[m] = Stirred[m]
      BY <1>2, <1>8, <2>1
    <2>5. ASSUME NEW n \in entered \ {m}
          PROVE  Views'[n] = Views[n] /\ Lines'[n] = Lines[n] /\ Stirred'[n] = Stirred[n]
      <3>1. crypto'[n] = crypto[n] /\ due'[n] = due[n]
        BY <1>2, <2>1
      <3>. QED
        BY <1>2, <1>9, <3>1
    <2>. QED
      BY <1>1, <1>3, <2>2, <2>3, <2>4, <2>5, PhaseAgrees
  <1>11. ASSUME ~ListFirst(inbox[m]), NEW s, crypto' = [crypto EXCEPT ![m] = s],
                \A n \in Members \ {m} : due'[n] = due[n]
         PROVE  /\ Lines[m] # <<>> /\ Head(Lines[m]) = msg
                /\ Lines' = [Lines EXCEPT ![m] = Tail(Lines[m])]
                /\ Views[m] = crypto[m] /\ Views' = [Views EXCEPT ![m] = s]
                /\ Stirred[m] = due[m] /\ (Stirred'[m] <=> due'[m])
                /\ \A n \in Members \ {m} : Stirred'[n] = Stirred[n]
    <2>1. Lines[m] # <<>> /\ Head(Lines[m]) = msg /\ Tail(Lines[m]) = Lines'[m]
      BY <1>1, <1>6, <1>8, <1>11, AheadDrained
    <2>2. Lines' = [Lines EXCEPT ![m] = Tail(Lines[m])]
      <3>. DEFINE D == Lines
      <3>1. Lines = [n \in Members |-> D[n]] /\ Lines' = [n \in Members |-> D'[n]]
        BY DEF Lines
      <3>2. \A n \in Members \ {m} : D'[n] = D[n]
        BY <1>9
      <3>. QED
        BY <1>8, <2>1, <3>1, <3>2
    <2>3. Views[m] = crypto[m] /\ Views'[m] = s
      BY <1>2, <1>8, <1>11 DEF Viewed
    <2>4. Views' = [Views EXCEPT ![m] = s]
      <3>. DEFINE D == Views
      <3>1. Views = [n \in Members |-> D[n]] /\ Views' = [n \in Members |-> D'[n]]
        BY DEF Views
      <3>2. \A n \in Members \ {m} : D'[n] = D[n]
        BY <1>2, <1>9, <1>11
      <3>. QED
        BY <1>8, <2>3, <3>1, <3>2
    <2>5. Stirred[m] = due[m] /\ (Stirred'[m] <=> due'[m])
      BY <1>2, <1>8, <1>11
    <2>6. \A n \in Members \ {m} : Stirred'[n] = Stirred[n]
      BY <1>9, <1>11
    <2>. QED
      BY <2>1, <2>2, <2>3, <2>4, <2>5, <2>6
  <1>12. CASE ReceiveAnnounce(m, msg)
    <2>1. /\ msg.kind = "announce" /\ ~ListFirst(inbox[m])
          /\ crypto' = [crypto EXCEPT ![m] = ApplyKeyAnnounce(crypto[m], msg)]
          /\ due' = [due EXCEPT ![m] = @ \/ crypto'[m] # crypto[m]]
      BY <1>7, <1>12 DEF ReceiveAnnounce, ListFirst
    <2>2. /\ due'[m] = (due[m] \/ crypto'[m] # crypto[m])
          /\ \A n \in Members \ {m} : due'[n] = due[n]
      BY <1>2, <2>1
    <2>3. Hears(Views, Lines, Stirred, Views', Lines', Stirred', m)
      <3>1. /\ Lines[m] # <<>> /\ Head(Lines[m]) = msg
            /\ Lines' = [Lines EXCEPT ![m] = Tail(Lines[m])]
            /\ Views[m] = crypto[m]
            /\ Views' = [Views EXCEPT ![m] = ApplyKeyAnnounce(crypto[m], msg)]
            /\ Stirred[m] = due[m] /\ (Stirred'[m] <=> due'[m])
            /\ \A n \in Members \ {m} : Stirred'[n] = Stirred[n]
        BY <1>11, <2>1, <2>2
      <3>2. Stirred[m] \/ Views'[m] # Views[m] => Stirred'[m]
        BY <1>8, <2>2, <3>1
      <3>. QED
        BY <2>1, <3>1, <3>2 DEF Hears
    <2>4. CASE Closing(Views, Lines, Stirred, entered)
      BY <1>1, <1>4, <2>3, <2>4, HeardClosing DEF Phase
    <2>5. ASSUME NEW t \in Transitions, Opening(Views, Lines, Stirred, entered, t)
          PROVE  Phase(Views', Lines', Stirred', entered')
      BY <1>1, <1>4, <2>3, <2>5, HeardOpening DEF Phase
    <2>. QED
      BY <1>3, <2>4, <2>5 DEF Phase
  <1>13. CASE ReceiveCommit(m, msg)
    <2>1. msg.kind = "commit" /\ ~ListFirst(inbox[m])
      BY <1>13 DEF ReceiveCommit, ListFirst
    <2>2. Accepts(crypto[m], msg) /\ ~Ignores(crypto[m], msg)
      BY <1>1, <2>1, CommitTaken
    <2>3. /\ crypto' = [crypto EXCEPT ![m] = ApplyEpochCommit(crypto[m], msg)]
          /\ due' = [due EXCEPT ![m] = TRUE]
      BY <1>13, <2>2 DEF ReceiveCommit
    <2>4. due'[m] /\ \A n \in Members \ {m} : due'[n] = due[n]
      BY <1>2, <2>3
    <2>5. Obeys(Views, Lines, Stirred, Views', Lines', Stirred', m)
      BY <1>11, <2>1, <2>3, <2>4 DEF Obeys
    <2>. QED
      BY <1>1, <1>3, <1>4, <2>5, ObeyedClosing DEF Phase
  <1>. QED
    BY <1>1, <1>10, <1>12, <1>13

(* What m hands over is the last on its way to all others. *)
LEMMA HandedOver ==
  ASSUME Inv, Orderly, Frame, NEW m \in entered, Undisturbed({m}),
         Batched => inbox[m] = <<>>, NEW z \in Seq(Messages),
         outbox' = [outbox EXCEPT ![m] = outbox[m] \o z], inbox' = inbox
  PROVE  /\ Lines'[m] = Lines[m]
         /\ Seats > 2 => Lines[m] = <<>>
         /\ \A n \in entered \ {m} : Lines[n] \in Seq(Messages) /\ Lines'[n] = Lines[n] \o z
  <1>1. /\ inbox \in [Members -> Seq(Messages)] /\ outbox \in [Members -> Seq(Messages)]
        /\ entered \subseteq Members /\ entered \subseteq roster /\ m \in Members
    BY DEF Inv, TypeOK
  <1>2. /\ \A n \in Members : Lines[n] = Ahead(inbox[n], Unsent(outbox, n))
        /\ \A n \in Members : Lines'[n] = Ahead(inbox[n], Unsent(outbox', n))
    BY DEF Lines
  <1>3. outbox'[m] = outbox[m] \o z /\ \A o \in Members \ {m} : outbox'[o] = outbox[o]
    BY <1>1
  <1>4. Seats > 2 => inbox[m] = <<>> /\ \A o \in Members : outbox[o] = <<>>
    BY RoomAssumption DEF Orderly, Undisturbed
  <1>5. Lines'[m] = Lines[m]
    <2>1. Unsent(outbox', m) = Unsent(outbox, m)
      BY <1>3, SameUnsent
    <2>. QED
      BY <1>1, <1>2, <2>1
  <1>6. ASSUME Seats > 2 PROVE Lines[m] = <<>>
    <2>1. Unsent(outbox, m) = <<>>
      BY <1>4, <1>6, NoneUnsent
    <2>2. inbox[m] = <<>> /\ <<>> \o <<>> = <<>>
      BY <1>4, <1>6
    <2>3. Ahead(<<>>, <<>>) = <<>>
      BY <2>2 DEF Ahead, ListFirst
    <2>. QED
      BY <1>1, <1>2, <2>1, <2>2, <2>3
  <1>7. ASSUME NEW n \in entered \ {m}
        PROVE  Lines[n] \in Seq(Messages) /\ Lines'[n] = Lines[n] \o z
    <2>1. \A o \in Members \ {n} : outbox[o] # <<>> => o = m
      <3>1. CASE Seats > 2
        BY <1>4, <3>1
      <3>2. CASE Seats <= 2
        <4>1. \A o \in Members : outbox[o] # <<>> => o \in roster
          BY <1>1 DEF Frame
        <4>. QED
          BY <1>1, <3>2, <4>1 DEF Frame, FewSeats
      <3>. QED
        BY <3>1, <3>2, RoomAssumption
    <2>2. Unsent(outbox, n) = outbox[m]
      BY <1>1, <2>1, OneUnsent
    <2>3. Unsent(outbox', n) = outbox[m] \o z
      <3>1. \A o \in Members \ {n} : outbox'[o] # <<>> => o = m
        BY <1>3, <2>1
      <3>. QED
        BY <1>1, <1>3, <3>1, OneUnsent
    <2>4. inbox[n] \in Seq(Messages) /\ outbox[m] \in Seq(Messages)
      BY <1>1
    <2>5. Ahead(inbox[n], outbox[m] \o z) = Ahead(inbox[n], outbox[m]) \o z
      BY <2>4, AheadAdded
    <2>6. Ahead(inbox[n], outbox[m]) \in Seq(Messages)
      BY <2>4, AheadType
    <2>. QED
      BY <1>1, <1>2, <2>2, <2>3, <2>5, <2>6
  <1>. QED
    BY <1>5, <1>6, <1>7

(* A client announces, or proposes. *)
LEMMA TriggerPhase ==
  ASSUME Inv, Orderly, OrderlyInv, NEW m \in Members, Trigger(m)
  PROVE  Phase(Views', Lines', Stirred', entered')
  <1>1. /\ m \in entered /\ due[m] /\ Undisturbed({m}) /\ (Batched => inbox[m] = <<>>)
        /\ due' = [due EXCEPT ![m] = FALSE]
        /\ Announce(m) \/ \E t \in crypto[m].pending : Propose(m, t)
        /\ entered' = entered /\ inbox' = inbox
    BY DEF Trigger, serverVars
  <1>2. /\ crypto \in [Members -> CryptoStates] /\ due \in [Members -> BOOLEAN]
        /\ inbox \in [Members -> Seq(Messages)] /\ outbox \in [Members -> Seq(Messages)]
        /\ drawn \in [Members -> Nat] /\ entered \subseteq Members
    BY DEF Inv, TypeOK
  <1>3. Frame /\ Phase(Views, Lines, Stirred, entered)
    BY DEF OrderlyInv
  <1>4. Crew(Views, Lines, Stirred, entered)
    BY <1>3, CrewNow
  <1>5. ~ListFirst(inbox[m])
    BY <1>1, <1>3 DEF Frame
  <1>6. /\ Views[m] = crypto[m] /\ Views'[m] = crypto'[m]
        /\ \A n \in Members : crypto'[n] = crypto[n] => Views'[n] = Views[n]
    BY <1>1, <1>5 DEF Views, Viewed
  <1>7. ~Stirred'[m] /\ \A n \in Members \ {m} : Stirred'[n] = Stirred[n]
    BY <1>1, <1>2, <1>5 DEF Stirred
  <1>8. CASE Announce(m)
    <2>. DEFINE a == LocalKeyAnnounce(crypto[m])
    <2>1. /\ \A t \in crypto[m].pending : ~CanBuild(crypto[m], t)
          /\ outbox' = [outbox EXCEPT ![m] = Append(@, a)]
          /\ crypto' = crypto
      BY <1>8 DEF Announce
    <2>2. a \in Messages
      BY <1>2, CallTypes
    <2>. HIDE DEF a
    <2>3. \A q \in Seq(Messages) : q \o <<a>> = Append(q, a)
      BY <2>2
    <2>4. outbox' = [outbox EXCEPT ![m] = outbox[m] \o <<a>>]
      BY <1>2, <2>1, <2>3
    <2>5. <<a>> \in Seq(Messages)
      BY <2>2
    <2>6. /\ Lines'[m] = Lines[m] /\ (Seats > 2 => Lines[m] = <<>>)
          /\ \A n \in entered \ {m} : Lines[n] \in Seq(Messages) /\ Lines'[n] = Lines[n] \o <<a>>
      BY <1>1, <1>3, <2>4, <2>5, HandedOver
    <2>7. \A n \in entered \ {m} : Lines'[n] = Append(Lines[n], a)
      BY <2>3, <2>6
    <2>8. Views' = Views
      BY <1>1, <2>1 DEF Views
    <2>9. Calls(Views, Lines, Stirred, Lines', Stirred', m, entered)
      BY <1>6, <1>7, <2>6, <2>7 DEF Calls, a
    <2>10. CASE Closing(Views, Lines, Stirred, entered)
      BY <1>1, <1>4, <2>8, <2>9, <2>10, CalledClosing DEF Phase
    <2>11. ASSUME NEW t \in Transitions, Opening(Views, Lines, Stirred, entered, t)
           PROVE  Phase(Views', Lines', Stirred', entered')
      <3>1. ~CanBuild(Views[m], t)
        BY <1>1, <1>6, <2>1, <2>11 DEF Opening
      <3>2. Opening(Views, Lines', Stirred', entered, t)
        BY <1>1, <1>4, <2>9, <2>11, <3>1, CalledOpening
      <3>. QED
        BY <1>1, <2>8, <3>2 DEF Phase
    <2>. QED
      BY <1>3, <2>10, <2>11 DEF Phase
  <1>9. ASSUME NEW t \in crypto[m].pending, Propose(m, t)
        PROVE  Phase(Views', Lines', Stirred', entered')
    <2>. DEFINE x == Drawn(m)
                c == BuildCommit(crypto[m], t, x)
                u == ApplyEpochCommit(crypto[m], c)
                z == <<LocalKeyAnnounce(crypto[m]), c, LocalKeyAnnounce(u)>>
    <2>1. /\ CanBuild(crypto[m], t)
          /\ crypto' = [crypto EXCEPT ![m] = u]
          /\ outbox' = [outbox EXCEPT ![m] = @ \o z]
      BY <1>9 DEF Propose
    <2>2. x \in Secrets
      BY <1>2 DEF Drawn, Secrets
    <2>3. t \in Transitions
      BY <1>2 DEF CryptoStates
    <2>. HIDE DEF x
    <2>4. c \in Commits
      BY <1>2, <2>2, <2>3, ProposalTypes
    <2>. HIDE DEF c
    <2>5. u \in CryptoStates
      BY <1>2, <2>4, EnteredEpoch
    <2>. HIDE DEF u
    <2>6. z \in Seq(Messages)
      <3>1. LocalKeyAnnounce(crypto[m]) \in Messages /\ LocalKeyAnnounce(u) \in Messages
        BY <1>2, <2>5, CallTypes
      <3>2. c \in Messages
        BY <2>4 DEF Messages
      <3>. QED
        BY <3>1, <3>2
    <2>. HIDE DEF z
    <2>7. outbox' = [outbox EXCEPT ![m] = outbox[m] \o z]
      BY <1>2, <2>1
    <2>8. /\ Lines'[m] = Lines[m] /\ (Seats > 2 => Lines[m] = <<>>)
          /\ \A n \in entered \ {m} : Lines'[n] = Lines[n] \o z
      BY <1>1, <1>3, <2>6, <2>7, HandedOver
    <2>9. Views' = [Views EXCEPT ![m] = u]
      <3>. DEFINE D == Views
      <3>1. Views = [n \in Members |-> D[n]] /\ Views' = [n \in Members |-> D'[n]]
        BY DEF Views
      <3>2. Views'[m] = u /\ \A n \in Members \ {m} : D'[n] = D[n]
        BY <1>2, <1>6, <2>1
      <3>. QED
        BY <3>1, <3>2
    <2>10. Leads(Views, Lines, Stirred, Views', Lines', Stirred', m, entered, t, x)
      BY <1>6, <1>7, <1>9, <2>1, <2>8, <2>9 DEF Leads, c, u, z
    <2>. QED
      BY <1>1, <1>3, <1>4, <2>2, <2>10, LedClosing DEF Phase
  <1>. QED
    BY <1>1, <1>8, <1>9

(* Who is on the way in changes nothing for those who are in. *)
LEMMA EnrollPhase ==
  ASSUME Inv, OrderlyInv, NEW m \in Members, Enroll(m)
  PROVE  Phase(Views', Lines', Stirred', entered')
  <1>1. /\ m \notin roster
        /\ \A n \in Members \ {m} : crypto'[n] = crypto[n]
        /\ entered' = entered /\ inbox' = inbox /\ outbox' = outbox /\ due' = due
    BY DEF Enroll, Inv, TypeOK
  <1>2. entered \subseteq Members /\ m \notin entered
    BY <1>1 DEF Inv, TypeOK
  <1>3. \A n \in entered :
          Views'[n] = Views[n] /\ Lines'[n] = Lines[n] /\ Stirred'[n] = Stirred[n]
    BY <1>1, <1>2 DEF Views, Lines, Stirred
  <1>. QED
    BY <1>1, <1>3, PhaseAgrees DEF OrderlyInv

(* A list comes to a client that had nothing left to do. *)
LEMMA ListComes ==
  ASSUME NEW S \in SUBSET Members, NEW u \in Seq(Messages)
  PROVE  LET q == Append(<<>>, ListOf(S))
         IN /\ ListFirst(q) /\ ListsLead(q) /\ q \in Seq(Messages)
            /\ Ahead(q, u) = u
            /\ \A s : Viewed(s, q) = ReplaceMembers(s, S)
  <1>. DEFINE l == ListOf(S)
              q == Append(<<>>, l)
  <1>1. l \in Messages /\ l.kind = "list" /\ l.members = S
    BY DEF ListOf, Messages, Lists
  <1>. HIDE DEF l
  <1>2. /\ q \in Seq(Messages) /\ q # <<>> /\ Head(q) = l /\ Tail(q) = <<>> /\ DOMAIN q = {1}
    BY <1>1
  <1>. HIDE DEF q
  <1>3. ListFirst(q) /\ ListsLead(q)
    BY <1>1, <1>2 DEF ListFirst, ListsLead
  <1>4. Tail(q \o u) = <<>> \o u /\ <<>> \o u = u
    <2>1. Tail(q \o u) = Tail(q) \o u
      BY <1>2, Front
    <2>2. <<>> \o u = u
      OBVIOUS
    <2>. QED
      BY <1>2, <2>1, <2>2
  <1>. QED
    BY <1>1, <1>2, <1>3, <1>4 DEF Ahead, Viewed, q, l

(* It enters: the change opens. *)
LEMMA EnterPhase ==
  ASSUME Ranked, Inv, OrderlyInv, NEW j \in Members, Enter(j)
  PROVE  Phase(Views', Lines', Stirred', entered')
  <1>. DEFINE a == LocalKeyAnnounce(crypto[j])
  <1>1. /\ j \in roster \ entered /\ entered' = entered \cup {j}
        /\ inbox' = Broadcast(entered', ListOf(roster))
        /\ outbox' = [outbox EXCEPT ![j] = <<a>>]
        /\ crypto' = crypto /\ due' = due
    BY DEF Enter
  <1>2. /\ crypto \in [Members -> CryptoStates] /\ due \in [Members -> BOOLEAN]
        /\ inbox \in [Members -> Seq(Messages)] /\ outbox \in [Members -> Seq(Messages)]
        /\ entered \subseteq Members /\ roster \subseteq Members
    BY DEF Inv, TypeOK
  <1>3. Frame /\ Phase(Views, Lines, Stirred, entered)
    BY DEF OrderlyInv
  <1>4. Crew(Views, Lines, Stirred, entered)
    BY <1>3, CrewNow
  <1>5. /\ roster = entered \cup {j}
        /\ \A n \in entered : inbox[n] = <<>> /\ outbox[n] = <<>> /\ ~due[n]
        /\ crypto[j] = IF entered = {} THEN NewSingleEpoch(crypto[j].group, j)
                                       ELSE NewPendingEpoch(crypto[j].group, j)
    BY <1>1, <1>3 DEF Frame, OnTheWayIn
  <1>6. \A n \in Members : inbox[n] = <<>> /\ outbox[n] = <<>> /\ ~due[n]
    BY <1>3, <1>5 DEF Frame
  <1>7. a \in Messages
    BY <1>2, CallTypes
  <1>. HIDE DEF a
  <1>8. \A n \in Members : Views[n] = crypto[n] /\ ~Stirred[n]
    BY <1>6 DEF Views, Viewed, Stirred, ListFirst
  <1>9. \A n \in Members : Lines[n] = <<>>
    <2>1. ASSUME NEW n \in Members PROVE Lines[n] = <<>>
      <3>1. Unsent(outbox, n) = <<>>
        BY <1>6, NoneUnsent
      <3>2. inbox[n] = <<>> /\ <<>> \o <<>> = <<>>
        BY <1>6
      <3>. QED
        BY <3>1, <3>2 DEF Lines, Ahead, ListFirst
    <2>. QED
      BY <2>1
  <1>10. ASSUME NEW n \in roster
         PROVE  /\ Views'[n] = ReplaceMembers(crypto[n], roster) /\ Stirred'[n]
                /\ Lines'[n] = IF n = j THEN <<>> ELSE <<a>>
    <2>. DEFINE u == Unsent(outbox', n)
                r == Append(<<>>, ListOf(roster))
    <2>1. n \in Members /\ inbox'[n] = r
      BY <1>1, <1>2, <1>5, <1>6 DEF Broadcast
    <2>2. u = IF n = j THEN <<>> ELSE <<a>>
      <3>1. CASE n = j
        <4>1. \A o \in Members \ {n} : outbox'[o] = <<>>
          BY <1>1, <1>2, <1>6, <3>1
        <4>. QED
          BY <3>1, <4>1, NoneUnsent
      <3>2. CASE n # j
        <4>1. /\ outbox'[j] = <<a>>
              /\ \A o \in Members \ {n} : outbox'[o] # <<>> => o = j
          BY <1>1, <1>2, <1>6, <3>2
        <4>. QED
          <5>1. j \in Members \ {n}
            BY <1>1, <1>2, <3>2
          <5>. QED
            BY <3>2, <4>1, <5>1, OneUnsent
      <3>. QED
        BY <3>1, <3>2
    <2>3. u \in Seq(Messages)
      BY <1>7, <2>2
    <2>. HIDE DEF u
    <2>4. ListFirst(r) /\ Ahead(r, u) = u /\ \A s : Viewed(s, r) = ReplaceMembers(s, roster)
      BY <1>2, <2>3, ListComes
    <2>. HIDE DEF r
    <2>5. Views'[n] = Viewed(crypto[n], r) /\ Lines'[n] = Ahead(r, u)
      BY <1>1, <2>1 DEF Views, Lines, u
    <2>6. Stirred'[n]
      BY <1>1, <2>1, <2>4 DEF Stirred
    <2>. QED
      BY <2>2, <2>4, <2>5, <2>6
  <1>11. CASE entered = {}
    <2>1. roster = {j} /\ entered' = {j}
      BY <1>1, <1>5, <1>11
    <2>2. /\ Views'[j] = ReplaceMembers(NewSingleEpoch(crypto[j].group, j), {j})
          /\ Lines'[j] = <<>>
      BY <1>5, <1>10, <1>11, <2>1
    <2>3. crypto[j].group \in GroupIds
      BY <1>2 DEF CryptoStates
    <2>. QED
      BY <2>1, <2>2, <2>3, FounderCloses
  <1>12. CASE entered # {}
    <2>1. Views[j] = NewPendingEpoch(Views[j].group, j)
      BY <1>5, <1>8, <1>12
    <2>2. \A n \in entered : Lines[n] = <<>> /\ ~Stirred[n]
      BY <1>2, <1>8, <1>9
    <2>3. \A n \in entered \cup {j} :
            Views'[n] = ReplaceMembers(Views[n], entered \cup {j}) /\ Stirred'[n]
      BY <1>2, <1>5, <1>8, <1>10
    <2>4. Lines'[j] = <<>> /\ \A n \in entered : Lines'[n] = <<LocalKeyAnnounce(Views[j])>>
      BY <1>1, <1>5, <1>8, <1>10 DEF a
    <2>5. Seats <= 2 => \A y, z \in entered : y = z
      BY <1>1, <1>3, <1>5 DEF Frame, FewSeats
    <2>6. Joins(Views, Lines, Stirred, Views', Lines', Stirred', j, entered)
      BY <2>1, <2>2, <2>3, <2>4, <2>5 DEF Joins
    <2>7. j \in Members \ entered
      BY <1>1
    <2>. QED
      BY <1>1, <1>3, <1>4, <1>12, <2>6, <2>7, JoinOpens
  <1>. QED
    BY <1>11, <1>12

(* A member leaves: the change opens. *)
LEMMA LeavePhase ==
  ASSUME Ranked, Orderly, Inv, OrderlyInv, NEW j \in Members, Leave(j)
  PROVE  Phase(Views', Lines', Stirred', entered')
  <1>1. /\ j \in entered /\ entered' = entered \ {j} /\ roster' = roster \ {j}
        /\ inbox' = [Broadcast(entered', ListOf(roster')) EXCEPT ![j] = <<>>]
        /\ outbox' = [outbox EXCEPT ![j] = <<>>]
        /\ due' = [due EXCEPT ![j] = FALSE]
        /\ crypto' = crypto
        /\ Quiescent
    BY DEF Leave, MayChange, Orderly
  <1>2. /\ crypto \in [Members -> CryptoStates] /\ due \in [Members -> BOOLEAN]
        /\ inbox \in [Members -> Seq(Messages)] /\ outbox \in [Members -> Seq(Messages)]
        /\ entered \subseteq Members
    BY DEF Inv, TypeOK
  <1>3. Frame /\ Phase(Views, Lines, Stirred, entered)
    BY DEF OrderlyInv
  <1>4. Crew(Views, Lines, Stirred, entered)
    BY <1>3, CrewNow
  <1>5. /\ roster = entered
        /\ \A n \in Members : inbox[n] = <<>> /\ outbox[n] = <<>> /\ ~due[n]
    BY <1>1, <1>3 DEF Frame, Quiescent
  <1>6. \A n \in Members : Views[n] = crypto[n] /\ ~Stirred[n]
    BY <1>5 DEF Views, Viewed, Stirred, ListFirst
  <1>7. ASSUME NEW n \in Members PROVE Lines[n] = <<>>
    <2>1. Unsent(outbox, n) = <<>>
      BY <1>5, NoneUnsent
    <2>2. inbox[n] = <<>> /\ <<>> \o <<>> = <<>>
      BY <1>5
    <2>. QED
      BY <2>1, <2>2 DEF Lines, Ahead, ListFirst
  <1>8. ASSUME NEW n \in entered \ {j}
        PROVE  /\ Views'[n] = ReplaceMembers(crypto[n], entered \ {j}) /\ Stirred'[n]
               /\ Lines'[n] = <<>>
    <2>. DEFINE r == Append(<<>>, ListOf(entered \ {j}))
    <2>1. n \in Members /\ inbox'[n] = r
      BY <1>1, <1>2, <1>5 DEF Broadcast
    <2>2. Unsent(outbox', n) = <<>>
      <3>1. \A o \in Members : outbox'[o] = <<>>
        BY <1>1, <1>2, <1>5
      <3>. QED
        BY <3>1, NoneUnsent
    <2>3. entered \ {j} \in SUBSET Members /\ <<>> \in Seq(Messages)
      BY <1>2
    <2>4. /\ ListFirst(r) /\ Ahead(r, <<>>) = <<>>
          /\ \A s : Viewed(s, r) = ReplaceMembers(s, entered \ {j})
      BY <2>3, ListComes
    <2>. HIDE DEF r
    <2>5. Views'[n] = Viewed(crypto[n], r) /\ Lines'[n] = Ahead(r, Unsent(outbox', n))
      BY <1>1, <2>1 DEF Views, Lines
    <2>6. Stirred'[n]
      BY <1>1, <2>1, <2>4 DEF Stirred
    <2>. QED
      BY <2>2, <2>4, <2>5, <2>6
  <1>9. Seats <= 2 => \A y, z \in entered \ {j} : y = z
    BY <1>1, <1>3, <1>5 DEF Frame, FewSeats
  <1>10. \A n \in entered \ {j} :
           /\ Views'[n] = ReplaceMembers(Views[n], entered \ {j})
           /\ Stirred'[n] /\ Lines'[n] = <<>>
    BY <1>2, <1>6, <1>8
  <1>11. Leaves(Views, Lines, Stirred, Views', Lines', Stirred', j, entered)
    BY <1>2, <1>6, <1>7, <1>9, <1>10 DEF Leaves
  <1>. QED
    BY <1>1, <1>3, <1>4, <1>11, LeaveOpens

-----------------------------------------------------------------------------
(* The frame of the steps.                                                 *)

(* A client always knows its own key, and only keys of members it lists. *)
LEMMA StartKeys ==
  ASSUME NEW g \in GroupIds, NEW m \in Members
  PROVE  KeysOwn(m, NewPendingEpoch(g, m)) /\ KeysOwn(m, NewSingleEpoch(g, m))
  BY DEF KeysOwn, NewPendingEpoch, NewSingleEpoch, ActivateEpoch, Unknown

LEMMA LearnedOwn ==
  ASSUME NEW s \in CryptoStates, NEW a \in Announces, KeysOwn(s.me, s)
  PROVE  KeysOwn(s.me, ApplyKeyAnnounce(s, a))
  BY LearnedKey DEF KeysOwn, CryptoStates

LEMMA EnteredOwn ==
  ASSUME NEW s \in CryptoStates, NEW c \in Commits, RosterOK(s)
  PROVE  KeysOwn(s.me, ApplyEpochCommit(s, c))
  <1>1. s.me \in Members /\ s.gen + 1 # Unknown /\ s.me \in s.members
    BY DEF CryptoStates, Unknown, RosterOK
  <1>. QED
    BY <1>1, EnteredEpoch DEF KeysOwn

(* As long as somebody moves, all are in. *)
LEMMA AllIn ==
  ASSUME Inv, Frame, NEW m \in entered, inbox[m] # <<>> \/ outbox[m] # <<>> \/ due[m]
  PROVE  roster = entered
  <1>1. entered \subseteq roster
    BY DEF Inv, TypeOK
  <1>2. \A j \in roster \ entered : FALSE
    BY DEF Frame, OnTheWayIn
  <1>. QED
    BY <1>1, <1>2

(* Each step keeps the frame. *)
LEMMA TransmitFrame ==
  ASSUME Inv, Frame, NEW m \in Members, Transmit(m)
  PROVE  Frame'
  <1>1. /\ m \in entered /\ outbox[m] # <<>>
        /\ outbox' = [outbox EXCEPT ![m] = Tail(@)]
        /\ inbox' = Broadcast(entered \ {m}, Head(outbox[m]))
        /\ UNCHANGED <<roster, entered, left, crypto, due, queued>>
    BY DEF Transmit, serverVars
  <1>2. /\ inbox \in [Members -> Seq(Messages)] /\ outbox \in [Members -> Seq(Messages)]
        /\ entered \subseteq Members /\ roster = entered
    BY <1>1, AllIn DEF Inv, TypeOK
  <1>3. /\ \A i \in DOMAIN outbox'[m] : outbox'[m][i].kind # "list"
        /\ Head(outbox[m]).kind # "list" /\ Head(outbox[m]) \in Messages
        /\ \A n \in Members \ {m} : outbox'[n] = outbox[n]
    <2>1. /\ Head(outbox[m]) = outbox[m][1] /\ 1 \in DOMAIN outbox[m]
          /\ Head(outbox[m]) \in Messages
          /\ \A i \in DOMAIN Tail(outbox[m]) :
               i + 1 \in DOMAIN outbox[m] /\ Tail(outbox[m])[i] = outbox[m][i + 1]
      BY <1>1, <1>2, FirstTaken
    <2>2. outbox'[m] = Tail(outbox[m])
      BY <1>1, <1>2
    <2>. QED
      BY <1>1, <1>2, <2>1, <2>2 DEF Frame
  <1>4. ASSUME NEW n \in Members
        PROVE  /\ ListsLead(inbox'[n])
               /\ due[n] => ~ListFirst(inbox'[n])
               /\ n \notin entered => inbox'[n] = inbox[n]
    <2>1. CASE n \notin entered \ {m}
      <3>1. inbox'[n] = inbox[n]
        BY <1>1, <2>1 DEF Broadcast
      <3>. QED
        BY <3>1 DEF Frame
    <2>2. CASE n \in entered \ {m}
      <3>. DEFINE l == Head(outbox[m])
      <3>1. inbox'[n] = Append(inbox[n], l) /\ inbox[n] \in Seq(Messages)
        BY <1>1, <1>2, <2>2 DEF Broadcast
      <3>2. ListsLead(inbox[n]) /\ (due[n] => ~ListFirst(inbox[n]))
        BY DEF Frame
      <3>3. l \in Messages /\ l.kind # "list"
        BY <1>3
      <3>. HIDE DEF l
      <3>4. ListsLead(inbox'[n])
        BY <3>1, <3>2, <3>3, PutLast DEF ListsLead
      <3>5. due[n] => ~ListFirst(inbox'[n])
        <4>1. CASE inbox[n] = <<>>
          <5>1. inbox'[n] = <<l>> /\ Head(<<l>>) = l
            BY <3>1, <3>3, <4>1
          <5>. QED
            BY <3>3, <5>1 DEF ListFirst
        <4>2. CASE inbox[n] # <<>>
          <5>1. Head(Append(inbox[n], l)) = Head(inbox[n])
            BY <3>1, <3>3, <4>2
          <5>. QED
            BY <3>1, <3>2, <4>2, <5>1 DEF ListFirst
        <4>. QED
          BY <4>1, <4>2
      <3>. QED
        BY <2>2, <3>4, <3>5
    <2>. QED
      BY <2>1, <2>2
  <1>5. (IsFiniteSet(roster) /\ FewSeats)'
    BY <1>1 DEF Frame, FewSeats
  <1>6. \A n \in Members : /\ (KeysOwn(n, crypto[n]) /\ queued[n] = {})'
                           /\ (n \notin roster \cup left =>
                                 crypto[n] = NewPendingEpoch(crypto[n].group, n))'
    BY <1>1 DEF Frame
  <1>7. \A n \in Members \ entered' : inbox'[n] = <<>> /\ outbox'[n] = <<>> /\ ~due'[n]
    BY <1>1, <1>3, <1>4 DEF Frame
  <1>8. \A n \in Members : \A i \in DOMAIN outbox'[n] : outbox'[n][i].kind # "list"
    BY <1>3 DEF Frame
  <1>9. Seats > 2 => \A n, o \in Members : outbox'[n] # <<>> /\ outbox'[o] # <<>> => n = o
    BY <1>1, <1>3 DEF Frame
  <1>. QED
    BY <1>1, <1>2, <1>4, <1>5, <1>6, <1>7, <1>8, <1>9 DEF Frame

LEMMA ReceiveFrame ==
  ASSUME Inv, OrderlyInv, NEW m \in Members, Receive(m)
  PROVE  Frame'
  <1>. DEFINE msg == Head(inbox[m])
  <1>1. /\ m \in entered /\ inbox[m] # <<>>
        /\ ReceiveList(m, msg) \/ ReceiveAnnounce(m, msg) \/ ReceiveCommit(m, msg)
        /\ inbox' = [inbox EXCEPT ![m] = Tail(@)]
        /\ UNCHANGED <<roster, entered, left, outbox>>
    BY DEF Receive, serverVars
  <1>2. Frame
    BY DEF OrderlyInv
  <1>3. /\ crypto \in [Members -> CryptoStates] /\ queued \in [Members -> SUBSET Kept]
        /\ inbox \in [Members -> Seq(Messages)] /\ due \in [Members -> BOOLEAN]
        /\ entered \subseteq Members /\ roster = entered
    BY <1>1, <1>2, AllIn DEF Inv, TypeOK
  <1>4. /\ crypto[m].me = m /\ RosterOK(crypto[m])
        /\ KeysOwn(m, crypto[m]) /\ queued[m] = {} /\ ListsLead(inbox[m])
    BY <1>2 DEF Inv, Identities, Frame
  <1>5. msg \in Messages /\ (msg.kind = "announce" => msg \in Announces)
        /\ (msg.kind = "commit" => msg \in Commits)
        /\ (msg.kind = "list" => msg.members \in SUBSET Members)
    <2>1. msg \in Messages
      BY <1>1, <1>3, FirstTaken
    <2>. QED
      BY <2>1, KindsApart DEF Lists
  <1>. HIDE DEF msg
  <1>6. ASSUME NEW s, Retry(m, s) PROVE crypto' = [crypto EXCEPT ![m] = s] /\ queued' = queued
    <2>1. crypto' = [crypto EXCEPT ![m] = s]
      BY <1>4, <1>6 DEF Retry
    <2>2. queued' = [queued EXCEPT ![m] = {k \in queued[m] : ~Ignores(s, k.commit)}]
      BY <1>4, <1>6 DEF Retry
    <2>. QED
      BY <1>3, <1>4, <2>1, <2>2
  <1>7. \E s : /\ KeysOwn(m, s) /\ crypto' = [crypto EXCEPT ![m] = s]
               /\ queued' = queued /\ \A n \in Members \ {m} : due'[n] = due[n]
    <2>1. CASE ReceiveList(m, msg)
      <3>1. KeysOwn(m, ReplaceMembers(crypto[m], msg.members))
        <4>1. /\ crypto[m] \in CryptoStates /\ msg.members \in SUBSET Members
              /\ KeysOwn(crypto[m].me, crypto[m])
          BY <1>3, <1>4, <1>5, <2>1 DEF ReceiveList
        <4>2. KeysOwn(crypto[m].me, ReplaceMembers(crypto[m], msg.members))
          BY <4>1, ListedKeys
        <4>. QED
          BY <1>4, <4>2
      <3>. QED
        BY <1>3, <1>6, <2>1, <3>1 DEF ReceiveList
    <2>2. CASE ReceiveAnnounce(m, msg)
      <3>1. KeysOwn(m, ApplyKeyAnnounce(crypto[m], msg))
        BY <1>3, <1>4, <1>5, <2>2, LearnedOwn DEF ReceiveAnnounce
      <3>. QED
        BY <1>3, <1>6, <2>2, <3>1 DEF ReceiveAnnounce
    <2>3. CASE ReceiveCommit(m, msg)
      <3>1. KeysOwn(m, ApplyEpochCommit(crypto[m], msg))
        BY <1>3, <1>4, <1>5, <2>3, EnteredOwn DEF ReceiveCommit
      <3>2. Accepts(crypto[m], msg) /\ ~Ignores(crypto[m], msg)
        BY <1>1, <2>3, CommitTaken DEF ReceiveCommit, msg
      <3>3. /\ crypto' = [crypto EXCEPT ![m] = ApplyEpochCommit(crypto[m], msg)]
            /\ due' = [due EXCEPT ![m] = TRUE] /\ queued' = queued
        BY <2>3, <3>2 DEF ReceiveCommit
      <3>. QED
        BY <1>3, <3>1, <3>3
    <2>. QED
      BY <1>1, <2>1, <2>2, <2>3 DEF msg
  <1>8. /\ ~ListFirst(inbox'[m]) /\ ListsLead(inbox'[m])
        /\ \A n \in Members \ {m} : inbox'[n] = inbox[n]
    BY <1>1, <1>3, <1>4, NoListNext
  <1>9. (IsFiniteSet(roster) /\ FewSeats)'
    BY <1>1, <1>2 DEF Frame, FewSeats
  <1>10. \A n \in Members : (KeysOwn(n, crypto[n]) /\ queued[n] = {})'
    BY <1>2, <1>3, <1>7 DEF Frame
  <1>11. \A n \in Members \ (roster \cup left)' : (crypto[n] = NewPendingEpoch(crypto[n].group, n))'
    <2>1. \A n \in Members \ (roster \cup left)' : crypto'[n] = crypto[n]
      BY <1>1, <1>3, <1>7
    <2>. QED
      BY <1>1, <1>2, <2>1 DEF Frame
  <1>12. \A n \in Members \ entered' : inbox'[n] = <<>> /\ outbox'[n] = <<>> /\ ~due'[n]
    BY <1>1, <1>2, <1>7, <1>8 DEF Frame
  <1>13. \A n \in Members : /\ ListsLead(inbox'[n]) /\ (due'[n] => ~ListFirst(inbox'[n]))
                            /\ \A i \in DOMAIN outbox'[n] : outbox'[n][i].kind # "list"
    BY <1>1, <1>2, <1>7, <1>8 DEF Frame
  <1>14. Seats > 2 => \A n, o \in Members : outbox'[n] # <<>> /\ outbox'[o] # <<>> => n = o
    BY <1>1, <1>2 DEF Frame
  <1>. QED
    BY <1>1, <1>3, <1>9, <1>10, <1>11, <1>12, <1>13, <1>14 DEF Frame

LEMMA TriggerFrame ==
  ASSUME Inv, Orderly, Frame, NEW m \in Members, Trigger(m)
  PROVE  Frame'
  <1>1. /\ m \in entered /\ due[m] /\ Undisturbed({m})
        /\ due' = [due EXCEPT ![m] = FALSE]
        /\ Announce(m) \/ \E t \in crypto[m].pending : Propose(m, t)
        /\ UNCHANGED <<roster, entered, left, queued, inbox>>
    BY DEF Trigger, serverVars
  <1>2. /\ crypto \in [Members -> CryptoStates] /\ outbox \in [Members -> Seq(Messages)]
        /\ due \in [Members -> BOOLEAN] /\ drawn \in [Members -> Nat]
        /\ entered \subseteq Members /\ roster = entered
    BY <1>1, AllIn DEF Inv, TypeOK
  <1>3. crypto[m].me = m /\ RosterOK(crypto[m]) /\ KeysOwn(m, crypto[m])
    BY DEF Inv, Identities, Frame
  <1>4. Seats > 2 => \A n \in Members : outbox[n] = <<>>
    BY <1>1, RoomAssumption DEF Orderly, Undisturbed
  <1>5. \E s, z : /\ KeysOwn(m, s) /\ crypto' = [crypto EXCEPT ![m] = s]
                  /\ \A i \in DOMAIN z : z[i].kind # "list"
                  /\ outbox' = [outbox EXCEPT ![m] = z]
    <2>1. CASE Announce(m)
      <3>. DEFINE a == LocalKeyAnnounce(crypto[m])
      <3>1. a \in Messages /\ a.kind = "announce"
        BY <1>2, CallTypes
      <3>2. /\ crypto' = [crypto EXCEPT ![m] = crypto[m]]
            /\ outbox' = [outbox EXCEPT ![m] = Append(outbox[m], a)]
        BY <1>2, <2>1 DEF Announce
      <3>. HIDE DEF a
      <3>3. \A i \in DOMAIN Append(outbox[m], a) : Append(outbox[m], a)[i].kind # "list"
        <4>1. outbox[m] \in Seq(Messages) /\ \A i \in DOMAIN outbox[m] : outbox[m][i].kind # "list"
          BY <1>2 DEF Frame
        <4>. QED
          BY <3>1, <4>1, PutLast
      <3>. QED
        BY <1>3, <3>2, <3>3
    <2>2. ASSUME NEW t \in crypto[m].pending, Propose(m, t)
          PROVE  \E s, z : /\ KeysOwn(m, s) /\ crypto' = [crypto EXCEPT ![m] = s]
                           /\ \A i \in DOMAIN z : z[i].kind # "list"
                           /\ outbox' = [outbox EXCEPT ![m] = z]
      <3>. DEFINE x == Drawn(m)
                  c == BuildCommit(crypto[m], t, x)
                  u == ApplyEpochCommit(crypto[m], c)
                  a == LocalKeyAnnounce(crypto[m])
                  b == LocalKeyAnnounce(u)
      <3>1. /\ crypto' = [crypto EXCEPT ![m] = u]
            /\ outbox' = [outbox EXCEPT ![m] = outbox[m] \o <<a, c, b>>]
        BY <1>2, <2>2 DEF Propose
      <3>2. x \in Secrets /\ t \in Transitions
        BY <1>2 DEF Drawn, Secrets, CryptoStates
      <3>. HIDE DEF x
      <3>3. c \in Commits /\ c.kind = "commit"
        BY <1>2, <3>2, ProposalTypes
      <3>. HIDE DEF c
      <3>4. KeysOwn(m, u) /\ u \in CryptoStates
        BY <1>2, <1>3, <3>3, EnteredOwn, EnteredEpoch
      <3>. HIDE DEF u
      <3>5. /\ a \in Messages /\ a.kind = "announce" /\ b \in Messages /\ b.kind = "announce"
            /\ c \in Messages
        BY <1>2, <3>3, <3>4, CallTypes DEF Messages
      <3>. HIDE DEF a, b
      <3>6. outbox[m] \in Seq(Messages) /\ \A i \in DOMAIN outbox[m] : outbox[m][i].kind # "list"
        BY <1>2 DEF Frame
      <3>. DEFINE z == outbox[m] \o <<a, c, b>>
                  L == Len(outbox[m])
      <3>7. /\ DOMAIN z = DOMAIN outbox[m] \cup {L + 1, L + 2, L + 3}
            /\ \A i \in DOMAIN outbox[m] : z[i] = outbox[m][i]
            /\ z[L + 1] = a /\ z[L + 2] = c /\ z[L + 3] = b
        BY <3>5, <3>6, ThreeAdded
      <3>. HIDE DEF z, L
      <3>8. \A i \in DOMAIN z : z[i].kind # "list"
        BY <3>3, <3>5, <3>6, <3>7
      <3>. QED
        BY <3>1, <3>4, <3>8 DEF z
    <2>. QED
      BY <1>1, <2>1, <2>2
  <1>6. PICK s, z : /\ KeysOwn(m, s) /\ crypto' = [crypto EXCEPT ![m] = s]
                    /\ \A i \in DOMAIN z : z[i].kind # "list"
                    /\ outbox' = [outbox EXCEPT ![m] = z]
    BY <1>5
  <1>7. /\ crypto'[m] = s /\ outbox'[m] = z /\ ~due'[m]
        /\ \A n \in Members \ {m} :
             crypto'[n] = crypto[n] /\ outbox'[n] = outbox[n] /\ due'[n] = due[n]
    BY <1>1, <1>2, <1>6
  <1>8. (IsFiniteSet(roster) /\ FewSeats)'
    BY <1>1 DEF Frame, FewSeats
  <1>9. \A n \in Members : KeysOwn(n, crypto'[n]) /\ queued'[n] = {}
    <2>1. \A n \in Members : KeysOwn(n, crypto[n]) /\ queued[n] = {}
      BY DEF Frame
    <2>2. KeysOwn(m, crypto'[m])
      BY <1>6, <1>7
    <2>3. \A n \in Members \ {m} : KeysOwn(n, crypto'[n])
      BY <1>7, <2>1
    <2>. QED
      BY <1>1, <2>1, <2>2, <2>3
  <1>10. \A n \in Members \ (roster \cup left)' : (crypto[n] = NewPendingEpoch(crypto[n].group, n))'
    <2>1. m \in roster /\ roster' = roster /\ left' = left
      BY <1>1, <1>2
    <2>2. ASSUME NEW n \in Members \ (roster \cup left)
          PROVE  crypto'[n] = NewPendingEpoch(crypto'[n].group, n)
      <3>1. crypto[n] = NewPendingEpoch(crypto[n].group, n)
        BY DEF Frame
      <3>2. crypto'[n] = crypto[n]
        BY <1>7, <2>1
      <3>. QED
        BY <3>1, <3>2
    <2>. QED
      BY <2>1, <2>2
  <1>11. \A n \in Members \ entered' : inbox'[n] = <<>> /\ outbox'[n] = <<>> /\ ~due'[n]
    BY <1>1, <1>7 DEF Frame
  <1>12. \A n \in Members : /\ ListsLead(inbox'[n]) /\ (due'[n] => ~ListFirst(inbox'[n]))
                            /\ \A i \in DOMAIN outbox'[n] : outbox'[n][i].kind # "list"
    BY <1>1, <1>6, <1>7 DEF Frame
  <1>13. Seats > 2 => \A n, o \in Members : outbox'[n] # <<>> /\ outbox'[o] # <<>> => n = o
    BY <1>4, <1>7
  <1>. QED
    BY <1>1, <1>2, <1>8, <1>9, <1>10, <1>11, <1>12, <1>13 DEF Frame

LEMMA EnrollFrame ==
  ASSUME Inv, Orderly, Frame, NEW m \in Members, Enroll(m)
  PROVE  Frame'
  <1>1. /\ Quiescent /\ m \notin roster \cup left
        /\ Cardinality(roster) < Seats
        /\ roster' = roster \cup {m}
        /\ crypto' = IF roster = {}
                     THEN [crypto EXCEPT ![m] = NewSingleEpoch(crypto[m].group, m)]
                     ELSE crypto
        /\ UNCHANGED <<entered, left, queued, due, inbox, outbox>>
    BY DEF Enroll, MayChange, Orderly
  <1>2. /\ crypto \in [Members -> CryptoStates] /\ roster \subseteq Members
        /\ crypto[m].group \in GroupIds /\ roster = entered
    BY <1>1 DEF Inv, TypeOK, CryptoStates, Quiescent
  <1>3. \A n \in Members \ {m} : crypto'[n] = crypto[n]
    BY <1>1, <1>2
  <1>4. IsFiniteSet(roster')
    BY <1>1, FS_AddElement DEF Frame
  <1>5. FewSeats'
    <2>. SUFFICES ASSUME Seats <= 2, NEW a \in roster', NEW b \in roster', NEW c \in roster'
                  PROVE  a = b \/ a = c \/ b = c
      BY DEF FewSeats
    <2>1. Cardinality(roster) \in Nat /\ Cardinality(roster) < 2
      BY <1>1, FS_CardinalityType, RoomAssumption DEF Frame
    <2>2. roster = {} \/ \E x : roster = {x}
      <3>1. CASE Cardinality(roster) = 0
        BY <3>1, FS_EmptySet DEF Frame
      <3>2. CASE Cardinality(roster) = 1
        BY <3>2, FS_Singleton DEF Frame
      <3>. QED
        BY <2>1, <3>1, <3>2
    <2>. QED
      BY <1>1, <2>2
  <1>6. crypto'[m].group = crypto[m].group
    <2>1. CASE roster = {}
      BY <1>1, <1>2, <2>1, NewSingleEpochType
    <2>. QED
      BY <1>1, <2>1
  <1>7. ASSUME NEW j \in roster' \ entered' PROVE OnTheWayIn(j)'
    <2>1. j = m
      BY <1>1, <1>2, <1>7
    <2>2. crypto[m] = NewPendingEpoch(crypto[m].group, m)
      BY <1>1 DEF Frame
    <2>3. crypto'[m] = IF entered = {} THEN NewSingleEpoch(crypto[m].group, m)
                                       ELSE NewPendingEpoch(crypto[m].group, m)
      BY <1>1, <1>2, <2>2
    <2>. QED
      BY <1>1, <1>2, <1>6, <2>1, <2>3 DEF OnTheWayIn, Quiescent
  <1>8. \A n \in Members \ (roster \cup left)' : (crypto[n] = NewPendingEpoch(crypto[n].group, n))'
    BY <1>1, <1>3 DEF Frame
  <1>9. \A n \in Members : (KeysOwn(n, crypto[n]) /\ queued[n] = {})'
    <2>1. KeysOwn(m, crypto'[m])
      BY <1>1, <1>2, StartKeys DEF Frame
    <2>. QED
      BY <1>1, <1>3, <2>1 DEF Frame
  <1>. QED
    BY <1>1, <1>4, <1>5, <1>7, <1>8, <1>9 DEF Frame

LEMMA EnterFrame ==
  ASSUME Inv, Orderly, Frame, NEW j \in Members, Enter(j)
  PROVE  Frame'
  <1>. DEFINE a == LocalKeyAnnounce(crypto[j])
  <1>1. /\ j \in roster \ entered /\ entered' = entered \cup {j}
        /\ inbox' = Broadcast(entered', ListOf(roster))
        /\ outbox' = [outbox EXCEPT ![j] = <<a>>]
        /\ UNCHANGED <<roster, left, crypto, queued, due>>
    BY DEF Enter
  <1>2. /\ crypto \in [Members -> CryptoStates]
        /\ inbox \in [Members -> Seq(Messages)] /\ outbox \in [Members -> Seq(Messages)]
        /\ entered \subseteq Members /\ roster \subseteq Members
    BY DEF Inv, TypeOK
  <1>3. roster = entered \cup {j}
    BY <1>1 DEF Frame, OnTheWayIn
  <1>4. \A n \in Members : inbox[n] = <<>> /\ outbox[n] = <<>> /\ ~due[n]
    BY <1>1 DEF Frame, OnTheWayIn
  <1>5. \A n \in Members :
          inbox'[n] = IF n \in roster THEN Append(<<>>, ListOf(roster)) ELSE <<>>
    BY <1>1, <1>3, <1>4 DEF Broadcast
  <1>6. a \in Messages /\ a.kind = "announce"
    BY <1>2, CallTypes
  <1>. HIDE DEF a
  <1>7. \A n \in Members : outbox'[n] = IF n = j THEN <<a>> ELSE <<>>
    BY <1>1, <1>2, <1>4
  <1>8. (IsFiniteSet(roster) /\ FewSeats)'
    BY <1>1 DEF Frame, FewSeats
  <1>9. \A n \in Members : (KeysOwn(n, crypto[n]) /\ queued[n] = {})'
    BY <1>1 DEF Frame
  <1>10. \A n \in Members \ (roster \cup left)' : (crypto[n] = NewPendingEpoch(crypto[n].group, n))'
    BY <1>1 DEF Frame
  <1>11. \A n \in Members \ entered' : inbox'[n] = <<>> /\ outbox'[n] = <<>> /\ ~due'[n]
    BY <1>1, <1>3, <1>4, <1>5, <1>7
  <1>12. ASSUME NEW n \in Members PROVE ListsLead(inbox'[n])
    <2>1. CASE n \in roster
      <3>1. <<>> \in Seq(Messages)
        OBVIOUS
      <3>2. ListsLead(Append(<<>>, ListOf(roster)))
        BY <1>2, <3>1, ListComes
      <3>. QED
        BY <1>5, <2>1, <3>2
    <2>2. CASE n \notin roster
      BY <1>5, <2>2 DEF ListsLead
    <2>. QED
      BY <2>1, <2>2
  <1>13. \A n \in Members : \A i \in DOMAIN outbox'[n] : outbox'[n][i].kind # "list"
    <2>1. DOMAIN <<a>> = {1} /\ <<a>>[1] = a
      OBVIOUS
    <2>. QED
      BY <1>6, <1>7, <2>1
  <1>14. \A n, o \in Members : outbox'[n] # <<>> /\ outbox'[o] # <<>> => n = o
    BY <1>7
  <1>. QED
    BY <1>1, <1>3, <1>4, <1>8, <1>9, <1>10, <1>11, <1>12, <1>13, <1>14 DEF Frame

LEMMA LeaveFrame ==
  ASSUME Inv, Orderly, Frame, NEW j \in Members, Leave(j)
  PROVE  Frame'
  <1>1. /\ j \in entered /\ entered' = entered \ {j} /\ roster' = roster \ {j}
        /\ left' = left \cup {j}
        /\ inbox' = [Broadcast(entered', ListOf(roster')) EXCEPT ![j] = <<>>]
        /\ outbox' = [outbox EXCEPT ![j] = <<>>]
        /\ queued' = [queued EXCEPT ![j] = {}]
        /\ due' = [due EXCEPT ![j] = FALSE]
        /\ crypto' = crypto
        /\ Quiescent
    BY DEF Leave, MayChange, Orderly
  <1>2. /\ queued \in [Members -> SUBSET Kept] /\ due \in [Members -> BOOLEAN]
        /\ inbox \in [Members -> Seq(Messages)] /\ outbox \in [Members -> Seq(Messages)]
        /\ entered \subseteq Members /\ roster = entered
    BY <1>1 DEF Inv, TypeOK, Quiescent
  <1>3. \A n \in Members : inbox[n] = <<>> /\ outbox[n] = <<>> /\ ~due[n]
    BY <1>1 DEF Frame, Quiescent
  <1>4. \A n \in Members :
          inbox'[n] = IF n \in entered \ {j} THEN Append(<<>>, ListOf(entered \ {j})) ELSE <<>>
    BY <1>1, <1>2, <1>3 DEF Broadcast
  <1>5. \A n \in Members : outbox'[n] = <<>> /\ ~due'[n]
    BY <1>1, <1>2, <1>3
  <1>6. IsFiniteSet(roster')
    BY <1>1, FS_Subset DEF Frame
  <1>7. FewSeats'
    BY <1>1 DEF Frame, FewSeats
  <1>8. roster' \ entered' = {}
    BY <1>1, <1>2
  <1>9. \A n \in Members : (KeysOwn(n, crypto[n]) /\ queued[n] = {})'
    BY <1>1, <1>2 DEF Frame
  <1>10. \A n \in Members \ (roster \cup left)' : (crypto[n] = NewPendingEpoch(crypto[n].group, n))'
    BY <1>1 DEF Frame
  <1>11. \A n \in Members \ entered' : inbox'[n] = <<>>
    BY <1>1, <1>4
  <1>12. ASSUME NEW n \in Members PROVE ListsLead(inbox'[n])
    <2>1. CASE n \in entered \ {j}
      <3>1. entered \ {j} \in SUBSET Members /\ <<>> \in Seq(Messages)
        BY <1>2
      <3>2. ListsLead(Append(<<>>, ListOf(entered \ {j})))
        BY <3>1, ListComes
      <3>. QED
        BY <1>4, <2>1, <3>2
    <2>2. CASE n \notin entered \ {j}
      BY <1>4, <2>2 DEF ListsLead
    <2>. QED
      BY <2>1, <2>2
  <1>. QED
    BY <1>5, <1>6, <1>7, <1>8, <1>9, <1>10, <1>11, <1>12 DEF Frame

-----------------------------------------------------------------------------
(* The empty room, each step, and what follows where all is handled. *)
LEMMA OrderlyInit ==
  ASSUME Members # {}, Init
  PROVE  OrderlyInv
  <1>1. PICK g \in GroupIds : crypto = [m \in Members |-> NewPendingEpoch(g, m)]
    BY DEF Init
  <1>2. /\ roster = {} /\ entered = {} /\ left = {}
        /\ \A m \in Members : /\ inbox[m] = <<>> /\ outbox[m] = <<>> /\ ~due[m]
                              /\ queued[m] = {}
    BY DEF Init
  <1>3. \A m \in Members : /\ crypto[m] = NewPendingEpoch(crypto[m].group, m)
                           /\ KeysOwn(m, crypto[m])
    BY <1>1, NewPendingEpochType, StartKeys
  <1>4. IsFiniteSet(roster)
    BY <1>2, FS_EmptySet
  <1>5. \A m \in Members : /\ ListsLead(inbox[m])
                           /\ \A i \in DOMAIN outbox[m] : outbox[m][i].kind # "list"
    <2>1. DOMAIN <<>> = {}
      OBVIOUS
    <2>. QED
      BY <1>2, <2>1 DEF ListsLead
  <1>6. Frame
    BY <1>2, <1>3, <1>4, <1>5 DEF Frame, FewSeats
  <1>7. Phase(Views, Lines, Stirred, entered)
    <2>1. \E e \in Nat, x \in Secrets : TRUE
      <3>1. PICK m \in Members : TRUE
        OBVIOUS
      <3>2. 0 \in Nat /\ [by |-> m, draw |-> 0] \in Secrets
        BY DEF Secrets
      <3>. QED
        BY <3>2
    <2>2. KeysCurrent(Views, Lines, Stirred, {})
      BY DEF KeysCurrent
    <2>. QED
      BY <1>2, <2>1, <2>2 DEF Phase, Closing
  <1>. QED
    BY <1>6, <1>7 DEF OrderlyInv

LEMMA OrderlyNext ==
  ASSUME Ranked, Orderly, Inv, OrderlyInv, [Next]_vars
  PROVE  OrderlyInv'
  <1>1. Frame
    BY DEF OrderlyInv
  <1>2. ASSUME NEW m \in Members, Enroll(m) PROVE OrderlyInv'
    BY <1>1, <1>2, EnrollFrame, EnrollPhase DEF OrderlyInv
  <1>3. ASSUME NEW m \in Members, Enter(m) PROVE OrderlyInv'
    BY <1>1, <1>3, EnterFrame, EnterPhase DEF OrderlyInv
  <1>4. ASSUME NEW m \in Members, Leave(m) PROVE OrderlyInv'
    BY <1>1, <1>4, LeaveFrame, LeavePhase DEF OrderlyInv
  <1>5. ASSUME NEW m \in Members, Receive(m) PROVE OrderlyInv'
    BY <1>5, ReceiveFrame, ReceivePhase DEF OrderlyInv
  <1>6. ASSUME NEW m \in Members, Trigger(m) PROVE OrderlyInv'
    BY <1>1, <1>6, TriggerFrame, TriggerPhase DEF OrderlyInv
  <1>7. ASSUME NEW m \in Members, Transmit(m) PROVE OrderlyInv'
    BY <1>1, <1>7, TransmitFrame, TransmitPhase DEF OrderlyInv
  <1>8. CASE UNCHANGED vars
    <2>1. UNCHANGED <<roster, entered, left, crypto, queued, due, inbox, outbox>>
      BY <1>8 DEF vars, serverVars
    <2>2. Views' = Views /\ Lines' = Lines /\ Stirred' = Stirred
      BY <2>1 DEF Views, Lines, Stirred
    <2>3. Frame'
      BY <1>1, <2>1 DEF Frame, FewSeats, OnTheWayIn
    <2>. QED
      BY <2>1, <2>2, <2>3 DEF OrderlyInv
  <1>. QED
    BY <1>2, <1>3, <1>4, <1>5, <1>6, <1>7, <1>8 DEF Next

LEMMA OrderlyActivates == Inv /\ OrderlyInv => EveryMemberActivates
  <1>. SUFFICES ASSUME Inv, OrderlyInv, Quiescent PROVE Agreed
    BY DEF EveryMemberActivates
  <1>1. Frame /\ Phase(Views, Lines, Stirred, entered)
    BY DEF OrderlyInv
  <1>2. Crew(Views, Lines, Stirred, entered)
    BY <1>1, CrewNow
  <1>3. /\ entered \subseteq Members /\ roster = entered
        /\ \A m \in Members : inbox[m] = <<>> /\ outbox[m] = <<>> /\ ~due[m]
    BY <1>1 DEF Inv, TypeOK, Quiescent, Frame
  <1>4. ASSUME NEW m \in entered
        PROVE  Views[m] = crypto[m] /\ ~Stirred[m] /\ Lines[m] = <<>>
    <2>1. Unsent(outbox, m) = <<>>
      BY <1>3, NoneUnsent
    <2>2. inbox[m] = <<>> /\ <<>> \o <<>> = <<>>
      BY <1>3
    <2>. QED
      BY <1>3, <2>1, <2>2 DEF Views, Viewed, Stirred, Lines, Ahead, ListFirst
  <1>5. PICK e \in Nat, x \in Secrets : \A m \in entered : Reached(Views[m], Lines[m], entered, e, x)
    BY <1>1, <1>2, <1>4, Settled
  <1>6. \A m \in entered : crypto[m].me = m
    BY <1>3 DEF Inv, Identities
  <1>7. \A m \in entered : /\ crypto[m].secret = {x} /\ crypto[m].epoch = e
                           /\ crypto[m].recv = entered \ {m}
    BY <1>4, <1>5, <1>6 DEF Reached
  <1>. QED
    BY <1>3, <1>7 DEF Agreed, Active

(* In a room that changes one member at a time, of two members at most or  *)
(* of clients that drain before they trigger and send at once, nobody is   *)
(* left behind: when all is handled, all members are in one epoch with one *)
(* secret and read each other.                                             *)
THEOREM MembersActivate ==
  ASSUME Ranked, Orderly
  PROVE  Spec => []EveryMemberActivates
  <1>1. CASE Members = {}
    <2>1. Inv => EveryMemberActivates
      BY <1>1 DEF Inv, TypeOK, EveryMemberActivates, Agreed
    <2>. QED
      BY <2>1, Invariance, PTL
  <1>2. CASE Members # {}
    <2>1. Init => OrderlyInv
      BY <1>2, OrderlyInit
    <2>2. Inv /\ OrderlyInv /\ [Next]_vars => OrderlyInv'
      BY OrderlyNext
    <2>3. Inv /\ OrderlyInv => EveryMemberActivates
      BY OrderlyActivates
    <2>. QED
      BY <2>1, <2>2, <2>3, Invariance, PTL DEF Spec
  <1>. QED
    BY <1>1, <1>2

-----------------------------------------------------------------------------
(* One secret of an epoch.                                                 *)

(* A list changes neither the epoch nor the secret. *)
LEMMA ViewedSecret ==
  ASSUME NEW s \in CryptoStates, NEW q
  PROVE  Viewed(s, q).epoch = s.epoch /\ Viewed(s, q).secret = s.secret
  BY DEF Viewed, ReplaceMembers, CryptoStates

LEMMA ViewedNow ==
  ASSUME Inv, NEW m \in entered
  PROVE  /\ Views[m].epoch = crypto[m].epoch /\ Views[m].secret = crypto[m].secret
         /\ crypto[m].epoch \in Nat
  <1>1. m \in Members /\ crypto[m] \in CryptoStates
    BY DEF Inv, TypeOK
  <1>. QED
    BY <1>1, ViewedSecret DEF Views, CryptoStates

(* A commit leads to the secret of those who are in its epoch already. *)
LEMMA CommitJoins ==
  ASSUME Inv, OrderlyInv, NEW m \in entered, inbox[m] # <<>>,
         Head(inbox[m]).kind = "commit", NEW n \in entered,
         Active(crypto[n]), crypto[n].epoch = Head(inbox[m]).epoch + 1
  PROVE  crypto[n].secret = {Head(inbox[m]).secret}
  <1>1. /\ inbox \in [Members -> Seq(Messages)] /\ outbox \in [Members -> Seq(Messages)]
        /\ m \in Members /\ n \in Members
    BY DEF Inv, TypeOK
  <1>2. Frame /\ Phase(Views, Lines, Stirred, entered)
    BY DEF OrderlyInv
  <1>3. Crew(Views, Lines, Stirred, entered)
    BY <1>2, CrewNow
  <1>4. ~ListFirst(inbox[m])
    BY DEF ListFirst
  <1>5. /\ inbox[m] \in Seq(Messages) /\ Unsent(outbox, m) \in Seq(Messages)
        /\ ListsLead(inbox[m])
    BY <1>1, <1>2, UnsentType DEF Frame
  <1>6. Ahead(inbox[m], Unsent(outbox, m)) # <<>>
        /\ Head(Ahead(inbox[m], Unsent(outbox, m))) = Head(inbox[m])
    BY <1>4, <1>5, AheadDrained, NoListNext
  <1>7. Lines[m] # <<>> /\ Head(Lines[m]) = Head(inbox[m])
    BY <1>1, <1>6 DEF Lines
  <1>8. Closing(Views, Lines, Stirred, entered) /\ ~Calm(Lines[m])
    BY <1>2, <1>3, <1>7, CommitsWelcome
  <1>9. PICK e \in Nat, x \in Secrets :
          \A o \in entered : \/ Reached(Views[o], Lines[o], entered, e, x)
                             \/ Awaits(Views[o], Lines[o], entered, e, x)
    BY <1>8 DEF Closing
  <1>10. Head(inbox[m]).epoch + 1 = e /\ Head(inbox[m]).secret = x
    <2>1. Awaits(Views[m], Lines[m], entered, e, x)
      BY <1>8, <1>9 DEF Reached
    <2>2. Head(Lines[m]).epoch + 1 = e /\ Head(Lines[m]).secret = x
      BY <1>3, <1>7, <2>1, CommitAwaited
    <2>. QED
      BY <1>7, <2>2
  <1>11. ~Awaits(Views[n], Lines[n], entered, e, x)
    <2>. SUFFICES ASSUME Awaits(Views[n], Lines[n], entered, e, x) PROVE FALSE
      OBVIOUS
    <2>1. PICK k \in DOMAIN Lines[n] :
            Lines[n][k].kind = "commit" /\ Lines[n][k].epoch + 1 = e /\ Accepts(Views[n], Lines[n][k])
      BY DEF Awaits
    <2>2. Lines[n][k].epoch \in Nat
      <3>1. Lines[n] \in Seq(Messages)
        BY <1>1, <1>3 DEF Crew
      <3>2. Lines[n][k] \in Messages
        BY <3>1
      <3>. QED
        BY <2>1, <3>2, KindsApart DEF Commits
    <2>3. Lines[n][k].epoch = Views[n].epoch \/ Views[n].epoch < Lines[n][k].epoch
      BY <2>1 DEF Accepts, CanAcceptFromLaterEpoch
    <2>4. Views[n].epoch = e /\ Views[n].epoch \in Nat
      BY <1>10, ViewedNow
    <2>. QED
      BY <2>1, <2>2, <2>3, <2>4
  <1>12. Views[n].secret = {x}
    BY <1>9, <1>11 DEF Reached
  <1>. QED
    BY <1>10, <1>12, ViewedNow

(* Who proposes goes to an epoch nobody is in yet. *)
LEMMA ProposerAhead ==
  ASSUME Inv, OrderlyInv, NEW m \in entered, due[m], NEW t \in crypto[m].pending,
         CanBuild(crypto[m], t), NEW n \in entered, Active(crypto[n])
  PROVE  crypto[n].epoch # crypto[m].epoch + 1
  <1>1. Frame /\ Phase(Views, Lines, Stirred, entered)
    BY DEF OrderlyInv
  <1>2. Views[m] = crypto[m]
    BY <1>1 DEF Inv, TypeOK, Frame, Views, Viewed
  <1>3. OnTurn(Views[m]) /\ Views[m].pending # {}
    BY <1>2 DEF CanBuild, OnTurn
  <1>4. ~Closing(Views, Lines, Stirred, entered)
    BY <1>3 DEF Closing, Reached, Awaits
  <1>5. PICK o \in Transitions : Opening(Views, Lines, Stirred, entered, o)
    BY <1>1, <1>4 DEF Phase
  <1>6. PICK e \in Nat : \A k \in entered : Active(Views[k]) => Views[k].epoch = e
    BY <1>5 DEF Opening
  <1>7. Active(Views[m]) /\ Active(Views[n])
    BY <1>3, ViewedNow DEF OnTurn, Active
  <1>8. crypto[m].epoch = e /\ crypto[n].epoch = e
    BY <1>6, <1>7, ViewedNow
  <1>. QED
    BY <1>8

(* One client takes a step: it stays in its epoch, or comes to where those *)
(* who are there have its secret.                                          *)
LEMMA SecretStep ==
  ASSUME Inv, OneSecretPerEpoch, NEW m \in entered, NEW u \in CryptoStates,
         entered' = entered, crypto' = [crypto EXCEPT ![m] = u],
         \/ u.epoch = crypto[m].epoch /\ u.secret = crypto[m].secret
         \/ \A n \in entered \ {m} :
              Active(crypto[n]) /\ crypto[n].epoch = u.epoch => crypto[n].secret = u.secret
  PROVE  OneSecretPerEpoch'
  <1>1. crypto \in [Members -> CryptoStates] /\ entered \subseteq Members
    BY DEF Inv, TypeOK
  <1>2. crypto'[m] = u /\ \A n \in entered \ {m} : crypto'[n] = crypto[n]
    BY <1>1
  <1>3. SUFFICES ASSUME NEW a \in entered, NEW b \in entered,
                        Active(crypto'[a]), Active(crypto'[b]),
                        crypto'[a].epoch = crypto'[b].epoch
                 PROVE  crypto'[a].secret = crypto'[b].secret
    BY DEF OneSecretPerEpoch
  <1>4. \A p, n \in entered :
          Active(crypto[p]) /\ Active(crypto[n]) /\ crypto[p].epoch = crypto[n].epoch
          => crypto[p].secret = crypto[n].secret
    BY DEF OneSecretPerEpoch
  <1>. QED
    BY <1>2, <1>3, <1>4 DEF Active

(* Each step keeps one secret to an epoch. *)
LEMMA ReceiveSecret ==
  ASSUME Inv, OrderlyInv, OneSecretPerEpoch, NEW m \in Members, Receive(m)
  PROVE  OneSecretPerEpoch'
  <1>. DEFINE msg == Head(inbox[m])
  <1>1. /\ m \in entered /\ inbox[m] # <<>> /\ entered' = entered
        /\ ReceiveList(m, msg) \/ ReceiveAnnounce(m, msg) \/ ReceiveCommit(m, msg)
    BY DEF Receive, serverVars
  <1>2. /\ crypto \in [Members -> CryptoStates] /\ crypto[m] \in CryptoStates
        /\ inbox[m] \in Seq(Messages)
    BY DEF Inv, TypeOK
  <1>3. msg \in Messages
    BY <1>1, <1>2
  <1>4. queued[m] = {} /\ RosterOK(crypto[m])
    BY DEF Inv, OrderlyInv, Frame
  <1>5. ASSUME NEW s \in CryptoStates, Retry(m, s)
        PROVE  crypto' = [crypto EXCEPT ![m] = s]
    BY <1>4, <1>5 DEF Retry
  <1>6. CASE ReceiveList(m, msg)
    <2>1. msg.members \in SUBSET Members
      BY <1>3, <1>6, KindsApart DEF ReceiveList, Lists
    <2>. DEFINE u == ReplaceMembers(crypto[m], msg.members)
    <2>2. u \in CryptoStates
      BY <1>2, <1>4, <2>1, ReplaceMembersType
    <2>3. u.epoch = crypto[m].epoch /\ u.secret = crypto[m].secret
      BY <1>2, <1>4, <2>1, ReplaceMembersType DEF Stays
    <2>4. crypto' = [crypto EXCEPT ![m] = u]
      BY <1>5, <1>6, <2>2 DEF ReceiveList
    <2>. QED
      BY <1>1, <2>2, <2>3, <2>4, SecretStep
  <1>7. CASE ReceiveAnnounce(m, msg)
    <2>1. msg \in Announces
      BY <1>3, <1>7, KindsApart DEF ReceiveAnnounce
    <2>. DEFINE u == ApplyKeyAnnounce(crypto[m], msg)
    <2>2. u \in CryptoStates /\ u.epoch = crypto[m].epoch /\ u.secret = crypto[m].secret
      BY <1>2, <2>1, LearnedKey
    <2>3. crypto' = [crypto EXCEPT ![m] = u]
      BY <1>5, <1>7, <2>2 DEF ReceiveAnnounce
    <2>. QED
      BY <1>1, <2>2, <2>3, SecretStep
  <1>8. CASE ReceiveCommit(m, msg)
    <2>1. msg.kind = "commit"
      BY <1>8 DEF ReceiveCommit
    <2>2. msg \in Commits
      BY <1>3, <2>1, KindsApart
    <2>. DEFINE u == ApplyEpochCommit(crypto[m], msg)
    <2>3. Accepts(crypto[m], msg) /\ ~Ignores(crypto[m], msg)
      BY <1>1, <2>1, CommitTaken
    <2>4. crypto' = [crypto EXCEPT ![m] = u]
      BY <1>8, <2>3 DEF ReceiveCommit
    <2>5. u \in CryptoStates /\ u.epoch = msg.epoch + 1 /\ u.secret = {msg.secret}
      BY <1>2, <2>2, EnteredEpoch
    <2>6. \A n \in entered \ {m} :
            Active(crypto[n]) /\ crypto[n].epoch = u.epoch => crypto[n].secret = u.secret
      BY <1>1, <2>1, <2>5, CommitJoins
    <2>. QED
      BY <1>1, <2>4, <2>5, <2>6, SecretStep
  <1>. QED
    BY <1>1, <1>6, <1>7, <1>8

LEMMA TriggerSecret ==
  ASSUME Inv, OrderlyInv, OneSecretPerEpoch, NEW m \in Members, Trigger(m)
  PROVE  OneSecretPerEpoch'
  <1>1. /\ m \in entered /\ due[m] /\ entered' = entered
        /\ Announce(m) \/ \E t \in crypto[m].pending : Propose(m, t)
    BY DEF Trigger, serverVars
  <1>2. /\ crypto \in [Members -> CryptoStates] /\ crypto[m] \in CryptoStates
        /\ drawn \in [Members -> Nat]
    BY DEF Inv, TypeOK
  <1>3. CASE Announce(m)
    BY <1>1, <1>3 DEF Announce, OneSecretPerEpoch
  <1>4. ASSUME NEW t \in crypto[m].pending, Propose(m, t)
        PROVE  OneSecretPerEpoch'
    <2>. DEFINE x == Drawn(m)
                c == BuildCommit(crypto[m], t, x)
                u == ApplyEpochCommit(crypto[m], c)
    <2>1. CanBuild(crypto[m], t) /\ crypto' = [crypto EXCEPT ![m] = u]
      BY <1>4 DEF Propose
    <2>2. x \in Secrets
      BY <1>2 DEF Drawn, Secrets
    <2>3. t \in Transitions
      BY <1>2 DEF CryptoStates
    <2>. HIDE DEF x
    <2>4. c \in Commits /\ c.epoch = crypto[m].epoch
      BY <1>2, <2>2, <2>3, ProposalTypes
    <2>. HIDE DEF c
    <2>5. u \in CryptoStates /\ u.epoch = crypto[m].epoch + 1
      BY <1>2, <2>4, EnteredEpoch
    <2>. HIDE DEF u
    <2>6. \A n \in entered : Active(crypto[n]) => crypto[n].epoch # u.epoch
      BY <1>1, <2>1, <2>5, ProposerAhead
    <2>. QED
      BY <1>1, <2>1, <2>5, <2>6, SecretStep
  <1>. QED
    BY <1>1, <1>3, <1>4

LEMMA SecretNext ==
  ASSUME Inv, OrderlyInv, OneSecretPerEpoch, [Next]_vars
  PROVE  OneSecretPerEpoch'
  <1>1. /\ crypto \in [Members -> CryptoStates] /\ entered \subseteq roster
        /\ roster \subseteq Members
    BY DEF Inv, TypeOK
  <1>2. ASSUME entered' \subseteq entered, \A n \in entered : crypto'[n] = crypto[n]
        PROVE  OneSecretPerEpoch'
    BY <1>2 DEF OneSecretPerEpoch, Active
  <1>3. ASSUME NEW m \in Members, Enroll(m) PROVE OneSecretPerEpoch'
    <2>1. entered' = entered /\ m \notin entered
      BY <1>1, <1>3 DEF Enroll
    <2>2. \A n \in Members \ {m} : crypto'[n] = crypto[n]
      BY <1>1, <1>3 DEF Enroll
    <2>. QED
      BY <1>1, <1>2, <2>1, <2>2
  <1>4. ASSUME NEW j \in Members, Enter(j) PROVE OneSecretPerEpoch'
    <2>1. entered' = entered \cup {j} /\ crypto' = crypto /\ OnTheWayIn(j)
      BY <1>4 DEF Enter, OrderlyInv, Frame
    <2>2. CASE entered = {}
      BY <2>1, <2>2 DEF OneSecretPerEpoch
    <2>3. CASE entered # {}
      <3>1. crypto[j].group \in GroupIds
        BY <1>1 DEF CryptoStates
      <3>2. ~Active(crypto[j])
        BY <2>1, <2>3, <3>1, NewPendingEpochType DEF OnTheWayIn, Active
      <3>. QED
        BY <2>1, <3>2 DEF OneSecretPerEpoch
    <2>. QED
      BY <2>2, <2>3
  <1>5. ASSUME NEW m \in Members, Leave(m) PROVE OneSecretPerEpoch'
    BY <1>2, <1>5 DEF Leave
  <1>6. ASSUME NEW m \in Members, Receive(m) PROVE OneSecretPerEpoch'
    BY <1>6, ReceiveSecret
  <1>7. ASSUME NEW m \in Members, Trigger(m) PROVE OneSecretPerEpoch'
    BY <1>7, TriggerSecret
  <1>8. ASSUME NEW m \in Members, Transmit(m) PROVE OneSecretPerEpoch'
    BY <1>2, <1>8 DEF Transmit, serverVars
  <1>9. CASE UNCHANGED vars
    BY <1>2, <1>9 DEF vars, serverVars
  <1>. QED
    BY <1>3, <1>4, <1>5, <1>6, <1>7, <1>8, <1>9 DEF Next

(* Under the same conditions members who are in one epoch hold one secret, *)
(* while a rekey is under way too: the group does not fall apart into two  *)
(* that count the same epochs.                                             *)
THEOREM OneSecretAnEpoch ==
  ASSUME Ranked, Orderly
  PROVE  Spec => []OneSecretPerEpoch
  <1>1. CASE Members = {}
    <2>1. Inv => OneSecretPerEpoch
      BY <1>1 DEF Inv, TypeOK, OneSecretPerEpoch
    <2>. QED
      BY <2>1, Invariance, PTL
  <1>2. CASE Members # {}
    <2>1. Init => OrderlyInv /\ OneSecretPerEpoch
      BY <1>2, OrderlyInit DEF Init, OneSecretPerEpoch
    <2>2. Inv /\ OrderlyInv /\ OneSecretPerEpoch /\ [Next]_vars
          => OrderlyInv' /\ OneSecretPerEpoch'
      BY OrderlyNext, SecretNext
    <2>. QED
      BY <2>1, <2>2, Invariance, PTL DEF Spec
  <1>. QED
    BY <1>1, <1>2

-----------------------------------------------------------------------------
(* The rekeys as moves of the whole room.                                  *)

(* The secret of client s was drawn for those it lists, or for those who   *)
(* were there before the change it knows of.                               *)
NamedOf(s, C) ==
  \A x \in s.secret :
    /\ s.pending = {} => RosterOf(x, C) = s.members
    /\ \A t \in s.pending : RosterOf(x, C) = t.old

RostersNamed == \A m \in entered : NamedOf(Views[m], issued)

(* A commit tells whom its secret was drawn for, and only that of its own. *)
LEMMA RosterIssued ==
  ASSUME NEW C, NEW c \in C, c.secret.draw # 0,
         \A d \in C : d.secret = c.secret => d = c
  PROVE  RosterOf(c.secret, C) = c.new
  <1>1. {d \in C : d.secret = c.secret} = {c}
    OBVIOUS
  <1>2. UNION {d.new : d \in {c}} = c.new
    OBVIOUS
  <1>. QED
    BY <1>1, <1>2 DEF RosterOf

LEMMA RosterKept ==
  ASSUME NEW C, NEW c, NEW x, x # c.secret
  PROVE  RosterOf(x, C \cup {c}) = RosterOf(x, C)
  <1>1. {d \in C \cup {c} : d.secret = x} = {d \in C : d.secret = x}
    OBVIOUS
  <1>. QED
    BY <1>1 DEF RosterOf

LEMMA IssuedNames ==
  ASSUME Inv, NEW c \in issued
  PROVE  /\ RosterOf(c.secret, issued) = c.new
         /\ c.epoch \in Nat /\ c.secret \in Secrets /\ c.secret.draw # 0
  <1>1. /\ c \in Commits /\ drawn \in [Members -> Nat]
        /\ IssuedOK(c) /\ \A d \in issued : d.secret = c.secret => d = c
    BY DEF Inv, TypeOK
  <1>2. c.epoch \in Nat /\ c.secret \in Secrets /\ c.by \in Members
    BY <1>1 DEF Commits
  <1>3. c.secret.draw # 0
    BY <1>1, <1>2 DEF IssuedOK
  <1>. QED
    BY <1>1, <1>2, <1>3, RosterIssued

(* Nobody has the secret a client is about to draw. *)
LEMMA DrawnFresh ==
  ASSUME Inv, NEW m \in Members
  PROVE  /\ Drawn(m) \in Secrets /\ Drawn(m).draw # 0
         /\ \A c \in issued : c.secret # Drawn(m)
         /\ \A n \in Members : \A x \in crypto[n].secret : x # Drawn(m)
  <1>1. drawn[m] \in Nat /\ Drawn(m) = [by |-> m, draw |-> drawn[m] + 1]
    BY DEF Inv, TypeOK, Drawn
  <1>2. Drawn(m) \in Secrets /\ Drawn(m).draw # 0
    BY <1>1 DEF Secrets
  <1>3. ASSUME NEW c \in issued PROVE c.secret # Drawn(m)
    <2>1. c.secret.by = c.by /\ c.secret.draw \in 1 .. drawn[c.by]
      BY DEF Inv, IssuedOK
    <2>2. Drawn(m).by = m /\ Drawn(m).draw = drawn[m] + 1
      BY <1>1
    <2>. QED
      BY <1>1, <2>1, <2>2
  <1>4. ASSUME NEW n \in Members, NEW x \in crypto[n].secret PROVE x # Drawn(m)
    <2>1. \/ x = [by |-> n, draw |-> 0]
          \/ \E c \in issued : c.secret = x
      BY DEF Inv, HeldOK, Opened
    <2>. QED
      BY <1>2, <1>3, <2>1
  <1>. QED
    BY <1>2, <1>3, <1>4

(* Where nothing is left to do, all are in one epoch opened for them. *)
LEMMA Gathered ==
  ASSUME Inv, OrderlyInv, RostersNamed,
         \A m \in Members : inbox[m] = <<>> /\ outbox[m] = <<>> /\ ~due[m]
  PROVE  \E e \in Nat, x \in Secrets : \A m \in entered :
           /\ Views[m] = crypto[m]
           /\ crypto[m].secret = {x} /\ crypto[m].epoch = e
           /\ crypto[m].members = entered /\ crypto[m].pending = {}
           /\ RosterOf(x, issued) = entered
  <1>1. Frame /\ Phase(Views, Lines, Stirred, entered) /\ entered \subseteq Members
    BY DEF OrderlyInv, Inv, TypeOK
  <1>2. Crew(Views, Lines, Stirred, entered)
    BY <1>1, CrewNow
  <1>3. ASSUME NEW m \in entered
        PROVE  Views[m] = crypto[m] /\ ~Stirred[m] /\ Lines[m] = <<>>
    <2>1. Unsent(outbox, m) = <<>>
      BY NoneUnsent
    <2>2. inbox[m] = <<>> /\ <<>> \o <<>> = <<>>
      BY <1>1
    <2>. QED
      BY <1>1, <2>1, <2>2 DEF Views, Viewed, Stirred, Lines, Ahead, ListFirst
  <1>4. PICK e \in Nat, x \in Secrets : \A m \in entered : Reached(Views[m], Lines[m], entered, e, x)
    BY <1>1, <1>2, <1>3, Settled
  <1>5. \A m \in entered : /\ Views[m] = crypto[m]
                           /\ crypto[m].secret = {x} /\ crypto[m].epoch = e
                           /\ crypto[m].members = entered /\ crypto[m].pending = {}
    BY <1>3, <1>4 DEF Reached
  <1>6. ASSUME NEW m \in entered PROVE RosterOf(x, issued) = entered
    BY <1>5 DEF RostersNamed, NamedOf
  <1>. QED
    BY <1>5, <1>6

(* The secrets of others are those of the same rosters as before. *)
LEMMA NamedStays ==
  ASSUME NEW s, NEW u, NEW C, NamedOf(s, C),
         u.secret = s.secret, u.pending = s.pending, u.members = s.members
  PROVE  NamedOf(u, C)
  BY DEF NamedOf

LEMMA NamedAdded ==
  ASSUME NEW s, NEW C, NEW c, NamedOf(s, C), \A x \in s.secret : x # c.secret
  PROVE  NamedOf(s, C \cup {c})
  BY RosterKept DEF NamedOf

LEMMA NamedChange ==
  ASSUME NEW s, NEW C, NEW x, NEW R, s.secret = {x}, RosterOf(x, C) = R,
         NEW t, s.pending = {t}, t.old = R
  PROVE  NamedOf(s, C)
  BY DEF NamedOf

(* Each step keeps it: where no client it concerns changes. *)
LEMMA NamedWithout ==
  ASSUME RostersNamed, issued' = issued, entered' \subseteq entered,
         \A n \in entered' : Views'[n] = Views[n]
  PROVE  RostersNamed'
  BY DEF RostersNamed

(* One client changes. *)
LEMMA NamedStep ==
  ASSUME Inv, RostersNamed, NEW m \in entered, NEW u, NamedOf(u, issued'),
         entered' = entered, Views'[m] = u,
         \A n \in entered \ {m} : Views'[n] = Views[n] /\ NamedOf(Views[n], issued')
  PROVE  RostersNamed'
  BY DEF RostersNamed

(* A relayed line is no list. *)
LEMMA TransmitViews ==
  ASSUME Inv, OrderlyInv, NEW m \in Members, Transmit(m), NEW n \in entered
  PROVE  Views'[n] = Views[n]
  <1>1. /\ m \in entered /\ outbox[m] # <<>>
        /\ inbox' = Broadcast(entered \ {m}, Head(outbox[m]))
        /\ crypto' = crypto
    BY DEF Transmit
  <1>2. /\ inbox \in [Members -> Seq(Messages)] /\ outbox \in [Members -> Seq(Messages)]
        /\ crypto \in [Members -> CryptoStates] /\ n \in Members
    BY DEF Inv, TypeOK
  <1>3. Head(outbox[m]).kind # "list"
    <2>1. Head(outbox[m]) = outbox[m][1] /\ 1 \in DOMAIN outbox[m]
      BY <1>1, <1>2, FirstTaken
    <2>. QED
      BY <2>1 DEF OrderlyInv, Frame
  <1>4. Views[n] = Viewed(crypto[n], inbox[n]) /\ Views'[n] = Viewed(crypto[n], inbox'[n])
    BY <1>1, <1>2 DEF Views
  <1>5. CASE n = m
    BY <1>1, <1>2, <1>4, <1>5 DEF Broadcast
  <1>6. CASE n # m
    <2>1. inbox'[n] = Append(inbox[n], Head(outbox[m]))
      BY <1>1, <1>2, <1>6 DEF Broadcast
    <2>2. inbox[n] \in Seq(Messages) /\ outbox[m] \in Seq(Messages) /\ crypto[n] \in CryptoStates
      BY <1>2
    <2>3. Viewed(crypto[n], Append(inbox[n], Head(outbox[m]))) = Viewed(crypto[n], inbox[n])
      BY <1>1, <1>3, <2>2, AheadSent
    <2>. QED
      BY <1>4, <2>1, <2>3
  <1>. QED
    BY <1>5, <1>6

(* What a drained line changes for its client: a list nothing more, an     *)
(* announce no secret, and a commit leads to the epoch it names.           *)
LEMMA Drained ==
  ASSUME Inv, OrderlyInv, NEW m \in Members, Receive(m)
  PROVE  /\ m \in entered /\ entered' = entered /\ issued' = issued
         /\ crypto' = [crypto EXCEPT ![m] = crypto'[m]]
         /\ \A n \in entered \ {m} : Views'[n] = Views[n]
         /\ \/ /\ crypto'[m].epoch = crypto[m].epoch /\ crypto'[m].secret = crypto[m].secret
               /\ Views'[m].secret = Views[m].secret
               /\ Views'[m].pending = Views[m].pending
               /\ Views'[m].members = Views[m].members
            \/ LET c == Head(inbox[m])
               IN /\ inbox[m] # <<>> /\ c \in issued /\ c.kind = "commit"
                  /\ Accepts(crypto[m], c)
                  /\ Views'[m] = crypto'[m]
                  /\ Enters(crypto[m], crypto'[m], c)
                  /\ crypto'[m].pending = {} /\ crypto[m].members = c.new
  <1>. DEFINE msg == Head(inbox[m])
  <1>1. /\ m \in entered /\ inbox[m] # <<>>
        /\ ReceiveList(m, msg) \/ ReceiveAnnounce(m, msg) \/ ReceiveCommit(m, msg)
        /\ inbox' = [inbox EXCEPT ![m] = Tail(@)]
        /\ entered' = entered /\ issued' = issued
    BY DEF Receive, serverVars
  <1>2. /\ crypto \in [Members -> CryptoStates] /\ crypto[m] \in CryptoStates
        /\ inbox \in [Members -> Seq(Messages)] /\ inbox[m] \in Seq(Messages)
        /\ entered \subseteq Members
    BY DEF Inv, TypeOK
  <1>3. msg \in Messages /\ (msg.kind = "commit" => msg \in issued)
    <2>1. msg = inbox[m][1] /\ 1 \in DOMAIN inbox[m] /\ msg \in Messages
      BY <1>1, <1>2, FirstTaken
    <2>. QED
      BY <2>1 DEF Inv, InFlightOK, Known
  <1>4. queued[m] = {} /\ RosterOK(crypto[m]) /\ ListsLead(inbox[m])
    BY DEF Inv, OrderlyInv, Frame
  <1>5. ASSUME NEW s, Retry(m, s) PROVE crypto' = [crypto EXCEPT ![m] = s]
    BY <1>4, <1>5 DEF Retry
  <1>6. /\ ~ListFirst(inbox'[m]) /\ \A n \in Members \ {m} : inbox'[n] = inbox[n]
    BY <1>1, <1>2, <1>4, NoListNext
  <1>7. Views'[m] = crypto'[m] /\ Views[m] = Viewed(crypto[m], inbox[m])
    BY <1>6 DEF Views, Viewed
  <1>8. ASSUME NEW u, crypto' = [crypto EXCEPT ![m] = u]
        PROVE  /\ crypto'[m] = u /\ crypto' = [crypto EXCEPT ![m] = crypto'[m]]
               /\ \A n \in entered \ {m} : Views'[n] = Views[n]
    <2>1. crypto'[m] = u /\ \A n \in Members \ {m} : crypto'[n] = crypto[n]
      BY <1>2, <1>8
    <2>. QED
      BY <1>2, <1>6, <1>8, <2>1 DEF Views
  <1>9. CASE ReceiveList(m, msg)
    <2>1. msg.kind = "list" /\ msg.members \in SUBSET Members
      BY <1>3, <1>9, KindsApart DEF ReceiveList, Lists
    <2>. DEFINE u == ReplaceMembers(crypto[m], msg.members)
    <2>2. crypto' = [crypto EXCEPT ![m] = u]
      BY <1>5, <1>9 DEF ReceiveList
    <2>3. u.epoch = crypto[m].epoch /\ u.secret = crypto[m].secret
      BY <1>2, <1>4, <2>1, ReplaceMembersType DEF Stays
    <2>4. Views[m] = u
      BY <1>1, <1>7, <2>1 DEF Viewed, ListFirst
    <2>. QED
      BY <1>1, <1>7, <1>8, <2>2, <2>3, <2>4
  <1>10. CASE ReceiveAnnounce(m, msg)
    <2>1. msg.kind = "announce" /\ msg \in Announces
      BY <1>3, <1>10, KindsApart DEF ReceiveAnnounce
    <2>. DEFINE u == ApplyKeyAnnounce(crypto[m], msg)
    <2>2. crypto' = [crypto EXCEPT ![m] = u]
      BY <1>5, <1>10 DEF ReceiveAnnounce
    <2>3. /\ u.epoch = crypto[m].epoch /\ u.secret = crypto[m].secret
          /\ u.members = crypto[m].members /\ u.pending = crypto[m].pending
      BY <1>2, <2>1, LearnedKey
    <2>4. Views[m] = crypto[m]
      BY <1>7, <2>1 DEF Viewed, ListFirst
    <2>. QED
      BY <1>1, <1>7, <1>8, <2>2, <2>3, <2>4
  <1>11. CASE ReceiveCommit(m, msg)
    <2>1. msg.kind = "commit" /\ msg \in Commits
      BY <1>3, <1>11, KindsApart DEF ReceiveCommit
    <2>. DEFINE u == ApplyEpochCommit(crypto[m], msg)
    <2>2. Accepts(crypto[m], msg) /\ ~Ignores(crypto[m], msg)
      BY <1>1, <2>1, CommitTaken
    <2>3. crypto' = [crypto EXCEPT ![m] = u]
      BY <1>11, <2>2 DEF ReceiveCommit
    <2>4. u.members = crypto[m].members /\ Enters(crypto[m], u, msg)
      BY <1>2, <1>4, <2>1, <2>2, AcceptedCommits
    <2>5. u.pending = {}
      BY <1>2, <2>1, EnteredEpoch
    <2>6. msg.new = crypto[m].members
      BY <2>4 DEF Enters
    <2>. QED
      BY <1>1, <1>3, <1>7, <1>8, <2>1, <2>2, <2>3, <2>4, <2>5, <2>6
  <1>. QED
    BY <1>1, <1>9, <1>10, <1>11

LEMMA ReceiveNamed ==
  ASSUME Inv, OrderlyInv, RostersNamed, NEW m \in Members, Receive(m)
  PROVE  RostersNamed'
  <1>1. /\ m \in entered /\ entered' = entered /\ issued' = issued
        /\ \A n \in entered \ {m} : Views'[n] = Views[n] /\ NamedOf(Views[n], issued')
    BY Drained DEF RostersNamed
  <1>2. CASE /\ Views'[m].secret = Views[m].secret
             /\ Views'[m].pending = Views[m].pending
             /\ Views'[m].members = Views[m].members
    <2>1. NamedOf(Views[m], issued)
      BY <1>1 DEF RostersNamed
    <2>2. NamedOf(Views'[m], issued')
      BY <1>1, <1>2, <2>1, NamedStays
    <2>. QED
      BY <1>1, <2>2, NamedStep
  <1>3. ASSUME NEW c \in issued, Views'[m] = crypto'[m], Enters(crypto[m], crypto'[m], c),
               crypto'[m].pending = {}
        PROVE  RostersNamed'
    <2>1. RosterOf(c.secret, issued) = c.new
      BY IssuedNames
    <2>2. NamedOf(Views'[m], issued')
      BY <1>1, <1>3, <2>1 DEF NamedOf, Enters
    <2>. QED
      BY <1>1, <2>2, NamedStep
  <1>. QED
    BY <1>2, <1>3, Drained

(* A trigger draws for the room its client lists. *)
LEMMA Proposed ==
  ASSUME Inv, OrderlyInv, NEW m \in Members, Trigger(m), NEW t \in crypto[m].pending,
         Propose(m, t)
  PROVE  \E c \in Commits, u \in CryptoStates :
           /\ CanBuild(crypto[m], t) /\ t \in Transitions
           /\ crypto' = [crypto EXCEPT ![m] = u] /\ issued' = issued \cup {c}
           /\ c \notin issued /\ c.secret = Drawn(m) /\ c.epoch = crypto[m].epoch
           /\ c.new = t.new /\ c.new = crypto[m].members /\ OneChange(t)
           /\ u.epoch = c.epoch + 1 /\ u.secret = {c.secret}
           /\ u.pending = {} /\ u.members = crypto[m].members
  <1>. DEFINE x == Drawn(m)
              c == BuildCommit(crypto[m], t, x)
              u == ApplyEpochCommit(crypto[m], c)
  <1>1. /\ crypto[m] \in CryptoStates /\ RosterOK(crypto[m])
    BY DEF Inv, TypeOK
  <1>2. t \in Transitions /\ OneChange(t) /\ t.new = crypto[m].members
    BY <1>1 DEF RosterOK, CryptoStates
  <1>3. /\ CanBuild(crypto[m], t) /\ crypto' = [crypto EXCEPT ![m] = u]
        /\ issued' = issued \cup {c}
    BY DEF Propose
  <1>4. x \in Secrets /\ \A d \in issued : d.secret # x
    BY DrawnFresh
  <1>. HIDE DEF x
  <1>5. c \in Commits /\ c.epoch = crypto[m].epoch /\ c.secret = x /\ c.new = t.new
    BY <1>1, <1>2, <1>4, ProposalTypes
  <1>. HIDE DEF c
  <1>6. /\ u \in CryptoStates /\ u.epoch = c.epoch + 1 /\ u.secret = {c.secret}
        /\ u.pending = {} /\ u.members = crypto[m].members
    BY <1>1, <1>5, EnteredEpoch
  <1>. HIDE DEF u
  <1>. QED
    BY <1>2, <1>3, <1>4, <1>5, <1>6 DEF x

LEMMA TriggerNamed ==
  ASSUME Inv, OrderlyInv, RostersNamed, NEW m \in Members, Trigger(m)
  PROVE  RostersNamed'
  <1>1. /\ m \in entered /\ due[m] /\ entered' = entered /\ inbox' = inbox
        /\ Announce(m) \/ \E t \in crypto[m].pending : Propose(m, t)
    BY DEF Trigger, serverVars
  <1>2. /\ crypto \in [Members -> CryptoStates] /\ entered \subseteq Members
        /\ ~ListFirst(inbox[m])
    BY <1>1 DEF Inv, TypeOK, OrderlyInv, Frame
  <1>3. CASE Announce(m)
    <2>1. crypto' = crypto /\ issued' = issued
      BY <1>3 DEF Announce
    <2>2. Views' = Views
      BY <1>1, <2>1 DEF Views
    <2>. QED
      BY <1>1, <2>1, <2>2, NamedWithout
  <1>4. ASSUME NEW t \in crypto[m].pending, Propose(m, t) PROVE RostersNamed'
    <2>1. PICK c \in Commits, u \in CryptoStates :
            /\ crypto' = [crypto EXCEPT ![m] = u] /\ issued' = issued \cup {c}
            /\ c \notin issued /\ c.secret = Drawn(m)
            /\ c.new = crypto[m].members /\ u.secret = {c.secret}
            /\ u.pending = {} /\ u.members = crypto[m].members
      BY <1>4, Proposed
    <2>2. Drawn(m).draw # 0 /\ \A d \in issued : d.secret # Drawn(m)
      BY DrawnFresh
    <2>3. RosterOf(c.secret, issued') = c.new
      <3>1. c \in issued' /\ c.secret.draw # 0 /\ \A d \in issued' : d.secret = c.secret => d = c
        BY <2>1, <2>2
      <3>. QED
        BY <3>1, RosterIssued
    <2>4. NamedOf(u, issued')
      BY <2>1, <2>3 DEF NamedOf
    <2>5. Views'[m] = u
      BY <1>1, <1>2, <2>1 DEF Views, Viewed
    <2>6. ASSUME NEW n \in entered \ {m}
          PROVE  Views'[n] = Views[n] /\ NamedOf(Views[n], issued')
      <3>1. n \in Members /\ crypto'[n] = crypto[n]
        BY <1>2, <2>1
      <3>2. Views'[n] = Views[n]
        BY <1>1, <3>1 DEF Views
      <3>3. Views[n].secret = crypto[n].secret /\ NamedOf(Views[n], issued)
        BY ViewedNow DEF RostersNamed
      <3>4. \A x \in Views[n].secret : x # c.secret
        BY <2>1, <3>1, <3>3, DrawnFresh
      <3>5. NamedOf(Views[n], issued \cup {c})
        BY <3>3, <3>4, NamedAdded
      <3>. QED
        BY <2>1, <3>2, <3>5
    <2>. QED
      BY <1>1, <2>4, <2>5, <2>6, NamedStep
  <1>. QED
    BY <1>1, <1>3, <1>4

(* A list that comes to members with nothing left to do. *)
LEMMA ListViewed ==
  ASSUME Inv, NEW n \in Members, NEW S \in SUBSET Members, inbox[n] = <<>>,
         inbox'[n] = Append(inbox[n], ListOf(S)), crypto' = crypto
  PROVE  Views'[n] = ReplaceMembers(crypto[n], S)
  <1>1. Viewed(crypto[n], Append(<<>>, ListOf(S))) = ReplaceMembers(crypto[n], S)
    <2>1. <<>> \in Seq(Messages)
      OBVIOUS
    <2>. QED
      BY <2>1, ListComes
  <1>. QED
    BY <1>1 DEF Views

(* Where all had the secret of a roster that is no longer theirs. *)
LEMMA ListNamed ==
  ASSUME NEW s \in CryptoStates, NEW R \in SUBSET Members, NEW S \in SUBSET Members,
         NEW t \in Transitions, NEW x, NEW C,
         s.me \in S, R # S, s.members = R, s.secret = {x}, RosterOf(x, C) = R,
         DetectRosterTransition(R, S) = {t}, t.old = R
  PROVE  NamedOf(ReplaceMembers(s, S), C)
  <1>. DEFINE u == ReplaceMembers(s, S)
  <1>1. Active(s) /\ s.members # S
    BY DEF Active
  <1>2. u.secret = {x} /\ u.pending = {t}
    BY <1>1, ListTaken
  <1>. HIDE DEF u
  <1>3. NamedOf(u, C)
    BY <1>2, NamedChange
  <1>. QED
    BY <1>3 DEF u

(* Who founds a room is in its first epoch, who joins one in none. *)
LEMMA Beginnings ==
  ASSUME NEW g \in GroupIds, NEW j \in Members
  PROVE  LET s == NewSingleEpoch(g, j)
         IN /\ s.epoch = 0 /\ s.secret = {[by |-> j, draw |-> 0]}
            /\ s.members = {j} /\ s.pending = {}
            /\ NewPendingEpoch(g, j).secret = {}
  BY DEF NewSingleEpoch, NewPendingEpoch, ActivateEpoch

LEMMA EnterNamed ==
  ASSUME Inv, OrderlyInv, RostersNamed, NEW j \in Members, Enter(j)
  PROVE  RostersNamed'
  <1>1. /\ j \in roster \ entered /\ entered' = entered \cup {j}
        /\ inbox' = Broadcast(entered', ListOf(roster))
        /\ crypto' = crypto /\ issued' = issued /\ OnTheWayIn(j)
    BY DEF Enter, OrderlyInv, Frame
  <1>2. /\ crypto \in [Members -> CryptoStates] /\ entered \subseteq Members
        /\ roster \subseteq Members
        /\ \A n \in Members : crypto[n].me = n
    BY DEF Inv, TypeOK, Identities
  <1>3. /\ roster = entered \cup {j}
        /\ \A n \in Members : inbox[n] = <<>> /\ outbox[n] = <<>> /\ ~due[n]
        /\ crypto[j] = IF entered = {} THEN NewSingleEpoch(crypto[j].group, j)
                                       ELSE NewPendingEpoch(crypto[j].group, j)
    BY <1>1 DEF OrderlyInv, Frame, OnTheWayIn
  <1>4. ASSUME NEW n \in roster PROVE Views'[n] = ReplaceMembers(crypto[n], roster)
    <2>1. n \in Members /\ inbox'[n] = Append(inbox[n], ListOf(roster))
      BY <1>1, <1>2, <1>3 DEF Broadcast
    <2>. QED
      BY <1>1, <1>2, <1>3, <2>1, ListViewed
  <1>5. crypto[j].group \in GroupIds
    BY <1>2 DEF CryptoStates
  <1>6. CASE entered = {}
    <2>. DEFINE s == crypto[j]
                u == ReplaceMembers(s, {s.me})
                x == [by |-> j, draw |-> 0]
    <2>1. /\ s \in CryptoStates /\ s.me = j /\ s.members = {s.me}
          /\ s.secret = {x} /\ s.pending = {}
      <3>1. crypto[j] = NewSingleEpoch(crypto[j].group, j)
        BY <1>3, <1>6
      <3>. QED
        BY <1>2, <1>5, <3>1, Beginnings
    <2>. HIDE DEF s
    <2>2. u.secret = {x} /\ u.pending = {} /\ u.members = {j}
      BY <2>1, LoneList DEF Active
    <2>3. Views'[j] = u
      BY <1>3, <1>4, <1>6, <2>1 DEF s
    <2>. HIDE DEF u
    <2>4. RosterOf(x, issued) = {j}
      BY DEF RosterOf
    <2>5. NamedOf(u, issued')
      BY <1>1, <2>2, <2>4 DEF NamedOf
    <2>. QED
      BY <1>1, <1>6, <2>3, <2>5 DEF RostersNamed
  <1>7. CASE entered # {}
    <2>1. PICK e \in Nat, x \in Secrets : \A n \in entered :
            /\ crypto[n].secret = {x} /\ crypto[n].members = entered
            /\ RosterOf(x, issued) = entered
      BY <1>3, Gathered
    <2>2. ASSUME NEW n \in entered PROVE NamedOf(Views'[n], issued')
      <3>. DEFINE t == Transition("Join", j, entered, entered \cup {j})
      <3>1. DetectRosterTransition(entered, entered \cup {j}) = {t}
        BY <1>1, <1>2, JoinDetected
      <3>2. t \in Transitions /\ t.old = entered
        BY <1>1, <1>2, TransitionFields DEF Events
      <3>. HIDE DEF t
      <3>3. /\ crypto[n] \in CryptoStates /\ crypto[n].me \in entered \cup {j}
            /\ entered \in SUBSET Members /\ entered \cup {j} \in SUBSET Members
            /\ entered # entered \cup {j}
        BY <1>1, <1>2
      <3>4. /\ crypto[n].members = entered /\ crypto[n].secret = {x}
            /\ RosterOf(x, issued) = entered
        BY <2>1
      <3>5. NamedOf(ReplaceMembers(crypto[n], entered \cup {j}), issued)
        BY <3>1, <3>2, <3>3, <3>4, ListNamed
      <3>. QED
        BY <1>1, <1>3, <1>4, <3>5
    <2>3. NamedOf(Views'[j], issued')
      <3>1. crypto[j].secret = {}
        <4>1. crypto[j] = NewPendingEpoch(crypto[j].group, j)
          BY <1>3, <1>7
        <4>. QED
          BY <1>5, <4>1, Beginnings
      <3>2. crypto[j] \in CryptoStates /\ crypto[j].me \in roster /\ j \in roster
        BY <1>1, <1>2
      <3>3. ReplaceMembers(crypto[j], roster).secret = {}
        BY <1>2, <3>1, <3>2, ListTaken
      <3>4. Views'[j].secret = {}
        BY <1>4, <3>2, <3>3
      <3>. QED
        BY <3>4 DEF NamedOf
    <2>. QED
      BY <1>1, <2>2, <2>3 DEF RostersNamed
  <1>. QED
    BY <1>6, <1>7

LEMMA LeaveNamed ==
  ASSUME Orderly, Inv, OrderlyInv, RostersNamed, NEW j \in Members, Leave(j)
  PROVE  RostersNamed'
  <1>1. /\ j \in entered /\ entered' = entered \ {j} /\ roster' = roster \ {j}
        /\ inbox' = [Broadcast(entered', ListOf(roster')) EXCEPT ![j] = <<>>]
        /\ crypto' = crypto /\ issued' = issued /\ Quiescent
    BY DEF Leave, MayChange, Orderly
  <1>2. /\ crypto \in [Members -> CryptoStates] /\ entered \subseteq Members
        /\ \A n \in Members : crypto[n].me = n
    BY DEF Inv, TypeOK, Identities
  <1>3. /\ roster = entered
        /\ \A n \in Members : inbox[n] = <<>> /\ outbox[n] = <<>> /\ ~due[n]
    BY <1>1 DEF OrderlyInv, Frame, Quiescent
  <1>4. PICK e \in Nat, x \in Secrets : \A n \in entered :
          /\ crypto[n].secret = {x} /\ crypto[n].members = entered
          /\ RosterOf(x, issued) = entered
    BY <1>3, Gathered
  <1>5. ASSUME NEW n \in entered \ {j} PROVE NamedOf(Views'[n], issued')
    <2>. DEFINE S == entered \ {j}
                t == Transition("Leave", j, entered, S)
    <2>1. DetectRosterTransition(entered, S) = {t}
      BY <1>1, <1>2, LeaveDetected
    <2>2. t \in Transitions /\ t.old = entered
      BY <1>1, <1>2, TransitionFields DEF Events
    <2>. HIDE DEF t
    <2>3. NamedOf(ReplaceMembers(crypto[n], S), issued)
      <3>1. /\ crypto[n] \in CryptoStates /\ crypto[n].me \in S
            /\ entered \in SUBSET Members /\ S \in SUBSET Members /\ entered # S
        BY <1>1, <1>2
      <3>2. /\ crypto[n].members = entered /\ crypto[n].secret = {x}
            /\ RosterOf(x, issued) = entered
        BY <1>4
      <3>. QED
        BY <2>1, <2>2, <3>1, <3>2, ListNamed
    <2>4. n \in Members /\ inbox'[n] = Append(inbox[n], ListOf(S))
      BY <1>1, <1>2, <1>3 DEF Broadcast
    <2>5. Views'[n] = ReplaceMembers(crypto[n], S)
      BY <1>1, <1>2, <1>3, <2>4, ListViewed
    <2>. QED
      BY <1>1, <2>3, <2>5
  <1>. QED
    BY <1>1, <1>5 DEF RostersNamed

LEMMA NamedNext ==
  ASSUME Orderly, Inv, OrderlyInv, RostersNamed, [Next]_vars
  PROVE  RostersNamed'
  <1>1. crypto \in [Members -> CryptoStates] /\ entered \subseteq roster /\ entered \subseteq Members
    BY DEF Inv, TypeOK
  <1>2. ASSUME NEW m \in Members, Enroll(m) PROVE RostersNamed'
    <2>1. /\ entered' = entered /\ issued' = issued /\ inbox' = inbox
          /\ \A n \in entered : crypto'[n] = crypto[n]
      BY <1>1, <1>2 DEF Enroll
    <2>2. \A n \in entered : Views'[n] = Views[n]
      BY <1>1, <2>1 DEF Views
    <2>. QED
      BY <2>1, <2>2, NamedWithout
  <1>3. ASSUME NEW m \in Members, Enter(m) PROVE RostersNamed'
    BY <1>3, EnterNamed
  <1>4. ASSUME NEW m \in Members, Leave(m) PROVE RostersNamed'
    BY <1>4, LeaveNamed
  <1>5. ASSUME NEW m \in Members, Receive(m) PROVE RostersNamed'
    BY <1>5, ReceiveNamed
  <1>6. ASSUME NEW m \in Members, Trigger(m) PROVE RostersNamed'
    BY <1>6, TriggerNamed
  <1>7. ASSUME NEW m \in Members, Transmit(m) PROVE RostersNamed'
    <2>1. entered' = entered /\ issued' = issued
      BY <1>7 DEF Transmit, serverVars
    <2>. QED
      BY <1>7, <2>1, TransmitViews, NamedWithout
  <1>8. CASE UNCHANGED vars
    <2>1. entered' = entered /\ issued' = issued /\ Views' = Views
      BY <1>8 DEF vars, serverVars, Views
    <2>. QED
      BY <2>1, NamedWithout
  <1>. QED
    BY <1>2, <1>3, <1>4, <1>5, <1>6, <1>7, <1>8 DEF Next

(* What happens to one client at most is no move of the room, as long as   *)
(* its epoch is the same.                                                  *)
LEMMA RoomRests ==
  ASSUME entered' = entered, issued' = issued,
         \A n \in entered : /\ crypto'[n].epoch = crypto[n].epoch
                            /\ crypto'[n].secret = crypto[n].secret
  PROVE  UNCHANGED Group!vars
  <1>1. At' = At
    BY DEF At, EpochIn
  <1>2. EpochsOpened' = EpochsOpened
    BY DEF EpochsOpened
  <1>. QED
    BY <1>1, <1>2 DEF Group!vars

(* At rest the room is together. *)
LEMMA RoomTogether ==
  ASSUME Inv, OrderlyInv, RostersNamed,
         \A m \in Members : inbox[m] = <<>> /\ outbox[m] = <<>> /\ ~due[m]
  PROVE  Group!Together
  <1>1. PICK e \in Nat, x \in Secrets : \A m \in entered :
          /\ crypto[m].secret = {x} /\ crypto[m].epoch = e
          /\ RosterOf(x, issued) = entered
    BY Gathered
  <1>2. ASSUME NEW m \in entered PROVE At[m] = {EpochOf(e, x, entered)}
    <2>1. m \in Members
      BY DEF Inv, TypeOK
    <2>2. At[m] = EpochIn(crypto[m], issued)
      BY <2>1 DEF At
    <2>. QED
      BY <1>1, <2>2 DEF EpochIn
  <1>. DEFINE f == EpochOf(e, x, entered)
  <1>3. f.roster = entered
    BY DEF EpochOf
  <1>. HIDE DEF f
  <1>4. \A m \in entered : At[m] = {f}
    BY <1>2 DEF f
  <1>5. \A m, n \in entered : /\ At[m] # {} /\ At[m] = At[n]
                              /\ \A d \in At[m] : d.roster = entered
    BY <1>3, <1>4
  <1>. QED
    BY <1>5 DEF Group!Together

LEMMA EnterMoves ==
  ASSUME Inv, OrderlyInv, RostersNamed, NEW j \in Members, Enter(j)
  PROVE  Group!Found(j) \/ Group!Join(j)
  <1>1. /\ j \in roster \ entered /\ entered' = entered \cup {j}
        /\ crypto' = crypto /\ issued' = issued /\ OnTheWayIn(j)
    BY DEF Enter, OrderlyInv, Frame
  <1>2. /\ crypto \in [Members -> CryptoStates] /\ entered \subseteq Members
    BY DEF Inv, TypeOK
  <1>3. /\ \A n \in Members : inbox[n] = <<>> /\ outbox[n] = <<>> /\ ~due[n]
        /\ crypto[j] = IF entered = {} THEN NewSingleEpoch(crypto[j].group, j)
                                       ELSE NewPendingEpoch(crypto[j].group, j)
    BY <1>1 DEF OrderlyInv, Frame, OnTheWayIn
  <1>4. crypto[j].group \in GroupIds
    BY <1>2 DEF CryptoStates
  <1>5. EpochsOpened' = EpochsOpened
    BY <1>1 DEF EpochsOpened
  <1>6. \A n \in Members \ {j} : At'[n] = At[n]
    BY <1>1 DEF At
  <1>7. At[j] = {} /\ At'[j] = EpochIn(crypto[j], issued)
    BY <1>1 DEF At
  <1>8. CASE entered = {}
    <2>. DEFINE x == [by |-> j, draw |-> 0]
    <2>1. crypto[j].epoch = 0 /\ crypto[j].secret = {x}
      <3>1. crypto[j] = NewSingleEpoch(crypto[j].group, j)
        BY <1>3, <1>8
      <3>. QED
        BY <1>4, <3>1, Beginnings
    <2>2. RosterOf(x, issued) = {j} /\ x \in Founding
      BY DEF RosterOf, Founding
    <2>. HIDE DEF x
    <2>3. At'[j] = {Group!Epoch(0, x, {j})}
      BY <1>7, <2>1, <2>2 DEF EpochIn, EpochOf, Group!Epoch
    <2>4. At' = [At EXCEPT ![j] = {Group!Epoch(0, x, {j})}]
      BY <1>6, <2>3 DEF At
    <2>. QED
      BY <1>1, <1>5, <1>8, <2>2, <2>4 DEF Group!Found
  <1>9. CASE entered # {}
    <2>1. crypto[j].secret = {}
      <3>1. crypto[j] = NewPendingEpoch(crypto[j].group, j)
        BY <1>3, <1>9
      <3>. QED
        BY <1>4, <3>1, Beginnings
    <2>2. At'[j] = {}
      BY <1>7, <2>1 DEF EpochIn
    <2>3. At' = At
      BY <1>6, <1>7, <2>2 DEF At
    <2>4. Group!Together
      BY <1>3, RoomTogether
    <2>. QED
      BY <1>1, <1>5, <1>9, <2>3, <2>4 DEF Group!Join
  <1>. QED
    BY <1>8, <1>9

LEMMA LeaveMoves ==
  ASSUME Orderly, Inv, OrderlyInv, RostersNamed, NEW j \in Members, Leave(j)
  PROVE  Group!Leave(j)
  <1>1. /\ j \in entered /\ entered' = entered \ {j}
        /\ crypto' = crypto /\ issued' = issued /\ Quiescent
    BY DEF Leave, MayChange, Orderly
  <1>2. \A n \in Members : inbox[n] = <<>> /\ outbox[n] = <<>> /\ ~due[n]
    BY <1>1 DEF OrderlyInv, Frame, Quiescent
  <1>3. Group!Together
    BY <1>2, RoomTogether
  <1>4. EpochsOpened' = EpochsOpened
    BY <1>1 DEF EpochsOpened
  <1>5. At' = [At EXCEPT ![j] = {}]
    BY <1>1 DEF At
  <1>. QED
    BY <1>1, <1>3, <1>4, <1>5 DEF Group!Leave

(* In a room with a commit on its way nobody is further than it leads, and *)
(* it is for those who are in.                                             *)
LEMMA CommitLeads ==
  ASSUME Inv, OrderlyInv, NEW m \in entered, inbox[m] # <<>>,
         Head(inbox[m]).kind = "commit"
  PROVE  LET c == Head(inbox[m])
         IN /\ crypto[m].members = entered
            /\ \A n \in entered : crypto[n].epoch <= c.epoch + 1
  <1>. DEFINE c == Head(inbox[m])
  <1>1. /\ inbox \in [Members -> Seq(Messages)] /\ outbox \in [Members -> Seq(Messages)]
        /\ m \in Members /\ entered \subseteq Members
    BY DEF Inv, TypeOK
  <1>2. Frame /\ Phase(Views, Lines, Stirred, entered)
    BY DEF OrderlyInv
  <1>3. Crew(Views, Lines, Stirred, entered)
    BY <1>2, CrewNow
  <1>4. ~ListFirst(inbox[m])
    BY DEF ListFirst
  <1>5. /\ inbox[m] \in Seq(Messages) /\ Unsent(outbox, m) \in Seq(Messages)
        /\ ListsLead(inbox[m])
    BY <1>1, <1>2, UnsentType DEF Frame
  <1>6. Ahead(inbox[m], Unsent(outbox, m)) # <<>>
        /\ Head(Ahead(inbox[m], Unsent(outbox, m))) = Head(inbox[m])
    BY <1>4, <1>5, AheadDrained, NoListNext
  <1>7. Lines[m] # <<>> /\ Head(Lines[m]) = c /\ Views[m] = crypto[m]
    BY <1>1, <1>4, <1>6 DEF Lines, Views, Viewed
  <1>8. Closing(Views, Lines, Stirred, entered) /\ ~Calm(Lines[m])
    BY <1>2, <1>3, <1>7, CommitsWelcome
  <1>9. PICK e \in Nat, x \in Secrets :
          \A o \in entered : \/ Reached(Views[o], Lines[o], entered, e, x)
                             \/ Awaits(Views[o], Lines[o], entered, e, x)
    BY <1>8 DEF Closing
  <1>10. c.epoch + 1 = e /\ crypto[m].members = entered
    <2>1. Awaits(Views[m], Lines[m], entered, e, x)
      BY <1>8, <1>9 DEF Reached
    <2>2. Head(Lines[m]).epoch + 1 = e /\ Views[m].members = entered
      BY <1>3, <1>7, <2>1, CommitAwaited
    <2>. QED
      BY <1>7, <2>2
  <1>11. ASSUME NEW n \in entered PROVE crypto[n].epoch <= e
    <2>1. CASE Reached(Views[n], Lines[n], entered, e, x)
      BY <2>1, ViewedNow DEF Reached
    <2>2. CASE Awaits(Views[n], Lines[n], entered, e, x)
      <3>1. PICK k \in DOMAIN Lines[n] :
              Lines[n][k].kind = "commit" /\ Lines[n][k].epoch + 1 = e /\ Accepts(Views[n], Lines[n][k])
        BY <2>2 DEF Awaits
      <3>2. Lines[n][k].epoch \in Nat
        <4>1. Lines[n] \in Seq(Messages)
          BY <1>1, <1>3 DEF Crew
        <4>2. Lines[n][k] \in Messages
          BY <4>1
        <4>. QED
          BY <3>1, <4>2, KindsApart DEF Commits
      <3>3. Lines[n][k].epoch = Views[n].epoch \/ Views[n].epoch < Lines[n][k].epoch
        BY <3>1 DEF Accepts, CanAcceptFromLaterEpoch
      <3>4. Views[n].epoch = crypto[n].epoch /\ crypto[n].epoch \in Nat
        BY ViewedNow
      <3>. QED
        BY <3>1, <3>2, <3>3, <3>4
    <2>. QED
      BY <1>9, <2>1, <2>2
  <1>. QED
    BY <1>10, <1>11

LEMMA ReceiveMoves ==
  ASSUME Inv, OrderlyInv, RostersNamed, NEW m \in Members, Receive(m)
  PROVE  UNCHANGED Group!vars \/ \E f \in EpochsOpened : Group!Follow(m, f)
  <1>1. /\ m \in entered /\ entered' = entered /\ issued' = issued
        /\ crypto' = [crypto EXCEPT ![m] = crypto'[m]]
    BY Drained
  <1>2. /\ crypto \in [Members -> CryptoStates] /\ entered \subseteq Members
    BY DEF Inv, TypeOK
  <1>3. \A n \in Members \ {m} : crypto'[n] = crypto[n]
    BY <1>1, <1>2
  <1>4. CASE crypto'[m].epoch = crypto[m].epoch /\ crypto'[m].secret = crypto[m].secret
    BY <1>1, <1>2, <1>3, <1>4, RoomRests
  <1>5. ASSUME NEW c, c = Head(inbox[m]), inbox[m] # <<>>, c \in issued, c.kind = "commit",
               Enters(crypto[m], crypto'[m], c), crypto[m].members = c.new
        PROVE  \E f \in EpochsOpened : Group!Follow(m, f)
    <2>. DEFINE f == EpochOf(c.epoch + 1, c.secret, c.new)
    <2>1. f \in EpochsOpened
      BY <1>5 DEF EpochsOpened
    <2>2. f.number = c.epoch + 1 /\ f.roster = c.new
      BY DEF EpochOf
    <2>3. crypto[m].members = entered /\ \A n \in entered : crypto[n].epoch <= c.epoch + 1
      BY <1>1, <1>5, CommitLeads
    <2>4. \A n \in entered : \A e \in At[n] : e.number = crypto[n].epoch
      BY <1>2 DEF At, EpochIn, EpochOf
    <2>5. \A e \in At[m] : f.number = e.number + 1
      <3>1. ASSUME NEW e \in At[m] PROVE crypto[m].epoch = c.epoch
        BY <1>1, <1>2, <1>5, <3>1 DEF At, EpochIn, Enters, Active
      <3>. QED
        BY <1>1, <2>2, <2>4, <3>1
    <2>6. \A n \in entered : \A e \in At[n] : e.number <= f.number
      BY <2>2, <2>3, <2>4
    <2>7. At'[m] = {f}
      <3>1. RosterOf(c.secret, issued) = c.new
        BY <1>5, IssuedNames
      <3>. QED
        BY <1>1, <1>2, <1>5, <3>1 DEF At, EpochIn, Enters
    <2>8. \A n \in Members \ {m} : At'[n] = At[n]
      BY <1>1, <1>3 DEF At
    <2>. HIDE DEF f
    <2>9. At' = [At EXCEPT ![m] = {f}]
      BY <2>7, <2>8 DEF At
    <2>10. EpochsOpened' = EpochsOpened
      BY <1>1 DEF EpochsOpened
    <2>11. Group!Follow(m, f)
      BY <1>1, <1>5, <2>2, <2>3, <2>5, <2>6, <2>9, <2>10 DEF Group!Follow
    <2>. QED
      BY <2>1, <2>11
  <1>. QED
    BY <1>4, <1>5, Drained

(* A proposal is for those who are in, and the rest are in its epoch or in *)
(* none.                                                                   *)
LEMMA ProposalLeads ==
  ASSUME Inv, OrderlyInv, NEW m \in entered, due[m], NEW t \in crypto[m].pending,
         CanBuild(crypto[m], t)
  PROVE  /\ Views[m] = crypto[m] /\ crypto[m].members = entered
         /\ \A n \in entered : Active(crypto[n]) => crypto[n].epoch = crypto[m].epoch
  <1>1. Frame /\ Phase(Views, Lines, Stirred, entered)
    BY DEF OrderlyInv
  <1>2. Views[m] = crypto[m]
    BY <1>1 DEF Inv, TypeOK, Frame, Views, Viewed
  <1>3. OnTurn(Views[m]) /\ Views[m].pending # {}
    BY <1>2 DEF CanBuild, OnTurn
  <1>4. ~Closing(Views, Lines, Stirred, entered)
    BY <1>3 DEF Closing, Reached, Awaits
  <1>5. PICK o \in Transitions : Opening(Views, Lines, Stirred, entered, o)
    BY <1>1, <1>4 DEF Phase
  <1>6. Views[m].members = entered
    BY <1>5 DEF Opening
  <1>7. PICK e \in Nat : \A k \in entered : Active(Views[k]) => Views[k].epoch = e
    BY <1>5 DEF Opening
  <1>8. Active(Views[m])
    BY <1>3 DEF OnTurn
  <1>9. ASSUME NEW n \in entered, Active(crypto[n]) PROVE crypto[n].epoch = crypto[m].epoch
    <2>1. Active(Views[n])
      BY <1>9, ViewedNow DEF Active
    <2>. QED
      BY <1>7, <1>8, <2>1, ViewedNow
  <1>. QED
    BY <1>2, <1>6, <1>9

LEMMA TriggerMoves ==
  ASSUME Inv, OrderlyInv, OneSecretPerEpoch, RostersNamed, NEW m \in Members, Trigger(m)
  PROVE  UNCHANGED Group!vars \/ Group!Open(m)
  <1>1. /\ m \in entered /\ due[m] /\ entered' = entered
        /\ Announce(m) \/ \E t \in crypto[m].pending : Propose(m, t)
    BY DEF Trigger, serverVars
  <1>2. crypto \in [Members -> CryptoStates] /\ entered \subseteq Members
    BY DEF Inv, TypeOK
  <1>3. CASE Announce(m)
    BY <1>1, <1>3, RoomRests DEF Announce
  <1>4. ASSUME NEW t \in crypto[m].pending, Propose(m, t) PROVE Group!Open(m)
    <2>1. PICK c \in Commits, u \in CryptoStates :
            /\ CanBuild(crypto[m], t) /\ t \in Transitions
            /\ crypto' = [crypto EXCEPT ![m] = u] /\ issued' = issued \cup {c}
            /\ c \notin issued /\ c.secret = Drawn(m) /\ c.epoch = crypto[m].epoch
            /\ c.new = t.new /\ c.new = crypto[m].members /\ OneChange(t)
            /\ u.epoch = c.epoch + 1 /\ u.secret = {c.secret}
      BY <1>4, Proposed
    <2>2. /\ Drawn(m) \in Secrets /\ Drawn(m).draw # 0
          /\ \A d \in issued : d.secret # Drawn(m)
          /\ \A n \in Members : \A x \in crypto[n].secret : x # Drawn(m)
      BY DrawnFresh
    <2>3. /\ Views[m] = crypto[m] /\ crypto[m].members = entered
          /\ \A n \in entered : Active(crypto[n]) => crypto[n].epoch = crypto[m].epoch
      BY <1>1, <2>1, ProposalLeads
    <2>4. Active(crypto[m])
      BY <2>1 DEF CanBuild
    <2>5. PICK y \in crypto[m].secret : crypto[m].secret = {y}
      BY <1>1, <1>2, <2>4 DEF Inv, HeldOK, Active
    <2>6. RosterOf(y, issued) = t.old
      BY <1>1, <2>3, <2>5 DEF RostersNamed, NamedOf
    <2>7. t.old # entered
      BY <2>1, <2>3 DEF OneChange
    <2>. DEFINE e == EpochOf(crypto[m].epoch, y, t.old)
                f == EpochOf(c.epoch + 1, c.secret, c.new)
    <2>8. /\ e.number = crypto[m].epoch /\ e.roster = t.old
          /\ f.number = c.epoch + 1 /\ f.secret = c.secret /\ f.roster = c.new
      BY DEF EpochOf
    <2>9. EpochIn(crypto[m], issued) = {e}
      BY <2>5, <2>6 DEF EpochIn
    <2>10. f = Group!Epoch(e.number + 1, f.secret, entered)
      BY <2>1, <2>3, <2>8 DEF EpochOf, Group!Epoch
    <2>11. EpochsOpened' = EpochsOpened \cup {f}
      BY <2>1 DEF EpochsOpened
    <2>12. \A o \in EpochsOpened : o.secret # f.secret
      BY <2>1, <2>2, <2>8 DEF EpochsOpened, EpochOf
    <2>13. EpochIn(u, issued') = {f}
      <3>1. c \in issued' /\ c.secret.draw # 0 /\ \A d \in issued' : d.secret = c.secret => d = c
        BY <2>1, <2>2
      <3>2. RosterOf(c.secret, issued') = c.new
        BY <3>1, RosterIssued
      <3>. QED
        BY <2>1, <3>2 DEF EpochIn
    <2>. HIDE DEF e, f
    <2>14. e \in At[m] /\ At'[m] = {f}
      <3>1. crypto'[m] = u
        BY <1>2, <2>1
      <3>2. At[m] = EpochIn(crypto[m], issued) /\ At'[m] = EpochIn(u, issued')
        BY <1>1, <3>1 DEF At
      <3>. QED
        BY <2>9, <2>13, <3>2
    <2>15. ASSUME NEW n \in entered PROVE At[n] \subseteq {e}
      <3>1. n \in Members /\ At[n] = EpochIn(crypto[n], issued)
        BY <1>2 DEF At
      <3>2. CASE Active(crypto[n])
        <4>1. crypto[n].epoch = crypto[m].epoch /\ crypto[n].secret = crypto[m].secret
          BY <1>1, <2>3, <2>4, <3>2 DEF OneSecretPerEpoch
        <4>2. EpochIn(crypto[n], issued) = EpochIn(crypto[m], issued)
          BY <4>1 DEF EpochIn
        <4>. QED
          BY <2>9, <3>1, <4>2
      <3>3. CASE ~Active(crypto[n])
        BY <3>1, <3>3 DEF EpochIn, Active
      <3>. QED
        BY <3>2, <3>3
    <2>16. ASSUME NEW n \in Members \ {m} PROVE At'[n] = At[n]
      <3>1. crypto'[n] = crypto[n]
        BY <1>2, <2>1
      <3>2. \A x \in crypto[n].secret : RosterOf(x, issued \cup {c}) = RosterOf(x, issued)
        BY <2>1, <2>2, RosterKept
      <3>3. EpochIn(crypto[n], issued \cup {c}) = EpochIn(crypto[n], issued)
        BY <3>2 DEF EpochIn
      <3>. QED
        BY <1>1, <2>1, <3>1, <3>3 DEF At
    <2>17. At' = [At EXCEPT ![m] = {f}]
      BY <2>14, <2>16 DEF At
    <2>18. f.secret \in Secrets \ Founding
      BY <2>1, <2>2, <2>8 DEF Founding
    <2>19. e.roster # entered
      BY <2>7, <2>8
    <2>. QED
      BY <1>1, <2>10, <2>11, <2>12, <2>14, <2>15, <2>17, <2>18, <2>19 DEF Group!Open
  <1>. QED
    BY <1>1, <1>3, <1>4

LEMMA MovesNext ==
  ASSUME Orderly, Inv, OrderlyInv, OneSecretPerEpoch, RostersNamed, [Next]_vars
  PROVE  [Group!Next]_Group!vars
  <1>1. crypto \in [Members -> CryptoStates] /\ entered \subseteq roster /\ entered \subseteq Members
    BY DEF Inv, TypeOK
  <1>2. ASSUME NEW m \in Members, Enroll(m) PROVE UNCHANGED Group!vars
    <2>1. /\ entered' = entered /\ issued' = issued
          /\ \A n \in entered : crypto'[n] = crypto[n]
      BY <1>1, <1>2 DEF Enroll
    <2>. QED
      BY <2>1, RoomRests
  <1>3. ASSUME NEW m \in Members, Enter(m) PROVE Group!Next
    BY <1>3, EnterMoves DEF Group!Next
  <1>4. ASSUME NEW m \in Members, Leave(m) PROVE Group!Next
    BY <1>4, LeaveMoves DEF Group!Next
  <1>5. ASSUME NEW m \in Members, Receive(m) PROVE [Group!Next]_Group!vars
    BY <1>5, ReceiveMoves DEF Group!Next
  <1>6. ASSUME NEW m \in Members, Trigger(m) PROVE [Group!Next]_Group!vars
    BY <1>6, TriggerMoves DEF Group!Next
  <1>7. ASSUME NEW m \in Members, Transmit(m) PROVE UNCHANGED Group!vars
    BY <1>7, RoomRests DEF Transmit, serverVars
  <1>8. CASE UNCHANGED vars
    BY <1>8, RoomRests DEF vars, serverVars
  <1>. QED
    BY <1>2, <1>3, <1>4, <1>5, <1>6, <1>7, <1>8 DEF Next

(* Under the same conditions the clients, which each decide for themselves *)
(* when to announce, to propose and to follow, move as one: an epoch is    *)
(* opened by one member for the whole room, all come to it from the epoch  *)
(* before, and nobody comes or goes before all are there.                  *)
THEOREM GroupMovesAsOne ==
  ASSUME Ranked, Orderly
  PROVE  Spec => MovesAsOne
  <1>1. Init => Group!Init
    <2>1. ASSUME Init PROVE At = [m \in Members |-> {}] /\ EpochsOpened = {}
      BY <2>1 DEF Init, At, EpochsOpened
    <2>. QED
      BY <2>1 DEF Init, Group!Init
  <1>2. CASE Members = {}
    <2>1. [Next]_vars => [Group!Next]_Group!vars
      BY <1>2, RoomRests DEF Next, vars, serverVars
    <2>. QED
      BY <1>1, <2>1, PTL DEF Spec, MovesAsOne, Group!Spec
  <1>3. CASE Members # {}
    <2>1. Init => OrderlyInv /\ OneSecretPerEpoch /\ RostersNamed
      BY <1>3, OrderlyInit DEF Init, OneSecretPerEpoch, RostersNamed
    <2>2. Inv /\ OrderlyInv /\ OneSecretPerEpoch /\ RostersNamed /\ [Next]_vars
          => OrderlyInv' /\ OneSecretPerEpoch' /\ RostersNamed'
      BY OrderlyNext, SecretNext, NamedNext
    <2>3. Inv /\ OrderlyInv /\ OneSecretPerEpoch /\ RostersNamed /\ [Next]_vars
          => [Group!Next]_Group!vars
      BY MovesNext
    <2>. QED
      BY <1>1, <2>1, <2>2, <2>3, Invariance, PTL DEF Spec, MovesAsOne, Group!Spec
  <1>. QED
    BY <1>2, <1>3
=============================================================================
