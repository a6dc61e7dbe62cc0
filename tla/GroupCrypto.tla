---------------------------- MODULE GroupCrypto ----------------------------
(***************************************************************************)
(* GroupCryptoState (src/crypto/core.rs): what one client knows of the     *)
(* group, and the steps of a rekey.  Pure operators on a record; an Option *)
(* is a set with at most one element.                                      *)
(*                                                                         *)
(* A key is the generation of its owner's X25519 pair, a secret is the     *)
(* member who drew it and the number of its draw, and a roster hash is the *)
(* roster: keys and secrets are drawn at random and hashes do not collide. *)
(***************************************************************************)
EXTENDS Naturals, Sequences, FiniteSets

CONSTANTS
  Members,             \* member ids, one for each session of the room
  GroupIds,            \* group ids a room may have
  Hash(_, _, _, _, _), \* group, epoch, event, affected, candidate -> a number;
                       \* two candidates of one context have two numbers
  QueueLimit           \* PENDING_EPOCH_COMMIT_LIMIT

Unknown == 0           \* no public key yet

Events == {"Join", "Leave"}

ASSUME QueueAssumption == QueueLimit \in Nat \ {0}

Secrets == [by : Members, draw : Nat]

(* PendingRosterTransition *)
Transitions ==
  [type : Events, affected : Members, old : SUBSET Members, new : SUBSET Members]

Keys == [Members -> Nat]

CryptoStates ==
  [group : GroupIds, me : Members, epoch : Nat, secret : SUBSET Secrets,
   members : SUBSET Members, keys : Keys, recv : SUBSET Members,
   pending : SUBSET Transitions, gen : Nat, initialized : BOOLEAN]

(* EpochCommit.  The new epoch is always epoch + 1. *)
Commits ==
  [kind : {"commit"}, type : Events, affected : Members, epoch : Nat,
   old : SUBSET Members, new : SUBSET Members, by : Members, wraps : Keys,
   secret : Secrets]

Announces == [kind : {"announce"}, member : Members, key : Nat]

Active(s) == s.secret # {}   \* the client has a sender chain

-----------------------------------------------------------------------------
NewPendingEpoch(g, me) ==
  [group |-> g, me |-> me, epoch |-> 0, secret |-> {}, members |-> {me},
   keys |-> [x \in Members |-> IF x = me THEN 1 ELSE Unknown],
   recv |-> {}, pending |-> {}, gen |-> 1, initialized |-> FALSE]

(* activate_epoch: chains for the members now listed, a new X25519 pair,   *)
(* and the keys of the others are forgotten.                               *)
ActivateEpoch(s, epoch, secret) ==
  [s EXCEPT !.epoch = epoch,
            !.secret = {secret},
            !.recv = s.members \ {s.me},
            !.pending = {},
            !.gen = @ + 1,
            !.keys = [x \in Members |->
                        IF x = s.me THEN s.gen + 1 ELSE Unknown]]

NewSingleEpoch(g, me) ==
  ActivateEpoch(NewPendingEpoch(g, me), 0, [by |-> me, draw |-> 0])

-----------------------------------------------------------------------------
(* Roster changes. *)

Transition(type, affected, old, new) ==
  [type |-> type, affected |-> affected, old |-> old, new |-> new]

(* One member more or one member less; anything else is no transition. *)
DetectRosterTransition(old, new) ==
  {Transition("Join", x, old, new) : x \in {y \in Members : y \notin old /\ new = old \cup {y}}}
  \cup
  {Transition("Leave", x, old, new) : x \in {y \in old : new = old \ {y}}}

DetectInitialJoinTransition(me, old, new) ==
  IF old = {me} /\ new # {me}
  THEN {Transition("Join", me, new \ {me}, new)}
  ELSE {}

(* Mutant of ReplaceMembers: a chain is opened for every member listed. *)
ReplaceMembersOpeningChains(s, list) ==
  LET next == list \cup {s.me}
  IN [s EXCEPT
        !.members = next,
        !.keys = [x \in Members |-> IF x \in next THEN @[x] ELSE Unknown],
        !.recv = next \ {s.me},
        !.pending = IF s.initialized /\ s.members = next THEN @
                    ELSE IF s.initialized \/ Active(s)
                    THEN DetectRosterTransition(s.members, next)
                    ELSE DetectInitialJoinTransition(s.me, s.members, next),
        !.initialized = TRUE]

(* replace_members: known keys are kept, chains of those who left are      *)
(* dropped, and a change since the last list becomes the transition.       *)
ReplaceMembers(s, list) ==
  LET next == list \cup {s.me}
  IN [s EXCEPT
        !.members = next,
        !.keys = [x \in Members |-> IF x \in next THEN @[x] ELSE Unknown],
        !.recv = @ \cap next,
        !.pending = IF s.initialized /\ s.members = next THEN @
                    ELSE IF s.initialized \/ Active(s)
                    THEN DetectRosterTransition(s.members, next)
                    ELSE DetectInitialJoinTransition(s.me, s.members, next),
        !.initialized = TRUE]

-----------------------------------------------------------------------------
(* Key announces.  The epoch in an announce is covered by its MAC and      *)
(* compared with nothing.                                                  *)

LocalKeyAnnounce(s) == [kind |-> "announce", member |-> s.me, key |-> s.gen]

(* A first key is taken; the same key again, another key, and the key of a *)
(* member not listed change nothing.                                       *)
ApplyKeyAnnounce(s, a) ==
  IF a.member \in s.members /\ s.keys[a.member] = Unknown
  THEN [s EXCEPT !.keys[a.member] = a.key]
  ELSE s

-----------------------------------------------------------------------------
(* Epoch commits. *)

ProposerCandidates(type, old, new) == IF type = "Join" THEN old ELSE new

(* The head of proposer_order: a commit is always attempt 0. *)
FirstProposer(g, epoch, type, affected, candidates) ==
  CHOOSE c \in candidates : \A d \in candidates :
    Hash(g, epoch, type, affected, c) <= Hash(g, epoch, type, affected, d)

ProposerOf(g, epoch, t) ==
  FirstProposer(g, epoch, t.type, t.affected,
                ProposerCandidates(t.type, t.old, t.new))

(* Mutant of CanBuild: it need not be this client's turn. *)
CanBuildOutOfTurn(s, t) ==
  /\ Active(s)
  /\ \A x \in t.new : x \in s.members /\ s.keys[x] # Unknown

(* can_build_pending_epoch_commit, for the pending transition t. *)
CanBuild(s, t) ==
  /\ Active(s)
  /\ ProposerOf(s.group, s.epoch, t) = s.me
  /\ \A x \in t.new : x \in s.members /\ s.keys[x] # Unknown

(* build_pending_epoch_commit: one wrapped secret for each new member. *)
BuildCommit(s, t, secret) ==
  [kind |-> "commit", type |-> t.type, affected |-> t.affected,
   epoch |-> s.epoch, old |-> t.old, new |-> t.new, by |-> s.me,
   wraps |-> [x \in Members |-> IF x \in t.new THEN s.keys[x] ELSE Unknown],
   secret |-> secret]

(* A joiner still at epoch 0 takes the commit that lets it in, whatever    *)
(* the epoch of the group.                                                 *)
CanAcceptFromLaterEpoch(s, t, c) ==
  /\ s.epoch < c.epoch
  /\ t.type = "Join" /\ c.type = "Join"
  /\ t.affected = s.me /\ c.affected = s.me
  /\ s.me \notin t.old /\ s.me \in t.new

(* Mutant of Accepts: a joiner takes commits of its own epoch only. *)
AcceptsSameEpochOnly(s, c) ==
  \E t \in s.pending :
    /\ c.epoch = s.epoch
    /\ c.old = t.old
    /\ c.new = t.new
    /\ c.by = ProposerOf(s.group, c.epoch, c)
    /\ s.me \in c.new
    /\ c.wraps[s.me] = s.gen

(* Mutant of Accepts: a commit of any later epoch is taken. *)
AcceptsLaterEpochs(s, c) ==
  \E t \in s.pending :
    /\ c.epoch >= s.epoch
    /\ c.old = t.old
    /\ c.new = t.new
    /\ c.by = ProposerOf(s.group, c.epoch, c)
    /\ s.me \in c.new
    /\ c.wraps[s.me] = s.gen

(* apply_epoch_commit returns Ok(true): validate_epoch_commit agrees, and  *)
(* the secret was wrapped for the X25519 pair this client has now.         *)
Accepts(s, c) ==
  \E t \in s.pending :
    /\ c.epoch = s.epoch \/ CanAcceptFromLaterEpoch(s, t, c)
    /\ c.old = t.old
    /\ c.new = t.new
    /\ c.by = ProposerOf(s.group, c.epoch, c)
    /\ s.me \in c.new
    /\ c.wraps[s.me] = s.gen

(* It returns Ok(false).  In every other case it is an error. *)
Ignores(s, c) == s.pending = {} /\ c.epoch < s.epoch

ApplyEpochCommit(s, c) == ActivateEpoch(s, c.epoch + 1, c.secret)

-----------------------------------------------------------------------------
(* The commits a receiver keeps to try again (receiver.rs), each with the  *)
(* number of its arrival.                                                  *)

Kept == [at : Nat, commit : Commits]

(* A commit already kept is not kept twice; beyond the limit the oldest    *)
(* goes.                                                                   *)
QueuePendingCommit(q, n, c) ==
  LET added == q \cup {[at |-> n, commit |-> c]}
  IN IF \E k \in q : k.commit = c THEN q
     ELSE IF Cardinality(q) < QueueLimit THEN added
     ELSE {k \in added : \E o \in added : o.at < k.at}
=============================================================================
