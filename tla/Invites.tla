------------------------------ MODULE Invites -------------------------------
(***************************************************************************)
(* The invite table of the server (src/server/invite.rs), a map under one  *)
(* mutex from token id to the state of that token.  A handshake reserves   *)
(* a token (Pending), and is identified by the nonces of its connection.   *)
(* Expiry is lazy: each operation first normalises the whole table with    *)
(* the clock it read.                                                      *)
(***************************************************************************)
EXTENDS ServerBase

CONSTANTS
  Tokens,      \* token ids; each is drawn at random once
  InviteTtl,   \* INVITE_TTL_SECS
  PendingTtl,  \* INVITE_PENDING_TTL_SECS
  MaxNow       \* bound on the clock

ASSUME TtlAssumption == InviteTtl \in Nat /\ PendingTtl \in Nat /\ MaxNow \in Nat

VARIABLES
  now,         \* the wall clock, in seconds
  invites,     \* token -> InviteTokenInfo, or Absent
  minted       \* the tokens drawn so far

InviteTokenInfo ==
  [st : {"unused", "pending", "used"}, room : RoomIds,
   expires : Nat, nonce : Conns \cup {NoConn}, until : Nat]

Absent == [st |-> "absent"]

InvitesTypeOK ==
  /\ now \in Nat
  /\ invites \in [Tokens -> InviteTokenInfo \cup {Absent}]
  /\ minted \subseteq Tokens

InvitesInit ==
  /\ now = 0
  /\ invites = [t \in Tokens |-> Absent]
  /\ minted = {}

Unused(info) == [info EXCEPT !.st = "unused", !.nonce = NoConn, !.until = 0]

(* normalize_invites, for one entry of the table. *)
NormalizedEntry(info) ==
  IF info.st = "absent" THEN info
  ELSE IF info.expires < now \/ info.st = "used" THEN Absent
  ELSE IF info.st = "pending" /\ info.until < now THEN Unused(info)
  ELSE info

Normalized == [t \in Tokens |-> NormalizedEntry(invites[t])]

(* insert_invite_token, for a token that was never drawn before. *)
InsertInviteToken(t, r) ==
  /\ t \notin minted
  /\ minted' = minted \cup {t}
  /\ invites' = [invites EXCEPT ![t] =
       [st |-> "unused", room |-> r, expires |-> now + InviteTtl,
        nonce |-> NoConn, until |-> 0]]
  /\ UNCHANGED now

CanBegin(t) == Normalized[t].st = "unused"

(* begin_pending_invite: the table is normalised even when it answers None. *)
BeginPendingInvite(t, c) ==
  /\ invites' =
       IF CanBegin(t)
       THEN [Normalized EXCEPT ![t] =
              [@ EXCEPT !.st = "pending", !.nonce = c, !.until = now + PendingTtl]]
       ELSE Normalized
  /\ UNCHANGED <<now, minted>>

(* reset_invite_to_unused: no nonce is compared. *)
ResetInviteToUnused(t) ==
  /\ invites' =
       IF Normalized[t].st # "absent"
       THEN [Normalized EXCEPT ![t] = Unused(@)]
       ELSE Normalized
  /\ UNCHANGED <<now, minted>>

CanConsume(t, c) == Normalized[t].st = "pending" /\ Normalized[t].nonce = c

(* Mutant of ConsumeInviteReady: the token is left to its reservation. *)
ConsumeWithoutMarking(t, c) ==
  /\ invites' = Normalized
  /\ UNCHANGED <<now, minted>>

(* consume_invite_ready *)
ConsumeInviteReady(t, c) ==
  /\ invites' =
       IF CanConsume(t, c) THEN [Normalized EXCEPT ![t] = [@ EXCEPT !.st = "used"]]
                           ELSE Normalized
  /\ UNCHANGED <<now, minted>>

Tick ==
  /\ now < MaxNow
  /\ now' = now + 1
  /\ UNCHANGED <<invites, minted>>
=============================================================================
