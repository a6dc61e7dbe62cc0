------------------------------ MODULE Delivery ------------------------------
(***************************************************************************)
(* What the network task of a client promises for its texts and invite     *)
(* requests, without the lines, the ACKs, the repetitions and the timers   *)
(* that bring it about (send_transport_payload_with_ack and                *)
(* wait_for_invite_response).  NetworkTask implements it.                  *)
(*                                                                         *)
(* The packets go one at a time.  One that the sender is told of as failed *)
(* may still be passed on later: the connection is not the sender's.       *)
(***************************************************************************)
EXTENDS Naturals, Sequences

CONSTANTS
  Packets,   \* 1, 2, ... in the order the user entered them
  Requests   \* those that ask the server for an invitation

(* What the constants are; a hypothesis of the theorems about this module. *)
PacketsInOrder == Packets \subseteq Nat \ {0} /\ Requests \subseteq Packets

VARIABLES
  handed,   \* the packets the server passed on, in order
  told,     \* packet -> what the sender was told: none, ok or failed
  shown,    \* request -> none, invitation, rejected or failed
  granted   \* the requests for which the server made a token

vars == <<handed, told, shown, granted>>

TypeOK ==
  /\ handed \in Seq(Packets)
  /\ told \in [Packets -> {"none", "ok", "failed"}]
  /\ shown \in [Requests -> {"none", "invitation", "rejected", "failed"}]
  /\ granted \subseteq Requests

Init ==
  /\ handed = <<>>
  /\ told = [p \in Packets |-> "none"]
  /\ shown = [r \in Requests |-> "none"]
  /\ granted = {}

(* The sender is through with a packet. *)
Over(p) == told[p] # "none" /\ (p \in Requests => shown[p] # "none")

Turn(p) == \A q \in Packets : q < p => Over(q)

(* The server passes the next packet on; for a request it may make a token. *)
HandOver ==
  LET p == Len(handed) + 1
  IN /\ p \in Packets /\ Turn(p)
     /\ handed' = Append(handed, p)
     /\ granted' \in {granted, granted \cup (Requests \cap {p})}
     /\ UNCHANGED <<told, shown>>

(* The sender may only be told "ok" of a packet that was passed on. *)
Confirm(p) ==
  /\ Turn(p) /\ told[p] = "none"
  /\ p <= Len(handed)
  /\ told' = [told EXCEPT ![p] = "ok"]
  /\ UNCHANGED <<handed, shown, granted>>

(* It may be told "failed" at any time, and a request fails with it. *)
GiveUp(p) ==
  /\ Turn(p) /\ told[p] = "none"
  /\ told' = [told EXCEPT ![p] = "failed"]
  /\ shown' = [r \in Requests |-> IF r = p THEN "failed" ELSE shown[r]]
  /\ UNCHANGED <<handed, granted>>

(* The owner of a request is shown the answer to this request, or none     *)
(* came in time.                                                           *)
Answer(r) ==
  /\ told[r] = "ok" /\ shown[r] = "none"
  /\ shown' \in {[shown EXCEPT ![r] = "failed"],
                 [shown EXCEPT ![r] = IF r \in granted THEN "invitation" ELSE "rejected"]}
  /\ UNCHANGED <<handed, told, granted>>

Next ==
  \/ HandOver
  \/ \E p \in Packets : Confirm(p) \/ GiveUp(p)
  \/ \E r \in Requests : Answer(r)

Spec == Init /\ [][Next]_vars

-----------------------------------------------------------------------------
(* Consequences. *)

(* Each packet is passed on once, in the order it was entered and without  *)
(* a gap.                                                                  *)
InOrder == \A i \in DOMAIN handed : handed[i] = i

(* What the sender was told went through did go through. *)
ConfirmedWasHanded == \A p \in Packets : told[p] = "ok" => p \in 1 .. Len(handed)

(* The owner of a request is shown the answer to its own request, never    *)
(* that of one it had given up on.                                         *)
AnswersMatch ==
  \A r \in Requests : /\ shown[r] = "invitation" => r \in granted
                      /\ shown[r] = "rejected" => r \notin granted
=============================================================================
