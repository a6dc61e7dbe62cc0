--------------------------- MODULE DeliveryProofs ---------------------------
(***************************************************************************)
(* What follows from the promise of the network task (Delivery), for any   *)
(* packets and requests.                                                   *)
(***************************************************************************)
EXTENDS Delivery, TLAPS

(* The promise keeps its types. *)
THEOREM DeliveryTypes == ASSUME PacketsInOrder PROVE Spec => []TypeOK
<1>1. Init => TypeOK
  BY DEF Init, TypeOK
<1>2. TypeOK /\ [Next]_vars => TypeOK'
  <2> SUFFICES ASSUME TypeOK, [Next]_vars PROVE TypeOK'
    OBVIOUS
  <2> USE DEF TypeOK
  <2>1. CASE HandOver
    BY <2>1 DEF HandOver
  <2>2. ASSUME NEW p \in Packets, Confirm(p) PROVE TypeOK'
    BY <2>2 DEF Confirm
  <2>3. ASSUME NEW p \in Packets, GiveUp(p) PROVE TypeOK'
    BY <2>3 DEF GiveUp
  <2>4. ASSUME NEW r \in Requests, Answer(r) PROVE TypeOK'
    BY <2>4 DEF Answer
  <2>5. CASE UNCHANGED vars
    BY <2>5 DEF vars
  <2> QED
    BY <2>1, <2>2, <2>3, <2>4, <2>5 DEF Next
<1> QED
  BY <1>1, <1>2, PTL DEF Spec

-----------------------------------------------------------------------------
(* The packets are passed on without a gap and none twice: nothing that    *)
(* happens to the sender changes what was passed on.                       *)
THEOREM DeliveryInOrder == ASSUME PacketsInOrder PROVE Spec => []InOrder
<1>1. Init => InOrder
  BY DEF Init, InOrder
<1>2. TypeOK /\ InOrder /\ [Next]_vars => InOrder'
  <2> SUFFICES ASSUME TypeOK, InOrder, [Next]_vars PROVE InOrder'
    OBVIOUS
  <2>1. CASE HandOver
    <3>1. /\ handed \in Seq(Packets)
          /\ handed' = Append(handed, Len(handed) + 1)
      BY <2>1 DEF HandOver, TypeOK
    <3> QED
      BY <3>1 DEF InOrder
  <2>2. CASE UNCHANGED handed
    BY <2>2 DEF InOrder
  <2> QED
    BY <2>1, <2>2 DEF Next, Confirm, GiveUp, Answer, vars
<1> QED
  BY <1>1, <1>2, DeliveryTypes, PTL DEF Spec

(* A packet whose sender was told "ok" was passed on.                      *)
THEOREM DeliveryConfirmed == ASSUME PacketsInOrder PROVE Spec => []ConfirmedWasHanded
<1>1. Init => ConfirmedWasHanded
  BY DEF Init, ConfirmedWasHanded
<1>2. TypeOK /\ ConfirmedWasHanded /\ [Next]_vars => ConfirmedWasHanded'
  <2> SUFFICES ASSUME TypeOK, ConfirmedWasHanded, [Next]_vars
               PROVE  ConfirmedWasHanded'
    OBVIOUS
  <2> USE DEF TypeOK, ConfirmedWasHanded
  <2>1. CASE HandOver
    <3>1. Len(handed') = Len(handed) + 1 /\ told' = told
      BY <2>1 DEF HandOver
    <3>2. Len(handed) \in Nat
      OBVIOUS
    <3> QED
      BY <3>1, <3>2
  <2>2. ASSUME NEW p \in Packets, Confirm(p) PROVE ConfirmedWasHanded'
    <3>1. p \in 1 .. Len(handed)
      BY <2>2 DEF Confirm, PacketsInOrder
    <3> QED
      BY <2>2, <3>1 DEF Confirm
  <2>3. ASSUME NEW p \in Packets, GiveUp(p) PROVE ConfirmedWasHanded'
    BY <2>3 DEF GiveUp
  <2>4. ASSUME NEW r \in Requests, Answer(r) PROVE ConfirmedWasHanded'
    BY <2>4 DEF Answer
  <2>5. CASE UNCHANGED vars
    BY <2>5 DEF vars
  <2> QED
    BY <2>1, <2>2, <2>3, <2>4, <2>5 DEF Next
<1> QED
  BY <1>1, <1>2, DeliveryTypes, PTL DEF Spec

-----------------------------------------------------------------------------
(* An answer is only shown to a sender who was told that the request went  *)
(* through.                                                                *)
ShownWasConfirmed ==
  \A r \in Requests : shown[r] \in {"invitation", "rejected"} => told[r] = "ok"

LEMMA DeliveryShown == ASSUME PacketsInOrder PROVE Spec => []ShownWasConfirmed
<1>1. Init => ShownWasConfirmed
  BY DEF Init, ShownWasConfirmed
<1>2. TypeOK /\ ShownWasConfirmed /\ [Next]_vars => ShownWasConfirmed'
  <2> SUFFICES ASSUME TypeOK, ShownWasConfirmed, [Next]_vars
               PROVE  ShownWasConfirmed'
    OBVIOUS
  <2> USE DEF TypeOK, ShownWasConfirmed
  <2>1. CASE HandOver
    BY <2>1 DEF HandOver
  <2>2. ASSUME NEW p \in Packets, Confirm(p) PROVE ShownWasConfirmed'
    BY <2>2, PacketsInOrder DEF Confirm, PacketsInOrder
  <2>3. ASSUME NEW p \in Packets, GiveUp(p) PROVE ShownWasConfirmed'
    BY <2>3, PacketsInOrder DEF GiveUp, PacketsInOrder
  <2>4. ASSUME NEW r \in Requests, Answer(r) PROVE ShownWasConfirmed'
    BY <2>4 DEF Answer
  <2>5. CASE UNCHANGED vars
    BY <2>5 DEF vars
  <2> QED
    BY <2>1, <2>2, <2>3, <2>4, <2>5 DEF Next
<1> QED
  BY <1>1, <1>2, DeliveryTypes, PTL DEF Spec

(* The owner of a request is shown the answer to this request: what the    *)
(* server says of it cannot change once it was confirmed.                  *)
THEOREM DeliveryAnswers == ASSUME PacketsInOrder PROVE Spec => []AnswersMatch
<1> DEFINE Inv == TypeOK /\ ConfirmedWasHanded /\ ShownWasConfirmed
<1>1. Init => AnswersMatch
  BY DEF Init, AnswersMatch
<1>2. Inv /\ AnswersMatch /\ [Next]_vars => AnswersMatch'
  <2> SUFFICES ASSUME Inv, AnswersMatch, [Next]_vars PROVE AnswersMatch'
    OBVIOUS
  <2> USE DEF TypeOK, AnswersMatch
  <2>1. CASE HandOver
    (* The packet passed on is not one whose answer was shown. *)
    <3>1. Len(handed) \in Nat
      OBVIOUS
    <3>2. ASSUME NEW r \in Requests, shown[r] \in {"invitation", "rejected"}
          PROVE  r # Len(handed) + 1
      <4>1. r \in 1 .. Len(handed)
        BY <3>2, PacketsInOrder DEF ShownWasConfirmed, ConfirmedWasHanded, PacketsInOrder
      <4> QED
        BY <4>1, <3>1
    <3> QED
      BY <2>1, <3>2 DEF HandOver
  <2>2. ASSUME NEW p \in Packets, Confirm(p) PROVE AnswersMatch'
    BY <2>2 DEF Confirm
  <2>3. ASSUME NEW p \in Packets, GiveUp(p) PROVE AnswersMatch'
    BY <2>3 DEF GiveUp
  <2>4. ASSUME NEW r \in Requests, Answer(r) PROVE AnswersMatch'
    BY <2>4 DEF Answer
  <2>5. CASE UNCHANGED vars
    BY <2>5 DEF vars
  <2> QED
    BY <2>1, <2>2, <2>3, <2>4, <2>5 DEF Next
<1> QED
  BY <1>1, <1>2, DeliveryTypes, DeliveryConfirmed, DeliveryShown, PTL DEF Spec
=============================================================================
