------------------------- MODULE NetworkTaskProofs -------------------------
(***************************************************************************)
(* That the network task of a client implements what it promises           *)
(* (Delivery), for any packets, requests, replay window and retry limit,   *)
(* and what that rests on: every line opens, the table of requests holds   *)
(* the current request only, and an ACK in time is noticed.                *)
(***************************************************************************)
EXTENDS NetworkTask, TLAPS

Waits == at \in {"look", "arm", "asleep"}

-----------------------------------------------------------------------------
(* The parts of the invariant.                                             *)

(* The number the server expects when it comes to line i of the wire.      *)
Before(i) == IF i = 1 THEN nextRecv ELSE wire[i - 1].seq + 1

(* What the wire leaves the server with. *)
AfterWire == IF wire = <<>> THEN nextRecv ELSE wire[Len(wire)].seq + 1

(* The lines on the wire repeat their predecessor or follow it, and they   *)
(* lead from what the server expects to what the client sealed last.       *)
WireOK ==
  /\ \A i \in 1 .. Len(wire) :
       /\ wire[i].packet = wire[i].seq + 1
       /\ wire[i].seq < sealed
       /\ wire[i].seq + 1 \in {Before(i), Before(i) + 1}
  /\ nextRecv <= sealed
  /\ up => AfterWire = IF pc = "write" /\ attempts = 0 THEN sealed - 1 ELSE sealed
  /\ ~up => wire = <<>>
  /\ nextRecv > 0 => recent # <<>> /\ recent[Len(recent)] = nextRecv - 1

(* The line at hand is the one sealed last. *)
LineOK ==
  /\ sealed > 0 => sealed \in Packets /\ line = [seq |-> sealed - 1, packet |-> sealed]
  /\ pc # "idle" => sealed > 0 /\ at = "loop"
  /\ pc = "write" => attempts <= RetryLimit
  /\ pc \notin {"idle", "write"} => attempts > 0
  /\ Waits => /\ sealed \in Requests /\ sealed > 0
              /\ outcome[sealed] = "ok"

(* The packets before the line at hand are over, those after it untouched. *)
OrderOK ==
  /\ \A p \in Packets :
       /\ p > sealed => outcome[p] = "none"
       /\ p < sealed => outcome[p] # "none"
       /\ p = sealed => (outcome[p] = "none" <=> pc # "idle")
  /\ \A r \in Requests :
       /\ r > sealed => shown[r] = "none"
       /\ r < sealed => shown[r] # "none"
       /\ r = sealed => (shown[r] = "none" <=> pc # "idle" \/ Waits)

(* An ACK is for a packet the server passed on, and one the reader saw is  *)
(* in the table until the packet is over.                                  *)
AcksOK ==
  /\ Len(relayed) = nextRecv
  /\ \A i \in 1 .. Len(acks) : acks[i] <= nextRecv
  /\ \A p \in acked \cup marked : p <= nextRecv
  /\ \A p \in Packets : outcome[p] = "ok" => p <= nextRecv
  /\ pc # "idle" /\ sealed \in marked => sealed \in acked
  /\ pc = "check" /\ timely => sealed \in marked
  /\ pc \in {"poll", "arm", "waiting"} => ~timely

(* An answer on its way or in the table is the one the server gave.        *)
AnswersOK ==
  /\ \A r \in granted : r <= nextRecv
  /\ \A i \in 1 .. Len(answers) :
       /\ answers[i].request <= nextRecv
       /\ answers[i].result = "token" <=> answers[i].request \in granted
       /\ answers[i].behind <= Len(acks)
       /\ \A j \in 1 .. i : answers[j].behind <= answers[i].behind
  /\ \A r \in Requests :
       /\ pending[r] = "token" => r \in granted
       /\ pending[r] = "error" => r \notin granted /\ r <= nextRecv

Inv ==
  /\ TypeOK
  /\ WireOK
  /\ LineOK
  /\ OrderOK
  /\ AcksOK
  /\ AnswersOK
  /\ PendingIsCurrent

-----------------------------------------------------------------------------
(* What the invariant says of the variables of the network task.           *)

LEMMA Facts ==
  ASSUME Inv
  PROVE  /\ Packets \subseteq Nat \ {0} /\ Requests \subseteq Packets
         /\ RetryLimit \in Nat /\ Window \in Nat \ {0}
         /\ sealed \in Nat /\ nextRecv \in Nat /\ attempts \in Nat
         /\ wire \in Seq(Lines) /\ recent \in Seq(Nat) /\ acks \in Seq(Packets)
         /\ answers \in Seq(Answers) /\ relayed \in Seq(Packets)
         /\ outcome \in [Packets -> {"none", "ok", "failed"}]
         /\ shown \in [Requests -> {"none", "invitation", "rejected", "failed"}]
         /\ pending \in [Requests -> {"absent", "waiting", "token", "error"}]
         /\ at \in {"loop", "look", "arm", "asleep", "ended"}
         /\ pc \in {"idle", "write", "check", "poll", "arm", "waiting"}
  BY RequestsAssumption, RetryAssumption, WindowAssumption
     DEF Inv, TypeOK, SendTypeOK, TransportTypeOK

LEMMA LineFacts ==
  ASSUME Inv, pc # "idle"
  PROVE  /\ sealed \in Packets /\ sealed \in Nat \ {0}
         /\ line = [seq |-> sealed - 1, packet |-> sealed]
         /\ line.packet = sealed /\ line.seq = sealed - 1
         /\ at = "loop" /\ ~Waits
         /\ outcome[sealed] = "none"
         /\ sealed \in Requests => shown[sealed] = "none"
  BY Facts DEF Inv, LineOK, OrderOK, Waits

LEMMA WaitFacts ==
  ASSUME Inv, Waits
  PROVE  /\ Request = sealed /\ sealed \in Requests /\ sealed \in Nat \ {0}
         /\ sealed <= nextRecv
         /\ pc = "idle"
         /\ outcome[sealed] = "ok" /\ shown[sealed] = "none"
  BY Facts DEF Inv, LineOK, OrderOK, AcksOK, Waits, Request

LEMMA Opens == Inv => EveryLineOpens
  <1> SUFFICES ASSUME Inv, wire # <<>>
               PROVE  Fresh(Head(wire)) \/ Duplicate(Head(wire))
    BY DEF EveryLineOpens
  <1>1. /\ Head(wire) = wire[1] /\ 1 \in 1 .. Len(wire)
        /\ wire[1] \in Lines
    BY Facts
  <1>2. wire[1].seq \in Nat
    BY <1>1 DEF Lines
  <1>3. wire[1].seq + 1 \in {nextRecv, nextRecv + 1}
    BY <1>1 DEF Inv, WireOK, Before
  <1>4. CASE wire[1].seq = nextRecv
    BY <1>1, <1>4 DEF Fresh
  <1>5. CASE wire[1].seq + 1 = nextRecv
    <2>0. nextRecv \in Nat
      BY Facts
    <2>1. nextRecv > 0 /\ wire[1].seq = nextRecv - 1
      BY <1>2, <1>5, <2>0
    <2>2. Len(recent) \in 1 .. Len(recent) /\ recent[Len(recent)] = wire[1].seq
      BY <2>1, Facts DEF Inv, WireOK
    <2>3. \E i \in 1 .. Len(recent) : recent[i] = wire[1].seq
      BY <2>2
    <2>4. wire[1].seq < nextRecv
      BY <1>2, <1>5, <2>0
    <2> QED
      BY <1>1, <2>3, <2>4 DEF Duplicate, Contains
  <1>6. nextRecv \in Nat
    BY Facts
  <1> QED
    BY <1>2, <1>3, <1>4, <1>5, <1>6

-----------------------------------------------------------------------------
(* What a step of the sending of a packet comes to: the packet is still on *)
(* its way, or it is over.                                                 *)

Repeats ==
  /\ pc = "write" /\ pc' = "check"
  /\ wire' = IF up THEN Append(wire, line) ELSE wire
  /\ attempts' = attempts + 1
  /\ timely' = (sealed \in marked)

Moves ==
  /\ \/ pc = "check" /\ sealed \notin acked /\ pc' = "poll"
     \/ pc = "poll" /\ sealed \notin acked /\ pc' = "arm"
     \/ pc = "arm" /\ pc' = "waiting"
     \/ pc \in {"poll", "waiting"} /\ attempts <= RetryLimit /\ pc' = "write"
  /\ UNCHANGED <<wire, attempts, timely>>

OnItsWay ==
  /\ Repeats \/ Moves
  /\ UNCHANGED <<outcome, at, pending, shown, acked>>

OverWith(result) ==
  /\ pc' = "idle"
  /\ UNCHANGED <<wire, attempts, timely>>
  /\ acked' \in {acked, acked \ {sealed}}
  /\ outcome' = [outcome EXCEPT ![sealed] = result]
  /\ \/ result = "ok" /\ sealed \in acked /\ pc # "write"
     \/ result = "failed" /\ (pc \in {"poll", "waiting"} \/ (pc = "write" /\ ~up))
  /\ \/ sealed \notin Requests /\ UNCHANGED <<at, pending, shown>>
     \/ sealed \in Requests /\ result = "ok" /\ at' = "look" /\ UNCHANGED <<pending, shown>>
     \/ /\ sealed \in Requests /\ result = "failed" /\ UNCHANGED at
        /\ pending' = [pending EXCEPT ![sealed] = "absent"]
        /\ shown' = [shown EXCEPT ![sealed] = "failed"]

LEMMA SendSteps ==
  ASSUME Inv, Send
  PROVE  /\ pc # "idle"
         /\ UNCHANGED <<up, sealed, nextRecv, recent, acks, marked, line, relayed,
                        answers, granted>>
         /\ waiters' \in SUBSET (waiters \cup {sealed})
         /\ OnItsWay \/ \E result \in {"ok", "failed"} : OverWith(result)
  <1>1. pc # "idle" /\ Task
    BY DEF Send, Task, Write, WriteFails, Check, Poll, Arm, Timeout
  <1>2. /\ sealed \in Packets /\ line.packet = sealed /\ outcome[sealed] = "none"
        /\ outcome \in [Packets -> {"none", "ok", "failed"}]
    BY <1>1, LineFacts, Facts
  <1>3. ASSUME UNCHANGED outcome
        PROVE  UNCHANGED <<at, pending, shown>>
    BY <1>2, <1>3 DEF Send
  <1>4. ASSUME NEW result \in {"ok", "failed"},
               outcome' = [outcome EXCEPT ![sealed] = result]
        PROVE  \/ sealed \notin Requests /\ UNCHANGED <<at, pending, shown>>
               \/ sealed \in Requests /\ result = "ok" /\ at' = "look" /\ UNCHANGED <<pending, shown>>
               \/ /\ sealed \in Requests /\ result = "failed" /\ UNCHANGED at
                  /\ pending' = [pending EXCEPT ![sealed] = "absent"]
                  /\ shown' = [shown EXCEPT ![sealed] = "failed"]
    <2>1. outcome' # outcome /\ outcome'[sealed] = result
      BY <1>2, <1>4
    <2> QED
      BY <1>2, <2>1 DEF Send, Dropped, Told
  <1>5. UNCHANGED <<relayed, answers, granted>>
    BY DEF Send
  <1>6. CASE Write
    BY <1>1, <1>2, <1>3, <1>5, <1>6 DEF Write, Written, OnItsWay, Repeats
  <1>7. CASE WriteFails
    <2>1. OverWith("failed")
      BY <1>1, <1>2, <1>4, <1>7 DEF WriteFails, transportVars, OverWith
    <2> QED
      BY <1>1, <1>2, <1>5, <1>7, <2>1 DEF WriteFails, transportVars
  <1>8. ASSUME NEW to, Goto(to)
        PROVE  /\ pc' = to
               /\ UNCHANGED <<up, sealed, nextRecv, recent, acks, marked, line, waiters,
                              wire, attempts, timely, outcome, at, pending, shown, acked>>
    BY <1>3, <1>8 DEF Goto, transportVars
  <1>9. ASSUME NEW result \in {"ok", "failed"}, Ended(result),
               \/ result = "ok" /\ sealed \in acked /\ pc # "write"
               \/ result = "failed" /\ pc \in {"poll", "waiting"}
        PROVE  /\ OverWith(result)
               /\ UNCHANGED <<up, sealed, nextRecv, recent, acks, marked, line>>
               /\ waiters' \in SUBSET (waiters \cup {sealed})
    <2>1. /\ pc' = "idle" /\ acked' = acked \ {sealed}
          /\ outcome' = [outcome EXCEPT ![sealed] = result]
          /\ waiters' = waiters \ {sealed}
          /\ UNCHANGED <<up, sealed, wire, nextRecv, recent, acks, line, attempts,
                         marked, timely>>
      BY <1>2, <1>9 DEF Ended, Finish
    <2>2. \/ sealed \notin Requests /\ UNCHANGED <<at, pending, shown>>
          \/ sealed \in Requests /\ result = "ok" /\ at' = "look" /\ UNCHANGED <<pending, shown>>
          \/ /\ sealed \in Requests /\ result = "failed" /\ UNCHANGED at
             /\ pending' = [pending EXCEPT ![sealed] = "absent"]
             /\ shown' = [shown EXCEPT ![sealed] = "failed"]
      BY <1>4, <2>1
    <2>3. OverWith(result)
      BY <1>9, <2>1, <2>2 DEF OverWith
    <2> QED
      BY <2>1, <2>3
  <1>10. CASE Check
    BY <1>1, <1>2, <1>5, <1>8, <1>9, <1>10 DEF Check, Confirmed, OnItsWay, Moves
  <1>11. CASE Poll
    BY <1>1, <1>2, <1>5, <1>8, <1>9, <1>11 DEF Poll, Confirmed, OnItsWay, Moves
  <1>12. CASE Arm
    BY <1>1, <1>2, <1>5, <1>8, <1>12 DEF Arm, OnItsWay, Moves
  <1>13. CASE Timeout
    BY <1>1, <1>2, <1>5, <1>8, <1>9, <1>13 DEF Timeout, OnItsWay, Moves
  <1> QED
    BY <1>1, <1>6, <1>7, <1>10, <1>11, <1>12, <1>13 DEF Task

-----------------------------------------------------------------------------
(* The parts are kept by the steps that leave their variables alone.       *)

LEMMA WireKept ==
  ASSUME Inv, UNCHANGED <<up, sealed, wire, nextRecv, recent>>,
         pc' = "write" /\ attempts' = 0 <=> pc = "write" /\ attempts = 0
  PROVE  WireOK'
  BY DEF Inv, WireOK, AfterWire, Before

LEMMA AnswersKept ==
  ASSUME Inv, UNCHANGED <<nextRecv, answers, acks, granted>>,
         \A r \in Requests : pending'[r] \in {pending[r], "absent", "waiting"}
  PROVE  AnswersOK'
  BY DEF Inv, AnswersOK

-----------------------------------------------------------------------------
LEMMA InitInv == Init => Inv
  <1> SUFFICES ASSUME Init PROVE Inv
    OBVIOUS
  <1> USE DEF Init, SendInit, TransportInit
  <1>1. TypeOK
    <2>1. TransportTypeOK
      BY DEF TransportTypeOK
    <2>2. line \in Lines
      BY DEF Lines
    <2>3. /\ attempts \in 0 .. RetryLimit + 1
          /\ outcome \in [Packets -> {"none", "ok", "failed"}]
          /\ waiters \subseteq Packets /\ marked \subseteq Packets
      BY RetryAssumption
    <2>4. pc \in {"idle", "write", "check", "poll", "arm", "waiting"} /\ timely \in BOOLEAN
      OBVIOUS
    <2>5. SendTypeOK
      BY <2>1, <2>2, <2>3, <2>4 DEF SendTypeOK
    <2> QED
      BY <2>5, RequestsAssumption DEF TypeOK
  <1>2. WireOK
    BY DEF WireOK, AfterWire
  <1>3. LineOK
    BY DEF LineOK, Waits
  <1>4. OrderOK
    BY RequestsAssumption, RetryAssumption DEF OrderOK
  <1>5. AcksOK
    BY DEF AcksOK
  <1>6. AnswersOK
    BY DEF AnswersOK
  <1>7. PendingIsCurrent
    BY DEF PendingIsCurrent
  <1> QED
    BY <1>1, <1>2, <1>3, <1>4, <1>5, <1>6, <1>7 DEF Inv

LEMMA BeginInv ==
  ASSUME Inv, Begin
  PROVE  Inv'
  <1> DEFINE p == sealed + 1
  <1>1. /\ at = "loop" /\ pc = "idle" /\ pc' = "write" /\ attempts' = 0
        /\ p \in Packets /\ sealed' = p /\ sealed \in Nat
        /\ line' = [seq |-> sealed, packet |-> p] /\ line'.packet = p
        /\ pending' = [r \in Requests |-> IF r = p THEN "waiting" ELSE pending[r]]
        /\ UNCHANGED <<up, wire, nextRecv, recent, acks, acked, waiters, outcome,
                       marked, timely, at, relayed, answers, shown, granted>>
    BY Facts DEF Begin, Start, Sealed
  <1>2. \A r \in Requests : pending[r] = "absent"
    BY <1>1 DEF Inv, PendingIsCurrent
  <1>3. TypeOK'
    <2>1. line' \in Lines
      BY <1>1 DEF Lines
    <2>2. pending' \in [Requests -> {"absent", "waiting", "token", "error"}]
      BY <1>1, Facts
    <2> QED
      BY <1>1, <2>1, <2>2, Facts DEF Inv, TypeOK, SendTypeOK, TransportTypeOK
  <1>4. WireOK'
    <2>1. ASSUME NEW i \in 1 .. Len(wire)
          PROVE  /\ wire[i].packet = wire[i].seq + 1
                 /\ wire[i].seq < sealed'
                 /\ wire[i].seq + 1 \in {Before(i), Before(i) + 1}
      <3>1. wire[i] \in Lines
        BY Facts
      <3>2. wire[i].seq \in Nat
        BY <3>1 DEF Lines
      <3> QED
        BY <1>1, <3>2 DEF Inv, WireOK
    <2>2. \A i \in 1 .. Len(wire) : Before(i)' = Before(i)
      BY <1>1 DEF Before
    <2>3. up => AfterWire' = sealed' - 1
      BY <1>1, Facts DEF Inv, WireOK, AfterWire
    <2>4. nextRecv' <= sealed'
      BY <1>1, Facts DEF Inv, WireOK
    <2> QED
      BY <1>1, <2>1, <2>2, <2>3, <2>4 DEF Inv, WireOK
  <1>5. LineOK'
    BY <1>1, Facts DEF LineOK, Waits
  <1>6. OrderOK'
    <2>1. \A q \in Packets : /\ q > p => q > sealed
                             /\ q < p => q <= sealed
                             /\ q = p => q > sealed
      BY <1>1, Facts
    <2>2. ~Waits /\ ~Waits'
      BY <1>1 DEF Waits
    <2> QED
      BY <1>1, <2>1, <2>2, Facts DEF Inv, OrderOK
  <1>7. AcksOK'
    <2>1. p \notin marked
      BY <1>1, Facts DEF Inv, AcksOK, WireOK
    <2> QED
      BY <1>1, <2>1, Facts DEF Inv, AcksOK
  <1>8. AnswersOK'
    BY <1>1, <1>2, AnswersKept
  <1>9. PendingIsCurrent'
    BY <1>1, <1>2 DEF PendingIsCurrent
  <1> QED
    BY <1>3, <1>4, <1>5, <1>6, <1>7, <1>8, <1>9 DEF Inv

LEMMA SendInv ==
  ASSUME Inv, Send
  PROVE  Inv'
  <1>1. /\ pc # "idle"
        /\ UNCHANGED <<up, sealed, nextRecv, recent, acks, marked, line, relayed,
                       answers, granted>>
        /\ waiters' \in SUBSET (waiters \cup {sealed})
        /\ OnItsWay \/ \E result \in {"ok", "failed"} : OverWith(result)
    BY SendSteps
  <1>2. /\ sealed \in Packets /\ sealed \in Nat \ {0}
        /\ line = [seq |-> sealed - 1, packet |-> sealed]
        /\ at = "loop" /\ ~Waits /\ outcome[sealed] = "none"
        /\ sealed \in Requests => shown[sealed] = "none"
    BY <1>1, LineFacts
  <1>3. \A r \in Requests : pending[r] # "absent" <=> r = sealed
    BY <1>1, <1>2 DEF Inv, PendingIsCurrent
  <1>4. CASE Repeats /\ OnItsWay
    <2>1. /\ pc = "write" /\ pc' = "check" /\ attempts' = attempts + 1
          /\ wire' = IF up THEN Append(wire, line) ELSE wire
          /\ timely' = (sealed \in marked)
          /\ UNCHANGED <<outcome, at, pending, shown, acked>>
      BY <1>4 DEF Repeats, OnItsWay
    <2>2. attempts \in 0 .. RetryLimit /\ attempts + 1 \in 0 .. RetryLimit + 1
      <3>1. attempts <= RetryLimit
        BY <2>1 DEF Inv, LineOK
      <3>2. \A a, r \in Nat : a <= r => a \in 0 .. r /\ a + 1 \in 0 .. r + 1
        OBVIOUS
      <3> QED
        BY <3>1, <3>2, Facts
    <2>3. line \in Lines /\ wire \in Seq(Lines) /\ wire' \in Seq(Lines)
      <3>1. line \in Lines
        BY <1>2 DEF Lines
      <3>2. wire \in Seq(Lines)
        BY Facts
      <3> QED
        BY <2>1, <3>1, <3>2
    <2>4. TypeOK'
      <3>1. TransportTypeOK'
        BY <1>1, <2>1, <2>3 DEF Inv, TypeOK, SendTypeOK, TransportTypeOK
      <3>2. timely' \in BOOLEAN
        BY <2>1
      <3>3. SendTypeOK'
        BY <1>1, <1>2, <2>1, <2>2, <2>3, <3>1, <3>2 DEF Inv, TypeOK, SendTypeOK
      <3> QED
        BY <1>1, <2>1, <3>3 DEF Inv, TypeOK
    <2>5. WireOK'
      <3>1. CASE up
        <4> DEFINE n == Len(wire)
        <4>1. /\ n \in Nat /\ wire' # <<>> /\ Len(wire') = n + 1
              /\ \A i \in 1 .. n : wire'[i] = wire[i]
              /\ wire'[n + 1] = line /\ line.seq = sealed - 1 /\ line.packet = sealed
          BY <1>2, <2>1, <2>3, <3>1
        <4>2. \A i \in 1 .. n : Before(i)' = Before(i)
          BY <1>1, <4>1 DEF Before
        <4>3. \A i \in {n + 1} : Before(i)' = AfterWire
          <5>1. CASE wire = <<>>
            BY <1>1, <4>1, <5>1 DEF Before, AfterWire
          <5>2. CASE wire # <<>>
            <6>1. n \in 1 .. n /\ n + 1 # 1 /\ (n + 1) - 1 = n
              BY <2>3, <5>2
            <6> QED
              BY <4>1, <5>2, <6>1 DEF Before, AfterWire
          <5> QED
            BY <5>1, <5>2
        <4>4. AfterWire \in {sealed - 1, sealed}
          BY <3>1 DEF Inv, WireOK
        <4>5. \A i \in 1 .. n + 1 :
                /\ wire'[i].packet = wire'[i].seq + 1
                /\ wire'[i].seq < sealed
                /\ wire'[i].seq + 1 \in {Before(i)', Before(i)' + 1}
          <5>1. ASSUME NEW i \in 1 .. n
                PROVE  /\ wire'[i].packet = wire'[i].seq + 1
                       /\ wire'[i].seq < sealed
                       /\ wire'[i].seq + 1 \in {Before(i)', Before(i)' + 1}
            BY <4>1, <4>2 DEF Inv, WireOK
          <5>2. ASSUME NEW i \in {n + 1}
                PROVE  /\ wire'[i].packet = wire'[i].seq + 1
                       /\ wire'[i].seq < sealed
                       /\ wire'[i].seq + 1 \in {Before(i)', Before(i)' + 1}
            BY <1>2, <4>1, <4>3, <4>4
          <5>3. \A i \in 1 .. n + 1 : i \in 1 .. n \/ i \in {n + 1}
            BY <4>1
          <5> QED
            BY <5>1, <5>2, <5>3
        <4>6. AfterWire' = sealed
          BY <1>2, <4>1 DEF AfterWire
        <4> QED
          BY <1>1, <2>1, <3>1, <4>1, <4>5, <4>6 DEF Inv, WireOK
      <3>2. CASE ~up
        BY <1>1, <2>1, <3>2 DEF Inv, WireOK
      <3> QED
        BY <3>1, <3>2
    <2>6. LineOK'
      BY <1>1, <1>2, <2>1, <2>2 DEF Inv, LineOK, Waits
    <2>7. OrderOK'
      BY <1>1, <1>2, <2>1 DEF Inv, OrderOK, Waits
    <2>8. AcksOK'
      BY <1>1, <2>1 DEF Inv, AcksOK
    <2>9. AnswersOK'
      BY <1>1, <2>1, AnswersKept
    <2>10. PendingIsCurrent'
      BY <1>1, <1>2, <2>1 DEF Inv, PendingIsCurrent
    <2> QED
      BY <2>4, <2>5, <2>6, <2>7, <2>8, <2>9, <2>10 DEF Inv
  <1>5. CASE Moves /\ OnItsWay
    <2>1. /\ pc' # "idle" /\ pc' \in {"write", "poll", "arm", "waiting"}
          /\ UNCHANGED <<wire, attempts, timely, outcome, at, pending, shown, acked>>
          /\ (pc = "check" /\ sealed \notin acked) \/ pc \in {"poll", "arm", "waiting"}
          /\ pc' = "write" => attempts <= RetryLimit /\ attempts > 0
          /\ attempts > 0
      BY <1>1, <1>5, Facts DEF Moves, OnItsWay, Inv, LineOK
    <2>2. TypeOK'
      BY <1>1, <1>2, <2>1, Facts DEF Inv, TypeOK, SendTypeOK, TransportTypeOK
    <2>3. WireOK'
      BY <1>1, <2>1, WireKept, Facts
    <2>4. LineOK'
      BY <1>1, <1>2, <2>1 DEF Inv, LineOK, Waits
    <2>5. OrderOK'
      BY <1>1, <1>2, <2>1 DEF Inv, OrderOK, Waits
    <2>6. AcksOK'
      BY <1>1, <2>1 DEF Inv, AcksOK
    <2>7. AnswersOK'
      BY <1>1, <2>1, AnswersKept
    <2>8. PendingIsCurrent'
      BY <1>1, <1>2, <2>1 DEF Inv, PendingIsCurrent
    <2> QED
      BY <2>2, <2>3, <2>4, <2>5, <2>6, <2>7, <2>8 DEF Inv
  <1>6. ASSUME NEW result \in {"ok", "failed"}, OverWith(result)
        PROVE  Inv'
    <2>1. /\ pc' = "idle"
          /\ UNCHANGED <<wire, attempts, timely>>
          /\ acked' \in {acked, acked \ {sealed}}
          /\ outcome' = [outcome EXCEPT ![sealed] = result]
          /\ result = "ok" => sealed \in acked
          /\ pc = "write" => ~up
      BY <1>6 DEF OverWith
    <2>2. \/ sealed \notin Requests /\ UNCHANGED <<at, pending, shown>>
          \/ sealed \in Requests /\ result = "ok" /\ at' = "look" /\ UNCHANGED <<pending, shown>>
          \/ /\ sealed \in Requests /\ result = "failed" /\ UNCHANGED at
             /\ pending' = [pending EXCEPT ![sealed] = "absent"]
             /\ shown' = [shown EXCEPT ![sealed] = "failed"]
      BY <1>6 DEF OverWith
    <2>3. /\ outcome'[sealed] = result
          /\ \A p \in Packets : p # sealed => outcome'[p] = outcome[p]
          /\ outcome' \in [Packets -> {"none", "ok", "failed"}]
      BY <1>2, <2>1, Facts
    <2>4. TypeOK'
      <3>1. SendTypeOK'
        BY <1>1, <1>2, <2>1, <2>3 DEF Inv, TypeOK, SendTypeOK, TransportTypeOK
      <3>2. /\ pending' \in [Requests -> {"absent", "waiting", "token", "error"}]
            /\ shown' \in [Requests -> {"none", "invitation", "rejected", "failed"}]
            /\ at' \in {"loop", "look", "arm", "asleep", "ended"}
        BY <2>2, Facts
      <3> QED
        BY <1>1, <3>1, <3>2 DEF Inv, TypeOK
    <2>5. WireOK'
      <3>1. CASE pc = "write" /\ attempts = 0
        BY <1>1, <2>1, <3>1 DEF Inv, WireOK, AfterWire, Before
      <3>2. CASE ~(pc = "write" /\ attempts = 0)
        BY <1>1, <2>1, <3>2, WireKept
      <3> QED
        BY <3>1, <3>2
    <2>6. LineOK'
      BY <1>1, <1>2, <2>1, <2>2, <2>3 DEF Inv, LineOK, Waits
    <2>7. OrderOK'
      BY <1>1, <1>2, <2>1, <2>2, <2>3, Facts DEF Inv, OrderOK, Waits
    <2>8. AcksOK'
      BY <1>1, <1>2, <2>1, <2>3 DEF Inv, AcksOK
    <2>9. AnswersOK'
      BY <1>1, <2>2, AnswersKept, Facts
    <2>10. PendingIsCurrent'
      BY <1>1, <1>2, <1>3, <2>1, <2>2, Facts DEF PendingIsCurrent
    <2> QED
      BY <2>4, <2>5, <2>6, <2>7, <2>8, <2>9, <2>10 DEF Inv
  <1> QED
    BY <1>1, <1>4, <1>5, <1>6 DEF OnItsWay

LEMMA WaitInv ==
  ASSUME Inv, Look \/ Sleep \/ WaitTimeout \/ End
  PROVE  Inv'
  <1>1. UNCHANGED <<transportVars, taskVars, relayed, answers, granted>>
    BY DEF Look, Sleep, WaitTimeout, End
  <1>2. UNCHANGED <<up, sealed, wire, nextRecv, recent, acks, acked, pc, line, attempts,
                    waiters, outcome, marked, timely, relayed, answers, granted>>
    BY <1>1 DEF transportVars, taskVars
  <1>3. \/ /\ Waits /\ at' \in {"arm", "asleep"} /\ UNCHANGED <<pending, shown>>
        \/ /\ at = "loop" /\ pc = "idle" /\ at' = "ended" /\ UNCHANGED <<pending, shown>>
        \/ /\ Waits /\ at' = "loop"
           /\ pending' = [pending EXCEPT ![sealed] = "absent"]
           /\ \E what \in {"invitation", "rejected", "failed"} :
                shown' = [shown EXCEPT ![sealed] = what]
    <2>1. Waits => Request = sealed
      BY WaitFacts
    <2>2. CASE Look
      BY <2>1, <2>2 DEF Look, Waits, Dropped, Told
    <2>3. CASE Sleep
      BY <2>3 DEF Sleep, Waits
    <2>4. CASE WaitTimeout
      BY <2>1, <2>4 DEF WaitTimeout, Waits, Dropped, Told
    <2>5. CASE End
      BY <2>5 DEF End
    <2> QED
      BY <2>2, <2>3, <2>4, <2>5
  <1>4. Waits => /\ sealed \in Requests /\ sealed \in Nat \ {0} /\ pc = "idle"
                 /\ line.packet = sealed /\ at # "loop"
    BY WaitFacts DEF Waits, Request
  <1>5. TypeOK'
    <2>1. SendTypeOK'
      BY <1>2 DEF Inv, TypeOK, SendTypeOK, TransportTypeOK
    <2>2. /\ pending' \in [Requests -> {"absent", "waiting", "token", "error"}]
          /\ shown' \in [Requests -> {"none", "invitation", "rejected", "failed"}]
          /\ at' \in {"loop", "look", "arm", "asleep", "ended"}
      <3>1. /\ shown \in [Requests -> {"none", "invitation", "rejected", "failed"}]
            /\ pending \in [Requests -> {"absent", "waiting", "token", "error"}]
        BY Facts
      <3> QED
        BY <1>3, <3>1
    <2> QED
      BY <1>2, <2>1, <2>2 DEF Inv, TypeOK
  <1>6. WireOK'
    BY <1>2, WireKept
  <1>7. LineOK'
    BY <1>2, <1>3, <1>4 DEF Inv, LineOK, Waits
  <1>8. OrderOK'
    BY <1>2, <1>3, <1>4, Facts DEF Inv, OrderOK, Waits
  <1>9. AcksOK'
    BY <1>2 DEF Inv, AcksOK
  <1>10. AnswersOK'
    BY <1>2, <1>3, AnswersKept, Facts
  <1>11. PendingIsCurrent'
    <2>1. CASE Waits /\ at' \in {"arm", "asleep"} /\ UNCHANGED pending
      BY <1>2, <2>1 DEF Inv, PendingIsCurrent, Waits
    <2>2. CASE at = "loop" /\ pc = "idle" /\ at' = "ended" /\ UNCHANGED pending
      BY <1>2, <2>2 DEF Inv, PendingIsCurrent
    <2>3. CASE /\ Waits /\ at' = "loop"
               /\ pending' = [pending EXCEPT ![sealed] = "absent"]
      BY <1>2, <1>4, <2>3, Facts DEF Inv, PendingIsCurrent
    <2> QED
      BY <1>3, <2>1, <2>2, <2>3
  <1> QED
    BY <1>5, <1>6, <1>7, <1>8, <1>9, <1>10, <1>11 DEF Inv

LEMMA ReadAckInv ==
  ASSUME Inv, ReadAck
  PROVE  Inv'
  <1>1. /\ at # "ended" /\ acks # <<>> /\ ~AnswerNext
        /\ acks' = Tail(acks)
        /\ acked' = acked \cup ({Head(acks)} \cap Packets)
        /\ marked' = marked \cup {Head(acks)}
        /\ pc' \in {pc, IF pc = "waiting" THEN "poll" ELSE pc}
        /\ answers' = [i \in DOMAIN answers |-> [answers[i] EXCEPT !.behind = @ - 1]]
        /\ UNCHANGED <<up, sealed, wire, nextRecv, recent, line, attempts, waiters, outcome,
                       timely, at, pending, relayed, shown, granted>>
    BY DEF ReadAck, Mark, ReaderMarks
  <1>2. /\ Head(acks) = acks[1] /\ acks[1] \in Packets /\ acks[1] <= nextRecv
        /\ Tail(acks) \in Seq(Packets) /\ Len(acks') = Len(acks) - 1
        /\ Len(acks) \in Nat
        /\ \A i \in 1 .. Len(acks') : acks'[i] = acks[i + 1] /\ i + 1 \in 1 .. Len(acks)
    <2>1. acks \in Seq(Packets)
      BY Facts
    <2>2. 1 \in 1 .. Len(acks) /\ Head(acks) = acks[1] /\ acks[1] \in Packets
      BY <1>1, <2>1
    <2> QED
      BY <1>1, <2>1, <2>2 DEF Inv, AcksOK
  <1>3. DOMAIN answers = 1 .. Len(answers) /\ Len(answers) \in Nat
    BY Facts
  <1>4. \A i \in 1 .. Len(answers) :
          /\ answers[i] \in Answers
          /\ answers[i].behind \in Nat /\ answers[i].behind > 0
    <2>1. ASSUME NEW i \in 1 .. Len(answers)
          PROVE  /\ answers[i] \in Answers
                 /\ answers[i].behind \in Nat /\ answers[i].behind > 0
      <3>1. /\ answers[i] \in Answers /\ answers[1] \in Answers
            /\ 1 \in 1 .. i /\ Head(answers) = answers[1] /\ answers # <<>>
        BY Facts, <1>3
      <3>2. answers[i].behind \in Nat /\ answers[1].behind \in Nat
        BY <3>1 DEF Answers
      <3>3. answers[1].behind # 0
        BY <1>1, <3>1 DEF AnswerNext
      <3>4. answers[1].behind <= answers[i].behind
        BY <3>1 DEF Inv, AnswersOK
      <3> QED
        BY <3>1, <3>2, <3>3, <3>4
    <2> QED
      BY <2>1
  <1>5. /\ answers' \in Seq(Answers) /\ Len(answers') = Len(answers)
        /\ \A i \in 1 .. Len(answers) :
             /\ answers'[i].request = answers[i].request
             /\ answers'[i].result = answers[i].result
             /\ answers'[i].behind = answers[i].behind - 1
    <2>1. \A i \in 1 .. Len(answers) :
            /\ answers'[i] = [answers[i] EXCEPT !.behind = @ - 1]
            /\ answers'[i] \in Answers
            /\ answers'[i].request = answers[i].request
            /\ answers'[i].result = answers[i].result
            /\ answers'[i].behind = answers[i].behind - 1
      BY <1>1, <1>3, <1>4 DEF Answers
    <2>2. answers' \in [1 .. Len(answers) -> Answers]
      BY <1>1, <1>3, <2>1
    <2>3. answers' \in Seq(Answers) /\ Len(answers') = Len(answers)
      BY <1>3, <2>2
    <2> QED
      BY <2>1, <2>3
  <1>6. TypeOK'
    <2>1. TransportTypeOK'
      BY <1>1, <1>2 DEF Inv, TypeOK, SendTypeOK, TransportTypeOK
    <2>2. SendTypeOK'
      BY <1>1, <1>2, <2>1 DEF Inv, TypeOK, SendTypeOK
    <2> QED
      BY <1>1, <1>5, <2>2 DEF Inv, TypeOK
  <1>7. WireOK'
    BY <1>1, WireKept
  <1>8. LineOK'
    BY <1>1 DEF Inv, LineOK, Waits
  <1>9. OrderOK'
    BY <1>1 DEF Inv, OrderOK, Waits
  <1>10. AcksOK'
    <2>1. \A i \in 1 .. Len(acks') : acks'[i] <= nextRecv
      BY <1>2 DEF Inv, AcksOK
    <2>2. pc' # "idle" /\ sealed \in marked' => sealed \in acked'
      BY <1>1, <1>2 DEF Inv, AcksOK
    <2> QED
      BY <1>1, <1>2, <2>1, <2>2 DEF Inv, AcksOK
  <1>11. AnswersOK'
    BY <1>1, <1>2, <1>3, <1>4, <1>5 DEF Inv, AnswersOK
  <1>12. PendingIsCurrent'
    BY <1>1 DEF Inv, PendingIsCurrent
  <1> QED
    BY <1>6, <1>7, <1>8, <1>9, <1>10, <1>11, <1>12 DEF Inv

LEMMA ReadAnswerInv ==
  ASSUME Inv, ReadAnswer
  PROVE  Inv'
  <1> DEFINE a == Head(answers)
  <1>1. /\ answers # <<>> /\ answers' = Tail(answers)
        /\ pending' = Resolved(a)
        /\ at' \in {at, IF at = "asleep" THEN "look" ELSE at}
        /\ UNCHANGED <<up, sealed, wire, nextRecv, recent, acks, acked, pc, line, attempts,
                       waiters, outcome, marked, timely, relayed, shown, granted>>
    BY DEF ReadAnswer, AnswerNext, transportVars, taskVars
  <1>2. /\ a = answers[1] /\ a \in Answers /\ 1 \in 1 .. Len(answers)
        /\ answers' \in Seq(Answers) /\ Len(answers') = Len(answers) - 1
        /\ Len(answers) \in Nat
        /\ \A i \in 1 .. Len(answers') :
             /\ answers'[i] = answers[i + 1] /\ i + 1 \in 1 .. Len(answers)
    BY <1>1, Facts
  <1>3. /\ a.request \in Requests /\ a.result \in {"token", "error"}
        /\ a.request <= nextRecv
        /\ a.result = "token" <=> a.request \in granted
    BY <1>2 DEF Answers, Inv, AnswersOK
  <1> HIDE DEF a
  <1>4. /\ pending' \in [Requests -> {"absent", "waiting", "token", "error"}]
        /\ \A r \in Requests :
             /\ pending'[r] = "absent" <=> pending[r] = "absent"
             /\ pending'[r] = pending[r] \/ (r = a.request /\ pending'[r] = a.result)
    BY <1>1, <1>3, Facts DEF Resolved
  <1>5. TypeOK'
    BY <1>1, <1>2, <1>4 DEF Inv, TypeOK, SendTypeOK, TransportTypeOK
  <1>6. WireOK'
    BY <1>1, WireKept
  <1>7. LineOK'
    BY <1>1 DEF Inv, LineOK, Waits
  <1>8. OrderOK'
    BY <1>1 DEF Inv, OrderOK, Waits
  <1>9. AcksOK'
    BY <1>1 DEF Inv, AcksOK
  <1>10. AnswersOK'
    <2>1. ASSUME NEW i \in 1 .. Len(answers')
          PROVE  /\ answers'[i].request <= nextRecv
                 /\ answers'[i].result = "token" <=> answers'[i].request \in granted
                 /\ answers'[i].behind <= Len(acks)
                 /\ \A j \in 1 .. i : answers'[j].behind <= answers'[i].behind
      <3>1. i + 1 \in 1 .. Len(answers) /\ answers'[i] = answers[i + 1]
        BY <1>2
      <3>2. \A j \in 1 .. i : /\ j + 1 \in 1 .. i + 1 /\ answers'[j] = answers[j + 1]
        BY <1>2
      <3> QED
        BY <3>1, <3>2 DEF Inv, AnswersOK
    <2>2. \A r \in Requests :
            /\ pending'[r] = "token" => r \in granted
            /\ pending'[r] = "error" => r \notin granted /\ r <= nextRecv
      BY <1>3, <1>4 DEF Inv, AnswersOK
    <2> QED
      BY <1>1, <2>1, <2>2 DEF Inv, AnswersOK
  <1>11. PendingIsCurrent'
    BY <1>1, <1>4 DEF Inv, PendingIsCurrent
  <1> QED
    BY <1>5, <1>6, <1>7, <1>8, <1>9, <1>10, <1>11 DEF Inv

(* The server reads a line: its packet is the next one, or the last one    *)
(* over again.                                                             *)
LEMMA ServeSteps ==
  ASSUME Inv, Serve
  PROVE  /\ wire # <<>> /\ wire' = Tail(wire) /\ wire[1] \in Lines
         /\ UNCHANGED <<up, sealed, acked, pc, line, attempts, waiters, outcome, marked,
                        timely, at, pending, shown>>
         /\ acks' = Append(acks, wire[1].packet)
         /\ nextRecv' = wire[1].seq + 1 /\ nextRecv' <= sealed
         /\ recent' \in Seq(Nat) /\ recent' # <<>> /\ recent'[Len(recent')] = nextRecv' - 1
         /\ wire[1].packet = nextRecv'
         /\ \/ UNCHANGED <<nextRecv, relayed, answers, granted>>
            \/ /\ nextRecv' = nextRecv + 1
               /\ relayed' = Append(relayed, nextRecv')
               /\ \/ nextRecv' \notin Requests /\ UNCHANGED <<answers, granted>>
                  \/ /\ nextRecv' \in Requests
                     /\ \E result \in {"token", "error"} :
                          /\ answers' = Append(answers, [request |-> nextRecv', result |-> result,
                                                         behind |-> Len(acks')])
                          /\ granted' = granted \cup {r \in {nextRecv'} : result = "token"}
  <1> DEFINE l == Head(wire)
  <1>1. /\ wire # <<>> /\ wire' = Tail(wire)
        /\ UNCHANGED <<up, sealed, acked, pc, line, attempts, waiters, outcome, marked,
                       timely, at, pending, shown>>
    BY DEF Serve, ServerReads, taskVars
  <1>2. /\ l = wire[1] /\ 1 \in 1 .. Len(wire) /\ wire[1] \in Lines
        /\ recent \in Seq(Nat) /\ nextRecv \in Nat /\ sealed \in Nat
        /\ Window \in Nat \ {0}
    BY <1>1, Facts
  <1>3. /\ l.seq \in Nat /\ l.packet = l.seq + 1 /\ l.seq < sealed
    BY <1>2 DEF Inv, WireOK, Lines
  <1>4. Fresh(l) \/ Duplicate(l)
    BY <1>1, Opens DEF EveryLineOpens
  <1>5. CASE Fresh(l)
    <2>1. /\ nextRecv' = nextRecv + 1 /\ recent' = MarkSeen(l.seq) /\ l.seq = nextRecv
          /\ acks' = Append(acks, l.packet)
      BY <1>2, <1>3, <1>5 DEF Serve, ServerReads, Fresh, Duplicate
    <2>2. /\ relayed' = Append(relayed, l.packet)
          /\ \/ l.packet \notin Requests /\ UNCHANGED <<answers, granted>>
             \/ /\ l.packet \in Requests
                /\ \E result \in {"token", "error"} :
                     /\ answers' = Append(answers, [request |-> l.packet, result |-> result,
                                                    behind |-> Len(acks')])
                     /\ granted' = granted \cup {r \in {l.packet} : result = "token"}
      BY <1>5 DEF Serve, PassesOn
    <2>3. /\ recent' \in Seq(Nat) /\ recent' # <<>> /\ recent'[Len(recent')] = l.seq
      <3>1. /\ Append(recent, l.seq) \in Seq(Nat) /\ Append(recent, l.seq) # <<>>
            /\ Len(Append(recent, l.seq)) = Len(recent) + 1 /\ Len(recent) \in Nat
            /\ Append(recent, l.seq)[Len(recent) + 1] = l.seq
        BY <1>2, <1>3
      <3>2. CASE Len(recent) >= Window
        <4>1. /\ recent' = Tail(Append(recent, l.seq)) /\ Len(recent) > 0
          <5>1. recent' = Tail(Append(recent, l.seq))
            BY <2>1, <3>2 DEF MarkSeen
          <5>2. Window \in Nat \ {0} /\ Len(recent) \in Nat
            BY <1>2, <3>1
          <5>3. \A k \in Nat, w \in Nat \ {0} : k >= w => k > 0
            OBVIOUS
          <5> QED
            BY <3>2, <5>1, <5>2, <5>3
        <4> QED
          BY <3>1, <4>1
      <3>3. CASE ~(Len(recent) >= Window)
        BY <2>1, <3>1, <3>3 DEF MarkSeen
      <3> QED
        BY <3>2, <3>3
    <2>4. nextRecv' = l.packet /\ nextRecv' = l.seq + 1 /\ nextRecv' <= sealed
      BY <1>2, <1>3, <2>1
    <2>5. recent'[Len(recent')] = nextRecv' - 1
      BY <1>3, <2>3, <2>4
    <2>6. /\ wire[1].packet = nextRecv' /\ nextRecv' = wire[1].seq + 1
          /\ acks' = Append(acks, wire[1].packet)
      BY <1>2, <2>1, <2>4
    <2>7. /\ relayed' = Append(relayed, nextRecv')
          /\ \/ nextRecv' \notin Requests /\ UNCHANGED <<answers, granted>>
             \/ /\ nextRecv' \in Requests
                /\ \E result \in {"token", "error"} :
                     /\ answers' = Append(answers, [request |-> nextRecv', result |-> result,
                                                    behind |-> Len(acks')])
                     /\ granted' = granted \cup {r \in {nextRecv'} : result = "token"}
      BY <2>2, <2>4
    <2> HIDE DEF l
    <2> QED
      BY <1>1, <1>2, <2>1, <2>3, <2>4, <2>5, <2>6, <2>7
  <1>6. CASE Duplicate(l) /\ ~Fresh(l)
    <2>1. /\ UNCHANGED <<nextRecv, recent>> /\ l.seq < nextRecv
          /\ acks' = Append(acks, l.packet)
      BY <1>6 DEF Serve, ServerReads, Duplicate
    <2>2. UNCHANGED <<relayed, answers, granted>>
      BY <1>6 DEF Serve, PassesOn
    <2>3. l.seq + 1 \in {nextRecv, nextRecv + 1}
      BY <1>2 DEF Inv, WireOK, Before
    <2>4. nextRecv = l.seq + 1 /\ nextRecv > 0
      BY <1>2, <1>3, <2>1, <2>3
    <2>5. recent # <<>> /\ recent[Len(recent)] = nextRecv - 1
      BY <2>4 DEF Inv, WireOK
    <2>6. /\ nextRecv' = wire[1].seq + 1 /\ nextRecv' <= sealed
          /\ wire[1].packet = nextRecv' /\ acks' = Append(acks, wire[1].packet)
      BY <1>2, <1>3, <2>1, <2>4
    <2> HIDE DEF l
    <2> QED
      BY <1>1, <1>2, <2>1, <2>2, <2>5, <2>6
  <1> QED
    BY <1>4, <1>5, <1>6

LEMMA ServeInv ==
  ASSUME Inv, Serve
  PROVE  Inv'
  <1> DEFINE n == Len(wire)
             p == nextRecv'
  <1>1. /\ wire # <<>> /\ wire' = Tail(wire) /\ wire[1] \in Lines
        /\ UNCHANGED <<up, sealed, acked, pc, line, attempts, waiters, outcome, marked,
                       timely, at, pending, shown>>
        /\ acks' = Append(acks, wire[1].packet)
        /\ p = wire[1].seq + 1 /\ p <= sealed
        /\ recent' \in Seq(Nat) /\ recent' # <<>> /\ recent'[Len(recent')] = p - 1
        /\ wire[1].packet = p
    BY ServeSteps
  <1>2. \/ UNCHANGED <<nextRecv, relayed, answers, granted>>
        \/ /\ p = nextRecv + 1
           /\ relayed' = Append(relayed, p)
           /\ \/ p \notin Requests /\ UNCHANGED <<answers, granted>>
              \/ /\ p \in Requests
                 /\ \E result \in {"token", "error"} :
                      /\ answers' = Append(answers, [request |-> p, result |-> result,
                                                     behind |-> Len(acks')])
                      /\ granted' = granted \cup {r \in {p} : result = "token"}
    BY ServeSteps
  <1>3. /\ p \in Nat \ {0} /\ p \in Packets /\ nextRecv \in Nat
        /\ nextRecv <= p /\ wire \in Seq(Lines) /\ n \in Nat /\ n > 0
        /\ wire' \in Seq(Lines) /\ Len(wire') = n - 1
        /\ \A i \in 1 .. n - 1 : wire'[i] = wire[i + 1]
    <2>1. wire \in Seq(Lines) /\ nextRecv \in Nat
      BY Facts
    <2>2. /\ n \in Nat /\ n > 0 /\ wire' \in Seq(Lines) /\ Len(wire') = n - 1
          /\ \A i \in 1 .. n - 1 : wire'[i] = wire[i + 1]
      BY <1>1, <2>1
    <2>3. p \in Nat \ {0} /\ p \in Packets
      BY <1>1 DEF Lines
    <2> QED
      BY <1>2, <2>1, <2>2, <2>3
  <1> HIDE DEF p
  <1>4. /\ acks \in Seq(Packets) /\ acks' \in Seq(Packets)
        /\ Len(acks') = Len(acks) + 1 /\ Len(acks) \in Nat
        /\ \A i \in 1 .. Len(acks) : acks'[i] = acks[i] /\ acks[i] \in Packets
        /\ acks'[Len(acks) + 1] = p
    <2>1. acks \in Seq(Packets) /\ acks' = Append(acks, p)
      BY <1>1, Facts
    <2> QED
      BY <1>3, <2>1
  <1>5. answers \in Seq(Answers) /\ relayed \in Seq(Packets) /\ granted \subseteq Requests
    BY DEF Inv, TypeOK
  <1>6. TypeOK'
    <2>1. TransportTypeOK'
      BY <1>1, <1>3, <1>4 DEF Inv, TypeOK, SendTypeOK, TransportTypeOK, p
    <2>2. SendTypeOK'
      BY <1>1, <2>1 DEF Inv, TypeOK, SendTypeOK
    <2>3. relayed' \in Seq(Packets)
      <3>1. relayed' = relayed \/ relayed' = Append(relayed, p)
        BY <1>2
      <3>2. p \in Packets /\ relayed \in Seq(Packets)
        BY <1>3, <1>5
      <3> QED
        BY <3>1, <3>2
    <2>4. answers' \in Seq(Answers) /\ granted' \subseteq Requests
      <3>1. CASE UNCHANGED <<answers, granted>>
        BY <1>5, <3>1
      <3>2. ASSUME p \in Requests, NEW result \in {"token", "error"},
                   answers' = Append(answers, [request |-> p, result |-> result,
                                               behind |-> Len(acks')]),
                   granted' = granted \cup {r \in {p} : result = "token"}
            PROVE  answers' \in Seq(Answers) /\ granted' \subseteq Requests
        <4>1. [request |-> p, result |-> result, behind |-> Len(acks')] \in Answers
          BY <1>4, <3>2 DEF Answers
        <4> QED
          BY <1>5, <3>2, <4>1
      <3> QED
        BY <1>2, <3>1, <3>2
    <2> QED
      BY <1>1, <2>2, <2>3, <2>4 DEF Inv, TypeOK
  <1>7. WireOK'
    <2>1. \A i \in 1 .. n - 1 : Before(i)' = Before(i + 1)
      <3>1. ASSUME NEW i \in 1 .. n - 1
            PROVE  Before(i)' = Before(i + 1)
        <4>1. CASE i = 1
          BY <1>1, <1>3, <4>1 DEF Before, p
        <4>2. CASE i # 1
          <5>1. i - 1 \in 1 .. n - 1 /\ (i - 1) + 1 = i /\ (i + 1) - 1 = i /\ i + 1 # 1
            BY <1>3, <4>2
          <5> QED
            BY <1>3, <4>2, <5>1 DEF Before
        <4> QED
          BY <4>1, <4>2
      <3> QED
        BY <3>1
    <2>2. AfterWire' = AfterWire
      <3>1. CASE n = 1
        <4>1. wire' = <<>> /\ wire # <<>>
          <5>1. wire' \in Seq(Lines) /\ Len(wire') = 0
            BY <1>1, <1>3, <3>1
          <5>2. \A s \in Seq(Lines) : Len(s) = 0 => s = <<>>
            OBVIOUS
          <5> QED
            BY <1>1, <5>1, <5>2
        <4> QED
          BY <1>1, <3>1, <4>1 DEF AfterWire, p
      <3>2. CASE n # 1
        <4>1. n - 1 \in 1 .. n - 1 /\ (n - 1) + 1 = n /\ wire' # <<>>
          BY <1>3, <3>2
        <4> QED
          BY <1>1, <1>3, <4>1 DEF AfterWire
      <3> QED
        BY <3>1, <3>2
    <2>3. \A i \in 1 .. n - 1 :
            /\ wire'[i].packet = wire'[i].seq + 1
            /\ wire'[i].seq < sealed
            /\ wire'[i].seq + 1 \in {Before(i)', Before(i)' + 1}
      <3>1. \A i \in 1 .. n - 1 : i + 1 \in 1 .. n
        BY <1>3
      <3> QED
        BY <1>3, <2>1, <3>1 DEF Inv, WireOK
    <2>4. up
      BY <1>1 DEF Inv, WireOK
    <2>5. up' => AfterWire' = IF pc' = "write" /\ attempts' = 0 THEN sealed' - 1 ELSE sealed'
      BY <1>1, <2>2 DEF Inv, WireOK
    <2>6. nextRecv' <= sealed' /\ (nextRecv' > 0 => recent' # <<>> /\ recent'[Len(recent')] = nextRecv' - 1)
      BY <1>1 DEF p
    <2> QED
      BY <1>1, <1>3, <2>3, <2>4, <2>5, <2>6 DEF WireOK
  <1>8. LineOK'
    BY <1>1 DEF Inv, LineOK, Waits
  <1>9. OrderOK'
    BY <1>1 DEF Inv, OrderOK, Waits
  <1>10. AcksOK'
    <2>1. Len(relayed') = p
      BY <1>2, <1>3, <1>5 DEF Inv, AcksOK, p
    <2>2. \A i \in 1 .. Len(acks') : acks'[i] <= p
      <3>1. \A i \in 1 .. Len(acks') : i \in 1 .. Len(acks) \/ i = Len(acks) + 1
        BY <1>4
      <3>2. \A i \in 1 .. Len(acks) : acks[i] <= nextRecv /\ acks[i] \in Nat
        BY <1>4, Facts DEF Inv, AcksOK
      <3>3. ASSUME NEW i \in 1 .. Len(acks) PROVE acks'[i] <= p
        <4>1. acks'[i] = acks[i] /\ acks[i] <= nextRecv /\ acks[i] \in Nat
          BY <1>4, <3>2
        <4>2. nextRecv <= p /\ nextRecv \in Nat /\ p \in Nat
          BY <1>3
        <4> QED
          BY <4>1, <4>2
      <3>4. p <= p
        BY <1>3
      <3> QED
        BY <1>4, <3>1, <3>3, <3>4
    <2>3. /\ \A q \in acked \cup marked : q <= p
          /\ \A q \in Packets : outcome[q] = "ok" => q <= p
      <3>1. acked \cup marked \subseteq Nat /\ Packets \subseteq Nat
        BY RetryAssumption DEF Inv, TypeOK, SendTypeOK, TransportTypeOK
      <3> QED
        BY <1>3, <3>1 DEF Inv, AcksOK
    <2> QED
      BY <1>1, <2>1, <2>2, <2>3 DEF Inv, AcksOK, p
  <1>11. AnswersOK'
    <2>1. /\ \A r \in granted : r <= nextRecv /\ r \in Nat
          /\ \A i \in 1 .. Len(answers) :
               /\ answers[i].request <= nextRecv /\ answers[i].request \in Nat
               /\ answers[i].result = "token" <=> answers[i].request \in granted
               /\ answers[i].behind <= Len(acks) /\ answers[i].behind \in Nat
               /\ \A j \in 1 .. i : answers[j].behind <= answers[i].behind
          /\ \A r \in Requests :
               /\ pending[r] = "token" => r \in granted
               /\ pending[r] = "error" => r \notin granted /\ r <= nextRecv
               /\ r \in Nat
      <3>1. granted \subseteq Nat /\ Requests \subseteq Nat
        BY <1>5, RetryAssumption, RequestsAssumption
      <3>2. \A i \in 1 .. Len(answers) : answers[i].request \in Nat /\ answers[i].behind \in Nat
        <4>1. \A i \in 1 .. Len(answers) : answers[i] \in Answers
          BY <1>5
        <4> QED
          BY <3>1, <4>1 DEF Answers
      <3> QED
        BY <3>1, <3>2 DEF Inv, AnswersOK
    <2>2. CASE UNCHANGED <<answers, granted>>
      <3>1. \A q \in Nat : q <= nextRecv => q <= p
        BY <1>3
      <3>2. \A q \in Nat : q <= Len(acks) => q <= Len(acks')
        BY <1>4
      <3> QED
        BY <1>1, <2>1, <2>2, <3>1, <3>2 DEF AnswersOK, p
    <2>3. ASSUME p = nextRecv + 1, NEW result \in {"token", "error"},
                 answers' = Append(answers, [request |-> p, result |-> result,
                                             behind |-> Len(acks')]),
                 granted' = granted \cup {r \in {p} : result = "token"}
          PROVE  AnswersOK'
      <3> DEFINE m == Len(answers)
      <3>1. /\ m \in Nat /\ Len(answers') = m + 1
            /\ \A i \in 1 .. m : answers'[i] = answers[i]
            /\ answers'[m + 1] = [request |-> p, result |-> result, behind |-> Len(acks')]
        BY <1>5, <2>3
      <3>2. /\ \A r \in granted' : r <= p
            /\ \A q \in Nat : q <= nextRecv => (q \in granted' <=> q \in granted)
            /\ p \in granted' <=> result = "token"
        BY <1>3, <2>1, <2>3
      <3>3. ASSUME NEW i \in 1 .. m
            PROVE  /\ answers'[i].request <= p
                   /\ answers'[i].result = "token" <=> answers'[i].request \in granted'
                   /\ answers'[i].behind <= Len(acks')
                   /\ \A j \in 1 .. i : answers'[j].behind <= answers'[i].behind
        <4>1. \A j \in 1 .. i : j \in 1 .. m
          BY <3>1
        <4>2. /\ answers'[i] = answers[i]
              /\ \A j \in 1 .. i : answers'[j] = answers[j]
          BY <3>1, <4>1
        <4>3. answers[i].request <= p /\ nextRecv <= p
          BY <1>3, <2>1
        <4>4. answers[i].behind <= Len(acks')
          BY <1>4, <2>1
        <4>5. answers[i].result = "token" <=> answers[i].request \in granted'
          BY <2>1, <3>2
        <4>6. \A j \in 1 .. i : answers[j].behind <= answers[i].behind
          BY <2>1
        <4> QED
          BY <4>2, <4>3, <4>4, <4>5, <4>6
      <3>4. ASSUME NEW i \in {m + 1}
            PROVE  /\ answers'[i].request <= p
                   /\ answers'[i].result = "token" <=> answers'[i].request \in granted'
                   /\ answers'[i].behind <= Len(acks')
                   /\ \A j \in 1 .. i : answers'[j].behind <= answers'[i].behind
        <4>1. /\ answers'[i].request = p /\ answers'[i].result = result
              /\ answers'[i].behind = Len(acks')
          BY <3>1
        <4>2. \A j \in 1 .. i : j \in 1 .. m \/ j = i
          BY <3>1
        <4>3. \A j \in 1 .. m : answers'[j].behind <= Len(acks')
          BY <1>4, <2>1, <3>1
        <4> QED
          BY <1>3, <1>4, <3>2, <4>1, <4>2, <4>3
      <3>5. \A i \in 1 .. Len(answers') : i \in 1 .. m \/ i \in {m + 1}
        BY <3>1
      <3>6. \A r \in Requests :
              /\ pending'[r] = "token" => r \in granted'
              /\ pending'[r] = "error" => r \notin granted' /\ r <= p
        BY <1>1, <1>3, <2>1, <2>3, <3>2
      <3> QED
        BY <3>2, <3>3, <3>4, <3>5, <3>6 DEF AnswersOK, p
    <2> QED
      BY <1>2, <2>2, <2>3
  <1>12. PendingIsCurrent'
    BY <1>1 DEF Inv, PendingIsCurrent
  <1> QED
    BY <1>6, <1>7, <1>8, <1>9, <1>10, <1>11, <1>12 DEF Inv

LEMMA LostInv ==
  ASSUME Inv, Lost
  PROVE  Inv'
  <1>1. /\ up' = FALSE /\ wire' = <<>> /\ acks' = <<>> /\ answers' = <<>>
        /\ UNCHANGED <<sealed, nextRecv, recent, acked, pc, line, attempts, waiters, outcome,
                       marked, timely, at, pending, relayed, shown, granted>>
    BY DEF Lost, Break, taskVars
  <1>2. TypeOK'
    <2>1. up' \in BOOLEAN
      BY <1>1
    <2>2. TransportTypeOK'
      BY <1>1, <2>1 DEF Inv, TypeOK, SendTypeOK, TransportTypeOK
    <2>3. SendTypeOK'
      BY <1>1, <2>2 DEF Inv, TypeOK, SendTypeOK
    <2> QED
      BY <1>1, <2>3 DEF Inv, TypeOK
  <1>3. WireOK'
    BY <1>1 DEF Inv, WireOK
  <1>4. LineOK'
    BY <1>1 DEF Inv, LineOK, Waits
  <1>5. OrderOK'
    BY <1>1 DEF Inv, OrderOK, Waits
  <1>6. AcksOK'
    BY <1>1 DEF Inv, AcksOK
  <1>7. AnswersOK'
    BY <1>1 DEF Inv, AnswersOK
  <1>8. PendingIsCurrent'
    BY <1>1 DEF Inv, PendingIsCurrent
  <1> QED
    BY <1>2, <1>3, <1>4, <1>5, <1>6, <1>7, <1>8 DEF Inv

-----------------------------------------------------------------------------
(* Whatever is lost, late or repeated, every reachable state of the client *)
(* and its connection satisfies the invariant.                             *)
THEOREM Invariance == Spec => []Inv
  <1>1. Inv /\ [Next]_vars => Inv'
    <2> SUFFICES ASSUME Inv, [Next]_vars PROVE Inv'
      OBVIOUS
    <2>1. CASE Begin
      BY <2>1, BeginInv
    <2>2. CASE Send
      BY <2>2, SendInv
    <2>3. CASE Look \/ Sleep \/ WaitTimeout \/ End
      BY <2>3, WaitInv
    <2>4. CASE ReadAck
      BY <2>4, ReadAckInv
    <2>5. CASE ReadAnswer
      BY <2>5, ReadAnswerInv
    <2>6. CASE Serve
      BY <2>6, ServeInv
    <2>7. CASE Lost
      BY <2>7, LostInv
    <2>8. CASE UNCHANGED vars
      BY <2>8 DEF vars, transportVars, taskVars, inviteVars, Inv, TypeOK, SendTypeOK,
                  TransportTypeOK, WireOK, Before, AfterWire, LineOK, OrderOK, AcksOK,
                  AnswersOK, PendingIsCurrent, Waits
    <2> QED
      BY <2>1, <2>2, <2>3, <2>4, <2>5, <2>6, <2>7, <2>8 DEF Next
  <1> QED
    BY <1>1, InitInv, PTL DEF Spec

(* The types hold, and send_transport_payload_with_ack writes no packet    *)
(* more often than PACKET_RETRY_LIMIT allows.                              *)
THEOREM TaskTypeCorrect == Spec => []TypeOK
  BY Invariance, PTL DEF Inv

(* The server can open whatever the client writes, for every window: what  *)
(* is repeated is the last line it accepted, and that one is in its window.*)
THEOREM LinesOpen == Spec => []EveryLineOpens
  BY Invariance, Opens, PTL

(* The table of requests holds the request the task is at, or nothing.     *)
THEOREM PendingCurrent == Spec => []PendingIsCurrent
  BY Invariance, PTL DEF Inv

-----------------------------------------------------------------------------
(* An ACK that is in the table at a write is found before the wait ends,   *)
(* so that the packet does not fail by a timeout.                          *)
THEOREM AckInTimeNoticed == Spec => AckNoticed
  <1> DEFINE Noticed == \A p \in Packets :
               outcome[p] = "none" /\ outcome'[p] = "failed" /\ pc # "write" => ~timely
  <1>1. Inv /\ [Next]_vars => [Noticed]_sendVars
    <2> SUFFICES ASSUME Inv, [Next]_vars, UNCHANGED outcome => FALSE
                 PROVE  Noticed
      OBVIOUS
    <2>1. Send
      BY DEF Next, Begin, Start, Look, Sleep, WaitTimeout, End, ReadAck, Mark,
             ReadAnswer, Serve, Lost, vars, taskVars
    <2>2. PICK result \in {"ok", "failed"} : OverWith(result)
      BY <2>1, SendSteps DEF OnItsWay
    <2>3. /\ sealed \in Packets /\ outcome[sealed] = "none"
          /\ outcome \in [Packets -> {"none", "ok", "failed"}]
          /\ outcome' = [outcome EXCEPT ![sealed] = result]
      BY <2>1, <2>2, SendSteps, LineFacts, Facts DEF OverWith
    <2>4. result = "failed" /\ pc # "write" => ~timely
      BY <2>2 DEF OverWith, Inv, AcksOK
    <2> QED
      BY <2>3, <2>4
  <1>2. Inv /\ [Next]_vars => [\A p \in Packets :
               outcome[p] = "none" /\ outcome'[p] = "failed" /\ pc # "write" => ~timely]_sendVars
    BY <1>1
  <1> QED
    BY <1>2, Invariance, PTL DEF Spec, AckNoticed

-----------------------------------------------------------------------------
(* The promise: initial states and steps.                                  *)

LEMMA InitPromised == Init => Promise!Init
  BY DEF Init, SendInit, Promise!Init

LEMMA BeforeOver ==
  ASSUME Inv, NEW p \in Packets, p <= sealed
  PROVE  Promise!Turn(p)
  <1> SUFFICES ASSUME NEW q \in Packets, q < p PROVE Promise!Over(q)
    BY DEF Promise!Turn
  <1>1. q < sealed
    BY Facts
  <1>2. outcome[q] # "none" /\ (q \in Requests => shown[q] # "none")
    BY <1>1 DEF Inv, OrderOK
  <1> QED
    BY <1>2 DEF Promise!Over

(* The end of a packet confirms it or gives it up. *)
LEMMA SendPromised ==
  ASSUME Inv, Send
  PROVE  Promise!Next \/ UNCHANGED Promise!vars
  <1>1. /\ sealed \in Packets /\ outcome[sealed] = "none"
        /\ UNCHANGED <<relayed, granted>>
        /\ OnItsWay \/ \E result \in {"ok", "failed"} : OverWith(result)
    BY SendSteps, LineFacts
  <1>2. Promise!Turn(sealed)
    BY <1>1, BeforeOver, Facts
  <1>3. CASE OnItsWay
    BY <1>1, <1>3 DEF OnItsWay, Promise!vars
  <1>4. CASE OverWith("ok")
    <2>1. sealed <= Len(relayed)
      BY <1>4 DEF OverWith, Inv, AcksOK
    <2>2. outcome' = [outcome EXCEPT ![sealed] = "ok"] /\ UNCHANGED shown
      BY <1>4 DEF OverWith
    <2>3. Promise!Confirm(sealed)
      BY <1>1, <1>2, <2>1, <2>2 DEF Promise!Confirm
    <2> QED
      BY <1>1, <2>3 DEF Promise!Next
  <1>5. CASE OverWith("failed")
    <2>1. /\ outcome' = [outcome EXCEPT ![sealed] = "failed"]
          /\ IF sealed \in Requests THEN shown' = [shown EXCEPT ![sealed] = "failed"]
                                    ELSE UNCHANGED shown
      BY <1>5 DEF OverWith
    <2>2. shown' = [r \in Requests |-> IF r = sealed THEN "failed" ELSE shown[r]]
      BY <2>1, Facts
    <2>3. Promise!GiveUp(sealed)
      BY <1>1, <1>2, <2>1, <2>2 DEF Promise!GiveUp
    <2> QED
      BY <1>1, <2>3 DEF Promise!Next
  <1> QED
    BY <1>1, <1>3, <1>4, <1>5

(* What the owner of a request is shown is its answer, or a failure. *)
LEMMA WaitPromised ==
  ASSUME Inv, Look \/ Sleep \/ WaitTimeout \/ End
  PROVE  Promise!Next \/ UNCHANGED Promise!vars
  <1>1. UNCHANGED <<relayed, outcome, granted>>
    BY DEF Look, Sleep, WaitTimeout, End, taskVars
  <1>2. CASE UNCHANGED shown
    BY <1>1, <1>2 DEF Promise!vars
  <1>3. CASE ~UNCHANGED shown
    <2>1. Waits /\ (Look \/ WaitTimeout)
      BY <1>3 DEF Look, Sleep, WaitTimeout, End, Waits
    <2>2. /\ Request = sealed /\ sealed \in Requests
          /\ outcome[sealed] = "ok" /\ shown[sealed] = "none"
      BY <2>1, WaitFacts
    <2>3. pending[sealed] \in {"waiting", "token", "error"}
      BY <2>1, <2>2, WaitFacts, Facts
         DEF Inv, PendingIsCurrent, Request, Waits
    <2>4. shown' \in {[shown EXCEPT ![sealed] = "failed"],
                      [shown EXCEPT ![sealed] = IF sealed \in granted THEN "invitation"
                                                                      ELSE "rejected"]}
      <3>1. CASE Look
        <4>1. /\ pending[sealed] # "waiting"
              /\ shown' = [shown EXCEPT ![sealed] = IF pending[sealed] = "token"
                                                    THEN "invitation" ELSE "rejected"]
          BY <1>3, <2>2, <3>1 DEF Look, Told
        <4>2. pending[sealed] = "token" <=> sealed \in granted
          BY <2>2, <2>3, <4>1 DEF Inv, AnswersOK
        <4> QED
          BY <4>1, <4>2
      <3>2. CASE WaitTimeout
        BY <2>2, <3>2 DEF WaitTimeout, Told
      <3> QED
        BY <2>1, <3>1, <3>2
    <2>5. Promise!Answer(sealed)
      BY <1>1, <2>2, <2>4 DEF Promise!Answer
    <2> QED
      BY <2>2, <2>5 DEF Promise!Next
  <1> QED
    BY <1>2, <1>3

(* The server passes on the next packet, or none. *)
LEMMA ServePromised ==
  ASSUME Inv, Serve
  PROVE  Promise!Next \/ UNCHANGED Promise!vars
  <1>1. /\ UNCHANGED <<outcome, shown>>
        /\ nextRecv' <= sealed /\ wire[1] \in Lines /\ wire[1].packet = nextRecv'
    BY ServeSteps
  <1>2. \/ UNCHANGED <<nextRecv, relayed, answers, granted>>
        \/ /\ nextRecv' = nextRecv + 1
           /\ relayed' = Append(relayed, nextRecv')
           /\ \/ nextRecv' \notin Requests /\ UNCHANGED <<answers, granted>>
              \/ /\ nextRecv' \in Requests
                 /\ \E result \in {"token", "error"} :
                      /\ answers' = Append(answers, [request |-> nextRecv', result |-> result,
                                                     behind |-> Len(acks')])
                      /\ granted' = granted \cup {r \in {nextRecv'} : result = "token"}
    BY ServeSteps
  <1>3. CASE UNCHANGED <<relayed, granted>>
    BY <1>1, <1>3 DEF Promise!vars
  <1>4. CASE /\ nextRecv' = nextRecv + 1
             /\ relayed' = Append(relayed, nextRecv')
             /\ granted' \in {granted, granted \cup (Requests \cap {nextRecv'})}
    <2>1. Len(relayed) + 1 = nextRecv' /\ nextRecv' \in Packets
      BY <1>1, <1>4 DEF Inv, AcksOK, Lines
    <2>2. Promise!Turn(Len(relayed) + 1)
      BY <1>1, <2>1, BeforeOver
    <2>3. Promise!HandOver
      BY <1>1, <1>4, <2>1, <2>2 DEF Promise!HandOver
    <2> QED
      BY <2>3 DEF Promise!Next
  <1>5. ASSUME NEW result \in {"token", "error"}, nextRecv' \in Requests,
               granted' = granted \cup {r \in {nextRecv'} : result = "token"}
        PROVE  granted' \in {granted, granted \cup (Requests \cap {nextRecv'})}
    BY <1>5
  <1> QED
    BY <1>2, <1>3, <1>4, <1>5

(* The network task, with the connection that may break, the retries, the  *)
(* timeouts and the lost wake-ups, implements what it promises its user.   *)
THEOREM Refinement == Spec => Delivers
  <1>1. Inv /\ [Next]_vars => [Promise!Next]_(Promise!vars)
    <2> SUFFICES ASSUME Inv, [Next]_vars
                 PROVE  Promise!Next \/ UNCHANGED Promise!vars
      OBVIOUS
    <2>1. CASE Send
      BY <2>1, SendPromised
    <2>2. CASE Look \/ Sleep \/ WaitTimeout \/ End
      BY <2>2, WaitPromised
    <2>3. CASE Serve
      BY <2>3, ServePromised
    <2>4. CASE Begin
      BY <2>4 DEF Begin, Start, Promise!vars
    <2>5. CASE ReadAck
      BY <2>5 DEF ReadAck, Mark, Promise!vars
    <2>6. CASE ReadAnswer
      BY <2>6 DEF ReadAnswer, taskVars, Promise!vars
    <2>7. CASE Lost
      BY <2>7 DEF Lost, taskVars, Promise!vars
    <2>8. CASE UNCHANGED vars
      BY <2>8 DEF vars, taskVars, inviteVars, Promise!vars
    <2> QED
      BY <2>1, <2>2, <2>3, <2>4, <2>5, <2>6, <2>7, <2>8 DEF Next
  <1> QED
    BY <1>1, InitPromised, Invariance, PTL DEF Spec, Delivers, Promise!Spec

-----------------------------------------------------------------------------
(* The theorems about the promise.                                         *)
Proved == INSTANCE DeliveryProofs WITH handed <- relayed, told <- outcome

(* What the user of a client is told of its texts and requests is true:    *)
(* "ok" is said of what the server passed on, in order, and a request is   *)
(* shown its own answer (handle_outgoing_input, wait_for_invite_response). *)
THEOREM ToldIsTrue ==
  Spec => [](Promise!InOrder /\ Promise!ConfirmedWasHanded /\ Promise!AnswersMatch)
  <1>1. Promise!PacketsInOrder
    BY RetryAssumption, RequestsAssumption DEF Promise!PacketsInOrder
  <1>2. Promise!Spec => Proved!Spec
    <2>1. Promise!Init => Proved!Init
      BY DEF Promise!Init, Proved!Init
    <2>2. [Promise!Next]_(Promise!vars) => [Proved!Next]_(Proved!vars)
      BY DEF Promise!Next, Promise!vars, Promise!HandOver, Promise!Confirm, Promise!GiveUp,
             Promise!Answer, Promise!Turn, Promise!Over,
             Proved!Next, Proved!vars, Proved!HandOver, Proved!Confirm, Proved!GiveUp,
             Proved!Answer, Proved!Turn, Proved!Over
    <2> QED
      BY <2>1, <2>2, PTL DEF Promise!Spec, Proved!Spec
  <1>3. Proved!Spec => [](Proved!InOrder /\ Proved!ConfirmedWasHanded /\ Proved!AnswersMatch)
    BY <1>1, Proved!DeliveryInOrder, Proved!DeliveryConfirmed, Proved!DeliveryAnswers, PTL
       DEF Promise!PacketsInOrder, Proved!PacketsInOrder
  <1>4. Proved!InOrder /\ Proved!ConfirmedWasHanded /\ Proved!AnswersMatch
          => Promise!InOrder /\ Promise!ConfirmedWasHanded /\ Promise!AnswersMatch
    BY DEF Promise!InOrder, Promise!ConfirmedWasHanded, Promise!AnswersMatch,
           Proved!InOrder, Proved!ConfirmedWasHanded, Proved!AnswersMatch
  <1> QED
    BY <1>2, <1>3, <1>4, Refinement, PTL DEF Delivers

=============================================================================
