----------------------------- MODULE PacketSend -----------------------------
(***************************************************************************)
(* Packets that wait for their ACK (send_transport_payload_with_ack,       *)
(* src/transport/packet.rs): texts, key announces, commits and invite      *)
(* requests.  The network task sends one at a time and repeats the very    *)
(* same cipher line; the reader task runs beside it on another thread.     *)
(***************************************************************************)
EXTENDS Transport

CONSTANT RetryLimit   \* PACKET_RETRY_LIMIT

ASSUME RetryAssumption == RetryLimit \in Nat /\ Packets \subseteq Nat \ {0}

VARIABLES
  pc,        \* where the network task is
  line,      \* the cipher line it sends
  attempts,  \* how often it wrote that line
  waiters,   \* AckState.waiters
  outcome,   \* packet -> what the sender was told
  marked,    \* history: the packets whose ACK the reader ever saw
  timely     \* history: whether the ACK was there at the last write

taskVars == <<pc, line, attempts, waiters, outcome, marked, timely>>
sendVars == <<transportVars, taskVars>>

SendTypeOK ==
  /\ TransportTypeOK
  /\ pc \in {"idle", "write", "check", "poll", "arm", "waiting"}
  /\ line \in Lines
  /\ attempts \in 0 .. RetryLimit + 1
  /\ waiters \subseteq Packets
  /\ outcome \in [Packets -> {"none", "ok", "failed"}]
  /\ marked \subseteq Packets
  /\ timely \in BOOLEAN

SendInit ==
  /\ TransportInit
  /\ pc = "idle"
  /\ line \in {l \in [seq : {0}, packet : Packets] :
                 \A p \in Packets : l.packet <= p}
  /\ attempts = 0
  /\ waiters = {}
  /\ outcome = [p \in Packets |-> "none"]
  /\ marked = {}
  /\ timely = FALSE

(* The packets are named in the order they are sealed. *)
Start ==
  /\ pc = "idle"
  /\ sealed + 1 \in Packets
  /\ line' = Sealed(sealed + 1)
  /\ sealed' = sealed + 1
  /\ attempts' = 0
  /\ pc' = "write"
  /\ UNCHANGED <<up, wire, nextRecv, recent, acks, acked,
                 waiters, outcome, marked, timely>>

(* One attempt: subscribe and write. *)
Write ==
  /\ pc = "write"
  /\ pc' = "check"
  /\ waiters' = waiters \cup {line.packet}
  /\ Written(line)
  /\ attempts' = attempts + 1
  /\ timely' = (line.packet \in marked)
  /\ UNCHANGED <<up, sealed, nextRecv, recent, acks, acked,
                 line, outcome, marked>>

(* The write fails: the error leaves through ? and nothing is cleaned up.  *)
WriteFails ==
  /\ ~up
  /\ pc = "write"
  /\ pc' = "idle"
  /\ waiters' = waiters \cup {line.packet}
  /\ outcome' = [outcome EXCEPT ![line.packet] = "failed"]
  /\ UNCHANGED <<transportVars, line, attempts, marked, timely>>

Ended(result) ==
  /\ pc' = "idle"
  /\ Finish({line.packet})
  /\ waiters' = waiters \ {line.packet}
  /\ outcome' = [outcome EXCEPT ![line.packet] = result]
  /\ UNCHANGED <<up, sealed, wire, nextRecv, recent, acks,
                 line, attempts, marked, timely>>

Goto(to) == pc' = to /\ UNCHANGED <<transportVars, line, attempts, waiters,
                                    outcome, marked, timely>>

Confirmed == line.packet \in acked

(* Before the wait: is_acked. *)
Check ==
  /\ pc = "check"
  /\ IF Confirmed THEN Ended("ok") ELSE Goto("poll")

(* wait_for_ack: is_acked, and if not, the task goes to sleep.  Between    *)
(* the look and the sleep the reader may call notify_waiters in vain.      *)
Poll ==
  /\ pc = "poll"
  /\ IF Confirmed THEN Ended("ok") ELSE Goto("arm")

Arm == pc = "arm" /\ Goto("waiting")

(* Mutants of Timeout: one attempt too many; each attempt ends with a      *)
(* clean-up.                                                               *)
TimeoutOnceMore ==
  /\ pc \in {"poll", "waiting"}
  /\ IF attempts <= RetryLimit + 1 THEN Goto("write") ELSE Ended("failed")

TimeoutForgetting ==
  /\ pc \in {"poll", "waiting"}
  /\ IF attempts <= RetryLimit
     THEN /\ pc' = "write"
          /\ Finish({line.packet})
          /\ UNCHANGED <<up, sealed, wire, nextRecv, recent, acks,
                         line, attempts, waiters, outcome, marked, timely>>
     ELSE Ended("failed")

(* The wait takes PACKET_ACK_TIMEOUT_MS: the line is written again, or the *)
(* packet is given up.                                                     *)
Timeout ==
  /\ pc \in {"poll", "waiting"}
  /\ IF attempts <= RetryLimit THEN Goto("write") ELSE Ended("failed")

(* The reader task marks an ACK and wakes the network task, if it sleeps   *)
(* for that one.                                                           *)
Mark ==
  /\ ReaderMarks(Packets)
  /\ pc' = IF pc = "waiting" /\ Head(acks) = line.packet /\ Head(acks) \in waiters
           THEN "poll" ELSE pc
  /\ marked' = marked \cup {Head(acks)}
  /\ UNCHANGED <<line, attempts, waiters, outcome, timely>>

Task == Write \/ WriteFails \/ Check \/ Poll \/ Arm \/ Timeout

-----------------------------------------------------------------------------
(* Properties.                                                             *)

(* An ACK that came before the last attempt is not missed while the task   *)
(* waits, not even if its wake-up was.  A repetition whose write fails     *)
(* ends the send without another look at the table.                        *)
AckNoticed ==
  [][\A p \in Packets :
       outcome[p] = "none" /\ outcome'[p] = "failed" /\ pc # "write" => ~timely]_sendVars
=============================================================================
