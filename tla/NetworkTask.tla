---------------------------- MODULE NetworkTask -----------------------------
(***************************************************************************)
(* The network task of a client (chat_loop, src/client/network.rs) as to   *)
(* texts and invite requests, and the reader task beside it.  An invite    *)
(* request is a packet like a text; once it is acknowledged, the task      *)
(* waits for the answer of the server, which the reader finds in the       *)
(* stream and leaves in the table of requests.                             *)
(***************************************************************************)
EXTENDS PacketSend

CONSTANT Requests   \* the packets that are invite requests

ASSUME RequestsAssumption == Requests \subseteq Packets

VARIABLES
  at,        \* what the task does: loop, look, arm, asleep or ended
  pending,   \* InviteState.pending: request -> the response, or absent
  relayed,   \* the packets the server passed on, in order
  answers,   \* the answers on their way to the client
  shown,     \* request -> what its owner was shown
  granted    \* history: the requests for which the server made a token

inviteVars == <<at, pending, relayed, answers, shown, granted>>
vars == <<transportVars, taskVars, inviteVars>>

(* An answer, and how many ACKs are before it in the stream. *)
Answers == [request : Requests, result : {"token", "error"}, behind : Nat]

TypeOK ==
  /\ SendTypeOK
  /\ at \in {"loop", "look", "arm", "asleep", "ended"}
  /\ pending \in [Requests -> {"absent", "waiting", "token", "error"}]
  /\ relayed \in Seq(Packets)
  /\ answers \in Seq(Answers)
  /\ shown \in [Requests -> {"none", "invitation", "rejected", "failed"}]
  /\ granted \subseteq Requests

Init ==
  /\ SendInit
  /\ at = "loop"
  /\ pending = [r \in Requests |-> "absent"]
  /\ relayed = <<>>
  /\ answers = <<>>
  /\ shown = [r \in Requests |-> "none"]
  /\ granted = {}

-----------------------------------------------------------------------------
(* The network task.                                                       *)

(* handle_outgoing_input: a request is registered before it is sent. *)
Begin ==
  /\ at = "loop"
  /\ Start
  /\ pending' = [r \in Requests |-> IF r = line'.packet THEN "waiting" ELSE pending[r]]
  /\ UNCHANGED <<at, relayed, answers, shown, granted>>

(* Mutant of Dropped: the request stays in the table. *)
DroppedNever(r) == pending

(* drop_request *)
Dropped(r) == [pending EXCEPT ![r] = "absent"]

Told(r, what) == shown' = [shown EXCEPT ![r] = what]

(* A step of send_transport_payload_with_ack, and what follows it when the *)
(* packet was a request: the wait for the answer, or the error.            *)
Send ==
  /\ Task
  /\ UNCHANGED <<relayed, answers, granted>>
  /\ LET r == line.packet
         over == r \in Requests /\ outcome' # outcome
     IN \/ /\ ~over
           /\ UNCHANGED <<at, pending, shown>>
        \/ /\ over /\ outcome'[r] = "ok"
           /\ at' = "look"
           /\ UNCHANGED <<pending, shown>>
        \/ /\ over /\ outcome'[r] = "failed"
           /\ pending' = Dropped(r)
           /\ Told(r, "failed")
           /\ UNCHANGED at

Request == line.packet

(* wait_for_invite_response: has_response, and take_result if there is     *)
(* one.  If not, the task goes to sleep; in between the reader may call    *)
(* notify_waiters in vain.                                                 *)
Look ==
  /\ at = "look"
  /\ IF pending[Request] = "waiting"
     THEN at' = "arm" /\ UNCHANGED <<pending, shown>>
     ELSE /\ at' = "loop"
          /\ pending' = Dropped(Request)
          /\ Told(Request, IF pending[Request] = "token" THEN "invitation"
                                                         ELSE "rejected")
  /\ UNCHANGED <<transportVars, taskVars, relayed, answers, granted>>

Sleep ==
  /\ at = "arm"
  /\ at' = "asleep"
  /\ UNCHANGED <<transportVars, taskVars, pending, relayed, answers, shown, granted>>

(* Mutant of WaitTimeout: without a response the task waits on. *)
WaitTimeoutAnswered ==
  /\ at = "asleep"
  /\ pending[Request] # "waiting"
  /\ at' = "loop"
  /\ pending' = Dropped(Request)
  /\ Told(Request, "failed")
  /\ UNCHANGED <<transportVars, taskVars, relayed, answers, granted>>

(* The wait takes five seconds: the request fails, also if its answer came *)
(* and only the wake-up was lost.                                          *)
WaitTimeout ==
  /\ at \in {"look", "asleep"}
  /\ at' = "loop"
  /\ pending' = Dropped(Request)
  /\ Told(Request, "failed")
  /\ UNCHANGED <<transportVars, taskVars, relayed, answers, granted>>

(* The user leaves, or a heartbeat cannot be written.  The reader task is  *)
(* aborted; what was written before is still on its way.                   *)
End ==
  /\ at = "loop" /\ pc = "idle"
  /\ at' = "ended"
  /\ UNCHANGED <<transportVars, taskVars, pending, relayed, answers, shown, granted>>

-----------------------------------------------------------------------------
(* The reader task.                                                        *)

(* The answer at the head of the stream. *)
AnswerNext == answers # <<>> /\ Head(answers).behind = 0

ReadAck ==
  /\ at # "ended"
  /\ ~AnswerNext
  /\ Mark
  /\ answers' = [i \in DOMAIN answers |-> [answers[i] EXCEPT !.behind = @ - 1]]
  /\ UNCHANGED <<at, pending, relayed, shown, granted>>

(* Mutant of Resolved: an answer goes to the request in the table, whatever *)
(* its id.                                                                 *)
ResolvedAny(a) ==
  [r \in Requests |-> IF pending[r] = "absent" THEN "absent" ELSE a.result]

(* resolve_success, resolve_error: an answer to a request that was dropped *)
(* is thrown away.                                                         *)
Resolved(a) ==
  IF pending[a.request] = "absent" THEN pending
                                   ELSE [pending EXCEPT ![a.request] = a.result]

ReadAnswer ==
  /\ at # "ended"
  /\ AnswerNext
  /\ answers' = Tail(answers)
  /\ pending' = Resolved(Head(answers))
  /\ at' = IF at = "asleep" /\ pending' # pending THEN "look" ELSE at
  /\ UNCHANGED <<transportVars, taskVars, relayed, shown, granted>>

-----------------------------------------------------------------------------
(* The server and the connection.                                          *)

(* A fresh request is answered after its ACK: with a token, or, if the     *)
(* sender may not invite, with an error.                                   *)
Serve ==
  /\ ServerReads
  /\ UNCHANGED <<taskVars, at, pending, shown>>
  /\ LET p == Head(wire).packet
     IN \/ /\ PassesOn /\ p \in Requests
           /\ relayed' = Append(relayed, p)
           /\ \E result \in {"token", "error"} :
                /\ answers' = Append(answers, [request |-> p, result |-> result,
                                               behind |-> Len(acks')])
                /\ granted' = granted \cup {r \in {p} : result = "token"}
        \/ /\ PassesOn /\ p \notin Requests
           /\ relayed' = Append(relayed, p)
           /\ UNCHANGED <<answers, granted>>
        \/ /\ ~PassesOn
           /\ UNCHANGED <<relayed, answers, granted>>

Lost ==
  /\ Break
  /\ answers' = <<>>
  /\ UNCHANGED <<taskVars, at, pending, relayed, shown, granted>>

Next ==
  \/ Begin \/ Send \/ Look \/ Sleep \/ WaitTimeout \/ End
  \/ ReadAck \/ ReadAnswer \/ Serve \/ Lost

Spec == Init /\ [][Next]_vars

(* The network task is scheduled and its timers fire. *)
FairSpec == Spec /\ WF_vars(Send) /\ WF_vars(Look \/ Sleep \/ WaitTimeout)

-----------------------------------------------------------------------------
(* Properties.                                                             *)

(* What a client promises of its texts and requests (Delivery): passed on  *)
(* once and in order, confirmed only if passed on, answered only with its  *)
(* own answer, one after the other, whatever is lost, late or repeated.    *)
Promise == INSTANCE Delivery WITH handed <- relayed, told <- outcome

Delivers == Promise!Spec

(* A request is in the table exactly while the task is at it, whatever     *)
(* went wrong, so that a late answer finds nothing.                        *)
PendingIsCurrent ==
  {r \in Requests : pending[r] # "absent"} =
    {r \in Requests : r = line.packet /\ (pc # "idle" \/ at \notin {"loop", "ended"})}

(* A line the task has begun with ends, confirmed or failed, even if no    *)
(* ACK and no answer comes or a wake-up is lost: those behind it go on.    *)
LineEnds == pc # "idle" \/ at \notin {"loop", "ended"} ~> pc = "idle" /\ at = "loop"
=============================================================================
