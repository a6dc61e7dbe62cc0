----------------------------- MODULE GroupTexts -----------------------------
(***************************************************************************)
(* A text on its way through a rekey: the clients of GroupEpoch with       *)
(* encrypt_message and decrypt_message (src/crypto/core.rs).  A text waits *)
(* in the outbox with the key announces and commits, but it is encrypted   *)
(* only when the network task takes it (handle_outgoing_input,             *)
(* src/client/network.rs), with the chain its sender has by then; and it   *)
(* is opened with the chains its reader has when it comes to it.           *)
(*                                                                         *)
(* One text for one of its readers is enough: what becomes of a copy       *)
(* changes nothing for another copy or another text, as none is skipped in *)
(* a chain (RecvChain has those).                                          *)
(***************************************************************************)
EXTENDS GroupEpoch

CONSTANT Writers   \* bound: the members who write texts

ASSUME WritersAssumption == Writers \subseteq Members

VARIABLES
  texts,  \* the copy of a text on its way, if there is one: its sender, the
          \* epoch and the secret it is encrypted in, its reader, and the
          \* number of events before it in the inbox of the reader
  old,    \* member -> old_epochs of its GroupCryptoState
  held    \* history: member -> the secrets it ever had

textVars == <<vars, texts, old, held>>

TextInit == /\ Init
            /\ texts = {}
            /\ old = [m \in Members |-> {}]
            /\ held = [m \in Members |-> {}]

-----------------------------------------------------------------------------
(* The text. *)

(* handle_outgoing_input and encrypt_message: the network task comes to a  *)
(* text that the UI thread put before the lines still in the outbox.  The  *)
(* epoch is that of now; without a chain there is a notice instead.        *)
SendText(m) ==
  /\ turn = {}
  /\ texts = {}
  /\ m \in entered \cap Writers
  /\ \E n \in entered \ {m} :
       texts' = {[by |-> m, epoch |-> crypto[m].epoch, secret |-> x,
                  to |-> n, behind |-> Len(inbox[n])] : x \in crypto[m].secret}
  /\ UNCHANGED <<vars, old, held>>

(* decrypt_for_epoch: the sender is listed, there is a chain for it, and   *)
(* it is the one the text was encrypted with.                              *)
Decrypts(t, members, recv, secret) ==
  t.by \in members /\ t.by \in recv /\ t.secret = secret

(* decrypt_message: with the current epoch, or with one that was kept. *)
Opens(n, t) ==
  IF t.epoch = crypto[n].epoch
  THEN \E x \in crypto[n].secret : Decrypts(t, crypto[n].members, crypto[n].recv, x)
  ELSE \E o \in old[n] : t.epoch = o.epoch /\ Decrypts(t, o.members, o.recv, o.secret)

(* The text is next in the inbox of n. *)
Reaches(t, n) == t.to = n /\ t.behind = 0

(* The text is shown or dropped (Opens). *)
OpenText(n) ==
  /\ turn \subseteq {n}
  /\ \E t \in texts : Reaches(t, n)
  /\ texts' = {}
  /\ turn' = IF Batched /\ (inbox[n] # <<>> \/ due[n]) THEN {n} ELSE {}
  /\ UNCHANGED <<serverVars, crypto, queued, arrivals, due, inbox, outbox,
                 drawn, issued, old, held>>

-----------------------------------------------------------------------------
(* The steps of GroupEpoch, and what they mean for the text. *)

(* Mutant of Retired: the epoch that ends is not kept. *)
RetiredNever(m) == {}

(* activate_epoch, as to old_epochs: the epoch that ends is kept, with the *)
(* members then listed and the chains for them.  It expires after 300      *)
(* seconds; nothing takes that long here.                                  *)
Retired(m) ==
  IF crypto'[m].gen = crypto[m].gen THEN {}
  ELSE {[epoch |-> crypto[m].epoch, secret |-> x, members |-> crypto'[m].members,
         recv |-> crypto[m].recv \cap crypto'[m].members] : x \in crypto[m].secret}

(* An event before the text. *)
ReceiveBefore(m) ==
  /\ Receive(m)
  /\ \A t \in texts : ~Reaches(t, m)
  /\ texts' = {[t EXCEPT !.behind = IF t.to = m THEN @ - 1 ELSE @] : t \in texts}

(* A loop that drains its inbox in one go reads a text when it comes to    *)
(* it, and until then nothing it does not read changes what it makes of    *)
(* it: the text is read first.                                             *)
Reading == Batched /\ \E t \in texts, n \in Members : Reaches(t, n)

Step(m) ==
  /\ ~Reading
  /\ \/ (Enroll(m) \/ Enter(m) \/ Trigger(m) \/ Transmit(m)) /\ UNCHANGED texts
     \/ Leave(m) /\ texts' = {t \in texts : t.to # m}
     \/ ReceiveBefore(m)
  /\ old' = [n \in Members |-> old[n] \cup Retired(n)]
  /\ held' = [n \in Members |-> held[n] \cup crypto'[n].secret]

TextNext == \E m \in Members : SendText(m) \/ OpenText(m) \/ Step(m)

TextSpec == TextInit /\ [][TextNext]_textVars

-----------------------------------------------------------------------------
(* Properties.                                                             *)

(* Whether the commit that brought the secret of a text lists the member. *)
InEpoch(n, t) == \E c \in issued : c.secret = t.secret /\ n \in c.new

(* A text that reaches a member is opened if the member came to the epoch  *)
(* it was encrypted in, however long ago, and still lists the sender.  It  *)
(* is never opened by a newcomer to the room, by a member who was left     *)
(* out of the epoch, or ahead of its epoch.                                *)
TextsReadable ==
  \A t \in texts : \A n \in Members : Reaches(t, n) =>
    /\ Opens(n, t) => t.secret \in held[n] /\ InEpoch(n, t) /\ InEpoch(t.by, t)
    /\ t.secret \in held[n] /\ t.by \in crypto[n].members => Opens(n, t)
=============================================================================
