----------------------------- MODULE RecvChain ------------------------------
(***************************************************************************)
(* The message keys of one sender at one receiver: encrypt_message and     *)
(* decrypt_message of src/crypto/core.rs, with the receive chains of the   *)
(* current epoch and of the old ones still kept.                           *)
(*                                                                         *)
(* A chain is one-way, so what counts of it is the number of its next key  *)
(* and the keys that were derived on the way and set aside.  Between the   *)
(* two clients a message may be lost (a lagging subscriber), come late (a  *)
(* manifest takes the low channel, a text the high one) and come again (a  *)
(* manifest is sent again when its ACK is late).                           *)
(***************************************************************************)
EXTENDS Integers, FiniteSets

CONSTANTS
  MaxSkip,      \* DEFAULT_MAX_SKIP
  Ttl,          \* DEFAULT_SKIPPED_KEY_TTL_SECS
  MaxEpoch,     \* bound on the epochs
  MaxMessages,  \* bound on the messages of one epoch
  MaxNow        \* bound on the clock

ASSUME ChainAssumption ==
  /\ MaxSkip \in Nat /\ Ttl \in Nat
  /\ MaxEpoch \in Nat /\ MaxMessages \in Nat \ {0} /\ MaxNow \in Nat

Epochs == 0 .. MaxEpoch
Numbers == 0 .. (MaxMessages - 1)

(* SecureMessageHeader *)
Headers == [epoch : Epochs, no : Numbers]

(* RecvChainState, with its skipped keys. *)
SkippedKeys == [no : Numbers, expires : Nat]
Chains == [next : Nat, skipped : SUBSET SkippedKeys]

VARIABLES
  now,       \* unix_timestamp
  writing,   \* the sender's epoch and next message number
  sent,      \* the messages sent
  epoch,     \* the receiver's epoch
  kept,      \* the epochs in its old_epochs
  ends,      \* epoch -> when an old epoch expires
  chains,    \* epoch -> the receive chain of the sender in it
  opened,    \* history: message -> how often it was opened
  passed     \* history: message -> when the chain last passed over it

vars == <<now, writing, sent, epoch, kept, ends, chains, opened, passed>>

TypeOK ==
  /\ now \in Nat
  /\ writing \in [epoch : Epochs, no : Nat]
  /\ sent \subseteq Headers
  /\ epoch \in Epochs
  /\ kept \subseteq Epochs
  /\ ends \in [Epochs -> Nat]
  /\ chains \in [Epochs -> Chains]
  /\ opened \in [Headers -> Nat]
  /\ passed \in [Headers -> Nat]

NewChain == [next |-> 0, skipped |-> {}]

Init ==
  /\ now = 0
  /\ writing = [epoch |-> 0, no |-> 0]
  /\ sent = {}
  /\ epoch = 0
  /\ kept = {}
  /\ ends = [e \in Epochs |-> 0]
  /\ chains = [e \in Epochs |-> NewChain]
  /\ opened = [h \in Headers |-> 0]
  /\ passed = [h \in Headers |-> 0]

-----------------------------------------------------------------------------
(* Mutant of Fresh: nothing expires. *)
FreshForever(ch) == ch

(* The keys of a chain that are not too old. *)
Fresh(ch) == [ch EXCEPT !.skipped = {k \in @ : k.expires > now}]

(* Mutant of Trimmed: the newest keys go. *)
TrimmedFromTop(keys) ==
  {k \in keys : Cardinality({j \in keys : j.no < k.no}) < MaxSkip}

(* Mutant of Trimmed: one key too many stays. *)
TrimmedLate(keys) ==
  {k \in keys : Cardinality({j \in keys : j.no > k.no}) <= MaxSkip}

(* trim_skipped_keys: the keys with the highest numbers stay. *)
Trimmed(keys) ==
  {k \in keys : Cardinality({j \in keys : j.no > k.no}) < MaxSkip}

(* The epochs the receiver reads, with cleanup_expired_skipped_keys done. *)
Live == {epoch} \cup {e \in kept : ends[e] > now}

CleanUp ==
  /\ kept' = {e \in kept : ends[e] > now}
  /\ chains' = [e \in Epochs |-> Fresh(chains[e])]

(* decrypt_for_epoch: a number the chain has passed needs its own key, and *)
(* the chain steps over at most MaxSkip numbers.                           *)
CanOpen(ch, n) ==
  IF n < ch.next THEN \E k \in ch.skipped : k.no = n
                 ELSE n - ch.next <= MaxSkip

(* The keys the chain sets aside on its way to n.  The code trims after    *)
(* each; the numbers grow, so once at the end comes to the same.           *)
SetAside(ch, n) ==
  {[no |-> i, expires |-> now + Ttl] : i \in {j \in Numbers : ch.next <= j /\ j < n}}

(* Mutant of Advanced: a key that was used is kept. *)
AdvancedKeepingKey(ch, n) ==
  IF n < ch.next
  THEN ch
  ELSE [next |-> n + 1, skipped |-> Trimmed(ch.skipped \cup SetAside(ch, n))]

Advanced(ch, n) ==
  IF n < ch.next
  THEN [ch EXCEPT !.skipped = {k \in @ : k.no # n}]
  ELSE [next |-> n + 1, skipped |-> Trimmed(ch.skipped \cup SetAside(ch, n))]

-----------------------------------------------------------------------------
(* encrypt_message, at the sender. *)
Send ==
  LET h == [epoch |-> writing.epoch, no |-> writing.no]
  IN /\ writing.no < MaxMessages
     /\ sent' = sent \cup {h}
     /\ writing' = [writing EXCEPT !.no = @ + 1]
     /\ UNCHANGED <<now, epoch, kept, ends, chains, opened, passed>>

(* Mutant of SenderRekeys: the epoch goes up twice. *)
SenderRekeysTwice ==
  /\ writing.epoch < MaxEpoch
  /\ writing.epoch <= epoch
  /\ writing' = [epoch |-> writing.epoch + 2, no |-> 0]
  /\ UNCHANGED <<now, sent, epoch, kept, ends, chains, opened, passed>>

(* activate_epoch, at either: each may be the proposer, one epoch ahead. *)
SenderRekeys ==
  /\ writing.epoch < MaxEpoch
  /\ writing.epoch <= epoch
  /\ writing' = [epoch |-> writing.epoch + 1, no |-> 0]
  /\ UNCHANGED <<now, sent, epoch, kept, ends, chains, opened, passed>>

ReceiverRekeys ==
  /\ epoch < MaxEpoch
  /\ epoch <= writing.epoch
  /\ epoch' = epoch + 1
  /\ ends' = [ends EXCEPT ![epoch] = now + Ttl]
  /\ kept' = {e \in kept \cup {epoch} : ends'[e] > now}
  /\ UNCHANGED <<now, writing, sent, chains, opened, passed>>

(* decrypt_message answers Ok. *)
Open(h) ==
  LET ch == Fresh(chains[h.epoch])
  IN /\ h \in sent
     /\ h.epoch \in Live
     /\ CanOpen(ch, h.no)
     /\ kept' = {e \in kept : ends[e] > now}
     /\ chains' = [e \in Epochs |-> IF e = h.epoch THEN Advanced(ch, h.no)
                                                   ELSE Fresh(chains[e])]
     /\ opened' = [opened EXCEPT ![h] = @ + 1]
     /\ passed' = [g \in Headers |->
          IF g.epoch = h.epoch /\ ch.next <= g.no /\ g.no < h.no
          THEN now ELSE passed[g]]
     /\ UNCHANGED <<now, writing, sent, epoch, ends>>

(* It answers an error: the message is dropped, the clean-up stays. *)
Refuse(h) ==
  /\ h \in sent
  /\ h.epoch \notin Live \/ ~CanOpen(Fresh(chains[h.epoch]), h.no)
  /\ CleanUp
  /\ UNCHANGED <<now, writing, sent, epoch, ends, opened, passed>>

(* The receiver writes a message of its own. *)
OwnMessage ==
  /\ CleanUp
  /\ UNCHANGED <<now, writing, sent, epoch, ends, opened, passed>>

Tick ==
  /\ now < MaxNow
  /\ now' = now + 1
  /\ UNCHANGED <<writing, sent, epoch, kept, ends, chains, opened, passed>>

Next ==
  \/ Send \/ SenderRekeys \/ ReceiverRekeys
  \/ \E h \in Headers : Open(h) \/ Refuse(h)
  \/ OwnMessage \/ Tick

Spec == Init /\ [][Next]_vars

-----------------------------------------------------------------------------
(* Properties.                                                             *)

(* A message is shown once, however often and in whatever order it comes.  *)
OpenedOnce == \A h \in Headers : opened[h] <= 1

(* A chain never keeps more keys than MaxSkip, whatever gaps it stepped    *)
(* over and however they were filled.                                      *)
KeysBounded == \A e \in Epochs : Cardinality(chains[e].skipped) <= MaxSkip

(* A message that comes late is still opened if at most MaxSkip messages   *)
(* of its epoch overtook it, all less than Ttl seconds ago, whatever came  *)
(* meanwhile, the change of epoch included.                                *)
LateMessagesReadable ==
  \A h \in sent :
    LET ch == chains[h.epoch]
    IN /\ h.epoch \in Live
       /\ opened[h] = 0
       /\ h.no < ch.next /\ ch.next - h.no <= MaxSkip + 1
       /\ now < passed[h] + Ttl
       => CanOpen(Fresh(ch), h.no)

(* Nothing is opened with a key older than Ttl: a message the chain passed *)
(* over, or of an epoch that ended, is lost after that time.               *)
KeysExpire ==
  [][\A h \in Headers : opened'[h] # opened[h] =>
       /\ (h.no < chains[h.epoch].next => now < passed[h] + Ttl)
       /\ (h.epoch # epoch => now < ends[h.epoch])]_vars
=============================================================================
