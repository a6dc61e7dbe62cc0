-------------------------- MODULE RecvChainProofs ---------------------------
(***************************************************************************)
(* Proofs about RecvChain, for any limits: types, one opening at most,     *)
(* keys that expire, and that a chain keeps no more keys than it may and   *)
(* no fewer than messages in time need.                                    *)
(***************************************************************************)
EXTENDS RecvChain, FiniteSetTheorems, WellFoundedInduction, TLAPS

Header(e, n) == [epoch |-> e, no |-> n]

(* A key that was set aside is for a number the chain has passed, and      *)
(* expires Ttl after it did.                                               *)
KeysOK(e, ch) ==
  \A k \in ch.skipped :
    /\ k.no < ch.next
    /\ k.expires = passed[Header(e, k.no)] + Ttl

(* What was opened was opened once, and its key is gone. *)
OpenedOK(h, ch) ==
  \/ opened[h] = 0
  \/ /\ opened[h] = 1
     /\ h.no < ch.next
     /\ \A k \in ch.skipped : k.no # h.no

Inv ==
  /\ TypeOK
  /\ \A e \in Epochs : KeysOK(e, chains[e])
  /\ \A h \in Headers : OpenedOK(h, chains[h.epoch])

-----------------------------------------------------------------------------
(* The steps of a chain. *)

LEMMA FreshChain ==
  ASSUME NEW ch \in Chains
  PROVE  /\ Fresh(ch) \in Chains
         /\ Fresh(ch).next = ch.next
         /\ \A k \in Fresh(ch).skipped : k \in ch.skipped /\ k.expires > now
  BY DEF Fresh, Chains

LEMMA SetAsideKeys ==
  ASSUME NEW ch \in Chains, NEW n \in Numbers, now \in Nat
  PROVE  \A k \in SetAside(ch, n) :
           /\ k \in SkippedKeys
           /\ ch.next <= k.no /\ k.no < n
           /\ k.expires = now + Ttl
  BY ChainAssumption DEF SetAside, SkippedKeys, Chains, Numbers

(* Opening number n leaves no key for it, and only keys that were kept or  *)
(* set aside on the way.                                                   *)
LEMMA AdvancedChain ==
  ASSUME NEW ch \in Chains, NEW n \in Numbers, now \in Nat,
         \A k \in ch.skipped : k.no < ch.next
  PROVE  LET a == Advanced(ch, n)
         IN /\ a \in Chains
            /\ a.next >= ch.next /\ n < a.next
            /\ \A k \in a.skipped :
                 /\ k.no # n /\ k.no < a.next
                 /\ \/ k \in ch.skipped
                    \/ /\ k \in SetAside(ch, n)
                       /\ ch.next <= k.no /\ k.no < n
                       /\ k.expires = now + Ttl
  <1>1. /\ ch.next \in Nat /\ n \in Nat /\ ch.skipped \subseteq SkippedKeys
        /\ \A k \in SkippedKeys : k.no \in Nat
    BY ChainAssumption DEF Chains, Numbers, SkippedKeys
  <1>2. CASE n < ch.next
    <2>1. /\ Advanced(ch, n).next = ch.next
          /\ Advanced(ch, n).skipped = {k \in ch.skipped : k.no # n}
          /\ Advanced(ch, n) \in Chains
      BY <1>2 DEF Advanced, Chains
    <2> QED
      BY <1>1, <1>2, <2>1
  <1>3. CASE ~(n < ch.next)
    <2> DEFINE kept1 == Trimmed(ch.skipped \cup SetAside(ch, n))
    <2>1. Advanced(ch, n) = [next |-> n + 1, skipped |-> kept1]
      BY <1>3 DEF Advanced
    <2>2. \A k \in kept1 : k \in ch.skipped \/ k \in SetAside(ch, n)
      BY DEF Trimmed
    <2>3. \A k \in SetAside(ch, n) :
            /\ k \in SkippedKeys /\ ch.next <= k.no /\ k.no < n
            /\ k.expires = now + Ttl
      BY SetAsideKeys
    <2> HIDE DEF kept1
    <2>4. n + 1 \in Nat /\ kept1 \subseteq SkippedKeys
      BY <1>1, <2>2, <2>3
    <2>5. Advanced(ch, n) \in Chains
      BY <2>1, <2>4 DEF Chains
    <2>6. ASSUME NEW k \in kept1
          PROVE  /\ k.no # n /\ k.no < n + 1
                 /\ \/ k \in ch.skipped
                    \/ /\ k \in SetAside(ch, n)
                       /\ ch.next <= k.no /\ k.no < n
                       /\ k.expires = now + Ttl
      <3>1. k \in SkippedKeys /\ k.no \in Nat
        BY <1>1, <2>4
      <3>2. CASE k \in ch.skipped
        BY <1>1, <1>3, <3>1, <3>2
      <3>3. CASE k \in SetAside(ch, n)
        BY <1>1, <2>3, <3>1, <3>3
      <3> QED
        BY <2>2, <3>2, <3>3
    <2>7. /\ Advanced(ch, n).next = n + 1 /\ Advanced(ch, n).skipped = kept1
      BY <2>1
    <2>8. n + 1 >= ch.next /\ n < n + 1
      BY <1>1, <1>3
    <2> QED
      BY <2>5, <2>6, <2>7, <2>8
  <1> QED
    BY <1>2, <1>3

-----------------------------------------------------------------------------
LEMMA InitInv == Init => Inv
  BY ChainAssumption
     DEF Init, Inv, TypeOK, Epochs, Headers, Chains, NewChain, KeysOK, OpenedOK

(* Cleaning up only drops keys. *)
LEMMA CleanUpInv ==
  ASSUME Inv, CleanUp, UNCHANGED <<now, writing, sent, epoch, ends, opened, passed>>
  PROVE  Inv'
  <1>1. TypeOK /\ \A e \in Epochs : chains[e] \in Chains
    BY DEF Inv, TypeOK
  <1>2. \A e \in Epochs : /\ chains'[e] \in Chains
                          /\ chains'[e].next = chains[e].next
                          /\ \A k \in chains'[e].skipped : k \in chains[e].skipped
    BY <1>1, FreshChain DEF CleanUp
  <1>3. TypeOK'
    BY <1>1, <1>2 DEF CleanUp, TypeOK
  <1>4. \A e \in Epochs : KeysOK(e, chains[e])'
    BY <1>2 DEF Inv, KeysOK
  <1>5. \A h \in Headers : OpenedOK(h, chains[h.epoch])'
    BY <1>2 DEF Inv, OpenedOK, Headers
  <1> QED
    BY <1>3, <1>4, <1>5 DEF Inv

LEMMA OpenInv ==
  ASSUME Inv, NEW h \in Headers, Open(h)
  PROVE  Inv'
  <1> DEFINE ch == Fresh(chains[h.epoch])
  <1>1. /\ TypeOK /\ h.epoch \in Epochs /\ h.no \in Numbers /\ now \in Nat
        /\ \A e \in Epochs : chains[e] \in Chains
    BY DEF Inv, TypeOK, Headers
  <1>2. \A e \in Epochs : /\ Fresh(chains[e]) \in Chains
                          /\ Fresh(chains[e]).next = chains[e].next
                          /\ \A k \in Fresh(chains[e]).skipped : k \in chains[e].skipped
    BY <1>1, FreshChain
  <1>3. \A k \in ch.skipped : k.no < ch.next
    BY <1>1, <1>2 DEF Inv, KeysOK
  <1>4. /\ CanOpen(ch, h.no)
        /\ chains' = [e \in Epochs |-> IF e = h.epoch THEN Advanced(ch, h.no)
                                                      ELSE Fresh(chains[e])]
        /\ opened' = [opened EXCEPT ![h] = @ + 1]
        /\ passed' = [g \in Headers |->
             IF g.epoch = h.epoch /\ ch.next <= g.no /\ g.no < h.no
             THEN now ELSE passed[g]]
    BY DEF Open
  <1>5. ch \in Chains /\ ch.next = chains[h.epoch].next
    BY <1>1, <1>2
  <1> HIDE DEF ch
  <1>6. LET a == Advanced(ch, h.no)
        IN /\ a \in Chains
           /\ a.next >= ch.next /\ h.no < a.next
           /\ \A k \in a.skipped :
                /\ k.no # h.no /\ k.no < a.next
                /\ \/ k \in ch.skipped
                   \/ /\ ch.next <= k.no /\ k.no < h.no
                      /\ k.expires = now + Ttl
    BY <1>1, <1>3, <1>5, AdvancedChain
  <1>7. opened[h] = 0
    <2>1. CASE h.no < ch.next
      <3>1. \E k \in chains[h.epoch].skipped : k.no = h.no
        BY <1>1, <1>2, <1>4, <2>1 DEF CanOpen, ch
      <3> QED
        BY <3>1 DEF Inv, OpenedOK
    <2>2. CASE ~(h.no < ch.next)
      BY <1>5, <2>2 DEF Inv, OpenedOK
    <2> QED
      BY <2>1, <2>2
  <1>8. TypeOK'
    <2>1. chains' \in [Epochs -> Chains]
      BY <1>2, <1>4, <1>6
    <2>2. opened' \in [Headers -> Nat] /\ passed' \in [Headers -> Nat]
      BY <1>1, <1>4 DEF TypeOK
    <2> QED
      BY <1>1, <2>1, <2>2 DEF Open, TypeOK
  <1>9. ASSUME NEW e \in Epochs PROVE KeysOK(e, chains[e])'
    <2> SUFFICES ASSUME NEW k \in chains'[e].skipped
                 PROVE  /\ k.no < chains'[e].next
                        /\ k.expires = passed'[Header(e, k.no)] + Ttl
      BY DEF KeysOK
    <2>1. /\ k \in SkippedKeys /\ k.no \in Numbers /\ k.no \in Nat
          /\ Header(e, k.no) \in Headers
          /\ Header(e, k.no).epoch = e /\ Header(e, k.no).no = k.no
      BY <1>8, ChainAssumption DEF TypeOK, Chains, SkippedKeys, Headers, Header, Numbers
    <2>2. CASE k \in chains[e].skipped /\ k.no < chains'[e].next
      <3>1. k.no < chains[e].next /\ k.expires = passed[Header(e, k.no)] + Ttl
        BY <2>2 DEF Inv, KeysOK
      <3>2. passed'[Header(e, k.no)] = passed[Header(e, k.no)]
        <4>1. chains[e].next \in Nat
          BY <1>1 DEF Chains
        <4> QED
          BY <1>4, <1>5, <2>1, <3>1, <4>1
      <3> QED
        BY <2>2, <3>1, <3>2
    <2>3. CASE /\ e = h.epoch /\ ch.next <= k.no /\ k.no < h.no
               /\ k.expires = now + Ttl /\ k.no < chains'[e].next
      BY <1>4, <2>1, <2>3
    <2>4. CASE e = h.epoch
      <3>1. chains'[e] = Advanced(ch, h.no)
        BY <1>4, <2>4
      <3>2. \A j \in ch.skipped : j \in chains[e].skipped
        BY <1>2, <2>4 DEF ch
      <3> QED
        BY <1>6, <2>2, <2>3, <2>4, <3>1, <3>2
    <2>5. CASE e # h.epoch
      <3>1. chains'[e] = Fresh(chains[e])
        BY <1>4, <2>5
      <3>2. k \in chains[e].skipped /\ k.no < chains'[e].next
        BY <1>2, <3>1 DEF Inv, KeysOK
      <3> QED
        BY <2>2, <3>2
    <2> QED
      BY <2>4, <2>5
  <1>10. ASSUME NEW g \in Headers PROVE OpenedOK(g, chains[g.epoch])'
    <2>1. CASE g = h
      <3>1. opened'[h] = 1 /\ chains'[h.epoch] = Advanced(ch, h.no)
        BY <1>1, <1>4, <1>7 DEF TypeOK
      <3> QED
        BY <1>6, <2>1, <3>1 DEF OpenedOK
    <2>2. CASE g # h
      <3>1. opened'[g] = opened[g] /\ OpenedOK(g, chains[g.epoch])
        BY <1>1, <1>4, <2>2 DEF TypeOK, Inv
      <3>2. /\ g.epoch \in Epochs /\ g.no \in Nat
            /\ chains[g.epoch].next \in Nat /\ chains'[g.epoch].next \in Nat
        BY <1>1, <1>8, ChainAssumption DEF Headers, Numbers, TypeOK, Chains
      <3>3. CASE g.epoch = h.epoch
        <4>1. chains'[g.epoch] = Advanced(ch, h.no)
          BY <1>4, <3>2, <3>3
        <4>2. \A j \in ch.skipped : j \in chains[g.epoch].skipped
          BY <1>2, <3>2, <3>3 DEF ch
        <4>3. ch.next = chains[g.epoch].next
          BY <1>5, <3>3
        <4> QED
          BY <1>6, <3>1, <3>2, <4>1, <4>2, <4>3 DEF OpenedOK
      <3>4. CASE g.epoch # h.epoch
        <4>1. chains'[g.epoch] = Fresh(chains[g.epoch])
          BY <1>4, <3>2, <3>4
        <4> QED
          BY <1>2, <3>1, <3>2, <4>1 DEF OpenedOK
      <3> QED
        BY <3>3, <3>4
    <2> QED
      BY <2>1, <2>2
  <1> QED
    BY <1>8, <1>9, <1>10 DEF Inv

LEMMA NextInv == Inv /\ [Next]_vars => Inv'
  <1> SUFFICES ASSUME Inv, [Next]_vars PROVE Inv'
    OBVIOUS
  <1>1. ASSUME UNCHANGED <<chains, opened, passed>>, TypeOK'
        PROVE  Inv'
    BY <1>1 DEF Inv, KeysOK, OpenedOK
  <1>2. CASE Send
    <2>1. TypeOK'
      BY <1>2, ChainAssumption DEF Inv, Send, TypeOK, Headers, Numbers
    <2> QED
      BY <1>1, <1>2, <2>1 DEF Send
  <1>3. CASE SenderRekeys
    <2>0. writing.epoch + 1 \in Epochs
      BY <1>3, ChainAssumption DEF Inv, SenderRekeys, TypeOK, Epochs
    <2>1. TypeOK'
      BY <1>3, <2>0 DEF Inv, SenderRekeys, TypeOK
    <2> QED
      BY <1>1, <1>3, <2>1 DEF SenderRekeys
  <1>4. CASE ReceiverRekeys
    <2>1. epoch \in Epochs /\ epoch + 1 \in Epochs /\ now + Ttl \in Nat
      BY <1>4, ChainAssumption DEF Inv, ReceiverRekeys, TypeOK, Epochs
    <2>2. ends' \in [Epochs -> Nat] /\ kept' \subseteq Epochs
      BY <1>4, <2>1 DEF Inv, ReceiverRekeys, TypeOK
    <2>3. TypeOK'
      BY <1>4, <2>1, <2>2 DEF Inv, ReceiverRekeys, TypeOK
    <2> QED
      BY <1>1, <1>4, <2>3 DEF ReceiverRekeys
  <1>5. CASE Tick
    <2>1. TypeOK'
      BY <1>5 DEF Inv, Tick, TypeOK
    <2> QED
      BY <1>1, <1>5, <2>1 DEF Tick
  <1>6. ASSUME NEW h \in Headers, Open(h) PROVE Inv'
    BY <1>6, OpenInv
  <1>7. ASSUME NEW h \in Headers, Refuse(h) PROVE Inv'
    BY <1>7, CleanUpInv DEF Refuse
  <1>8. CASE OwnMessage
    BY <1>8, CleanUpInv DEF OwnMessage
  <1>9. CASE UNCHANGED vars
    <2>1. TypeOK'
      BY <1>9 DEF Inv, vars, TypeOK
    <2> QED
      BY <1>1, <1>9, <2>1 DEF vars
  <1> QED
    BY <1>2, <1>3, <1>4, <1>5, <1>6, <1>7, <1>8, <1>9 DEF Next

(* The invariant holds in every state the two clients reach. *)
THEOREM Invariance == Spec => []Inv
  BY InitInv, NextInv, PTL DEF Spec

-----------------------------------------------------------------------------
(* Every state of the chains has its type. *)
THEOREM ChainTypeCorrect == Spec => []TypeOK
  <1>1. Inv => TypeOK
    BY DEF Inv
  <1> QED
    BY <1>1, Invariance, PTL

(* A message is shown once, however often it comes (decrypt_for_epoch,     *)
(* open_with_skipped_key), for every MaxSkip and Ttl. *)
THEOREM OneOpening == Spec => []OpenedOnce
  <1>1. Inv => OpenedOnce
    BY DEF Inv, OpenedOnce, OpenedOK, TypeOK
  <1> QED
    BY <1>1, Invariance, PTL

LEMMA OpenedInTime ==
  ASSUME Inv, [Next]_vars, NEW h \in Headers, opened'[h] # opened[h]
  PROVE  /\ (h.no < chains[h.epoch].next => now < passed[h] + Ttl)
         /\ (h.epoch # epoch => now < ends[h.epoch])
  <1>1. TypeOK /\ opened \in [Headers -> Nat]
    BY DEF Inv, TypeOK
  <1>2. Open(h)
    <2>1. PICK g \in Headers : Open(g)
      BY DEF Next, Send, SenderRekeys, ReceiverRekeys, Refuse, OwnMessage, Tick, vars
    <2>2. opened' = [opened EXCEPT ![g] = @ + 1]
      BY <2>1 DEF Open
    <2> QED
      BY <1>1, <2>1, <2>2
  <1>3. /\ h.epoch \in Epochs /\ now \in Nat /\ h.no \in Nat
        /\ chains[h.epoch] \in Chains /\ h = Header(h.epoch, h.no)
        /\ passed[h] \in Nat /\ ends[h.epoch] \in Nat
    <2>1. h.epoch \in Epochs /\ h.no \in Nat /\ h = Header(h.epoch, h.no)
      BY ChainAssumption DEF Headers, Numbers, Header
    <2> QED
      BY <1>1, <2>1 DEF TypeOK
  <1>4. h.epoch # epoch => now < ends[h.epoch]
    BY <1>2, <1>3 DEF Open, Live
  <1>5. ASSUME h.no < chains[h.epoch].next PROVE now < passed[h] + Ttl
    <2>1. /\ Fresh(chains[h.epoch]).next = chains[h.epoch].next
          /\ \A k \in Fresh(chains[h.epoch]).skipped :
               k \in chains[h.epoch].skipped /\ k.expires > now
      BY <1>3, FreshChain
    <2>2. PICK k \in chains[h.epoch].skipped : k.no = h.no /\ k.expires > now
      BY <1>2, <1>5, <2>1 DEF Open, CanOpen
    <2>3. k.expires = passed[h] + Ttl
      BY <1>3, <2>2 DEF Inv, KeysOK
    <2> QED
      BY <1>3, <2>2, <2>3, ChainAssumption
  <1> QED
    BY <1>4, <1>5

(* Nothing is opened with a key older than Ttl                             *)
(* (cleanup_expired_skipped_keys, activate_epoch). *)
THEOREM KeysExpireInTime == Spec => KeysExpire
  <1>1. Inv /\ [Next]_vars =>
          [\A h \in Headers : opened'[h] # opened[h] =>
             /\ (h.no < chains[h.epoch].next => now < passed[h] + Ttl)
             /\ (h.epoch # epoch => now < ends[h.epoch])]_vars
    BY OpenedInTime
  <1> QED
    BY <1>1, Invariance, PTL DEF Spec, KeysExpire
-----------------------------------------------------------------------------
(* How many keys a chain keeps, and which.                                 *)

LEMMA LeastNumber ==
  ASSUME NEW S \in SUBSET Nat, S # {}
  PROVE  \E m \in S : \A n \in S : m <= n
  <1>1. PICK m \in S : \A n \in S : ~ (<<n, m>> \in OpToRel(<, Nat))
    BY NatLessThanWellFounded, WFMin
  <1>2. \A n \in S : ~(n < m)
    BY <1>1 DEF OpToRel
  <1> QED
    BY <1>2

(* There is one key for a number at most. *)
Single(keys) == \A j, k \in keys : j.no = k.no => j = k

LEMMA KeysAsNumbers ==
  ASSUME NEW keys \in SUBSET SkippedKeys, Single(keys),
         NEW S, IsFiniteSet(S), \A k \in keys : k.no \in S
  PROVE  IsFiniteSet(keys) /\ Cardinality(keys) <= Cardinality(S)
  <1> DEFINE f == [k \in keys |-> k.no]
  <1>1. f \in Injection(keys, S)
    BY DEF Single, Injection, IsInjective
  <1> QED
    BY <1>1, FS_Injection

LEMMA FiniteKeys ==
  ASSUME NEW keys \in SUBSET SkippedKeys, Single(keys)
  PROVE  IsFiniteSet(keys)
  <1>1. IsFiniteSet(Numbers)
    BY ChainAssumption, FS_Interval DEF Numbers
  <1> QED
    BY <1>1, KeysAsNumbers DEF SkippedKeys

(* Of any keys, trimming leaves MaxSkip at most. *)
LEMMA TrimmedBound ==
  ASSUME NEW keys \in SUBSET SkippedKeys, Single(keys)
  PROVE  Cardinality(Trimmed(keys)) <= MaxSkip
  <1> DEFINE T == Trimmed(keys)
  <1>1. T \subseteq keys /\ IsFiniteSet(keys) /\ IsFiniteSet(T)
    BY FiniteKeys, FS_Subset DEF Trimmed
  <1>2. CASE T = {}
    BY <1>2, FS_EmptySet, ChainAssumption
  <1>3. CASE T # {}
    <2> DEFINE S == {k.no : k \in T}
    <2>1. S \subseteq Nat /\ S # {}
      BY <1>1, <1>3, ChainAssumption DEF SkippedKeys, Numbers
    <2>2. PICK m \in S : \A n \in S : m <= n
      BY <2>1, LeastNumber
    <2>3. PICK k \in T : k.no = m
      BY <2>2
    <2> DEFINE above == {j \in keys : j.no > k.no}
    <2>4. Cardinality(above) < MaxSkip
      BY DEF Trimmed
    <2>5. T \ {k} \subseteq above
      <3> SUFFICES ASSUME NEW j \in T, j # k PROVE j \in above
        OBVIOUS
      <3>1. j.no # k.no /\ j \in keys /\ k \in keys
        BY <1>1 DEF Single
      <3>2. m <= j.no /\ j.no \in S
        BY <2>2
      <3>3. j.no > k.no
        BY <2>1, <2>3, <3>1, <3>2
      <3> QED
        BY <3>1, <3>3
    <2>6. /\ IsFiniteSet(above) /\ IsFiniteSet(T \ {k})
          /\ Cardinality(above) \in Nat /\ Cardinality(T) \in Nat
      BY <1>1, FS_Subset, FS_CardinalityType, FS_RemoveElement
    <2>7. Cardinality(T \ {k}) <= Cardinality(above)
      BY <2>5, <2>6, FS_Subset
    <2>8. Cardinality(T \ {k}) = Cardinality(T) - 1
      BY <1>1, FS_RemoveElement
    <2> QED
      BY <2>4, <2>6, <2>7, <2>8, ChainAssumption
  <1> QED
    BY <1>2, <1>3

(* Trimming leaves a key that at most MaxSkip - 1 numbers are above.       *)
LEMMA TrimmedKeeps ==
  ASSUME NEW keys \in SUBSET SkippedKeys, Single(keys),
         NEW n \in Nat, \A j \in keys : j.no < n,
         NEW k \in keys, n - k.no <= MaxSkip
  PROVE  k \in Trimmed(keys)
  <1> DEFINE above == {j \in keys : j.no > k.no}
  <1>1. \A j \in keys : j.no \in Nat
    BY ChainAssumption DEF SkippedKeys, Numbers
  <1>2. \A j \in above : j.no \in (k.no + 1) .. (n - 1)
    BY <1>1
  <1>3. /\ IsFiniteSet((k.no + 1) .. (n - 1))
        /\ Cardinality((k.no + 1) .. (n - 1)) = n - 1 - k.no
    <2>1. k.no \in Nat /\ k.no < n /\ k.no + 1 \in Int /\ n - 1 \in Int
      BY <1>1
    <2>2. /\ IsFiniteSet((k.no + 1) .. (n - 1))
          /\ Cardinality((k.no + 1) .. (n - 1)) =
               IF k.no + 1 > n - 1 THEN 0 ELSE (n - 1) - (k.no + 1) + 1
      BY <2>1, FS_Interval
    <2> QED
      BY <2>1, <2>2
  <1>4. above \in SUBSET SkippedKeys /\ Single(above)
    BY DEF Single
  <1>5. Cardinality(above) <= n - 1 - k.no /\ IsFiniteSet(above)
    BY <1>2, <1>3, <1>4, KeysAsNumbers
  <1>6. Cardinality(above) < MaxSkip
    BY <1>1, <1>5, ChainAssumption, FS_CardinalityType
  <1> QED
    BY <1>6 DEF Trimmed

(* The keys of a chain with those set aside on the way to number n. *)
LEMMA WithSetAside ==
  ASSUME NEW ch \in Chains, NEW n \in Numbers, now \in Nat, Single(ch.skipped),
         \A k \in ch.skipped : k.no < ch.next, ch.next <= n
  PROVE  /\ ch.skipped \cup SetAside(ch, n) \in SUBSET SkippedKeys
         /\ Single(ch.skipped \cup SetAside(ch, n))
         /\ \A k \in ch.skipped \cup SetAside(ch, n) : k.no < n
  <1>1. /\ ch.next \in Nat /\ n \in Nat /\ ch.skipped \subseteq SkippedKeys
        /\ \A k \in SkippedKeys : k.no \in Nat
    BY ChainAssumption DEF Chains, Numbers, SkippedKeys
  <1>2. \A k \in SetAside(ch, n) : k \in SkippedKeys /\ ch.next <= k.no /\ k.no < n
    BY SetAsideKeys
  <1>3. Single(SetAside(ch, n))
    BY DEF Single, SetAside
  <1>4. \A k \in ch.skipped : k.no < n
    BY <1>1
  <1>5. ASSUME NEW j \in ch.skipped, NEW k \in SetAside(ch, n)
        PROVE  j.no # k.no
    BY <1>1, <1>2
  <1> QED
    BY <1>1, <1>2, <1>3, <1>4, <1>5 DEF Single

-----------------------------------------------------------------------------
(* A message that can still be in time has its key.                        *)
InTime(h) ==
  /\ opened[h] = 0
  /\ h.no < chains[h.epoch].next
  /\ chains[h.epoch].next - h.no <= MaxSkip + 1
  /\ now < passed[h] + Ttl

HasKey(h) == \E k \in chains[h.epoch].skipped : k.no = h.no

KeepsEnough == \A h \in Headers : InTime(h) => HasKey(h)

KeysInv == Inv /\ KeysBounded /\ KeepsEnough

LEMMA ChainFacts ==
  ASSUME Inv, NEW e \in Epochs
  PROVE  /\ chains[e] \in Chains /\ now \in Nat
         /\ chains[e].skipped \in SUBSET SkippedKeys /\ chains[e].next \in Nat
         /\ \A k \in chains[e].skipped : /\ k.no \in Nat /\ k.no < chains[e].next
                                         /\ Header(e, k.no) \in Headers
                                         /\ k.expires = passed[Header(e, k.no)] + Ttl
         /\ Single(chains[e].skipped) /\ IsFiniteSet(chains[e].skipped)
  <1>1. /\ chains[e] \in Chains /\ now \in Nat
        /\ chains[e].skipped \in SUBSET SkippedKeys /\ chains[e].next \in Nat
    BY DEF Inv, TypeOK, Chains
  <1>2. \A k \in chains[e].skipped :
          /\ k.no \in Nat /\ k.no < chains[e].next
          /\ k = [no |-> k.no, expires |-> k.expires]
          /\ Header(e, k.no) \in Headers
          /\ k.expires = passed[Header(e, k.no)] + Ttl
    BY <1>1, ChainAssumption DEF Inv, KeysOK, SkippedKeys, Numbers, Header, Headers
  <1>3. Single(chains[e].skipped)
    BY <1>2 DEF Single
  <1> QED
    BY <1>1, <1>2, <1>3, FiniteKeys

(* Dropping the expired keys takes none of a message in time. *)
LEMMA FreshKeeps ==
  ASSUME KeysInv, NEW e \in Epochs
  PROVE  /\ Cardinality(Fresh(chains[e]).skipped) <= MaxSkip
         /\ Fresh(chains[e]).next = chains[e].next
         /\ \A h \in Headers : h.epoch = e /\ InTime(h) =>
              \E k \in Fresh(chains[e]).skipped : k.no = h.no
  <1>1. /\ chains[e] \in Chains /\ IsFiniteSet(chains[e].skipped)
        /\ \A k \in chains[e].skipped : k.expires = passed[Header(e, k.no)] + Ttl
        /\ Cardinality(chains[e].skipped) <= MaxSkip
    BY ChainFacts DEF KeysInv, KeysBounded
  <1>2. /\ Fresh(chains[e]).next = chains[e].next
        /\ Fresh(chains[e]).skipped = {k \in chains[e].skipped : k.expires > now}
    BY <1>1 DEF Fresh, Chains
  <1>3. Cardinality(Fresh(chains[e]).skipped) <= MaxSkip
    <2>1. /\ Cardinality(Fresh(chains[e]).skipped) <= Cardinality(chains[e].skipped)
          /\ Cardinality(chains[e].skipped) \in Nat
          /\ Cardinality(Fresh(chains[e]).skipped) \in Nat
      BY <1>1, <1>2, FS_Subset, FS_CardinalityType
    <2> QED
      BY <1>1, <2>1, ChainAssumption
  <1>4. ASSUME NEW h \in Headers, h.epoch = e, InTime(h)
        PROVE  \E k \in Fresh(chains[e]).skipped : k.no = h.no
    <2>1. PICK k \in chains[e].skipped : k.no = h.no
      BY <1>4 DEF KeysInv, KeepsEnough, HasKey
    <2>2. Header(e, k.no) = h
      BY <1>4, <2>1 DEF Header, Headers
    <2>3. passed[h] \in Nat /\ now \in Nat /\ now < passed[h] + Ttl
      BY <1>4 DEF KeysInv, Inv, TypeOK, InTime
    <2>4. k.expires > now
      BY <1>1, <2>1, <2>2, <2>3, ChainAssumption
    <2> QED
      BY <1>2, <2>1, <2>4
  <1> QED
    BY <1>2, <1>3, <1>4

LEMMA CleanUpKeys ==
  ASSUME KeysInv, CleanUp, UNCHANGED <<now, opened, passed>>
  PROVE  KeysBounded' /\ KeepsEnough'
  <1>1. \A e \in Epochs : chains'[e] = Fresh(chains[e])
    BY DEF CleanUp
  <1>2. KeysBounded'
    BY <1>1, FreshKeeps DEF KeysBounded
  <1>3. ASSUME NEW h \in Headers, InTime(h)' PROVE HasKey(h)'
    <2>1. h.epoch \in Epochs
      BY DEF Headers
    <2>2. InTime(h)
      BY <1>1, <1>3, <2>1, FreshKeeps DEF InTime
    <2> QED
      BY <1>1, <2>1, <2>2, FreshKeeps DEF HasKey
  <1> QED
    BY <1>2, <1>3 DEF KeepsEnough

LEMMA OpenKeys ==
  ASSUME KeysInv, Inv', NEW h \in Headers, Open(h)
  PROVE  KeysBounded' /\ KeepsEnough'
  <1> DEFINE ch == Fresh(chains[h.epoch])
             n == h.no
  <1>1. /\ h.epoch \in Epochs /\ n \in Numbers /\ n \in Nat /\ now \in Nat
        /\ opened \in [Headers -> Nat]
        /\ \A e \in Epochs : chains[e] \in Chains /\ Fresh(chains[e]) \in Chains
    BY ChainAssumption, FreshChain DEF KeysInv, Inv, TypeOK, Headers, Numbers
  <1>2. /\ chains' = [e \in Epochs |-> IF e = h.epoch THEN Advanced(ch, n)
                                                      ELSE Fresh(chains[e])]
        /\ opened' = [opened EXCEPT ![h] = @ + 1]
        /\ passed' = [g \in Headers |->
             IF g.epoch = h.epoch /\ ch.next <= g.no /\ g.no < n
             THEN now ELSE passed[g]]
        /\ UNCHANGED now
    BY DEF Open
  <1>3. /\ ch \in Chains /\ ch.next = chains[h.epoch].next /\ ch.next \in Nat
        /\ ch.skipped \in SUBSET SkippedKeys /\ Single(ch.skipped)
        /\ \A k \in ch.skipped : k.no \in Nat /\ k.no < ch.next
        /\ IsFiniteSet(ch.skipped) /\ Cardinality(ch.skipped) <= MaxSkip
    <2>1. /\ ch \in Chains /\ ch.next = chains[h.epoch].next
          /\ \A k \in ch.skipped : k \in chains[h.epoch].skipped
          /\ Cardinality(ch.skipped) <= MaxSkip
      BY <1>1, FreshChain, FreshKeeps
    <2>2. ch.skipped \in SUBSET SkippedKeys /\ Single(ch.skipped)
      BY <1>1, <2>1, ChainFacts DEF Single, KeysInv
    <2> QED
      BY <1>1, <2>1, <2>2, ChainFacts, FiniteKeys DEF KeysInv
  <1>4. \A g \in Headers : g.epoch = h.epoch /\ InTime(g) => \E k \in ch.skipped : k.no = g.no
    BY <1>1, FreshKeeps
  <1> HIDE DEF ch
  <1>5. /\ Cardinality(Advanced(ch, n).skipped) <= MaxSkip
        /\ \A g \in Headers : g.epoch = h.epoch /\ InTime(g)'
             => \E k \in Advanced(ch, n).skipped : k.no = g.no
    <2>1. /\ chains'[h.epoch] = Advanced(ch, n)
          /\ \A g \in Headers : opened'[g] = 0 => g # h /\ opened[g] = 0
      BY <1>1, <1>2
    <2>2. \A g \in Headers : g.epoch = h.epoch /\ g # h => g.no # n
      BY DEF Headers
    <2>3. CASE n < ch.next
      <3>1. /\ Advanced(ch, n).next = ch.next
            /\ Advanced(ch, n).skipped = {k \in ch.skipped : k.no # n}
        BY <1>3, <2>3 DEF Advanced, Chains
      <3>2. Cardinality(Advanced(ch, n).skipped) <= MaxSkip
        <4>1. /\ Cardinality(Advanced(ch, n).skipped) <= Cardinality(ch.skipped)
              /\ Cardinality(ch.skipped) \in Nat
              /\ Cardinality(Advanced(ch, n).skipped) \in Nat
          BY <1>3, <3>1, FS_Subset, FS_CardinalityType
        <4> QED
          BY <1>3, <4>1, ChainAssumption
      <3>3. ASSUME NEW g \in Headers, g.epoch = h.epoch, InTime(g)'
            PROVE  \E k \in Advanced(ch, n).skipped : k.no = g.no
        <4>1. g.no # n /\ opened[g] = 0
          BY <2>1, <2>2, <3>3 DEF InTime
        <4>2. passed'[g] = passed[g]
          <5>1. g.no < ch.next /\ g.no \in Nat
            BY <2>1, <3>1, <3>3, ChainAssumption DEF InTime, Headers, Numbers
          <5> QED
            BY <1>2, <1>3, <5>1
        <4>3. InTime(g)
          BY <1>2, <1>3, <2>1, <3>1, <3>3, <4>1, <4>2 DEF InTime
        <4>4. PICK k \in ch.skipped : k.no = g.no
          BY <1>4, <3>3, <4>3
        <4> QED
          BY <3>1, <4>1, <4>4
      <3> QED
        BY <3>2, <3>3
    <2>4. CASE ~(n < ch.next)
      <3> DEFINE keys == ch.skipped \cup SetAside(ch, n)
      <3>1. /\ Advanced(ch, n).next = n + 1
            /\ Advanced(ch, n).skipped = Trimmed(keys)
        BY <2>4 DEF Advanced
      <3>2. /\ ch.next <= n
            /\ keys \in SUBSET SkippedKeys /\ Single(keys)
            /\ \A k \in keys : k.no < n
        BY <1>1, <1>3, <2>4, WithSetAside
      <3>3. ASSUME NEW g \in Headers, g.epoch = h.epoch, InTime(g)'
            PROVE  \E k \in Trimmed(keys) : k.no = g.no
        <4>1. /\ g.no # n /\ opened[g] = 0 /\ g.no \in Nat /\ g.no \in Numbers
              /\ g.no < n + 1 /\ (n + 1) - g.no <= MaxSkip + 1
              /\ now < passed'[g] + Ttl
          BY <1>2, <2>1, <2>2, <3>1, <3>3, ChainAssumption DEF InTime, Headers, Numbers
        <4>2. g.no < n /\ n - g.no <= MaxSkip
          BY <1>1, <4>1, ChainAssumption
        <4>3. \E k \in keys : k.no = g.no
          <5>1. CASE g.no < ch.next
            <6>1. passed'[g] = passed[g]
              BY <1>2, <1>3, <4>1, <5>1
            <6>2. chains[h.epoch].next - g.no <= MaxSkip + 1
              BY <1>1, <1>3, <3>2, <4>1, ChainAssumption
            <6>3. InTime(g)
              BY <1>3, <3>3, <4>1, <5>1, <6>1, <6>2 DEF InTime
            <6> QED
              BY <1>4, <3>3, <6>3
          <5>2. CASE ~(g.no < ch.next)
            <6>1. ch.next <= g.no
              BY <1>3, <4>1, <5>2
            <6>2. [no |-> g.no, expires |-> now + Ttl] \in SetAside(ch, n)
              BY <4>1, <4>2, <6>1 DEF SetAside
            <6> QED
              BY <6>2
          <5> QED
            BY <5>1, <5>2
        <4>4. PICK k \in keys : k.no = g.no
          BY <4>3
        <4> HIDE DEF keys
        <4>5. k \in Trimmed(keys)
          BY <1>1, <3>2, <4>2, <4>4, TrimmedKeeps
        <4> QED
          BY <4>4, <4>5
      <3>4. Cardinality(Trimmed(keys)) <= MaxSkip
        BY <3>2, TrimmedBound
      <3> QED
        BY <3>1, <3>3, <3>4
    <2> QED
      BY <2>3, <2>4
  <1>6. \A e \in Epochs : e # h.epoch => chains'[e] = Fresh(chains[e])
    BY <1>2
  <1>7. chains'[h.epoch] = Advanced(ch, n)
    BY <1>1, <1>2
  <1>8. KeysBounded'
    BY <1>5, <1>6, <1>7, FreshKeeps DEF KeysBounded
  <1>9. ASSUME NEW g \in Headers, InTime(g)' PROVE HasKey(g)'
    <2>1. g.epoch \in Epochs
      BY DEF Headers
    <2>2. CASE g.epoch = h.epoch
      BY <1>5, <1>7, <1>9, <2>2 DEF HasKey
    <2>3. CASE g.epoch # h.epoch
      <3>1. opened'[g] = opened[g] /\ passed'[g] = passed[g]
        BY <1>1, <1>2, <2>3
      <3>2. InTime(g)
        BY <1>2, <1>6, <1>9, <2>1, <2>3, <3>1, FreshKeeps DEF InTime
      <3> QED
        BY <1>6, <2>1, <2>3, <3>2, FreshKeeps DEF HasKey
    <2> QED
      BY <2>2, <2>3
  <1> QED
    BY <1>8, <1>9 DEF KeepsEnough

LEMMA KeysInvariance == Spec => []KeysInv
  <1>1. Init => KeysBounded /\ KeepsEnough
    <2> SUFFICES ASSUME Init PROVE KeysBounded /\ KeepsEnough
      OBVIOUS
    <2>1. \A e \in Epochs : chains[e].next = 0 /\ chains[e].skipped = {}
      BY DEF Init, NewChain
    <2>2. KeysBounded
      <3>1. Cardinality({}) = 0 /\ MaxSkip >= 0
        BY FS_EmptySet, ChainAssumption
      <3> QED
        BY <2>1, <3>1 DEF KeysBounded
    <2>3. \A h \in Headers : ~(h.no < chains[h.epoch].next)
      BY <2>1, ChainAssumption DEF Headers, Numbers
    <2> QED
      BY <2>2, <2>3 DEF KeepsEnough, InTime
  <1>2. KeysInv /\ Inv' /\ [Next]_vars => KeysBounded' /\ KeepsEnough'
    <2> SUFFICES ASSUME KeysInv, Inv', [Next]_vars PROVE KeysBounded' /\ KeepsEnough'
      OBVIOUS
    <2>1. ASSUME UNCHANGED <<chains, opened, passed>>, now' \in Nat, now' >= now
          PROVE  KeysBounded' /\ KeepsEnough'
      <3>1. \A h \in Headers : InTime(h)' => InTime(h)
        <4>1. now \in Nat /\ passed \in [Headers -> Nat]
          BY DEF KeysInv, Inv, TypeOK
        <4> QED
          BY <2>1, <4>1, ChainAssumption DEF InTime
      <3> QED
        BY <2>1, <3>1 DEF KeysInv, KeysBounded, KeepsEnough, HasKey
    <2>2. now \in Nat
      BY DEF KeysInv, Inv, TypeOK
    <2>3. CASE Send \/ SenderRekeys \/ ReceiverRekeys \/ Tick \/ UNCHANGED vars
      BY <2>1, <2>2, <2>3 DEF Send, SenderRekeys, ReceiverRekeys, Tick, vars
    <2>4. ASSUME NEW h \in Headers, Open(h) PROVE KeysBounded' /\ KeepsEnough'
      BY <2>4, OpenKeys
    <2>5. CASE OwnMessage \/ \E h \in Headers : Refuse(h)
      BY <2>5, CleanUpKeys DEF OwnMessage, Refuse
    <2> QED
      BY <2>3, <2>4, <2>5 DEF Next
  <1> QED
    BY <1>1, <1>2, Invariance, PTL DEF Spec, KeysInv

(* A chain never keeps more than MaxSkip keys (trim_skipped_keys), for     *)
(* every MaxSkip, whatever gaps it stepped over.                           *)
THEOREM ChainsAreBounded == Spec => []KeysBounded
  BY KeysInvariance, PTL DEF KeysInv

(* A message that MaxSkip others overtook, less than Ttl ago, can still be *)
(* opened: neither the clean-up nor the trimming nor the change of epoch   *)
(* takes its key.                                                          *)
THEOREM LateMessagesAreReadable == Spec => []LateMessagesReadable
  <1>1. KeysInv => LateMessagesReadable
    <2> SUFFICES ASSUME KeysInv, NEW h \in sent,
                        opened[h] = 0, h.no < chains[h.epoch].next,
                        chains[h.epoch].next - h.no <= MaxSkip + 1,
                        now < passed[h] + Ttl
                 PROVE  CanOpen(Fresh(chains[h.epoch]), h.no)
      BY DEF LateMessagesReadable
    <2>1. h \in Headers /\ h.epoch \in Epochs /\ InTime(h)
      BY DEF KeysInv, Inv, TypeOK, Headers, InTime
    <2>2. /\ Fresh(chains[h.epoch]).next = chains[h.epoch].next
          /\ \E k \in Fresh(chains[h.epoch]).skipped : k.no = h.no
      BY <2>1, FreshKeeps
    <2> QED
      BY <2>2 DEF CanOpen
  <1> QED
    BY <1>1, KeysInvariance, PTL
=============================================================================
