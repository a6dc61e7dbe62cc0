------------------------------- MODULE Rekey -------------------------------
(***************************************************************************)
(* What the clients of a room promise each other when members come and go  *)
(* one at a time (client/app.rs, crypto/core.rs): the whole room moves     *)
(* from one epoch to the next.  No lists, key announces, proposers or      *)
(* queues; GroupEpoch implements it.                                       *)
(*                                                                         *)
(* An epoch has a number, a secret and the roster it was opened for.       *)
(***************************************************************************)
EXTENDS Naturals

CONSTANTS
  Members,  \* member ids
  Secrets,  \* the secrets that may be drawn
  First     \* those of them with which a room begins

VARIABLES
  room,     \* the members who are in
  at,       \* member -> the epoch it is in, if any
  opened    \* history: the epochs opened by a change

vars == <<room, at, opened>>

Epoch(n, x, R) == [number |-> n, secret |-> x, roster |-> R]

Init ==
  /\ room = {}
  /\ at = [m \in Members |-> {}]
  /\ opened = {}

(* All are in one epoch, and it was opened for them. *)
Together ==
  \A m, n \in room : /\ at[m] # {} /\ at[m] = at[n]
                     /\ \A e \in at[m] : e.roster = room

(* The first member begins. *)
Found(m) ==
  /\ room = {}
  /\ room' = {m}
  /\ \E x \in First : at' = [at EXCEPT ![m] = {Epoch(0, x, {m})}]
  /\ UNCHANGED opened

(* Another comes in, to no epoch yet. *)
Join(m) ==
  /\ room # {} /\ m \notin room /\ Together
  /\ room' = room \cup {m}
  /\ UNCHANGED <<at, opened>>

Leave(m) ==
  /\ m \in room /\ Together
  /\ room' = room \ {m}
  /\ at' = [at EXCEPT ![m] = {}]
  /\ UNCHANGED opened

(* A member opens the epoch of a changed room: nobody is ahead of it, and  *)
(* the secret, which is whatever it then has, was never drawn before.      *)
Open(m) ==
  /\ m \in room
  /\ \E e \in at[m], f \in at'[m] :
       /\ e.roster # room
       /\ \A n \in room : at[n] \subseteq {e}
       /\ f = Epoch(e.number + 1, f.secret, room)
       /\ f.secret \in Secrets \ First
       /\ \A o \in opened : o.secret # f.secret
       /\ at' = [at EXCEPT ![m] = {f}]
       /\ opened' = opened \cup {f}
  /\ UNCHANGED room

(* Another member follows, from the epoch before or from outside. *)
Follow(m, f) ==
  /\ m \in room /\ f.roster = room
  /\ \A e \in at[m] : f.number = e.number + 1
  /\ \A n \in room : \A e \in at[n] : e.number <= f.number
  /\ at' = [at EXCEPT ![m] = {f}]
  /\ UNCHANGED <<room, opened>>

Next ==
  \/ \E m \in Members : Found(m) \/ Join(m) \/ Leave(m) \/ Open(m)
  \/ \E m \in Members, f \in opened : Follow(m, f)

Spec == Init /\ [][Next]_vars
=============================================================================
