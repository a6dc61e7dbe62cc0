------------------------------ MODULE MCLogin -------------------------------
(* Instances of Login for TLC. *)
EXTENDS Login, TLC

CONSTANTS r1, k3

LoginSymmetry == Permutations(Conns) \cup Permutations(Derived)

(* One name of two words; the first is the name of the room. *)
MCWords == "r1 k3" :> [room |-> r1, cred |-> k3]
=============================================================================
