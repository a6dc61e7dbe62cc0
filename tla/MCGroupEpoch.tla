---------------------------- MODULE MCGroupEpoch ----------------------------
(* Instances of GroupEpoch for TLC. *)
EXTENDS GroupEpoch, TLC

CONSTANTS m1, m2, m3, m4

Index == m1 :> 0 @@ m2 :> 1 @@ m3 :> 2 @@ m4 :> 3

(* The order of the candidates turns with every input of the real hash. *)
MCHash(g, e, t, a, c) ==
  (Index[c] + g + e + Index[a] + (IF t = "Join" THEN 1 ELSE 0))
    % Cardinality(Members)
=============================================================================
