----------------------------- MODULE MCUploads ------------------------------
(* Instances of Uploads for TLC: two files. *)
EXTENDS Uploads, TLC

CONSTANTS FirstSize, SecondSize

MCSize == 1 :> FirstSize @@ 2 :> SecondSize

MCPackets == UNION {{[file |-> f, part |-> i] : i \in 0 .. MCSize[f]} : f \in 1 .. 2}
=============================================================================
