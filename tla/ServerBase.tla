----------------------------- MODULE ServerBase -----------------------------
(***************************************************************************)
(* The parameters shared by the modules of the server.  A connection is    *)
(* one accepted TCP socket, served by one task.  The member id and the     *)
(* server nonce are drawn at random for each connection, so the connection *)
(* itself stands for both of them.                                         *)
(***************************************************************************)
EXTENDS Naturals, Sequences

CONSTANTS
  Conns,      \* the connections the server accepts
  RoomIds,    \* the room names the clients use
  NoConn      \* the None of an Option<member id>

ASSUME NoConnAssumption == NoConn \notin Conns

(* Channel numbers start at 1; 0 is the None of a channel or of a          *)
(* capability, which is drawn together with its room's channel.            *)
NoChan == 0
=============================================================================
