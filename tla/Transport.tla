----------------------------- MODULE Transport ------------------------------
(***************************************************************************)
(* The connection of one client to the server: TransportCrypto             *)
(* (src/crypto/core.rs) at both ends, the answer of the server to each     *)
(* line (src/server/connection.rs) and the table of ACKs at the client     *)
(* (src/transport/packet.rs).                                              *)
(*                                                                         *)
(* The stream under it is TCP: each direction keeps its order until the    *)
(* connection breaks, and what is on its way then is gone.  What may be    *)
(* late is the other end.                                                  *)
(***************************************************************************)
EXTENDS Naturals, Sequences, FiniteSets, SequencesExt

CONSTANTS
  Packets,  \* packet ids
  Window    \* TRANSPORT_REPLAY_WINDOW

ASSUME WindowAssumption == Window \in Nat \ {0}

VARIABLES
  up,        \* whether the connection stands
  sealed,    \* send_seq of the client
  wire,      \* the lines on their way to the server
  nextRecv,  \* next_recv_seq of the server
  recent,    \* its recent_recv_seqs
  acks,      \* the ACKs on their way to the client
  acked      \* AckState.acked of the client

transportVars == <<up, sealed, wire, nextRecv, recent, acks, acked>>

(* A cipher line: its sequence number and the packet in it. *)
Lines == [seq : Nat, packet : Packets]

TransportTypeOK ==
  /\ up \in BOOLEAN
  /\ sealed \in Nat
  /\ wire \in Seq(Lines)
  /\ nextRecv \in Nat
  /\ recent \in Seq(Nat)
  /\ acks \in Seq(Packets)
  /\ acked \subseteq Packets

TransportInit ==
  /\ up = TRUE
  /\ sealed = 0
  /\ wire = <<>>
  /\ nextRecv = 0
  /\ recent = <<>>
  /\ acks = <<>>
  /\ acked = {}

(* transport_seal_line *)
Sealed(p) == [seq |-> sealed, packet |-> p]

(* write_cipher_line.  On a connection that broke, the bytes may still be  *)
(* taken, and lost.                                                        *)
Written(line) == wire' = IF up THEN Append(wire, line) ELSE wire

(* AckRegistry::finish, as to the ACK. *)
Finish(S) == acked' = acked \ S

-----------------------------------------------------------------------------
(* TransportCrypto::open *)
Fresh(line) == line.seq = nextRecv
Duplicate(line) == line.seq < nextRecv /\ Contains(recent, line.seq)

(* Mutant of MarkSeen: the window is one short. *)
MarkSeenShort(seq) ==
  IF Len(recent) >= Window - 1 THEN Tail(Append(recent, seq))
                               ELSE Append(recent, seq)

(* mark_seq_seen: the oldest number leaves a full window. *)
MarkSeen(seq) ==
  IF Len(recent) >= Window THEN Tail(Append(recent, seq))
                           ELSE Append(recent, seq)

(* Whether the server hands the next packet to the room or answers it. *)
PassesOn == Fresh(Head(wire))

(* The server acknowledges a fresh packet before it passes it on, and a    *)
(* duplicate; it drops what it cannot open.                                *)
ServerReads ==
  /\ wire # <<>>
  /\ wire' = Tail(wire)
  /\ LET line == Head(wire)
     IN \/ /\ Fresh(line)
           /\ nextRecv' = nextRecv + 1
           /\ recent' = MarkSeen(line.seq)
           /\ acks' = Append(acks, line.packet)
        \/ /\ Duplicate(line)
           /\ acks' = Append(acks, line.packet)
           /\ UNCHANGED <<nextRecv, recent>>
        \/ /\ ~Fresh(line) /\ ~Duplicate(line)
           /\ UNCHANGED <<nextRecv, recent, acks>>
  /\ UNCHANGED <<up, sealed, acked>>

(* mark_acked, by the reader task: also for a packet nobody waits for.  Of *)
(* those that nobody will ever ask for again it is enough to keep none:    *)
(* wanted are the others.                                                  *)
ReaderMarks(wanted) ==
  /\ acks # <<>>
  /\ acks' = Tail(acks)
  /\ acked' = acked \cup ({Head(acks)} \cap wanted)
  /\ UNCHANGED <<up, sealed, wire, nextRecv, recent>>

Break ==
  /\ up
  /\ up' = FALSE
  /\ wire' = <<>>
  /\ acks' = <<>>
  /\ UNCHANGED <<sealed, nextRecv, recent, acked>>

(* Whatever the client sent, the server can open: no line is refused as    *)
(* out of sequence, and a repeated one is still known.                     *)
EveryLineOpens ==
  wire # <<>> => Fresh(Head(wire)) \/ Duplicate(Head(wire))
=============================================================================
