--------------------------- MODULE UploadsProofs ----------------------------
(***************************************************************************)
(* That the uploads of a client count right and arrive whole, for any      *)
(* files, sizes, window, number of attempts and lane capacity.             *)
(***************************************************************************)
EXTENDS Uploads, FiniteSetTheorems, TLAPS

(* The files begun are those whose state the sender was shown.             *)
Begun(f) == told[f] # "none"

(* A packet that may have been sent: its file was begun, and as long as it *)
(* is under way, only the chunks before the next one were.                 *)
WasSent(p) ==
  /\ Begun(p.file)
  /\ told[p.file] = "active" /\ p.part > 0 => p.part < nextChunk

(* Each file is in one place: ahead, in the queue, prepared, under way or  *)
(* over.                                                                   *)
QueueOK ==
  /\ \A i, j \in 1 .. Len(pending) : pending[i] = pending[j] => i = j
  /\ \A i \in 1 .. Len(pending) : pending[i] <= asked /\ ~Begun(pending[i])
  /\ \A p \in preparing :
       /\ p.file <= asked /\ ~Begun(p.file)
       /\ \A i \in 1 .. Len(pending) : pending[i] # p.file
  /\ \A p, q \in preparing : p = q
  /\ \A f \in Files : f > asked => ~Begun(f)
  /\ \A f \in Files : told[f] = "active" <=> stage # "none" /\ file = f

JobOK ==
  /\ stage # "window" => /\ pump = "scan" /\ idx = 1 /\ inFlight = <<>>
                         /\ nextChunk = 1 /\ ackedChunks = 0
  /\ stage = "none" => metaSent = 0
  /\ stage = "window" => Manifest(file) \in reached

(* The window holds chunks that were sent, in their order, and each chunk  *)
(* sent is there or reached the server.                                    *)
FlightOK ==
  /\ \A i \in 1 .. Len(inFlight) :
       /\ inFlight[i].chunk.file = file
       /\ inFlight[i].chunk.part \in 1 .. (nextChunk - 1)
  /\ \A i, j \in 1 .. Len(inFlight) :
       i < j => inFlight[i].chunk.part < inFlight[j].chunk.part
  /\ ackedChunks + Len(inFlight) = nextChunk - 1
  /\ \A n \in 1 .. (nextChunk - 1) :
       \/ Packet(file, n) \in reached
       \/ \E i \in 1 .. Len(inFlight) : inFlight[i].chunk.part = n

(* Each line is sealed anew, so that the server opens every one as fresh.  *)
SealsOK ==
  /\ \A i \in 1 .. Len(wire) : wire[i].seq = nextRecv + i - 1
  /\ up => nextRecv + Len(wire) = sealed
  /\ ~up => wire = <<>>

SentOK ==
  /\ \A i \in 1 .. Len(wire) :
       /\ WasSent(wire[i].packet)
       /\ wire[i].packet.part > 0 => Manifest(wire[i].packet.file) \in reached
  /\ \A p \in reached :
       /\ WasSent(p)
       /\ p.part > 0 => Manifest(p.file) \in reached
  /\ \A i \in 1 .. Len(acks) : acks[i] \in reached
  /\ acked \subseteq reached
  /\ \A f \in Files : told[f] = "done" => {Manifest(f)} \cup Chunks(f) \subseteq reached

(* The assembly of a file is over. *)
Closed(f) == rx[f] \in {"stored", "unstored", "refused"}

AssemblyOK ==
  /\ \A i \in 1 .. Len(lane) : lane[i] \in reached
  /\ \A f \in Files :
       /\ got[f] \subseteq reached
       /\ rx[f] = "receiving" => got[f] # Chunks(f)
       /\ rx[f] # "receiving" => got[f] = {}
       /\ rx[f] # "none" => Manifest(f) \in reached
       /\ Closed(f) => Chunks(f) \subseteq reached /\ (rx[f] = "refused" <=> f \in torn)
       /\ stores[f] = (IF rx[f] = "stored" THEN 1 ELSE 0)

(* Packets that follow each other in time: never is a manifest sent after  *)
(* a chunk of its file.                                                    *)
InOrder(p, q) == p.part > 0 => q # Manifest(p.file)

OrderOK ==
  /\ \A i \in 1 .. Len(wire) : \A p \in reached : InOrder(p, wire[i].packet)
  /\ \A i, j \in 1 .. Len(wire) : i < j => InOrder(wire[i].packet, wire[j].packet)
  /\ \A i, j \in 1 .. Len(lane) : i < j => InOrder(lane[i], lane[j])

(* A file whose manifests were all dropped; its chunks are, too. *)
Missing(f) ==
  rx[f] = "missed" /\ \A i \in 1 .. Len(lane) : lane[i] # Manifest(f)

(* What the receiver did with a packet it took. *)
Taken(p) ==
  IF p.part = 0 THEN rx[p.file] # "none"
  ELSE p \in got[p.file] \/ Closed(p.file) \/ Missing(p.file)

(* As long as the receiver lost nothing, whatever reached the server is in *)
(* the lane or was taken, and no chunk is ahead of its manifest.           *)
LaneOK ==
  ~lagged =>
    /\ \A p \in reached : Taken(p) \/ \E i \in 1 .. Len(lane) : lane[i] = p
    /\ \A i \in 1 .. Len(lane) : lane[i].part > 0 =>
         \/ rx[lane[i].file] # "none"
         \/ \E j \in 1 .. (i - 1) : lane[j] = Manifest(lane[i].file)

Inv ==
  /\ TypeOK
  /\ QueueOK
  /\ JobOK
  /\ FlightOK
  /\ SealsOK
  /\ SentOK
  /\ AssemblyOK
  /\ OrderOK
  /\ LaneOK

-----------------------------------------------------------------------------
(* Packets and sequences.                                                  *)

LEMMA Constants ==
  /\ Files \subseteq Nat \ {0} /\ Files # {} /\ OnDisk \subseteq Files
  /\ WindowSize \in Nat \ {0} /\ MaxAttempts \in Nat \ {0} /\ LaneCapacity \in Nat \ {0}
  /\ \A f \in Files : Size[f] \in Nat /\ f \in Nat
BY UploadsAssumption

LEMMA PacketFacts ==
  /\ \A f \in Files : \A i \in 0 .. Size[f] :
       Packet(f, i) \in Packets /\ Packet(f, i).file = f /\ Packet(f, i).part = i
  /\ \A f \in Files :
       Manifest(f) \in Packets /\ Manifest(f).file = f /\ Manifest(f).part = 0
  /\ \A p \in Packets :
       /\ p.file \in Files /\ p.part \in 0 .. Size[p.file] /\ p.part \in Nat
       /\ p = Packet(p.file, p.part)
       /\ p.part = 0 <=> p = Manifest(p.file)
  /\ \A f \in Files : \A p \in Packets : p \in Chunks(f) <=> p.file = f /\ p.part > 0
  /\ \A f \in Files : Chunks(f) \subseteq Packets
<1>1. Packets = UNION {{Packet(f, i) : i \in 0 .. Size[f]} : f \in Files}
  BY UploadsAssumption
<1>2. \A f \in Files : \A i \in 0 .. Size[f] :
        Packet(f, i) \in Packets /\ Packet(f, i).file = f /\ Packet(f, i).part = i
  BY <1>1 DEF Packet
<1>3. \A f \in Files : 0 \in 0 .. Size[f] /\ Size[f] \in Nat
  BY Constants
<1>4. \A f \in Files :
        Manifest(f) \in Packets /\ Manifest(f).file = f /\ Manifest(f).part = 0
  BY <1>2, <1>3 DEF Manifest
<1>5. ASSUME NEW p \in Packets
      PROVE  /\ p.file \in Files /\ p.part \in 0 .. Size[p.file] /\ p.part \in Nat
             /\ p = Packet(p.file, p.part)
             /\ p.part = 0 <=> p = Manifest(p.file)
  <2>1. PICK f \in Files : p \in {Packet(f, i) : i \in 0 .. Size[f]}
    BY <1>1
  <2>2. PICK i \in 0 .. Size[f] : p = Packet(f, i)
    BY <2>1
  <2>. QED
    BY <1>2, <1>3, <1>4, <2>2 DEF Manifest
<1>6. ASSUME NEW f \in Files, NEW p \in Packets
      PROVE  p \in Chunks(f) <=> p.file = f /\ p.part > 0
  <2>1. ASSUME p.file = f, p.part > 0 PROVE p \in Chunks(f)
    BY <1>3, <1>5, <2>1 DEF Chunks
  <2>2. ASSUME p \in Chunks(f) PROVE p.file = f /\ p.part > 0
    <3>1. PICK i \in 1 .. Size[f] : p = Packet(f, i)
      BY <2>2 DEF Chunks
    <3>2. i \in 0 .. Size[f]
      BY <1>3
    <3>. QED
      BY <1>2, <3>1, <3>2
  <2>. QED
    BY <2>1, <2>2
<1>7. \A f \in Files : Chunks(f) \subseteq Packets
  <2>1. \A f \in Files : \A i \in 1 .. Size[f] : i \in 0 .. Size[f]
    BY <1>3
  <2>. QED
    BY <1>2, <2>1 DEF Chunks
<1>. QED
  BY <1>2, <1>4, <1>5, <1>6, <1>7

LEMMA Removed ==
  ASSUME NEW S, NEW s \in Seq(S), NEW i \in 1 .. Len(s)
  PROVE  /\ RemoveAt(s, i) \in Seq(S)
         /\ Len(RemoveAt(s, i)) = Len(s) - 1
         /\ \A j \in 1 .. (Len(s) - 1) :
              RemoveAt(s, i)[j] = IF j < i THEN s[j] ELSE s[j + 1]
<1>. DEFINE a == SubSeq(s, 1, i - 1)
            b == SubSeq(s, i + 1, Len(s))
<1>1. /\ a \in Seq(S) /\ Len(a) = i - 1
      /\ \A j \in 1 .. (i - 1) : a[j] = s[j]
  OBVIOUS
<1>2. /\ b \in Seq(S) /\ Len(b) = Len(s) - i
      /\ \A j \in 1 .. (Len(s) - i) : b[j] = s[i + j]
  OBVIOUS
<1>3. RemoveAt(s, i) = a \o b
  BY DEF RemoveAt
<1>. HIDE DEF a, b
<1>4. /\ a \o b \in Seq(S) /\ Len(a \o b) = Len(s) - 1
      /\ \A j \in 1 .. (Len(s) - 1) :
           (a \o b)[j] = IF j <= i - 1 THEN a[j] ELSE b[j - (i - 1)]
  BY <1>1, <1>2
<1>5. ASSUME NEW j \in 1 .. (Len(s) - 1)
      PROVE  (a \o b)[j] = IF j < i THEN s[j] ELSE s[j + 1]
  <2>1. CASE j < i
    BY <1>1, <1>4, <2>1
  <2>2. CASE ~(j < i)
    <3>1. j - (i - 1) \in 1 .. (Len(s) - i) /\ i + (j - (i - 1)) = j + 1
      BY <2>2
    <3>. QED
      BY <1>2, <1>4, <2>2, <3>1
  <2>. QED
    BY <2>1, <2>2
<1>. QED
  BY <1>3, <1>4, <1>5

-----------------------------------------------------------------------------
(* Types.                                                                  *)

Lane == <<lane, lagged, reached>>

LEMMA InFlightFields ==
  \A e \in InFlightChunk : e.chunk \in Packets /\ e.attempts \in 1 .. MaxAttempts
BY DEF InFlightChunk

LEMMA LineFields == \A l \in Lines : l.seq \in Nat /\ l.packet \in Packets
BY DEF Lines

LEMMA NoneOrOne ==
  \A S : (S = {} \/ \E x : S = {x}) => IsFiniteSet(S) /\ Cardinality(S) <= 1
<1>1. \A S : (S = {} \/ \E x : S = {x}) => IsFiniteSet(S) /\ Cardinality(S) \in {0, 1}
  <2>1. IsFiniteSet({}) /\ Cardinality({}) \in {0, 1}
    BY FS_EmptySet
  <2>2. \A x : IsFiniteSet({x}) /\ Cardinality({x}) \in {0, 1}
    BY FS_Singleton
  <2>. QED
    BY <2>1, <2>2
<1>2. \A n \in {0, 1} : n <= 1
  OBVIOUS
<1>. QED
  BY <1>1, <1>2

LEMMA Prepared ==
  ASSUME QueueOK
  PROVE  preparing = {} \/ \E p \in preparing : preparing = {p}
BY DEF QueueOK

(* A write of a packet. *)
LEMMA SendType ==
  ASSUME TypeOK, NEW p \in Packets, SendNow(p)
  PROVE  TransportTypeOK' /\ late' \subseteq Packets
<1>1. Sealed(p) \in Lines
  BY DEF Sealed, Lines, TypeOK, TransportTypeOK
<1>. QED
  BY <1>1 DEF SendNow, Written, TypeOK, TransportTypeOK

(* The end of an upload. *)
LEMMA OverType ==
  ASSUME TypeOK, NEW result \in {"done", "failed"}, Over(result), TransportTypeOK',
         UNCHANGED <<torn, rxVars>>
  PROVE  TypeOK'
<1>1. /\ Size[file] \in Nat /\ WindowSize \in Nat \ {0} /\ MaxAttempts \in Nat \ {0}
  BY Constants DEF TypeOK
<1>2. /\ nextChunk' \in 1 .. Size[file] + 1 /\ ackedChunks' \in 0 .. Size[file]
      /\ idx' \in 1 .. WindowSize + 1 /\ metaSent' \in 0 .. MaxAttempts
      /\ inFlight' \in Seq(InFlightChunk) /\ Len(inFlight') <= WindowSize
  BY <1>1 DEF Over
<1>3. /\ told' \in [Files -> {"none", "active", "done", "failed"}]
  BY DEF Over, Told, TypeOK
<1>. QED
  BY <1>2, <1>3 DEF Over, TypeOK, rxVars

LEMMA FinishType ==
  ASSUME TypeOK, NEW S, Finish(S), UNCHANGED <<up, sealed, wire, nextRecv, recent, acks>>
  PROVE  TransportTypeOK'
BY DEF Finish, TypeOK, TransportTypeOK

LEMMA QueueType ==
  ASSUME TypeOK, QueueOK, JobOK, Ask \/ PumpQueue \/ PumpError \/ Prepare
  PROVE  TypeOK'
<1>. /\ pending \in Seq(Files) /\ told \in [Files -> {"none", "active", "done", "failed"}]
     /\ preparing \subseteq [file : Files, state : {"running", "ready", "error"}]
     /\ file \in Files /\ TransportTypeOK
  BY DEF TypeOK
<1>f. \A p \in preparing : p.file \in Files
  OBVIOUS
<1>1. CASE Ask
  <2>1. asked' \in Files /\ pending' \in Seq(Files)
    <3>1. \A f \in Files : Append(pending, f) \in Seq(Files)
      OBVIOUS
    <3>. QED
      BY <1>1, <3>1 DEF Ask
  <2>. QED
    BY <1>1, <2>1 DEF Ask, TypeOK, TransportTypeOK, transportVars, jobVars, windowVars, rxVars
<1>2. CASE PumpQueue
  <2>1. /\ preparing' \subseteq [file : Files, state : {"running", "ready", "error"}]
        /\ pending' \in Seq(Files)
    <3>1. CASE pending = <<>>
      BY <1>2, <3>1 DEF PumpQueue, Spawned
    <3>2. CASE pending # <<>>
      <4>1. Head(pending) \in Files /\ Tail(pending) \in Seq(Files)
        BY <3>2
      <4>2. [file |-> Head(pending), state |-> "running"]
              \in [file : Files, state : {"running", "ready", "error"}]
        BY <4>1
      <4>. QED
        BY <1>2, <3>2, <4>1, <4>2 DEF PumpQueue, Spawned
    <3>. QED
      BY <3>1, <3>2
  <2>2. Cardinality(preparing') <= 1
    <3>1. preparing' = {} \/ \E x : preparing' = {x}
      BY <1>2 DEF PumpQueue, Spawned
    <3>. QED
      BY <3>1, NoneOrOne
  <2>3. /\ file' \in Files /\ stage' \in {"none", "meta", "window"}
        /\ told' \in [Files -> {"none", "active", "done", "failed"}]
    <3>1. CASE preparing = {}
      BY <1>2, <3>1 DEF PumpQueue, TypeOK
    <3>2. CASE preparing # {}
      <4>1. PICK p \in preparing : file' = p.file /\ Told(p.file, "active")
        BY <1>2, <3>2 DEF PumpQueue
      <4>2. stage' = "meta" /\ p.file \in Files
        BY <1>2, <1>f, <3>2 DEF PumpQueue
      <4>. QED
        BY <4>1, <4>2 DEF Told
    <3>. QED
      BY <3>1, <3>2
  <2>4. nextChunk = 1 /\ ackedChunks = 0
    BY <1>2 DEF PumpQueue, JobOK
  <2>5. nextChunk \in 1 .. Size[file'] + 1 /\ ackedChunks \in 0 .. Size[file']
    BY <2>3, <2>4, Constants
  <2>. QED
    BY <1>2, <2>1, <2>2, <2>3, <2>5 DEF PumpQueue, TypeOK, TransportTypeOK, transportVars,
       windowVars, rxVars
<1>3. CASE PumpError
  <2>1. told' \in [Files -> {"none", "active", "done", "failed"}]
    BY <1>3, <1>f DEF PumpError, Told
  <2>2. Cardinality(preparing') <= 1 /\ preparing' = {}
    BY <1>3, NoneOrOne DEF PumpError
  <2>. QED
    BY <1>3, <2>1, <2>2 DEF PumpError, TypeOK, TransportTypeOK, transportVars, jobVars,
       windowVars, rxVars
<1>4. CASE Prepare
  <2>1. PICK p \in preparing, s \in {"ready", "error"} : preparing' = {[p EXCEPT !.state = s]}
    BY <1>4 DEF Prepare
  <2>2. [p EXCEPT !.state = s] \in [file : Files, state : {"running", "ready", "error"}]
    OBVIOUS
  <2>3. Cardinality(preparing') <= 1
    BY <2>1, NoneOrOne
  <2>4. torn' \subseteq OnDisk
    BY <1>4 DEF Prepare, MayChange, TypeOK
  <2>. QED
    BY <1>4, <2>1, <2>2, <2>3, <2>4 DEF Prepare, TypeOK, TransportTypeOK, transportVars, jobVars,
       windowVars, rxVars
<1>. QED
  BY <1>1, <1>2, <1>3, <1>4

LEMMA MetaType ==
  ASSUME TypeOK, MetaAcked \/ MetaSend \/ MetaFails
  PROVE  TypeOK'
<1>. file \in Files /\ metaSent \in 0 .. MaxAttempts
  BY DEF TypeOK
<1>1. CASE MetaAcked
  <2>1. TransportTypeOK'
    BY <1>1, FinishType DEF MetaAcked
  <2>2. CASE Over("done")
    BY <1>1, <2>1, <2>2, OverType DEF MetaAcked
  <2>3. CASE ~Over("done")
    BY <1>1, <2>1, <2>3 DEF MetaAcked, TypeOK, queueVars, windowVars, rxVars
  <2>. QED
    BY <2>2, <2>3
<1>2. CASE MetaSend
  <2>1. TransportTypeOK' /\ late' \subseteq Packets
    BY <1>2, PacketFacts, SendType DEF MetaSend
  <2>2. metaSent' \in 0 .. MaxAttempts
    BY <1>2, Constants DEF MetaSend
  <2>. QED
    BY <1>2, <2>1, <2>2 DEF MetaSend, TypeOK, queueVars, rxVars
<1>3. CASE MetaFails
  BY <1>3, FinishType, OverType DEF MetaFails
<1>. QED
  BY <1>1, <1>2, <1>3

LEMMA WindowType ==
  ASSUME TypeOK, FlightOK,
         \/ ScanAcked \/ ScanPasses \/ ScanResends \/ ScanFails
         \/ FillSends \/ FillFails \/ FillEnds
  PROVE  TypeOK'
<1>. /\ file \in Files /\ idx \in 1 .. WindowSize + 1 /\ inFlight \in Seq(InFlightChunk)
     /\ Len(inFlight) \in Nat /\ Len(inFlight) <= WindowSize /\ nextChunk \in 1 .. Size[file] + 1
     /\ ackedChunks \in 0 .. Size[file] /\ Size[file] \in Nat
     /\ WindowSize \in Nat \ {0} /\ MaxAttempts \in Nat \ {0}
  BY Constants DEF TypeOK
<1>i. Scanning => /\ idx \in 1 .. Len(inFlight) /\ idx + 1 \in 1 .. WindowSize + 1
                  /\ Current \in InFlightChunk
                  /\ Current.chunk \in Packets /\ Current.attempts \in 1 .. MaxAttempts
  BY InFlightFields DEF Scanning, Current
<1>1. CASE ScanAcked
  <2>1. /\ inFlight' \in Seq(InFlightChunk) /\ Len(inFlight') = Len(inFlight) - 1
        /\ Len(inFlight) > 0
    <3>1. idx \in 1 .. Len(inFlight) /\ inFlight' = RemoveAt(inFlight, idx)
      BY <1>1, <1>i DEF ScanAcked
    <3>. QED
      BY <3>1, Removed
  <2>2. ackedChunks + Len(inFlight) = nextChunk - 1
    BY DEF FlightOK
  <2>3. ackedChunks' \in 0 .. Size[file] /\ Len(inFlight') <= WindowSize
    BY <1>1, <2>1, <2>2 DEF ScanAcked
  <2>4. TransportTypeOK'
    BY <1>1, FinishType DEF ScanAcked
  <2>. QED
    BY <1>1, <2>1, <2>3, <2>4 DEF ScanAcked, TypeOK, queueVars, rxVars
<1>2. CASE ScanPasses
  BY <1>2, <1>i DEF ScanPasses, TypeOK, TransportTypeOK, transportVars, queueVars, rxVars
<1>3. CASE ScanResends
  <2>1. TransportTypeOK' /\ late' \subseteq Packets
    BY <1>3, <1>i, SendType DEF ScanResends
  <2>2. inFlight' \in Seq(InFlightChunk) /\ Len(inFlight') = Len(inFlight)
    <3>1. [Current EXCEPT !.attempts = @ + 1] \in InFlightChunk
      <4>0. /\ Current \in InFlightChunk /\ Current.attempts \in 1 .. MaxAttempts
            /\ Current.attempts < MaxAttempts
        BY <1>3, <1>i DEF ScanResends
      <4>1. Current.attempts + 1 \in 1 .. MaxAttempts
        BY <4>0
      <4>. QED
        BY <4>0, <4>1 DEF InFlightChunk
    <3>2. inFlight' = [inFlight EXCEPT ![idx] = [Current EXCEPT !.attempts = @ + 1]]
      BY <1>3 DEF ScanResends, Current
    <3>3. idx \in 1 .. Len(inFlight)
      BY <1>3, <1>i DEF ScanResends
    <3>. QED
      BY <3>1, <3>2, <3>3
  <2>. QED
    BY <1>3, <1>i, <2>1, <2>2 DEF ScanResends, TypeOK, queueVars, rxVars
<1>4. CASE ScanFails \/ FillFails
  <2>1. UploadFails
    BY <1>4 DEF ScanFails, FillFails
  <2>. QED
    BY <2>1, FinishType, OverType DEF UploadFails
<1>5. CASE FillSends
  <2>1. Packet(file, nextChunk) \in Packets /\ nextChunk + 1 \in 1 .. Size[file] + 1
    BY <1>5, PacketFacts DEF FillSends, Room
  <2>2. TransportTypeOK' /\ late' \subseteq Packets
    BY <1>5, <2>1, SendType DEF FillSends
  <2>3. inFlight' \in Seq(InFlightChunk) /\ Len(inFlight') <= WindowSize
    <3>1. [chunk |-> Packet(file, nextChunk), attempts |-> 1] \in InFlightChunk
      BY <2>1 DEF InFlightChunk
    <3>. QED
      BY <1>5, <3>1 DEF FillSends, Room
  <2>4. torn' \subseteq OnDisk
    BY <1>5 DEF FillSends, ReadChunk, MayChange, TypeOK
  <2>. QED
    BY <1>5, <2>1, <2>2, <2>3, <2>4 DEF FillSends, TypeOK, queueVars, rxVars
<1>6. CASE FillEnds
  <2>1. TransportTypeOK'
    BY <1>6 DEF FillEnds, TypeOK, TransportTypeOK, transportVars
  <2>2. CASE Over("done")
    BY <1>6, <2>1, <2>2, OverType DEF FillEnds
  <2>3. CASE ~Over("done")
    <3>1. idx' \in 1 .. WindowSize + 1
      BY <1>6, <2>3 DEF FillEnds
    <3>. QED
      BY <1>6, <2>1, <2>3, <3>1 DEF FillEnds, TypeOK, queueVars, rxVars
  <2>. QED
    BY <2>2, <2>3
<1>. QED
  BY <1>1, <1>2, <1>3, <1>4, <1>5, <1>6

LEMMA LaneType ==
  ASSUME TypeOK, Relay \/ Mark \/ Lost \/ \E p \in Packets : Elapse(p)
  PROVE  TypeOK'
<1>. wire \in Seq(Lines) /\ acks \in Seq(Packets) /\ lane \in Seq(Packets)
     /\ Len(lane) \in Nat /\ Len(lane) <= LaneCapacity /\ recent \in Seq(Nat) /\ nextRecv \in Nat
     /\ LaneCapacity \in Nat \ {0} /\ reached \subseteq Packets /\ TransportTypeOK
  <2>1. /\ TransportTypeOK /\ lane \in Seq(Packets) /\ Len(lane) <= LaneCapacity
        /\ reached \subseteq Packets
    BY DEF TypeOK
  <2>2. /\ wire \in Seq(Lines) /\ acks \in Seq(Packets) /\ recent \in Seq(Nat)
        /\ nextRecv \in Nat
    BY <2>1 DEF TransportTypeOK
  <2>. QED
    BY <2>1, <2>2, Constants
<1>1. CASE Relay
  <2>1. wire # <<>> /\ Head(wire) \in Lines /\ wire' = Tail(wire) /\ Tail(wire) \in Seq(Lines)
    BY <1>1 DEF Relay, ServerReads
  <2>2. Head(wire).packet \in Packets /\ Head(wire).seq \in Nat
    BY <2>1, LineFields
  <2>3. MarkSeen(Head(wire).seq) \in Seq(Nat)
    <3>. DEFINE q == Append(recent, Head(wire).seq)
    <3>1. q \in Seq(Nat) /\ Len(q) = Len(recent) + 1
      BY <2>2
    <3>2. q # <<>>
      <4>1. Len(q) # 0
        BY <3>1
      <4>. HIDE DEF q
      <4>. QED
        BY <4>1
    <3>3. Tail(q) \in Seq(Nat)
      BY <3>1, <3>2
    <3>. QED
      BY <3>1, <3>3 DEF MarkSeen
  <2>4. TransportTypeOK'
    <3>1. /\ acks' \in Seq(Packets) /\ nextRecv' \in Nat /\ recent' \in Seq(Nat)
          /\ wire' \in Seq(Lines) /\ UNCHANGED <<up, sealed, acked>>
      <4>1. Append(acks, Head(wire).packet) \in Seq(Packets) /\ nextRecv + 1 \in Nat
        BY <2>2
      <4>. QED
        BY <1>1, <2>1, <2>3, <4>1 DEF Relay, ServerReads
    <3>. QED
      BY <3>1 DEF TransportTypeOK
  <2>5. lane' \in Seq(Packets) /\ Len(lane') <= LaneCapacity /\ reached' \subseteq Packets
        /\ lagged' \in BOOLEAN
    <3>1. \A s \in Seq(Packets), p \in Packets : Len(s) < LaneCapacity =>
            Append(s, p) \in Seq(Packets) /\ Len(Append(s, p)) <= LaneCapacity
      OBVIOUS
    <3>2. Len(lane) = LaneCapacity => Tail(lane) \in Seq(Packets) /\ Len(Tail(lane)) < LaneCapacity
      OBVIOUS
    <3>3. IF Len(lane) < LaneCapacity THEN lane \in Seq(Packets)
          ELSE Tail(lane) \in Seq(Packets) /\ Len(Tail(lane)) < LaneCapacity
      BY <3>2
    <3>4. lane' = lane \/ lane' = Append(IF Len(lane) < LaneCapacity THEN lane ELSE Tail(lane),
                                        Head(wire).packet)
      BY <1>1 DEF Relay
    <3>5. reached' \subseteq Packets /\ lagged' \in BOOLEAN
      BY <1>1, <2>2 DEF Relay, TypeOK
    <3>. QED
      BY <2>2, <3>1, <3>3, <3>4, <3>5
  <2>. QED
    BY <1>1, <2>4, <2>5 DEF Relay, TypeOK, queueVars, jobVars, windowVars
<1>2. CASE Mark
  <2>1. TransportTypeOK'
    BY <1>2 DEF Mark, ReaderMarks, TransportTypeOK
  <2>. QED
    BY <1>2, <2>1 DEF Mark, TypeOK, queueVars, jobVars, windowVars, rxVars
<1>3. CASE Lost
  <2>1. TransportTypeOK'
    <3>1. <<>> \in Seq(Lines) /\ <<>> \in Seq(Packets)
      OBVIOUS
    <3>. QED
      BY <1>3, <3>1 DEF Lost, Break, TransportTypeOK
  <2>. QED
    BY <1>3, <2>1 DEF Lost, TypeOK, queueVars, jobVars, windowVars, rxVars
<1>4. CASE \E p \in Packets : Elapse(p)
  BY <1>4 DEF Elapse, TypeOK, TransportTypeOK, transportVars, queueVars, rxVars
<1>. QED
  BY <1>1, <1>2, <1>3, <1>4

LEMMA TakeType ==
  ASSUME TypeOK, AssemblyOK, NEW f \in Files, TakeManifest(f) \/ TakeChunk(f)
  PROVE  TypeOK'
<1>. /\ lane \in Seq(Packets) /\ Len(lane) <= LaneCapacity /\ LaneCapacity \in Nat
     /\ rx \in [Files -> {"none", "missed", "receiving", "stored", "unstored", "refused"}]
     /\ got \in [Files -> SUBSET Packets] /\ stores \in [Files -> Nat]
     /\ \A g \in Files : got[g] \subseteq Chunks(g)
  BY Constants DEF TypeOK
<1>0. Take
  BY DEF TakeManifest, TakeChunk
<1>1. lane' \in Seq(Packets) /\ Len(lane') <= LaneCapacity
  BY <1>0 DEF Take
<1>2. ASSUME Finalize(f)
      PROVE  /\ rx' \in [Files -> {"none", "missed", "receiving", "stored", "unstored", "refused"}]
             /\ got' \in [Files -> SUBSET Packets] /\ stores' \in [Files -> Nat]
             /\ \A g \in Files : got'[g] \subseteq Chunks(g)
  <2>1. /\ rx' \in [Files -> {"none", "missed", "receiving", "stored", "unstored", "refused"}]
        /\ stores' \in [Files -> Nat]
    <3>1. \E to \in {"stored", "unstored", "refused"} : rx' = [rx EXCEPT ![f] = to]
      BY <1>2 DEF Finalize, Becomes
    <3>2. stores' = stores \/ stores' = [stores EXCEPT ![f] = stores[f] + 1]
      BY <1>2 DEF Finalize
    <3>3. stores[f] + 1 \in Nat
      OBVIOUS
    <3>4. rx' \in [Files -> {"none", "missed", "receiving", "stored", "unstored", "refused"}]
      BY <3>1
    <3>5. stores' \in [Files -> Nat]
      BY <3>2, <3>3
    <3>. QED
      BY <3>4, <3>5
  <2>2. got' = [got EXCEPT ![f] = {}]
    BY <1>2 DEF Finalize
  <2>. QED
    BY <2>1, <2>2
<1>3. ASSUME Head(lane) \in Chunks(f), got' = [got EXCEPT ![f] = got[f] \cup {Head(lane)}]
      PROVE  /\ got' \in [Files -> SUBSET Packets]
             /\ \A g \in Files : got'[g] \subseteq Chunks(g)
  BY <1>3, PacketFacts
<1>4. /\ rx' \in [Files -> {"none", "missed", "receiving", "stored", "unstored", "refused"}]
      /\ got' \in [Files -> SUBSET Packets] /\ stores' \in [Files -> Nat]
      /\ \A g \in Files : got'[g] \subseteq Chunks(g)
  BY <1>2, <1>3 DEF TakeManifest, TakeChunk, Register, Becomes
<1>. QED
  BY <1>0, <1>1, <1>4 DEF Take, TypeOK, TransportTypeOK, transportVars, queueVars, jobVars,
     windowVars

LEMMA TypeStep ==
  ASSUME TypeOK, QueueOK, JobOK, FlightOK, AssemblyOK, [Next]_vars
  PROVE  TypeOK'
<1>1. CASE UNCHANGED vars
  BY <1>1 DEF vars, transportVars, queueVars, jobVars, windowVars, rxVars, TypeOK,
     TransportTypeOK
<1>. QED
  BY <1>1, QueueType, MetaType, WindowType, LaneType, TakeType DEF Next, Goes, Pump

-----------------------------------------------------------------------------
(* The queue.                                                              *)

LEMMA QueueStep ==
  ASSUME TypeOK, QueueOK, JobOK, [Next]_vars
  PROVE  QueueOK'
<1>. /\ pending \in Seq(Files) /\ told \in [Files -> {"none", "active", "done", "failed"}]
     /\ preparing \subseteq [file : Files, state : {"running", "ready", "error"}]
     /\ file \in Files /\ asked \in Nat /\ Files \subseteq Nat /\ Len(pending) \in Nat
  <2>1. /\ pending \in Seq(Files) /\ told \in [Files -> {"none", "active", "done", "failed"}]
        /\ preparing \subseteq [file : Files, state : {"running", "ready", "error"}]
        /\ file \in Files /\ asked \in Files \cup {0}
    BY DEF TypeOK
  <2>. QED
    BY <2>1, Constants
<1>. /\ \A i \in 1 .. Len(pending) : pending[i] \in Files
     /\ \A p \in preparing : p.file \in Files
  OBVIOUS
<1>k. CASE UNCHANGED <<asked, pending, preparing, told, stage, file>>
  BY <1>k DEF QueueOK, Begun
<1>1. CASE Ask
  <2>1. /\ asked' = asked + 1 /\ asked + 1 \in Files /\ pending' = Append(pending, asked + 1)
        /\ UNCHANGED <<preparing, told, stage, file>>
    BY <1>1 DEF Ask, jobVars
  <2>2. ~Begun(asked + 1)
    BY <2>1 DEF QueueOK
  <2>3. /\ Len(pending') = Len(pending) + 1
        /\ \A i \in 1 .. Len(pending') :
             pending'[i] = IF i = Len(pending) + 1 THEN asked + 1 ELSE pending[i]
        /\ \A i \in 1 .. Len(pending') : i # Len(pending) + 1 => i \in 1 .. Len(pending)
    BY <2>1
  <2>4. \A n \in Nat : n <= asked => n <= asked + 1 /\ n # asked + 1
    OBVIOUS
  <2>5. \A i, j \in 1 .. Len(pending') : pending'[i] = pending'[j] => i = j
    BY <2>3, <2>4 DEF QueueOK
  <2>6. \A i \in 1 .. Len(pending') : pending'[i] <= asked' /\ ~Begun(pending'[i])
    <3>1. asked + 1 <= asked + 1 /\ \A i \in 1 .. Len(pending) : pending[i] <= asked + 1
      <4>1. asked + 1 <= asked + 1
        OBVIOUS
      <4>2. ASSUME NEW i \in 1 .. Len(pending) PROVE pending[i] <= asked + 1
        <5>1. pending[i] \in Nat /\ pending[i] <= asked
          BY DEF QueueOK
        <5>. QED
          BY <2>4, <5>1
      <4>. QED
        BY <4>1, <4>2
    <3>2. \A i \in 1 .. Len(pending) : ~Begun(pending[i])
      BY DEF QueueOK
    <3>3. ASSUME NEW i \in 1 .. Len(pending')
          PROVE  pending'[i] <= asked + 1 /\ ~Begun(pending'[i])
      <4>1. CASE i = Len(pending) + 1
        BY <2>2, <2>3, <3>1, <4>1
      <4>2. CASE i # Len(pending) + 1
        BY <2>3, <3>1, <3>2, <4>2
      <4>. QED
        BY <4>1, <4>2
    <3>. QED
      BY <2>1, <3>3
  <2>7. \A p \in preparing : /\ p.file <= asked' /\ ~Begun(p.file)
                              /\ \A i \in 1 .. Len(pending') : pending'[i] # p.file
    <3>1. ASSUME NEW p \in preparing
          PROVE  /\ p.file <= asked + 1 /\ ~Begun(p.file) /\ p.file # asked + 1
                 /\ \A i \in 1 .. Len(pending) : pending[i] # p.file
      BY <2>4 DEF QueueOK
    <3>2. ASSUME NEW p \in preparing, NEW i \in 1 .. Len(pending')
          PROVE  pending'[i] # p.file
      BY <2>3, <3>1
    <3>. QED
      BY <2>1, <3>1, <3>2
  <2>8. \A f \in Files : f > asked' => ~Begun(f)
    <3>1. \A f \in Files : f > asked + 1 => f > asked
      OBVIOUS
    <3>. QED
      BY <2>1, <3>1 DEF QueueOK
  <2>. QED
    BY <2>1, <2>5, <2>6, <2>7, <2>8 DEF QueueOK, Begun
<1>2. CASE PumpQueue
  <2>1. /\ UNCHANGED asked /\ stage = "none" /\ Spawned
        /\ IF preparing = {} THEN UNCHANGED <<file, stage, told>>
           ELSE /\ stage' = "meta"
                /\ \E p \in preparing : file' = p.file /\ told' = [told EXCEPT ![p.file] = "active"]
    BY <1>2 DEF PumpQueue, Told
  <2>2. /\ \A i \in 1 .. Len(pending') : \E j \in 1 .. Len(pending) : pending'[i] = pending[j]
        /\ \A i, j \in 1 .. Len(pending') : pending'[i] = pending'[j] => i = j
        /\ \A p \in preparing' :
             /\ \A i \in 1 .. Len(pending') : pending'[i] # p.file
             /\ \E j \in 1 .. Len(pending) : p.file = pending[j]
        /\ \A p, q \in preparing' : p = q
    <3>1. CASE pending = <<>>
      BY <2>1, <3>1 DEF Spawned
    <3>2. CASE pending # <<>>
      <4>1. /\ Len(pending') = Len(pending) - 1 /\ Len(pending) >= 1
            /\ \A i \in 1 .. Len(pending') :
                 /\ pending'[i] = pending[i + 1] /\ i + 1 \in 1 .. Len(pending) /\ i + 1 # 1
            /\ \A i, j \in 1 .. Len(pending') : i + 1 = j + 1 => i = j
            /\ 1 \in 1 .. Len(pending)
            /\ preparing' = {[file |-> pending[1], state |-> "running"]}
        BY <2>1, <3>2 DEF Spawned
      <4>2. \A i, j \in 1 .. Len(pending) : pending[i] = pending[j] => i = j
        BY DEF QueueOK
      <4>3. \A i \in 1 .. Len(pending') : \E j \in 1 .. Len(pending) : pending'[i] = pending[j]
        BY <4>1
      <4>4. \A i, j \in 1 .. Len(pending') : pending'[i] = pending'[j] => i = j
        BY <4>1, <4>2
      <4>5. \A i \in 1 .. Len(pending') : pending'[i] # pending[1]
        BY <4>1, <4>2
      <4>6. \A p \in preparing' : p.file = pending[1]
        BY <4>1
      <4>7. \A p, q \in preparing' : p = q
        BY <4>1
      <4>8. \A p \in preparing' : \E j \in 1 .. Len(pending) : p.file = pending[j]
        BY <4>1, <4>6
      <4>. QED
        BY <4>3, <4>4, <4>5, <4>6, <4>7, <4>8
    <3>. QED
      BY <3>1, <3>2
  <2>3. CASE preparing = {}
    <3>1. UNCHANGED <<asked, file, stage, told>>
      BY <2>1, <2>3
    <3>2. \A j \in 1 .. Len(pending) : pending[j] <= asked /\ told[pending[j]] = "none"
      BY DEF QueueOK, Begun
    <3>3. \A i \in 1 .. Len(pending') : pending'[i] <= asked /\ told[pending'[i]] = "none"
      BY <2>2, <3>2
    <3>4. \A p \in preparing' : p.file <= asked /\ told[p.file] = "none"
      BY <2>2, <3>2
    <3>5. /\ \A f \in Files : f > asked => told[f] = "none"
          /\ \A f \in Files : told[f] = "active" <=> stage # "none" /\ file = f
      BY DEF QueueOK, Begun
    <3>. QED
      BY <2>2, <3>1, <3>3, <3>4, <3>5 DEF QueueOK, Begun
  <2>4. CASE preparing # {}
    <3>1. PICK p \in preparing : file' = p.file /\ told' = [told EXCEPT ![p.file] = "active"]
      BY <2>1, <2>4
    <3>2. /\ \A j \in 1 .. Len(pending) : pending[j] # p.file
          /\ p.file <= asked
      BY DEF QueueOK
    <3>3. \A f \in Files : told'[f] = IF f = p.file THEN "active" ELSE told[f]
      BY <3>1
    <3>4. \A j \in 1 .. Len(pending) : pending[j] <= asked /\ told'[pending[j]] = "none"
      BY <3>2, <3>3 DEF QueueOK, Begun
    <3>5. \A f \in Files : told'[f] = "active" <=> f = p.file
      BY <2>1, <3>3 DEF QueueOK
    <3>6. \A f \in Files : f > asked => f # p.file
      BY <3>2
    <3>7. \A f \in Files : f > asked => told'[f] = "none"
      BY <3>3, <3>6 DEF QueueOK, Begun
    <3>8. \A i \in 1 .. Len(pending') : pending'[i] <= asked /\ told'[pending'[i]] = "none"
      BY <2>2, <3>4
    <3>9. \A q \in preparing' : q.file <= asked /\ told'[q.file] = "none"
      BY <2>2, <3>4
    <3>10. stage' = "meta"
      BY <2>1, <2>4
    <3>. QED
      BY <2>1, <2>2, <3>1, <3>5, <3>7, <3>8, <3>9, <3>10 DEF QueueOK, Begun
  <2>. QED
    BY <2>3, <2>4
<1>3. CASE PumpError
  <2>1. PICK p \in preparing : told' = [told EXCEPT ![p.file] = "failed"]
    BY <1>3 DEF PumpError, Told
  <2>2. UNCHANGED <<asked, pending, stage, file>> /\ preparing' = {} /\ stage = "none"
    BY <1>3 DEF PumpError, jobVars
  <2>3. /\ \A f \in Files : told'[f] = IF f = p.file THEN "failed" ELSE told[f]
        /\ \A f \in Files : f > asked => f # p.file
        /\ \A i \in 1 .. Len(pending) : pending[i] # p.file
    BY <2>1 DEF QueueOK
  <2>. QED
    BY <2>2, <2>3 DEF QueueOK, Begun
<1>4. CASE Prepare
  <2>1. PICK p \in preparing, s \in {"ready", "error"} : preparing' = {[p EXCEPT !.state = s]}
    BY <1>4 DEF Prepare
  <2>2. UNCHANGED <<asked, pending, told, stage, file>>
    BY <1>4 DEF Prepare, jobVars
  <2>3. [p EXCEPT !.state = s].file = p.file
    OBVIOUS
  <2>. QED
    BY <2>1, <2>2, <2>3 DEF QueueOK, Begun
<1>5. ASSUME NEW result \in {"done", "failed"}, Over(result), stage # "none" PROVE QueueOK'
  <2>1. /\ told' = [told EXCEPT ![file] = result] /\ stage' = "none"
        /\ UNCHANGED <<asked, pending, preparing, file>>
    BY <1>5 DEF Over, Told
  <2>2. told[file] = "active"
    BY <1>5 DEF QueueOK
  <2>3. \A f \in Files : /\ told'[f] = IF f = file THEN result ELSE told[f]
                         /\ told'[f] = "none" <=> told[f] = "none"
    BY <2>1, <2>2
  <2>. QED
    BY <2>1, <2>3 DEF QueueOK, Begun
<1>6. CASE MetaAcked
  <2>1. CASE Over("done")
    BY <1>5, <1>6, <2>1 DEF MetaAcked
  <2>2. CASE ~Over("done")
    BY <1>6, <2>2 DEF MetaAcked, queueVars, QueueOK, Begun
  <2>. QED
    BY <2>1, <2>2
<1>7. CASE MetaSend
  BY <1>7, <1>k DEF MetaSend, queueVars
<1>8. CASE MetaFails
  BY <1>8, <1>5 DEF MetaFails
<1>9. CASE ScanAcked \/ ScanPasses \/ ScanResends \/ FillSends \/ \E p \in Packets : Elapse(p)
  BY <1>9, <1>k DEF ScanAcked, ScanPasses, ScanResends, FillSends, Elapse, queueVars
<1>10. CASE ScanFails \/ FillFails
  BY <1>10, <1>5 DEF ScanFails, FillFails, UploadFails, Scanning, Filling
<1>11. CASE FillEnds
  <2>1. CASE Over("done")
    BY <1>5, <1>11, <2>1 DEF FillEnds, Filling
  <2>2. CASE ~Over("done")
    BY <1>11, <2>2, <1>k DEF FillEnds, queueVars
  <2>. QED
    BY <2>1, <2>2
<1>12. CASE Relay \/ Mark \/ Lost \/ \E f \in Files : TakeManifest(f) \/ TakeChunk(f)
  BY <1>12, <1>k DEF Relay, Mark, Lost, TakeManifest, TakeChunk, Take, queueVars, jobVars
<1>. QED
  BY <1>k, <1>1, <1>2, <1>3, <1>4, <1>6, <1>7, <1>8, <1>9, <1>10, <1>11, <1>12
     DEF Next, Goes, Pump, vars, queueVars, jobVars

-----------------------------------------------------------------------------
(* The window.                                                             *)

(* What reached the server stays there. *)
LEMMA ReachedGrows ==
  ASSUME [Next]_vars
  PROVE  reached \subseteq reached'
<1>1. CASE Relay
  BY <1>1 DEF Relay
<1>2. CASE \/ PumpQueue \/ PumpError \/ MetaAcked \/ MetaSend \/ MetaFails
           \/ ScanAcked \/ ScanPasses \/ ScanResends
  BY <1>2 DEF PumpQueue, PumpError, MetaAcked, MetaSend, MetaFails, ScanAcked, ScanPasses,
     ScanResends, rxVars
<1>3. CASE \/ ScanFails \/ FillSends \/ FillFails \/ FillEnds \/ Prepare \/ Ask \/ Mark \/ Lost
           \/ \E p \in Packets : Elapse(p)
  BY <1>3 DEF ScanFails, FillSends, FillFails, UploadFails, FillEnds, Prepare, Ask, Mark, Lost,
     Elapse, rxVars
<1>4. CASE \E f \in Files : TakeManifest(f) \/ TakeChunk(f)
  BY <1>4 DEF TakeManifest, TakeChunk, Take
<1>5. CASE UNCHANGED vars
  BY <1>5 DEF vars, rxVars
<1>. QED
  BY <1>1, <1>2, <1>3, <1>4, <1>5 DEF Next, Goes, Pump

LEMMA JobStep ==
  ASSUME TypeOK, JobOK, SentOK, [Next]_vars
  PROVE  JobOK'
<1>. reached \subseteq reached'
  BY ReachedGrows
<1>k. CASE UNCHANGED <<stage, pump, idx, inFlight, nextChunk, ackedChunks, metaSent, file>>
  BY <1>k DEF JobOK
<1>1. ASSUME NEW result, Over(result) PROVE JobOK'
  BY <1>1 DEF Over, JobOK
<1>2. CASE PumpQueue
  BY <1>2 DEF PumpQueue, JobOK, windowVars
<1>3. CASE MetaAcked
  <2>1. CASE Over("done")
    BY <1>1, <2>1
  <2>2. CASE ~Over("done")
    BY <1>3, <2>2 DEF MetaAcked, SentOK, windowVars, JobOK
  <2>. QED
    BY <2>1, <2>2
<1>4. CASE MetaSend
  BY <1>4 DEF MetaSend, JobOK
<1>5. CASE MetaFails \/ ScanFails \/ FillFails
  BY <1>5, <1>1 DEF MetaFails, ScanFails, FillFails, UploadFails
<1>6. CASE ScanAcked \/ ScanPasses \/ ScanResends \/ FillSends
  <2>1. stage = "window" /\ UNCHANGED <<stage, file>>
    BY <1>6 DEF ScanAcked, ScanPasses, ScanResends, FillSends, Scanning, Filling
  <2>. QED
    BY <2>1 DEF JobOK
<1>7. CASE FillEnds
  <2>1. CASE Over("done")
    BY <1>1, <2>1
  <2>2. CASE ~Over("done")
    BY <1>7, <2>2 DEF FillEnds, Filling, JobOK
  <2>. QED
    BY <2>1, <2>2
<1>8. CASE \/ Ask \/ PumpError \/ Prepare \/ Relay \/ Mark \/ Lost \/ (\E p \in Packets : Elapse(p))
           \/ (\E f \in Files : TakeManifest(f) \/ TakeChunk(f))
  BY <1>8, <1>k DEF Ask, PumpError, Prepare, Relay, Mark, Lost, Elapse, TakeManifest, TakeChunk,
     Take, jobVars, windowVars
<1>. QED
  BY <1>k, <1>2, <1>3, <1>4, <1>5, <1>6, <1>7, <1>8 DEF Next, Goes, Pump, vars, jobVars,
     windowVars

LEMMA FlightStep ==
  ASSUME TypeOK, JobOK, FlightOK, SentOK, [Next]_vars
  PROVE  FlightOK'
<1>. /\ reached \subseteq reached' /\ inFlight \in Seq(InFlightChunk) /\ Len(inFlight) \in Nat
     /\ nextChunk \in Nat \ {0} /\ ackedChunks \in Nat /\ file \in Files
     /\ nextChunk \in 1 .. Size[file] + 1
     /\ \A i \in 1 .. Len(inFlight) : inFlight[i].chunk \in Packets /\ inFlight[i] \in InFlightChunk
  <2>1. /\ inFlight \in Seq(InFlightChunk) /\ nextChunk \in 1 .. Size[file] + 1
        /\ ackedChunks \in 0 .. Size[file] /\ file \in Files
    BY DEF TypeOK
  <2>2. Size[file] \in Nat
    BY <2>1, Constants
  <2>3. \A i \in 1 .. Len(inFlight) : inFlight[i] \in InFlightChunk
    BY <2>1
  <2>4. nextChunk \in Nat \ {0} /\ ackedChunks \in Nat /\ Len(inFlight) \in Nat
    BY <2>1, <2>2
  <2>. QED
    BY <2>1, <2>3, <2>4, ReachedGrows, InFlightFields
<1>k. CASE UNCHANGED <<inFlight, nextChunk, ackedChunks, file>>
  BY <1>k DEF FlightOK
<1>e. ASSUME inFlight' = <<>>, nextChunk' = 1, ackedChunks' = 0 PROVE FlightOK'
  BY <1>e DEF FlightOK
<1>1. ASSUME NEW result, Over(result) PROVE FlightOK'
  BY <1>1, <1>e DEF Over
<1>2. CASE PumpQueue
  BY <1>2, <1>e DEF PumpQueue, JobOK, windowVars
<1>3. CASE MetaAcked
  BY <1>1, <1>3, <1>k DEF MetaAcked, windowVars
<1>4. CASE MetaFails \/ ScanFails \/ FillFails
  BY <1>4, <1>1 DEF MetaFails, ScanFails, FillFails, UploadFails
<1>5. CASE ScanAcked
  <2>1. /\ idx \in 1 .. Len(inFlight) /\ inFlight[idx].chunk \in reached
        /\ ackedChunks' = ackedChunks + 1 /\ inFlight' = RemoveAt(inFlight, idx)
        /\ UNCHANGED <<nextChunk, file, reached>>
    BY <1>5 DEF ScanAcked, Scanning, Current, SentOK, TypeOK, rxVars
  <2>2. /\ Len(inFlight') = Len(inFlight) - 1
        /\ \A j \in 1 .. Len(inFlight') :
             inFlight'[j] = IF j < idx THEN inFlight[j] ELSE inFlight[j + 1]
    BY <2>1, Removed
  <2>3. \A j \in 1 .. Len(inFlight') : j \in 1 .. Len(inFlight) /\ j + 1 \in 1 .. Len(inFlight)
    BY <2>2
  <2>4. \A j \in 1 .. Len(inFlight') :
          /\ inFlight'[j].chunk.file = file
          /\ inFlight'[j].chunk.part \in 1 .. (nextChunk - 1)
    <3>1. \A i \in 1 .. Len(inFlight) :
            /\ inFlight[i].chunk.file = file
            /\ inFlight[i].chunk.part \in 1 .. (nextChunk - 1)
      BY DEF FlightOK
    <3>2. \A j \in 1 .. Len(inFlight') : \E i \in 1 .. Len(inFlight) : inFlight'[j] = inFlight[i]
      BY <2>2, <2>3
    <3>. QED
      BY <3>1, <3>2
  <2>5. ASSUME NEW i \in 1 .. Len(inFlight'), NEW j \in 1 .. Len(inFlight'), i < j
        PROVE  inFlight'[i].chunk.part < inFlight'[j].chunk.part
    <3>1. /\ i < j + 1 /\ i + 1 < j + 1 /\ (j < idx => i < idx)
      BY <2>1, <2>5
    <3>. QED
      BY <2>2, <2>3, <2>5, <3>1 DEF FlightOK
  <2>6. ackedChunks' + Len(inFlight') = nextChunk - 1
    BY <2>1, <2>2 DEF FlightOK
  <2>7. ASSUME NEW n \in 1 .. (nextChunk - 1)
        PROVE  \/ Packet(file, n) \in reached
               \/ \E i \in 1 .. Len(inFlight') : inFlight'[i].chunk.part = n
    <3>1. CASE Packet(file, n) \in reached
      BY <3>1
    <3>2. CASE inFlight[idx].chunk.part = n
      <4>1. inFlight[idx].chunk.file = file
        BY <2>1 DEF FlightOK
      <4>2. inFlight[idx].chunk \in Packets
        BY <2>1, InFlightFields
      <4>3. inFlight[idx].chunk = Packet(file, n)
        BY <3>2, <4>1, <4>2, PacketFacts
      <4>. QED
        BY <2>1, <4>3
    <3>3. ASSUME NEW i \in 1 .. Len(inFlight), i # idx, inFlight[i].chunk.part = n
          PROVE  \E j \in 1 .. Len(inFlight') : inFlight'[j].chunk.part = n
      <4>1. CASE i < idx
        <5>1. i \in 1 .. Len(inFlight')
          BY <2>1, <2>2, <4>1
        <5>. QED
          BY <2>2, <3>3, <4>1, <5>1
      <4>2. CASE ~(i < idx)
        <5>1. i - 1 \in 1 .. Len(inFlight') /\ ~(i - 1 < idx) /\ (i - 1) + 1 = i
          BY <2>1, <2>2, <3>3, <4>2
        <5>. QED
          BY <2>2, <3>3, <5>1
      <4>. QED
        BY <4>1, <4>2
    <3>. QED
      BY <3>1, <3>2, <3>3 DEF FlightOK
  <2>. QED
    BY <2>1, <2>4, <2>5, <2>6, <2>7 DEF FlightOK
<1>6. CASE ScanResends
  <2>1. /\ idx \in 1 .. Len(inFlight)
        /\ inFlight' = [inFlight EXCEPT ![idx].attempts = @ + 1]
        /\ UNCHANGED <<nextChunk, ackedChunks, file, reached>>
    BY <1>6 DEF ScanResends, Scanning, TypeOK, rxVars
  <2>2. /\ Len(inFlight') = Len(inFlight)
        /\ \A i \in 1 .. Len(inFlight) : inFlight'[i].chunk = inFlight[i].chunk
    BY <2>1 DEF InFlightChunk
  <2>. QED
    BY <2>1, <2>2 DEF FlightOK
<1>7. CASE FillSends
  <2>1. /\ inFlight' = Append(inFlight, [chunk |-> Packet(file, nextChunk), attempts |-> 1])
        /\ nextChunk' = nextChunk + 1 /\ nextChunk <= Size[file] /\ nextChunk \in 0 .. Size[file]
        /\ UNCHANGED <<ackedChunks, file, reached>>
    BY <1>7 DEF FillSends, Room, rxVars
  <2>2. /\ Packet(file, nextChunk).file = file /\ Packet(file, nextChunk).part = nextChunk
    BY <2>1, PacketFacts
  <2>3. /\ Len(inFlight') = Len(inFlight) + 1
        /\ \A i \in 1 .. Len(inFlight) : inFlight'[i] = inFlight[i]
        /\ inFlight'[Len(inFlight) + 1].chunk = Packet(file, nextChunk)
        /\ \A i \in 1 .. Len(inFlight') : i \in 1 .. Len(inFlight) \/ i = Len(inFlight) + 1
    BY <2>1
  <2>4. \A n \in 1 .. (nextChunk - 1) : n \in 1 .. nextChunk /\ n < nextChunk
    OBVIOUS
  <2>5. nextChunk' - 1 = nextChunk /\ nextChunk \in 1 .. nextChunk
    BY <2>1
  <2>6. \A i \in 1 .. Len(inFlight') :
          /\ inFlight'[i].chunk.file = file
          /\ inFlight'[i].chunk.part \in 1 .. nextChunk
    BY <2>2, <2>3, <2>4, <2>5 DEF FlightOK
  <2>7. ASSUME NEW i \in 1 .. Len(inFlight'), NEW j \in 1 .. Len(inFlight'), i < j
        PROVE  inFlight'[i].chunk.part < inFlight'[j].chunk.part
    <3>1. i \in 1 .. Len(inFlight)
      BY <2>3, <2>7
    <3>2. CASE j \in 1 .. Len(inFlight)
      BY <2>3, <2>7, <3>1, <3>2 DEF FlightOK
    <3>3. CASE j = Len(inFlight) + 1
      BY <2>2, <2>3, <2>4, <3>1, <3>3 DEF FlightOK
    <3>. QED
      BY <2>3, <3>2, <3>3
  <2>8. ackedChunks + Len(inFlight') = nextChunk
    <3>1. ackedChunks + Len(inFlight) = nextChunk - 1
      BY DEF FlightOK
    <3>2. Len(inFlight') = Len(inFlight) + 1
      BY <2>3
    <3>3. \A a, l, n \in Nat : a + l = n - 1 => a + (l + 1) = n
      OBVIOUS
    <3>. QED
      BY <3>1, <3>2, <3>3
  <2>9. ASSUME NEW n \in 1 .. nextChunk
        PROVE  \/ Packet(file, n) \in reached
               \/ \E i \in 1 .. Len(inFlight') : inFlight'[i].chunk.part = n
    <3>1. CASE n = nextChunk
      <4>1. Len(inFlight) + 1 \in 1 .. Len(inFlight')
        BY <2>3
      <4>. QED
        BY <2>2, <2>3, <3>1, <4>1
    <3>2. CASE n # nextChunk
      <4>1. n \in 1 .. (nextChunk - 1)
        BY <3>2
      <4>2. \A i \in 1 .. Len(inFlight) : i \in 1 .. Len(inFlight')
        BY <2>3
      <4>. QED
        BY <2>3, <4>1, <4>2 DEF FlightOK
    <3>. QED
      BY <3>1, <3>2
  <2>. QED
    BY <2>1, <2>5, <2>6, <2>7, <2>8, <2>9 DEF FlightOK
<1>8. CASE FillEnds
  BY <1>1, <1>8, <1>k DEF FillEnds
<1>9. CASE \/ Ask \/ PumpError \/ Prepare \/ Relay \/ Mark \/ Lost \/ (\E p \in Packets : Elapse(p))
           \/ (\E f \in Files : TakeManifest(f) \/ TakeChunk(f)) \/ MetaSend \/ ScanPasses
  BY <1>9, <1>k DEF Ask, PumpError, Prepare, Relay, Mark, Lost, Elapse, TakeManifest, TakeChunk,
     Take, MetaSend, ScanPasses, jobVars, windowVars
<1>. QED
  BY <1>k, <1>2, <1>3, <1>4, <1>5, <1>6, <1>7, <1>8, <1>9 DEF Next, Goes, Pump, vars, jobVars,
     windowVars

-----------------------------------------------------------------------------
(* The connection.                                                         *)

(* WasSent of this packet in the next state. *)
SentNext(p) ==
  /\ told'[p.file] # "none"
  /\ told'[p.file] = "active" /\ p.part > 0 => p.part < nextChunk'

(* The sender may write it: its manifest arrived, or it is one itself and  *)
(* no chunk was sent yet.                                                  *)
MaySend(p) ==
  /\ p \in Packets /\ SentNext(p)
  /\ p.part > 0 => Manifest(p.file) \in reached
  /\ p.part = 0 => told[p.file] = "active" /\ nextChunk = 1

(* What a step of the sender does to the connection. *)
Writes(p) ==
  /\ wire' = (IF up THEN Append(wire, Sealed(p)) ELSE wire) /\ sealed' = sealed + 1
  /\ UNCHANGED <<up, nextRecv, acks, acked, rxVars>>

Quiet == UNCHANGED <<up, sealed, wire, nextRecv, acks, lane, lagged, reached>> /\ acked' \subseteq acked

LEMMA WireMoves ==
  ASSUME TypeOK, QueueOK, JobOK, FlightOK, [Next]_vars
  PROVE  Quiet \/ Relay \/ Mark \/ Lost \/ (\E f \in Files : TakeManifest(f) \/ TakeChunk(f))
         \/ \E p \in Packets : MaySend(p) /\ Writes(p)
<1>. file \in Files /\ nextChunk \in Nat \ {0} /\ inFlight \in Seq(InFlightChunk)
     /\ told \in [Files -> {"none", "active", "done", "failed"}]
  BY Constants DEF TypeOK
<1>a. stage # "none" => told[file] = "active"
  BY DEF QueueOK
<1>1. CASE \/ PumpQueue \/ PumpError \/ Prepare \/ Ask \/ ScanPasses \/ (\E p \in Packets : Elapse(p))
           \/ UNCHANGED vars
  <2>1. UNCHANGED <<transportVars, rxVars>>
    BY <1>1 DEF PumpQueue, PumpError, Prepare, Ask, ScanPasses, Elapse, vars
  <2>. QED
    BY <2>1 DEF Quiet, transportVars, rxVars
<1>2. CASE MetaAcked \/ MetaFails \/ ScanAcked \/ ScanFails \/ FillFails
  <2>1. UNCHANGED <<up, sealed, wire, nextRecv, acks, rxVars>>
    BY <1>2 DEF MetaAcked, MetaFails, ScanAcked, ScanFails, FillFails, UploadFails
  <2>2. \E S : Finish(S)
    BY <1>2 DEF MetaAcked, MetaFails, ScanAcked, ScanFails, FillFails, UploadFails
  <2>. QED
    BY <2>1, <2>2 DEF Quiet, Finish, rxVars
<1>3. CASE FillEnds
  BY <1>3 DEF FillEnds, Quiet, transportVars, rxVars
<1>4. CASE MetaSend
  <2>1. /\ Writes(Manifest(file)) /\ UNCHANGED <<told, nextChunk>> /\ stage # "none"
        /\ nextChunk = 1
    BY <1>4 DEF MetaSend, SendNow, Written, Writes, queueVars, JobOK
  <2>. QED
    BY <1>a, <2>1, PacketFacts DEF MaySend, SentNext
<1>5. CASE ScanResends
  <2>1. /\ Writes(Current.chunk) /\ UNCHANGED <<told, nextChunk>> /\ stage = "window"
        /\ idx \in 1 .. Len(inFlight) /\ Current.chunk = inFlight[idx].chunk
    BY <1>5 DEF ScanResends, Scanning, Current, SendNow, Written, Writes, queueVars, TypeOK
  <2>2. /\ Current.chunk \in Packets /\ Current.chunk.file = file
        /\ Current.chunk.part < nextChunk /\ Current.chunk.part # 0
    BY <2>1, InFlightFields DEF FlightOK
  <2>3. Manifest(file) \in reached
    BY <2>1 DEF JobOK
  <2>. QED
    BY <1>a, <2>1, <2>2, <2>3 DEF MaySend, SentNext
<1>6. CASE FillSends
  <2>1. /\ Writes(Packet(file, nextChunk)) /\ UNCHANGED told /\ stage = "window"
        /\ nextChunk \in 0 .. Size[file] /\ nextChunk' = nextChunk + 1
    BY <1>6, Constants DEF FillSends, Filling, Room, SendNow, Written, Writes, queueVars
  <2>2. /\ Packet(file, nextChunk) \in Packets /\ Packet(file, nextChunk).file = file
        /\ Packet(file, nextChunk).part = nextChunk
    BY <2>1, PacketFacts
  <2>3. nextChunk < nextChunk' /\ nextChunk # 0
    BY <2>1
  <2>4. Manifest(file) \in reached
    BY <2>1 DEF JobOK
  <2>. QED
    BY <1>a, <2>1, <2>2, <2>3, <2>4 DEF MaySend, SentNext
<1>. QED
  BY <1>1, <1>2, <1>3, <1>4, <1>5, <1>6 DEF Next, Goes, Pump

LEMMA FreshHead ==
  ASSUME TypeOK, SealsOK, wire # <<>>
  PROVE  /\ Fresh(Head(wire)) /\ Head(wire) = wire[1] /\ 1 \in 1 .. Len(wire)
         /\ wire[1].packet \in Packets
<1>. wire \in Seq(Lines) /\ nextRecv \in Nat
  BY DEF TypeOK, TransportTypeOK
<1>1. Head(wire) = wire[1] /\ 1 \in 1 .. Len(wire) /\ wire[1] \in Lines
  OBVIOUS
<1>2. wire[1].seq = nextRecv
  BY <1>1 DEF SealsOK
<1>. QED
  BY <1>1, <1>2, LineFields DEF Fresh

(* So Relay always passes something on. *)
LEMMA RelayMoves ==
  ASSUME TypeOK, SealsOK, Relay
  PROVE  /\ wire # <<>> /\ wire' = Tail(wire) /\ nextRecv' = nextRecv + 1
         /\ acks' = Append(acks, wire[1].packet)
         /\ lane' = Append(IF Len(lane) < LaneCapacity THEN lane ELSE Tail(lane), wire[1].packet)
         /\ lagged' = (lagged \/ Len(lane) = LaneCapacity)
         /\ reached' = reached \cup {wire[1].packet}
         /\ UNCHANGED <<up, sealed, acked, told, nextChunk, torn, rx, got, stores>>
<1>. nextRecv \in Nat /\ wire # <<>>
  BY DEF TypeOK, TransportTypeOK, Relay, ServerReads
<1>1. Fresh(Head(wire)) /\ Head(wire) = wire[1]
  BY FreshHead
<1>2. ~Duplicate(Head(wire))
  BY <1>1 DEF Fresh, Duplicate
<1>. QED
  BY <1>1, <1>2 DEF Relay, ServerReads, PassesOn, queueVars, jobVars, windowVars

LEMMA SealsStep ==
  ASSUME TypeOK, QueueOK, JobOK, FlightOK, SealsOK, [Next]_vars
  PROVE  SealsOK'
<1>. wire \in Seq(Lines) /\ nextRecv \in Nat /\ sealed \in Nat /\ Len(wire) \in Nat
     /\ up \in BOOLEAN
  BY DEF TypeOK, TransportTypeOK
<1>1. CASE UNCHANGED <<up, sealed, wire, nextRecv>>
  BY <1>1 DEF SealsOK
<1>2. CASE Relay
  <2>1. wire # <<>> /\ wire' = Tail(wire) /\ nextRecv' = nextRecv + 1 /\ UNCHANGED <<up, sealed>>
    BY <1>2, RelayMoves
  <2>2. /\ Len(wire') = Len(wire) - 1
        /\ \A i \in 1 .. Len(wire') : wire'[i] = wire[i + 1] /\ i + 1 \in 1 .. Len(wire)
    BY <2>1
  <2>3. ASSUME NEW i \in 1 .. Len(wire') PROVE wire'[i].seq = nextRecv' + i - 1
    <3>1. wire[i + 1].seq = nextRecv + (i + 1) - 1
      BY <2>2 DEF SealsOK
    <3>. QED
      BY <2>1, <2>2, <3>1
  <2>4. up => nextRecv' + Len(wire') = sealed
    <3>1. up => nextRecv + Len(wire) = sealed
      BY DEF SealsOK
    <3>. QED
      BY <2>1, <2>2, <3>1
  <2>. QED
    BY <2>1, <2>3, <2>4 DEF SealsOK
<1>3. CASE Lost
  BY <1>3 DEF Lost, Break, SealsOK
<1>4. ASSUME NEW p \in Packets, Writes(p) PROVE SealsOK'
  <2>1. CASE ~up
    BY <1>4, <2>1 DEF Writes, SealsOK
  <2>2. CASE up
    <3>1. wire' = Append(wire, Sealed(p)) /\ sealed' = sealed + 1 /\ UNCHANGED <<up, nextRecv>>
      BY <1>4, <2>2 DEF Writes
    <3>2. nextRecv + Len(wire) = sealed /\ \A i \in 1 .. Len(wire) : wire[i].seq = nextRecv + i - 1
      BY <2>2 DEF SealsOK
    <3>3. /\ Len(wire') = Len(wire) + 1
          /\ \A i \in 1 .. Len(wire) : wire'[i] = wire[i]
          /\ wire'[Len(wire) + 1].seq = sealed
          /\ \A i \in 1 .. Len(wire') : i \in 1 .. Len(wire) \/ i = Len(wire) + 1
      BY <3>1 DEF Sealed
    <3>4. nextRecv + Len(wire') = sealed' /\ sealed = nextRecv + (Len(wire) + 1) - 1
      BY <3>1, <3>2, <3>3
    <3>5. \A i \in 1 .. Len(wire') : wire'[i].seq = nextRecv + i - 1
      BY <3>2, <3>3, <3>4
    <3>. QED
      BY <2>2, <3>1, <3>4, <3>5 DEF SealsOK
  <2>. QED
    BY <2>1, <2>2
<1>5. CASE Mark \/ \E f \in Files : TakeManifest(f) \/ TakeChunk(f)
  BY <1>1, <1>5 DEF Mark, ReaderMarks, TakeManifest, TakeChunk, Take, transportVars
<1>. QED
  BY <1>1, <1>2, <1>3, <1>4, <1>5, WireMoves DEF Quiet

LEMMA WasSentKept ==
  ASSUME TypeOK, QueueOK, JobOK, [Next]_vars, NEW p \in Packets, WasSent(p)
  PROVE  SentNext(p)
<1>. USE DEF SentNext
<1>. told \in [Files -> {"none", "active", "done", "failed"}] /\ nextChunk \in Nat
     /\ p.file \in Files /\ p.part \in Nat /\ file \in Files
     /\ preparing \subseteq [file : Files, state : {"running", "ready", "error"}]
  BY PacketFacts, Constants DEF TypeOK
<1>k. CASE UNCHANGED <<told, nextChunk>>
  BY <1>k DEF WasSent, Begun
<1>1. ASSUME NEW result \in {"done", "failed"}, Over(result), stage # "none" PROVE SentNext(p)
  <2>1. told' = [told EXCEPT ![file] = result] /\ (told[p.file] = "active" => p.file = file)
    BY <1>1 DEF Over, Told, QueueOK
  <2>. QED
    BY <2>1 DEF WasSent, Begun
<1>2. ASSUME NEW q \in preparing, NEW what \in {"active", "failed"}, UNCHANGED nextChunk,
             told' = [told EXCEPT ![q.file] = what]
      PROVE  SentNext(p)
  <2>1. q.file # p.file
    BY DEF QueueOK, WasSent
  <2>. QED
    BY <1>2, <2>1 DEF WasSent, Begun
<1>3. CASE PumpQueue
  BY <1>2, <1>3, <1>k DEF PumpQueue, Told, windowVars
<1>4. CASE PumpError
  BY <1>2, <1>4 DEF PumpError, Told, jobVars, windowVars
<1>5. CASE MetaAcked
  BY <1>1, <1>5, <1>k DEF MetaAcked, queueVars, windowVars
<1>6. CASE MetaFails \/ ScanFails \/ FillFails
  BY <1>1, <1>6 DEF MetaFails, ScanFails, FillFails, UploadFails, Scanning, Filling
<1>7. CASE FillEnds
  BY <1>1, <1>7, <1>k DEF FillEnds, Filling, queueVars
<1>8. CASE FillSends
  <2>1. UNCHANGED told /\ nextChunk' = nextChunk + 1
    BY <1>8 DEF FillSends, queueVars
  <2>2. \A m \in Nat : m < nextChunk => m < nextChunk + 1
    OBVIOUS
  <2>. QED
    BY <2>1, <2>2 DEF WasSent, Begun
<1>9. CASE \/ Ask \/ Prepare \/ Relay \/ Mark \/ Lost \/ (\E q \in Packets : Elapse(q))
           \/ (\E f \in Files : TakeManifest(f) \/ TakeChunk(f)) \/ MetaSend \/ ScanPasses
           \/ ScanAcked \/ ScanResends
  BY <1>9, <1>k DEF Ask, Prepare, Relay, Mark, Lost, Elapse, TakeManifest, TakeChunk, Take,
     MetaSend, ScanPasses, ScanAcked, ScanResends, queueVars, jobVars, windowVars
<1>. QED
  BY <1>k, <1>3, <1>4, <1>5, <1>6, <1>7, <1>8, <1>9 DEF Next, Goes, Pump, vars, queueVars,
     jobVars, windowVars

(* An upload that was just reported done is complete. *)
LEMMA DoneWhole ==
  ASSUME TypeOK, JobOK, FlightOK, SentOK, [Next]_vars,
         NEW f \in Files, told'[f] = "done"
  PROVE  {Manifest(f)} \cup Chunks(f) \subseteq reached'
<1>. /\ reached \subseteq reached' /\ told \in [Files -> {"none", "active", "done", "failed"}]
     /\ file \in Files /\ Size[file] \in Nat /\ nextChunk \in Nat
     /\ preparing \subseteq [file : Files, state : {"running", "ready", "error"}]
  <2>1. /\ told \in [Files -> {"none", "active", "done", "failed"}]
        /\ file \in Files /\ nextChunk \in 1 .. Size[file] + 1
        /\ preparing \subseteq [file : Files, state : {"running", "ready", "error"}]
    BY DEF TypeOK
  <2>2. Size[file] \in Nat
    BY <2>1, Constants
  <2>. QED
    BY <2>1, <2>2, ReachedGrows
<1>1. CASE told[f] = "done"
  BY <1>1 DEF SentOK
<1>2. CASE told[f] # "done"
  <2>1. \/ MetaAcked /\ Size[file] = 0 /\ Over("done")
        \/ FillEnds /\ Complete /\ Over("done")
    <3>1. ~UNCHANGED told
      BY <1>2
    <3>2. ~PumpQueue /\ ~PumpError
      BY <1>2 DEF PumpQueue, PumpError, Told
    <3>3. ~Over("failed")
      BY <1>2 DEF Over, Told
    <3>4. ~MetaFails /\ ~ScanFails /\ ~FillFails
      BY <3>3 DEF MetaFails, ScanFails, FillFails, UploadFails
    <3>5. ~(\/ Ask \/ Prepare \/ Relay \/ Mark \/ Lost \/ (\E q \in Packets : Elapse(q))
            \/ (\E g \in Files : TakeManifest(g) \/ TakeChunk(g)) \/ MetaSend \/ ScanPasses
            \/ ScanAcked \/ ScanResends \/ FillSends \/ UNCHANGED vars)
      BY <3>1 DEF Ask, Prepare, Relay, Mark, Lost, Elapse, TakeManifest, TakeChunk, Take,
         MetaSend, ScanPasses, ScanAcked, ScanResends, FillSends, queueVars, vars
    <3>6. MetaAcked \/ FillEnds
      BY <3>2, <3>4, <3>5 DEF Next, Goes, Pump
    <3>. QED
      BY <3>1, <3>6 DEF MetaAcked, FillEnds, queueVars
  <2>2. f = file
    BY <1>2, <2>1 DEF Over, Told
  <2>3. CASE MetaAcked /\ Size[file] = 0
    <3>1. Manifest(file) \in reached
      BY <2>3 DEF MetaAcked, SentOK
    <3>2. Chunks(file) = {}
      BY <2>3 DEF Chunks
    <3>. QED
      BY <2>2, <3>1, <3>2
  <2>4. CASE FillEnds /\ Complete
    <3>1. Manifest(file) \in reached
      BY <2>4 DEF FillEnds, Filling, JobOK
    <3>2. inFlight = <<>> /\ nextChunk > Size[file]
      BY <2>4 DEF Complete
    <3>3. \A n \in 1 .. Size[file] : n \in 1 .. (nextChunk - 1)
      BY <3>2
    <3>4. \A n \in 1 .. Size[file] : Packet(file, n) \in reached
      BY <3>2, <3>3 DEF FlightOK
    <3>. QED
      BY <2>2, <3>1, <3>4 DEF Chunks
  <2>. QED
    BY <2>1, <2>3, <2>4
<1>. QED
  BY <1>1, <1>2

LEMMA SentStep ==
  ASSUME TypeOK, QueueOK, JobOK, FlightOK, SealsOK, SentOK, [Next]_vars
  PROVE  SentOK'
<1>. /\ wire \in Seq(Lines) /\ acks \in Seq(Packets) /\ reached \subseteq Packets
     /\ acked \subseteq Packets /\ reached \subseteq reached'
     /\ Len(wire) \in Nat /\ Len(acks) \in Nat
  BY ReachedGrows DEF TypeOK, TransportTypeOK
<1>. /\ \A i \in 1 .. Len(wire) : wire[i].packet \in Packets
     /\ \A i \in 1 .. Len(acks) : acks[i] \in Packets
  <2>1. \A i \in 1 .. Len(wire) : wire[i] \in Lines
    OBVIOUS
  <2>. QED
    BY <2>1, LineFields
<1>s. \A p \in Packets : WasSent(p) => SentNext(p)
  BY WasSentKept
<1>d. \A f \in Files : told'[f] = "done" => {Manifest(f)} \cup Chunks(f) \subseteq reached'
  BY DoneWhole
<1>w. \A i \in 1 .. Len(wire) :
        /\ SentNext(wire[i].packet)
        /\ wire[i].packet.part > 0 => Manifest(wire[i].packet.file) \in reached'
  <2>. TAKE i \in 1 .. Len(wire)
  <2>. QED
    BY <1>s DEF SentOK
<1>r. \A p \in reached : SentNext(p) /\ (p.part > 0 => Manifest(p.file) \in reached')
  BY <1>s DEF SentOK
<1>. DEFINE LineGood(l) == /\ SentNext(l.packet)
                           /\ l.packet.part > 0 => Manifest(l.packet.file) \in reached'
<1>g. ASSUME \A i \in 1 .. Len(wire') : LineGood(wire'[i]),
             \A p \in reached' : SentNext(p) /\ (p.part > 0 => Manifest(p.file) \in reached'),
             \A i \in 1 .. Len(acks') : acks'[i] \in reached',
             acked' \subseteq reached'
      PROVE  SentOK'
  <2>1. \A i \in 1 .. Len(wire') :
          /\ SentNext(wire'[i].packet)
          /\ wire'[i].packet.part > 0 => Manifest(wire'[i].packet.file) \in reached'
    BY <1>g
  <2>. HIDE DEF LineGood
  <2>2. SentOK' <=>
          /\ \A i \in 1 .. Len(wire') :
               /\ SentNext(wire'[i].packet)
               /\ wire'[i].packet.part > 0 => Manifest(wire'[i].packet.file) \in reached'
          /\ \A p \in reached' : SentNext(p) /\ (p.part > 0 => Manifest(p.file) \in reached')
          /\ \A i \in 1 .. Len(acks') : acks'[i] \in reached'
          /\ acked' \subseteq reached'
          /\ \A f \in Files : told'[f] = "done" => {Manifest(f)} \cup Chunks(f) \subseteq reached'
    BY DEF SentOK, WasSent, Begun, SentNext
  <2>. QED
    BY <1>d, <1>g, <2>1, <2>2
<1>h. \A i \in 1 .. Len(wire) : LineGood(wire[i])
  BY <1>w
<1>. HIDE DEF LineGood
<1>1. CASE Quiet \/ \E f \in Files : TakeManifest(f) \/ TakeChunk(f)
  <2>1. UNCHANGED <<wire, acks, reached>> /\ acked' \subseteq acked
    BY <1>1 DEF Quiet, TakeManifest, TakeChunk, Take, transportVars
  <2>. QED
    BY <1>g, <1>h, <1>r, <2>1 DEF SentOK
<1>2. CASE Relay
  <2>1. /\ wire # <<>> /\ wire' = Tail(wire) /\ acks' = Append(acks, wire[1].packet)
        /\ reached' = reached \cup {wire[1].packet} /\ UNCHANGED acked
        /\ 1 \in 1 .. Len(wire)
    BY <1>2, RelayMoves, FreshHead
  <2>2. \A i \in 1 .. Len(wire') : wire'[i] = wire[i + 1] /\ i + 1 \in 1 .. Len(wire)
    BY <2>1
  <2>3. \A i \in 1 .. Len(wire') : LineGood(wire'[i])
    BY <1>h, <2>2
  <2>4. \A p \in reached' : SentNext(p) /\ (p.part > 0 => Manifest(p.file) \in reached')
    BY <1>r, <1>w, <2>1
  <2>5. \A i \in 1 .. Len(acks') : acks'[i] = wire[1].packet
                                 \/ (i \in 1 .. Len(acks) /\ acks'[i] = acks[i])
    BY <2>1
  <2>6. \A i \in 1 .. Len(acks') : acks'[i] \in reached'
    BY <2>1, <2>5 DEF SentOK
  <2>. QED
    BY <1>g, <2>1, <2>3, <2>4, <2>6 DEF SentOK
<1>3. CASE Mark
  <2>1. /\ acks # <<>> /\ acks' = Tail(acks) /\ acked' \subseteq acked \cup {Head(acks)}
        /\ UNCHANGED <<wire, reached>>
    BY <1>3 DEF Mark, ReaderMarks, rxVars
  <2>2. /\ Head(acks) = acks[1] /\ 1 \in 1 .. Len(acks)
        /\ \A i \in 1 .. Len(acks') : acks'[i] = acks[i + 1] /\ i + 1 \in 1 .. Len(acks)
    BY <2>1
  <2>. QED
    BY <1>g, <1>h, <1>r, <2>1, <2>2 DEF SentOK
<1>4. CASE Lost
  <2>1. wire' = <<>> /\ acks' = <<>> /\ UNCHANGED <<acked, reached>>
    BY <1>4 DEF Lost, Break, rxVars
  <2>. QED
    BY <1>g, <1>r, <2>1 DEF SentOK
<1>5. ASSUME NEW p \in Packets, MaySend(p), Writes(p) PROVE SentOK'
  <2>1. /\ wire' = wire \/ wire' = Append(wire, Sealed(p))
        /\ UNCHANGED <<acks, acked, reached>>
    BY <1>5 DEF Writes, rxVars
  <2>2. LineGood(Sealed(p))
    BY <1>5 DEF MaySend, LineGood, Sealed
  <2>3. \A i \in 1 .. Len(wire') : wire'[i] = Sealed(p) \/ (i \in 1 .. Len(wire) /\ wire'[i] = wire[i])
    BY <2>1
  <2>4. \A i \in 1 .. Len(wire') : LineGood(wire'[i])
    BY <1>h, <2>2, <2>3
  <2>. QED
    BY <1>g, <1>r, <2>1, <2>4 DEF SentOK
<1>. QED
  BY <1>1, <1>2, <1>3, <1>4, <1>5, WireMoves

-----------------------------------------------------------------------------
(* The receiver.                                                           *)

(* A file whose assembly is over is not looked at any more. *)
LEMMA TornStays ==
  ASSUME TypeOK, QueueOK, SentOK, AssemblyOK, [Next]_vars, NEW f \in Files, Closed(f)
  PROVE  f \in torn' <=> f \in torn
<1>1. CASE UNCHANGED torn
  BY <1>1
<1>2. CASE FillSends
  <2>. file \in Files /\ Size[file] \in Nat /\ nextChunk \in Nat \ {0}
    BY Constants DEF TypeOK
  <2>1. stage # "none" /\ nextChunk \in 1 .. Size[file] /\ nextChunk \in 0 .. Size[file]
        /\ torn' \in {torn, torn \cup ({file} \cap OnDisk)}
    BY <1>2 DEF FillSends, Filling, Room, ReadChunk, MayChange
  <2>2. Packet(file, nextChunk).file = file /\ Packet(file, nextChunk).part = nextChunk
    BY <2>1, PacketFacts
  <2>3. f # file
    <3>1. ASSUME Closed(file) PROVE FALSE
      <4>1. Packet(file, nextChunk) \in reached
        BY <2>1, <3>1 DEF AssemblyOK, Chunks
      <4>2. told[file] = "active"
        BY <2>1 DEF QueueOK
      <4>3. nextChunk < nextChunk
        BY <2>1, <2>2, <4>1, <4>2 DEF SentOK, WasSent
      <4>. QED
        BY <4>3
    <3>. QED
      BY <3>1
  <2>. QED
    BY <2>1, <2>3
<1>3. CASE \/ PumpQueue \/ PumpError \/ MetaAcked \/ MetaSend \/ MetaFails
           \/ ScanAcked \/ ScanPasses \/ ScanResends \/ ScanFails \/ FillFails \/ FillEnds
  BY <1>1, <1>3 DEF PumpQueue, PumpError, MetaAcked, MetaSend, MetaFails, ScanAcked, ScanPasses,
     ScanResends, ScanFails, FillFails, UploadFails, FillEnds
<1>4. CASE \/ Ask \/ Mark \/ Lost \/ Relay \/ (\E p \in Packets : Elapse(p))
           \/ (\E g \in Files : TakeManifest(g) \/ TakeChunk(g)) \/ UNCHANGED vars
  BY <1>1, <1>4 DEF Ask, Mark, Lost, Relay, Elapse, TakeManifest, TakeChunk, Take, vars
<1>5. CASE Prepare
  <2>1. PICK p \in preparing : torn' \in {torn, torn \cup ({p.file} \cap OnDisk)}
    BY <1>5 DEF Prepare, MayChange
  <2>2. ~Begun(p.file)
    BY DEF QueueOK
  <2>3. Begun(f)
    <3>1. Manifest(f) \in reached
      BY DEF AssemblyOK, Closed
    <3>. QED
      BY <3>1, PacketFacts DEF SentOK, WasSent
  <2>. QED
    BY <2>1, <2>2, <2>3
<1>. QED
  BY <1>2, <1>3, <1>4, <1>5 DEF Next, Goes, Pump

(* Only the receiver's own steps change its assemblies. *)
LEMMA ReceiverStays ==
  ASSUME [Next]_vars
  PROVE  UNCHANGED <<rx, got, stores>> \/ \E f \in Files : TakeManifest(f) \/ TakeChunk(f)
<1>1. CASE \/ PumpQueue \/ PumpError \/ MetaAcked \/ MetaSend \/ MetaFails
           \/ ScanAcked \/ ScanPasses \/ ScanResends \/ ScanFails
           \/ FillSends \/ FillFails \/ FillEnds
  BY <1>1 DEF PumpQueue, PumpError, MetaAcked, MetaSend, MetaFails, ScanAcked, ScanPasses,
     ScanResends, ScanFails, FillSends, FillFails, UploadFails, FillEnds, rxVars
<1>2. CASE \/ Prepare \/ Ask \/ Mark \/ Lost \/ Relay \/ (\E p \in Packets : Elapse(p))
           \/ UNCHANGED vars
  BY <1>2 DEF Prepare, Ask, Mark, Lost, Relay, Elapse, vars, rxVars
<1>. QED
  BY <1>1, <1>2 DEF Next, Goes, Pump

LEMMA LaneMoves ==
  ASSUME [Next]_vars
  PROVE  \/ UNCHANGED <<lane, lagged, reached>> \/ Relay
         \/ Take /\ \E f \in Files : TakeManifest(f) \/ TakeChunk(f)
<1>1. CASE \/ PumpQueue \/ PumpError \/ MetaAcked \/ MetaSend \/ MetaFails
           \/ ScanAcked \/ ScanPasses \/ ScanResends \/ ScanFails
           \/ FillSends \/ FillFails \/ FillEnds
  BY <1>1 DEF PumpQueue, PumpError, MetaAcked, MetaSend, MetaFails, ScanAcked, ScanPasses,
     ScanResends, ScanFails, FillSends, FillFails, UploadFails, FillEnds, rxVars
<1>2. CASE \/ Prepare \/ Ask \/ Mark \/ Lost \/ (\E p \in Packets : Elapse(p))
           \/ UNCHANGED vars
  BY <1>2 DEF Prepare, Ask, Mark, Lost, Elapse, vars, rxVars
<1>. QED
  BY <1>1, <1>2 DEF Next, Goes, Pump, TakeManifest, TakeChunk

LEMMA LaneHead ==
  ASSUME TypeOK, lane # <<>>
  PROVE  /\ Head(lane) = lane[1] /\ 1 \in 1 .. Len(lane) /\ Head(lane) \in Packets
         /\ Len(Tail(lane)) = Len(lane) - 1
         /\ \A i \in 1 .. Len(Tail(lane)) : Tail(lane)[i] = lane[i + 1] /\ i + 1 \in 1 .. Len(lane)
BY DEF TypeOK

(* What a taken packet does to the assembly of its file. *)
LEMMA TakeMoves ==
  ASSUME TypeOK, AssemblyOK, NEW f \in Files, TakeManifest(f) \/ TakeChunk(f)
  PROVE  /\ Take /\ Head(lane).file = f
         /\ \A g \in Files \ {f} : rx'[g] = rx[g] /\ got'[g] = got[g] /\ stores'[g] = stores[g]
         /\ \/ /\ UNCHANGED <<rx, got, stores>>
               /\ IF Head(lane).part = 0 THEN rx[f] # "none" ELSE rx[f] # "receiving"
            \/ /\ ~Closed(f) /\ Chunks(f) \subseteq got[f] \cup {Head(lane)}
               /\ rx[f] # "receiving" => Head(lane).part = 0
               /\ Closed(f)' /\ (rx'[f] = "refused" <=> f \in torn) /\ got'[f] = {}
               /\ stores'[f] = stores[f] + (IF rx'[f] = "stored" THEN 1 ELSE 0)
            \/ /\ Head(lane).part = 0 /\ rx[f] \in {"none", "missed"}
               /\ rx'[f] = "missed" \/ (rx'[f] = "receiving" /\ Chunks(f) # {})
               /\ UNCHANGED <<got, stores>>
            \/ /\ rx[f] = "receiving" /\ Head(lane).part > 0
               /\ got'[f] = got[f] \cup {Head(lane)} /\ got'[f] # Chunks(f)
               /\ UNCHANGED <<rx, stores>>
<1>. /\ rx \in [Files -> {"none", "missed", "receiving", "stored", "unstored", "refused"}]
     /\ got \in [Files -> SUBSET Packets] /\ stores \in [Files -> Nat] /\ Size[f] \in Nat
  BY Constants DEF TypeOK
<1>0. Take
  BY DEF TakeManifest, TakeChunk
<1>f. ASSUME Finalize(f)
      PROVE  /\ \A g \in Files \ {f} : rx'[g] = rx[g] /\ got'[g] = got[g] /\ stores'[g] = stores[g]
             /\ Closed(f)' /\ (rx'[f] = "refused" <=> f \in torn) /\ got'[f] = {}
             /\ stores'[f] = stores[f] + (IF rx'[f] = "stored" THEN 1 ELSE 0)
  <2>1. /\ \A g \in Files \ {f} : rx'[g] = rx[g] /\ got'[g] = got[g] /\ stores'[g] = stores[g]
        /\ got'[f] = {}
    BY <1>f DEF Finalize, Becomes
  <2>2. CASE f \in torn
    BY <1>f, <2>1, <2>2 DEF Finalize, Becomes, Closed
  <2>3. CASE f \notin torn
    BY <1>f, <2>1, <2>3 DEF Finalize, Becomes, Closed
  <2>. QED
    BY <2>1, <2>2, <2>3
<1>1. CASE TakeManifest(f)
  <2>1. Head(lane).file = f /\ Head(lane).part = 0
    BY <1>1, PacketFacts DEF TakeManifest
  <2>2. CASE rx[f] \notin {"none", "missed"}
    BY <1>0, <1>1, <2>1, <2>2 DEF TakeManifest
  <2>3. CASE rx[f] \in {"none", "missed"} /\ Register(f) /\ Size[f] = 0
    <3>1. Chunks(f) = {}
      BY <2>3 DEF Chunks
    <3>. QED
      BY <1>0, <1>f, <2>1, <2>3, <3>1 DEF Register, Closed
  <2>4. CASE rx[f] \in {"none", "missed"} /\ Register(f) /\ Size[f] # 0
    <3>1. 1 \in 1 .. Size[f]
      BY <2>4
    <3>2. Chunks(f) # {}
      BY <3>1 DEF Chunks
    <3>. QED
      BY <1>0, <2>1, <2>4, <3>2 DEF Register, Becomes
  <2>5. CASE /\ rx[f] \in {"none", "missed"} /\ Becomes(f, "missed")
             /\ UNCHANGED <<got, stores>>
    BY <1>0, <2>1, <2>5 DEF Becomes
  <2>6. \/ rx[f] \notin {"none", "missed"}
        \/ rx[f] \in {"none", "missed"} /\ Register(f)
        \/ /\ rx[f] \in {"none", "missed"} /\ Becomes(f, "missed")
           /\ UNCHANGED <<got, stores>>
    BY <1>1 DEF TakeManifest
  <2>. QED
    BY <2>2, <2>3, <2>4, <2>5, <2>6
<1>2. CASE TakeChunk(f)
  <2>0. Head(lane) \in Chunks(f) /\ Head(lane) \in Packets
    BY <1>2, PacketFacts DEF TakeChunk
  <2>1. Head(lane).file = f /\ Head(lane).part > 0 /\ Head(lane).part # 0
    BY <2>0, PacketFacts
  <2>2. CASE rx[f] # "receiving"
    BY <1>0, <1>2, <2>1, <2>2 DEF TakeChunk
  <2>3. CASE rx[f] = "receiving" /\ got[f] \cup {Head(lane)} = Chunks(f)
    BY <1>0, <1>2, <1>f, <2>1, <2>3 DEF TakeChunk, Closed
  <2>4. CASE rx[f] = "receiving" /\ got[f] \cup {Head(lane)} # Chunks(f)
    BY <1>0, <1>2, <2>1, <2>4 DEF TakeChunk
  <2>. QED
    BY <2>2, <2>3, <2>4
<1>. QED
  BY <1>1, <1>2

(* The part of AssemblyOK that is about one file. *)
FileOK(f) ==
  /\ got[f] \subseteq reached
  /\ rx[f] = "receiving" => got[f] # Chunks(f)
  /\ rx[f] # "receiving" => got[f] = {}
  /\ rx[f] # "none" => Manifest(f) \in reached
  /\ Closed(f) => Chunks(f) \subseteq reached /\ (rx[f] = "refused" <=> f \in torn)
  /\ stores[f] = (IF rx[f] = "stored" THEN 1 ELSE 0)

LEMMA AssemblyStep ==
  ASSUME TypeOK, QueueOK, SealsOK, SentOK, AssemblyOK, [Next]_vars
  PROVE  AssemblyOK'
<1>. /\ lane \in Seq(Packets) /\ reached \subseteq reached' /\ Len(lane) \in Nat
     /\ \A i \in 1 .. Len(lane) : lane[i] \in reached
     /\ \A f \in Files : FileOK(f)
  BY ReachedGrows DEF TypeOK, AssemblyOK, FileOK
<1>t. \A f \in Files : Closed(f) => (f \in torn' <=> f \in torn)
  BY TornStays
<1>1. \A i \in 1 .. Len(lane') : lane'[i] \in reached'
  <2>1. CASE Relay
    <3>1. /\ lane' = Append(IF Len(lane) < LaneCapacity THEN lane ELSE Tail(lane), wire[1].packet)
          /\ reached' = reached \cup {wire[1].packet} /\ wire[1].packet \in Packets
      BY <2>1, RelayMoves, FreshHead
    <3>. DEFINE rest == IF Len(lane) < LaneCapacity THEN lane ELSE Tail(lane)
    <3>2. rest \in Seq(Packets) /\ \A i \in 1 .. Len(rest) : rest[i] \in reached
      <4>1. CASE Len(lane) < LaneCapacity
        BY <4>1
      <4>2. CASE ~(Len(lane) < LaneCapacity)
        <5>1. lane # <<>>
          BY <4>2, Constants
        <5>. QED
          BY <4>2, <5>1, LaneHead
      <4>. QED
        BY <4>1, <4>2
    <3>3. lane' = Append(rest, wire[1].packet)
      BY <3>1
    <3>. HIDE DEF rest
    <3>4. \A i \in 1 .. Len(lane') : lane'[i] = wire[1].packet \/ (i \in 1 .. Len(rest) /\ lane'[i] = rest[i])
      BY <3>1, <3>2, <3>3
    <3>. QED
      BY <3>1, <3>2, <3>4
  <2>2. CASE Take
    BY <2>2, LaneHead DEF Take
  <2>3. CASE UNCHANGED lane
    BY <2>3
  <2>. QED
    BY <2>1, <2>2, <2>3, LaneMoves
<1>2. ASSUME NEW g \in Files PROVE FileOK(g)'
  <2>1. CASE rx'[g] = rx[g] /\ got'[g] = got[g] /\ stores'[g] = stores[g]
    BY <1>t, <2>1 DEF FileOK, Closed
  <2>2. ASSUME NEW f \in Files, TakeManifest(f) \/ TakeChunk(f) PROVE FileOK(g)'
    <3>0. /\ Take /\ UNCHANGED <<torn, reached>> /\ lane # <<>>
      BY <2>2 DEF TakeManifest, TakeChunk, Take
    <3>1. Head(lane) \in reached /\ Head(lane) \in Packets
      BY <3>0, LaneHead
    <3>m. Head(lane).part = 0 => Manifest(f) \in reached
      BY <2>2, <3>1, TakeMoves, PacketFacts
    <3>2. CASE g # f
      BY <2>1, <2>2, <3>2, TakeMoves
    <3>3. CASE g = f
      <4>. FileOK(f)
        OBVIOUS
      <4>1. CASE UNCHANGED <<rx, got, stores>>
        BY <2>1, <4>1
      <4>2. ASSUME /\ ~Closed(f) /\ Chunks(f) \subseteq got[f] \cup {Head(lane)}
                   /\ rx[f] # "receiving" => Head(lane).part = 0
                   /\ Closed(f)' /\ (rx'[f] = "refused" <=> f \in torn) /\ got'[f] = {}
                   /\ stores'[f] = stores[f] + (IF rx'[f] = "stored" THEN 1 ELSE 0)
            PROVE  FileOK(g)'
        <5>1. Chunks(f) \subseteq reached /\ stores[f] = 0
          BY <3>1, <4>2 DEF FileOK, Closed
        <5>2. stores'[f] = IF rx'[f] = "stored" THEN 1 ELSE 0
          BY <4>2, <5>1
        <5>. QED
          BY <3>0, <3>3, <3>m, <4>2, <5>1, <5>2 DEF FileOK, Closed
      <4>3. ASSUME /\ Head(lane).part = 0 /\ rx[f] \in {"none", "missed"}
                   /\ rx'[f] = "missed" \/ (rx'[f] = "receiving" /\ Chunks(f) # {})
                   /\ UNCHANGED <<got, stores>>
            PROVE  FileOK(g)'
        BY <3>0, <3>3, <3>m, <4>3 DEF FileOK, Closed
      <4>4. ASSUME /\ rx[f] = "receiving"
                   /\ got'[f] = got[f] \cup {Head(lane)} /\ got'[f] # Chunks(f)
                   /\ UNCHANGED <<rx, stores>>
            PROVE  FileOK(g)'
        BY <3>0, <3>1, <3>3, <4>4 DEF FileOK, Closed
      <4>. QED
        BY <2>2, <4>1, <4>2, <4>3, <4>4, TakeMoves
    <3>. QED
      BY <3>2, <3>3
  <2>. QED
    BY <2>1, <2>2, ReceiverStays
<1>. QED
  BY <1>1, <1>2 DEF AssemblyOK, FileOK

LEMMA OrderStep ==
  ASSUME TypeOK, QueueOK, JobOK, FlightOK, SealsOK, SentOK, AssemblyOK, OrderOK, [Next]_vars
  PROVE  OrderOK'
<1>. /\ wire \in Seq(Lines) /\ lane \in Seq(Packets) /\ reached \subseteq Packets
     /\ Len(wire) \in Nat /\ Len(lane) \in Nat
  BY DEF TypeOK, TransportTypeOK
<1>w. \A i \in 1 .. Len(wire) : wire[i].packet \in Packets
  <2>1. \A i \in 1 .. Len(wire) : wire[i] \in Lines
    OBVIOUS
  <2>. QED
    BY <2>1, LineFields
<1>k. CASE UNCHANGED <<wire, lane, reached>>
  BY <1>k DEF OrderOK
<1>1. CASE Relay
  <2>. DEFINE p == wire[1].packet
              rest == IF Len(lane) < LaneCapacity THEN lane ELSE Tail(lane)
  <2>1. /\ wire # <<>> /\ wire' = Tail(wire) /\ lane' = Append(rest, p)
        /\ reached' = reached \cup {p} /\ p \in Packets /\ 1 \in 1 .. Len(wire)
    BY <1>1, RelayMoves, FreshHead
  <2>2. \A i \in 1 .. Len(wire') :
          wire'[i] = wire[i + 1] /\ i + 1 \in 1 .. Len(wire) /\ 1 < i + 1
    BY <2>1
  <2>3. /\ rest \in Seq(Packets) /\ \A i \in 1 .. Len(rest) : rest[i] \in reached
        /\ \A i, j \in 1 .. Len(rest) : i < j => InOrder(rest[i], rest[j])
    <3>1. CASE Len(lane) < LaneCapacity
      BY <3>1 DEF AssemblyOK, OrderOK
    <3>2. CASE ~(Len(lane) < LaneCapacity)
      <4>1. lane # <<>>
        BY <3>2, Constants
      <4>2. /\ rest = Tail(lane) /\ Tail(lane) \in Seq(Packets)
            /\ \A i \in 1 .. Len(Tail(lane)) :
                 Tail(lane)[i] = lane[i + 1] /\ i + 1 \in 1 .. Len(lane)
        BY <3>2, <4>1, LaneHead
      <4>3. \A i, j \in 1 .. Len(Tail(lane)) : i < j => i + 1 < j + 1
        OBVIOUS
      <4>. QED
        BY <4>2, <4>3 DEF AssemblyOK, OrderOK
    <3>. QED
      BY <3>1, <3>2
  <2>4. \A q \in reached : InOrder(q, p)
    BY <2>1 DEF OrderOK
  <2>5. ASSUME NEW i \in 1 .. Len(wire'), NEW q \in reached'
        PROVE  InOrder(q, wire'[i].packet)
    BY <2>1, <2>2 DEF OrderOK
  <2>6. ASSUME NEW i \in 1 .. Len(wire'), NEW j \in 1 .. Len(wire'), i < j
        PROVE  InOrder(wire'[i].packet, wire'[j].packet)
    <3>1. i + 1 < j + 1
      BY <2>6
    <3>. QED
      BY <2>2, <3>1 DEF OrderOK
  <2>. HIDE DEF p, rest
  <2>7. /\ Len(lane') = Len(rest) + 1 /\ Len(rest) \in Nat
        /\ \A i \in 1 .. Len(lane') :
             \/ i \in 1 .. Len(rest) /\ lane'[i] = rest[i]
             \/ i = Len(rest) + 1 /\ lane'[i] = p
    BY <2>1, <2>3
  <2>8. ASSUME NEW i \in 1 .. Len(lane'), NEW j \in 1 .. Len(lane'), i < j
        PROVE  InOrder(lane'[i], lane'[j])
    <3>1. i \in 1 .. Len(rest) /\ lane'[i] = rest[i]
      BY <2>7, <2>8
    <3>. QED
      BY <2>3, <2>4, <2>7, <2>8, <3>1
  <2>. QED
    BY <2>5, <2>6, <2>8 DEF OrderOK, InOrder, Manifest
<1>2. CASE \E f \in Files : TakeManifest(f) \/ TakeChunk(f)
  <2>1. lane # <<>> /\ lane' = Tail(lane) /\ UNCHANGED <<wire, reached>>
    BY <1>2 DEF TakeManifest, TakeChunk, Take, transportVars
  <2>2. \A i \in 1 .. Len(lane') : lane'[i] = lane[i + 1] /\ i + 1 \in 1 .. Len(lane)
    BY <2>1, LaneHead
  <2>3. \A i, j \in 1 .. Len(lane') : i < j => i + 1 < j + 1
    BY <2>1, LaneHead
  <2>. QED
    BY <2>1, <2>2, <2>3 DEF OrderOK, InOrder, Manifest
<1>3. CASE Lost
  BY <1>3 DEF Lost, Break, rxVars, OrderOK, InOrder, Manifest
<1>4. CASE Quiet \/ Mark
  <2>1. UNCHANGED <<wire, lane, reached>>
    BY <1>4 DEF Quiet, Mark, ReaderMarks, rxVars
  <2>. QED
    BY <1>k, <2>1
<1>5. ASSUME NEW p \in Packets, MaySend(p), Writes(p) PROVE OrderOK'
  <2>1. /\ wire' = wire \/ wire' = Append(wire, Sealed(p))
        /\ UNCHANGED <<lane, reached>>
    BY <1>5 DEF Writes, rxVars
  <2>2. ASSUME NEW q \in Packets, WasSent(q) PROVE InOrder(q, p)
    <3>. SUFFICES ASSUME q.part > 0, p = Manifest(q.file) PROVE FALSE
      BY DEF InOrder
    <3>1. p.part = 0 /\ p.file = q.file /\ q.part \in Nat
      BY PacketFacts
    <3>2. told[q.file] = "active" /\ nextChunk = 1
      BY <1>5, <3>1 DEF MaySend
    <3>. QED
      BY <2>2, <3>1, <3>2 DEF WasSent
  <2>3. \A q \in reached : InOrder(q, p)
    BY <2>2 DEF SentOK
  <2>4. \A i \in 1 .. Len(wire) : InOrder(wire[i].packet, p)
    BY <1>w, <2>2 DEF SentOK
  <2>5. \A i \in 1 .. Len(wire') :
          \/ i \in 1 .. Len(wire) /\ wire'[i] = wire[i]
          \/ i = Len(wire) + 1 /\ wire'[i].packet = p
    BY <2>1 DEF Sealed
  <2>6. ASSUME NEW i \in 1 .. Len(wire'), NEW j \in 1 .. Len(wire'), i < j
        PROVE  InOrder(wire'[i].packet, wire'[j].packet)
    <3>1. Len(wire') \in {Len(wire), Len(wire) + 1}
      BY <2>1
    <3>2. i \in 1 .. Len(wire) /\ wire'[i] = wire[i]
      BY <2>5, <2>6, <3>1
    <3>. QED
      BY <2>4, <2>5, <2>6, <3>2 DEF OrderOK
  <2>7. ASSUME NEW i \in 1 .. Len(wire'), NEW q \in reached
        PROVE  InOrder(q, wire'[i].packet)
    BY <2>3, <2>5 DEF OrderOK
  <2>. QED
    BY <2>1, <2>6, <2>7 DEF OrderOK, InOrder, Manifest
<1>. QED
  BY <1>1, <1>2, <1>3, <1>4, <1>5, WireMoves

(* Taken, of a packet named before the step. *)
TakenNext(p) ==
  IF p.part = 0 THEN rx'[p.file] # "none"
  ELSE \/ p \in got'[p.file] \/ rx'[p.file] \in {"stored", "unstored", "refused"}
       \/ rx'[p.file] = "missed" /\ \A i \in 1 .. Len(lane') : lane'[i] # Manifest(p.file)

LEMMA LaneStep ==
  ASSUME TypeOK, SealsOK, SentOK, AssemblyOK, OrderOK, LaneOK, [Next]_vars
  PROVE  LaneOK'
<1>. /\ lane \in Seq(Packets) /\ Len(lane) \in Nat /\ lagged \in BOOLEAN /\ reached \subseteq Packets
     /\ \A i \in 1 .. Len(lane) : lane[i] \in Packets /\ lane[i] \in reached
  BY DEF TypeOK, AssemblyOK
<1>k. CASE UNCHANGED <<lane, lagged, reached, rx, got>>
  BY <1>k DEF LaneOK, Taken, Closed, Missing
<1>1. CASE Relay
  <2>. SUFFICES ASSUME ~lagged' PROVE LaneOK'
    BY DEF LaneOK
  <2>. DEFINE p == wire[1].packet
  <2>1. /\ ~lagged /\ lane' = Append(lane, p) /\ reached' = reached \cup {p}
        /\ UNCHANGED <<rx, got>> /\ p \in Packets /\ 1 \in 1 .. Len(wire)
    <3>1. /\ lane' = Append(IF Len(lane) < LaneCapacity THEN lane ELSE Tail(lane), p)
          /\ lagged' = (lagged \/ Len(lane) = LaneCapacity)
          /\ reached' = reached \cup {p} /\ UNCHANGED <<rx, got>>
          /\ p \in Packets /\ 1 \in 1 .. Len(wire)
      BY <1>1, RelayMoves, FreshHead
    <3>2. Len(lane) < LaneCapacity
      <4>1. Len(lane) <= LaneCapacity /\ LaneCapacity \in Nat
        BY Constants DEF TypeOK
      <4>2. Len(lane) # LaneCapacity
        BY <3>1
      <4>3. \A m, n \in Nat : m <= n /\ m # n => m < n
        OBVIOUS
      <4>. QED
        BY <4>1, <4>2, <4>3
    <3>. QED
      BY <3>1, <3>2
  <2>2. /\ p.part > 0 => Manifest(p.file) \in reached
        /\ \A q \in reached : q.part > 0 => p # Manifest(q.file)
    BY <2>1 DEF SentOK, OrderOK, InOrder
  <2>. HIDE DEF p
  <2>3. /\ Len(lane') = Len(lane) + 1 /\ lane'[Len(lane) + 1] = p
        /\ \A i \in 1 .. Len(lane) : lane'[i] = lane[i] /\ i \in 1 .. Len(lane')
        /\ Len(lane) + 1 \in 1 .. Len(lane')
        /\ \A i \in 1 .. Len(lane') : i \in 1 .. Len(lane) \/ i = Len(lane) + 1
    BY <2>1
  <2>4. ASSUME NEW q \in reached'
        PROVE  Taken(q)' \/ \E i \in 1 .. Len(lane') : lane'[i] = q
    <3>1. ASSUME q \in reached, Taken(q) PROVE Taken(q)'
      <4>1. CASE q.part = 0
        BY <2>1, <3>1, <4>1 DEF Taken
      <4>2. CASE q.part # 0
        <5>1. q.part > 0
          BY <3>1, <4>2, PacketFacts
        <5>2. p # Manifest(q.file)
          BY <2>2, <3>1, <5>1
        <5>3. Missing(q.file) => Missing(q.file)'
          <6>. SUFFICES ASSUME Missing(q.file) PROVE Missing(q.file)'
            OBVIOUS
          <6>1. \A i \in 1 .. Len(lane') : lane'[i] # Manifest(q.file)
            BY <2>3, <5>2 DEF Missing
          <6>. QED
            BY <2>1, <6>1 DEF Missing
        <5>. QED
          BY <2>1, <3>1, <4>2, <5>3 DEF Taken, Closed
      <4>. QED
        BY <4>1, <4>2
    <3>2. q = p => \E i \in 1 .. Len(lane') : lane'[i] = q
      BY <2>3
    <3>3. q \in reached => Taken(q) \/ \E i \in 1 .. Len(lane) : lane[i] = q
      BY <2>1 DEF LaneOK
    <3>. QED
      BY <2>1, <2>3, <3>1, <3>2, <3>3
  <2>5. ASSUME NEW i \in 1 .. Len(lane'), lane'[i].part > 0
        PROVE  \/ rx'[lane'[i].file] # "none"
               \/ \E j \in 1 .. (i - 1) : lane'[j] = Manifest(lane'[i].file)
    <3>1. CASE i \in 1 .. Len(lane)
      <4>1. \A j \in 1 .. (i - 1) : j \in 1 .. Len(lane)
        BY <3>1
      <4>. QED
        BY <2>1, <2>3, <2>5, <3>1, <4>1 DEF LaneOK
    <3>2. CASE i = Len(lane) + 1
      <4>1. p.part > 0 /\ Manifest(p.file) \in reached /\ p.file \in Files
        BY <2>1, <2>2, <2>3, <2>5, <3>2, PacketFacts
      <4>2. Taken(Manifest(p.file)) \/ \E j \in 1 .. Len(lane) : lane[j] = Manifest(p.file)
        BY <2>1, <4>1 DEF LaneOK
      <4>3. Taken(Manifest(p.file)) => rx[p.file] # "none"
        BY <4>1, PacketFacts DEF Taken
      <4>4. i - 1 = Len(lane)
        BY <3>2
      <4>. QED
        BY <2>1, <2>3, <3>2, <4>2, <4>3, <4>4
    <3>. QED
      BY <2>3, <3>1, <3>2
  <2>. QED
    BY <2>4, <2>5 DEF LaneOK
<1>2. ASSUME NEW f \in Files, TakeManifest(f) \/ TakeChunk(f) PROVE LaneOK'
  <2>. DEFINE h == Head(lane)
  <2>0. /\ lane # <<>> /\ lane' = Tail(lane) /\ UNCHANGED <<lagged, reached>> /\ h.file = f
    BY <1>2, TakeMoves DEF Take
  <2>. SUFFICES ASSUME ~lagged PROVE LaneOK'
    BY <2>0 DEF LaneOK
  <2>1. /\ h = lane[1] /\ 1 \in 1 .. Len(lane) /\ h \in Packets /\ Len(lane') = Len(lane) - 1
        /\ \A i \in 1 .. Len(lane') : lane'[i] = lane[i + 1] /\ i + 1 \in 1 .. Len(lane)
    BY <2>0, LaneHead
  <2>2. h.part > 0 => rx[f] # "none"
    <3>1. \A j \in 1 .. (1 - 1) : FALSE
      OBVIOUS
    <3>. QED
      BY <2>0, <2>1, <3>1 DEF LaneOK
  <2>n. h.part = 0 \/ h.part > 0
    BY <2>1, PacketFacts
  <2>m. /\ \A g \in Files \ {f} : rx'[g] = rx[g] /\ got'[g] = got[g]
        /\ \/ /\ UNCHANGED <<rx, got>>
              /\ IF h.part = 0 THEN rx[f] # "none" ELSE rx[f] # "receiving"
           \/ Closed(f)' /\ (rx[f] # "receiving" => h.part = 0)
           \/ /\ h.part = 0 /\ rx[f] \in {"none", "missed"} /\ rx'[f] \in {"missed", "receiving"}
              /\ UNCHANGED got
           \/ /\ rx[f] = "receiving" /\ h.part > 0 /\ got'[f] = got[f] \cup {h} /\ UNCHANGED rx
    BY <1>2, TakeMoves
  <2>3. \A g \in Files : /\ rx[g] # "none" => rx'[g] # "none"
                         /\ got[g] \subseteq got'[g] \/ Closed(g)'
                         /\ Closed(g) => Closed(g)'
                         /\ h.part > 0 /\ rx[g] = "missed" => rx'[g] = "missed"
    <3>. TAKE g \in Files
    <3>1. CASE g # f
      BY <2>m, <3>1 DEF Closed
    <3>2. CASE g = f
      BY <2>m, <3>2 DEF Closed
    <3>. QED
      BY <3>1, <3>2
  <2>4. \A q \in Packets : Taken(q) => TakenNext(q)
    <3>. TAKE q \in Packets
    <3>. q.file \in Files
      BY PacketFacts
    <3>1. ASSUME Missing(q.file)
          PROVE  /\ rx'[q.file] = "missed"
                 /\ \A i \in 1 .. Len(lane') : lane'[i] # Manifest(q.file)
      <4>1. rx[q.file] = "missed" /\ \A i \in 1 .. Len(lane) : lane[i] # Manifest(q.file)
        BY <3>1 DEF Missing
      <4>2. \A i \in 1 .. Len(lane') : lane'[i] # Manifest(q.file)
        BY <2>1, <4>1
      <4>3. q.file = f => h.part > 0
        BY <2>0, <2>1, <2>n, <4>1, PacketFacts
      <4>4. rx'[q.file] = "missed"
        BY <2>3, <2>m, <4>1, <4>3
      <4>. QED
        BY <4>2, <4>4
    <3>. QED
      BY <2>3, <3>1 DEF Taken, TakenNext, Closed
  <2>5. TakenNext(h)
    <3>1. CASE h.part = 0
      BY <2>0, <2>m, <3>1 DEF TakenNext, Closed
    <3>2. CASE h.part > 0
      <4>1. h.part # 0
        BY <2>1, <3>2, PacketFacts
      <4>2. rx[f] \in {"none", "missed", "receiving", "stored", "unstored", "refused"}
        BY DEF TypeOK
      <4>3. \/ h \in got'[f] \/ Closed(f)'
            \/ rx[f] = "missed" /\ rx'[f] = "missed"
        BY <2>2, <2>m, <3>2, <4>1, <4>2 DEF Closed
      <4>4. \A i \in 1 .. Len(lane') : lane'[i] # Manifest(f)
        <5>. TAKE i \in 1 .. Len(lane')
        <5>1. lane'[i] = lane[i + 1] /\ i + 1 \in 1 .. Len(lane) /\ 1 < i + 1
          BY <2>1
        <5>. QED
          BY <2>0, <2>1, <3>2, <5>1 DEF OrderOK, InOrder
      <4>. QED
        BY <2>0, <4>1, <4>3, <4>4 DEF TakenNext, Closed
    <3>. QED
      BY <2>n, <3>1, <3>2
  <2>6. h.part = 0 => rx'[f] # "none"
    BY <2>m DEF Closed
  <2>. HIDE DEF h
  <2>7. ASSUME NEW q \in reached
        PROVE  TakenNext(q) \/ \E i \in 1 .. Len(lane') : lane'[i] = q
    <3>1. CASE Taken(q)
      BY <2>4, <3>1
    <3>2. ASSUME NEW i \in 1 .. Len(lane), lane[i] = q
          PROVE  TakenNext(q) \/ \E j \in 1 .. Len(lane') : lane'[j] = q
      <4>1. CASE i = 1
        BY <2>1, <2>5, <3>2, <4>1
      <4>2. CASE i # 1
        <5>1. i - 1 \in 1 .. Len(lane') /\ (i - 1) + 1 = i
          BY <2>1, <4>2
        <5>2. lane'[i - 1] = q
          BY <2>1, <3>2, <5>1
        <5>. QED
          BY <5>1, <5>2
      <4>. QED
        BY <4>1, <4>2
    <3>. QED
      BY <3>1, <3>2 DEF LaneOK
  <2>8. ASSUME NEW i \in 1 .. Len(lane'), lane'[i].part > 0
        PROVE  \/ rx'[lane'[i].file] # "none"
               \/ \E j \in 1 .. (i - 1) : lane'[j] = Manifest(lane'[i].file)
    <3>. DEFINE g == lane'[i].file
    <3>1. lane'[i] = lane[i + 1] /\ i + 1 \in 1 .. Len(lane) /\ (i + 1) - 1 = i /\ g \in Files
      BY <2>1, PacketFacts
    <3>2. rx[g] # "none" \/ \E j \in 1 .. i : lane[j] = Manifest(g)
      BY <2>8, <3>1 DEF LaneOK
    <3>3. CASE rx[g] # "none"
      BY <2>3, <3>1, <3>3
    <3>4. ASSUME NEW j \in 1 .. i, lane[j] = Manifest(g)
          PROVE  rx'[g] # "none" \/ \E k \in 1 .. (i - 1) : lane'[k] = Manifest(g)
      <4>1. CASE j = 1
        <5>1. h.file = g /\ h.part = 0
          BY <2>1, <3>1, <3>4, <4>1, PacketFacts
        <5>. QED
          BY <2>0, <2>6, <5>1
      <4>2. CASE j # 1
        <5>1. j - 1 \in 1 .. (i - 1) /\ j - 1 \in 1 .. Len(lane') /\ (j - 1) + 1 = j
          BY <4>2
        <5>2. lane'[j - 1] = Manifest(g)
          BY <2>1, <3>4, <5>1
        <5>. QED
          BY <5>1, <5>2
      <4>. QED
        BY <4>1, <4>2
    <3>. QED
      BY <3>2, <3>3, <3>4
  <2>. QED
    BY <2>0, <2>7, <2>8 DEF LaneOK, TakenNext, Taken, Closed, Missing
<1>3. UNCHANGED <<lane, lagged, reached>> \/ Relay \/ \E f \in Files : TakeManifest(f) \/ TakeChunk(f)
  BY LaneMoves
<1>. QED
  BY <1>k, <1>1, <1>2, <1>3, ReceiverStays

-----------------------------------------------------------------------------
LEMMA InitInv == Init => Inv
<1>. SUFFICES ASSUME Init PROVE Inv
  OBVIOUS
<1>. USE DEF Init
<1>c. /\ Files # {} /\ (CHOOSE f \in Files : TRUE) \in Files
      /\ WindowSize \in Nat \ {0} /\ MaxAttempts \in Nat \ {0} /\ LaneCapacity \in Nat \ {0}
      /\ \A f \in Files : Size[f] \in Nat /\ f \in Nat /\ f > 0
  BY Constants
<1>1. TypeOK
  <2>1. preparing \subseteq [file : Files, state : {"running", "ready", "error"}]
        /\ Cardinality(preparing) <= 1
    BY NoneOrOne
  <2>2. TransportTypeOK
    BY DEF TransportInit, TransportTypeOK
  <2>3. /\ pending \in Seq(Files) /\ inFlight \in Seq(InFlightChunk) /\ Len(inFlight) = 0
        /\ lane \in Seq(Packets) /\ Len(lane) = 0
    OBVIOUS
  <2>4. /\ told \in [Files -> {"none", "active", "done", "failed"}]
        /\ rx \in [Files -> {"none", "missed", "receiving", "stored", "unstored", "refused"}]
        /\ got \in [Files -> SUBSET Packets] /\ \A f \in Files : got[f] \subseteq Chunks(f)
        /\ stores \in [Files -> Nat]
    OBVIOUS
  <2>5. /\ file \in Files /\ idx \in 1 .. WindowSize + 1 /\ metaSent \in 0 .. MaxAttempts
        /\ nextChunk \in 1 .. Size[file] + 1 /\ ackedChunks \in 0 .. Size[file]
        /\ Len(inFlight) <= WindowSize /\ Len(lane) <= LaneCapacity
    BY <1>c, <2>3
  <2>. QED
    BY <2>1, <2>2, <2>3, <2>4, <2>5 DEF TypeOK
<1>2. QueueOK
  BY DEF QueueOK, Begun
<1>3. JobOK
  BY DEF JobOK
<1>4. FlightOK
  BY DEF FlightOK
<1>5. SealsOK /\ SentOK
  BY DEF SealsOK, SentOK, TransportInit
<1>6. AssemblyOK /\ OrderOK /\ LaneOK
  <2>1. \A f \in Files : rx[f] = "none" /\ got[f] = {} /\ stores[f] = 0
    OBVIOUS
  <2>. QED
    BY <2>1 DEF AssemblyOK, OrderOK, LaneOK, Closed, TransportInit
<1>. QED
  BY <1>1, <1>2, <1>3, <1>4, <1>5, <1>6 DEF Inv

LEMMA InvStep == Inv /\ [Next]_vars => Inv'
BY TypeStep, QueueStep, JobStep, FlightStep, SealsStep, SentStep, AssemblyStep, OrderStep,
   LaneStep DEF Inv

(* In every behaviour of the uploads the invariant holds: the queue, the   *)
(* job under way, its window, the lines and what the receiver has fit      *)
(* together, whatever is lost, late or repeated.                           *)
THEOREM UploadInvariance == Spec => []Inv
BY InitInv, InvStep, PTL DEF Spec

(* The state keeps its types: among them that no packet is sent more often *)
(* than PACKET_RETRY_LIMIT allows, that the window and the lane hold no    *)
(* more than their capacity, and that the counts stay within the file.     *)
THEOREM UploadTypeCorrect == Spec => []TypeOK
<1>1. Inv => TypeOK
  BY DEF Inv
<1>. QED
  BY <1>1, UploadInvariance, PTL

(* process_attachment_window counts right: every chunk sent is in the      *)
(* window once or acknowledged once, and those acknowledged did reach the  *)
(* server.                                                                 *)
THEOREM WindowCounts == Spec => []WindowAccounts
<1>1. Inv => WindowAccounts
  <2>. SUFFICES ASSUME Inv PROVE WindowAccounts
    OBVIOUS
  <2>. DEFINE n == Len(inFlight)
              flying == {inFlight[i].chunk : i \in DOMAIN inFlight}
              chunk == [i \in 1 .. n |-> inFlight[i].chunk]
  <2>1. /\ n \in Nat /\ DOMAIN inFlight = 1 .. n /\ file \in Files
        /\ nextChunk \in 1 .. Size[file] + 1 /\ Size[file] \in Nat
        /\ \A i \in 1 .. n : inFlight[i].chunk \in Packets
    BY Constants, InFlightFields DEF Inv, TypeOK
  <2>2. \A i \in 1 .. n : inFlight[i].chunk.file = file
    BY DEF Inv, FlightOK
  <2>3. Cardinality(flying) = n
    <3>1. \A i, j \in 1 .. n : chunk[i] = chunk[j] => i = j
      <4>. SUFFICES ASSUME NEW i \in 1 .. n, NEW j \in 1 .. n, i # j
                    PROVE  inFlight[i].chunk # inFlight[j].chunk
        OBVIOUS
      <4>1. /\ i < j => inFlight[i].chunk.part < inFlight[j].chunk.part
            /\ j < i => inFlight[j].chunk.part < inFlight[i].chunk.part
        BY DEF Inv, FlightOK
      <4>2. inFlight[i].chunk.part \in Nat /\ inFlight[j].chunk.part \in Nat
        BY <2>1, PacketFacts
      <4>. QED
        BY <2>1, <4>1, <4>2
    <3>2. chunk \in Bijection(1 .. n, flying)
      BY <2>1, <3>1 DEF Bijection, Injection, IsInjective, Surjection
    <3>3. ExistsBijection(1 .. n, flying)
      BY <3>2 DEF ExistsBijection
    <3>. HIDE DEF n, flying
    <3>. QED
      BY <2>1, <3>3, FS_CountingElements
  <2>4. ackedChunks + n = nextChunk - 1
    BY DEF Inv, FlightOK
  <2>5. ASSUME NEW i \in 1 .. (nextChunk - 1)
        PROVE  Packet(file, i) \in flying \cup reached
    <3>1. \/ Packet(file, i) \in reached
          \/ \E j \in 1 .. n : inFlight[j].chunk.part = i
      BY DEF Inv, FlightOK
    <3>2. ASSUME NEW j \in 1 .. n, inFlight[j].chunk.part = i
          PROVE  Packet(file, i) \in flying
      <4>1. inFlight[j].chunk = Packet(file, i)
        BY <2>1, <2>2, <3>2, PacketFacts
      <4>. QED
        BY <2>1, <4>1
    <3>. QED
      BY <3>1, <3>2
  <2>. QED
    BY <2>3, <2>4, <2>5 DEF WindowAccounts
<1>. QED
  BY <1>1, UploadInvariance, PTL

(* A chunk never comes before its manifest, unless the receiver lost       *)
(* something: append_encrypted_chunk finds the assembly that               *)
(* register_attachment made, or the manifest came and was not opened.      *)
THEOREM ManifestLeads == Spec => []ManifestFirst
<1>1. Inv => ManifestFirst
  <2>. SUFFICES ASSUME Inv, ~lagged, lane # <<>>, Head(lane).part > 0
                PROVE  rx[Head(lane).file] # "none"
    BY DEF ManifestFirst
  <2>1. Head(lane) = lane[1] /\ 1 \in 1 .. Len(lane)
    BY LaneHead DEF Inv
  <2>2. \A j \in 1 .. (1 - 1) : FALSE
    OBVIOUS
  <2>. QED
    BY <2>1, <2>2 DEF Inv, LaneOK
<1>. QED
  BY <1>1, UploadInvariance, PTL

(* "done" is true of the server: it got the whole file.  A receiver that   *)
(* lost nothing has come to an end with it: it has the file unless the     *)
(* store failed, it refused the file exactly if that was changed, or it    *)
(* could not open a manifest of it and has nothing at all.                 *)
THEOREM DoneMeansDelivered == Spec => []DoneIsDelivered
<1>1. Inv => DoneIsDelivered
  <2>. SUFFICES ASSUME Inv, NEW f \in Files, told[f] = "done"
                PROVE  /\ {Manifest(f)} \cup Chunks(f) \subseteq reached
                       /\ ~lagged /\ lane = <<>> =>
                            \/ rx[f] = "missed"
                            \/ rx[f] = "refused" /\ f \in torn
                            \/ rx[f] \in {"stored", "unstored"} /\ f \notin torn
    BY DEF DoneIsDelivered
  <2>1. {Manifest(f)} \cup Chunks(f) \subseteq reached
    BY DEF Inv, SentOK
  <2>2. ASSUME ~lagged, lane = <<>>, rx[f] # "missed"
        PROVE  \/ rx[f] = "refused" /\ f \in torn
               \/ rx[f] \in {"stored", "unstored"} /\ f \notin torn
    <3>1. \A p \in reached : Taken(p)
      <4>1. \A i \in 1 .. Len(lane) : FALSE
        BY <2>2
      <4>. QED
        BY <2>2, <4>1 DEF Inv, LaneOK
    <3>2. rx[f] # "none"
      BY <2>1, <3>1, PacketFacts DEF Taken
    <3>3. Closed(f)
      <4>. SUFFICES ASSUME ~Closed(f) PROVE FALSE
        OBVIOUS
      <4>1. rx[f] = "receiving"
        BY <2>2, <3>2 DEF Inv, TypeOK, Closed
      <4>2. \A c \in Chunks(f) : c \in Packets /\ c.file = f /\ c.part # 0
        BY PacketFacts
      <4>3. Chunks(f) \subseteq got[f]
        BY <2>1, <2>2, <3>1, <4>2 DEF Taken, Missing
      <4>. QED
        BY <4>1, <4>3 DEF Inv, AssemblyOK, TypeOK
    <3>. QED
      BY <3>3 DEF Inv, AssemblyOK, Closed
  <2>. QED
    BY <2>1, <2>2
<1>. QED
  BY <1>1, UploadInvariance, PTL

(* finalize_attachment stores a file once at most, however its packets are *)
(* repeated, and only what was hashed; and no assembly outlives it.        *)
THEOREM StoredAtMostOnce == Spec => []StoredOnce
<1>1. Inv => StoredOnce
  BY DEF Inv, AssemblyOK, StoredOnce, Closed
<1>. QED
  BY <1>1, UploadInvariance, PTL
=============================================================================
