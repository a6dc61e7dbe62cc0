------------------------------ MODULE Uploads -------------------------------
(***************************************************************************)
(* The attachments of one client: the queue of its network task, the       *)
(* preparation of the next upload and the upload under way                 *)
(* (src/attachments/sender.rs), over the transport and the low lane of the *)
(* room to one receiver (src/attachments/receiver.rs).                     *)
(*                                                                         *)
(* A manifest is sent first and must be acknowledged; then the chunks go,  *)
(* a few at a time.  Unlike a text, a packet that is sent again is sealed  *)
(* anew: the server takes it for a new one.                                *)
(***************************************************************************)
EXTENDS Transport

CONSTANTS
  Files,        \* 1, 2, ...: the files in the order the user sends them
  OnDisk,       \* those sent by their path; the others are in memory
  Size,         \* file -> number of its chunks
  WindowSize,   \* ATTACHMENT_WINDOW_SIZE
  MaxAttempts,  \* PACKET_RETRY_LIMIT + 1
  LaneCapacity  \* broadcast::channel(500)

(* Part 0 is the manifest. *)
Packet(f, i) == [file |-> f, part |-> i]
Manifest(f) == Packet(f, 0)
Chunks(f) == {Packet(f, i) : i \in 1 .. Size[f]}

ASSUME UploadsAssumption ==
  /\ Files \subseteq Nat \ {0} /\ Files # {} /\ OnDisk \subseteq Files
  /\ Size \in [Files -> Nat]
  /\ WindowSize \in Nat \ {0} /\ MaxAttempts \in Nat \ {0}
  /\ LaneCapacity \in Nat \ {0}
  /\ Packets = UNION {{Packet(f, i) : i \in 0 .. Size[f]} : f \in Files}

VARIABLES
  asked,      \* the number of files the user sent so far
  pending,    \* pending_uploads
  preparing,  \* preparing_upload: running, ready or error
  file,       \* active_upload: its file,
  stage,      \*   none, meta or window,
  pump,       \*   what process_attachment_window does: scan or fill,
  idx,        \*   the place of the scan in the window,
  metaSent,   \*   meta_attempts,
  inFlight,   \*   in_flight, in the order of the vector,
  nextChunk,  \*   next_chunk_index, from 1, and
  ackedChunks,
  late,       \* the packets whose last write is PACKET_ACK_TIMEOUT_MS ago
  told,       \* file -> what the sender is shown: none, active, done or failed
  torn,       \* the files whose size, hash and chunks do not go together
  lane,       \* what the receiver has not yet got from the low lane
  lagged,     \* history: whether it lost something there
  reached,    \* history: the packets that reached the server
  rx,         \* file -> the receiver: none, missed (as none, but a manifest
              \* came and could not be opened), receiving, stored, unstored
              \* or refused
  got,        \* file -> the chunks under assembly
  stores      \* history: file -> how often it was stored

queueVars == <<asked, pending, preparing, told>>
windowVars == <<pump, idx, metaSent, inFlight, nextChunk, ackedChunks, late>>
jobVars == <<file, stage, windowVars>>
rxVars == <<lane, lagged, reached, rx, got, stores>>
vars == <<transportVars, queueVars, jobVars, torn, rxVars>>

InFlightChunk == [chunk : Packets, attempts : 1 .. MaxAttempts]

TypeOK ==
  /\ TransportTypeOK
  /\ asked \in Files \cup {0}
  /\ pending \in Seq(Files)
  /\ preparing \subseteq [file : Files, state : {"running", "ready", "error"}]
  /\ Cardinality(preparing) <= 1
  /\ file \in Files
  /\ stage \in {"none", "meta", "window"}
  /\ pump \in {"scan", "fill"}
  /\ idx \in 1 .. WindowSize + 1
  /\ metaSent \in 0 .. MaxAttempts
  /\ inFlight \in Seq(InFlightChunk) /\ Len(inFlight) <= WindowSize
  /\ nextChunk \in 1 .. Size[file] + 1
  /\ ackedChunks \in 0 .. Size[file]
  /\ late \subseteq Packets
  /\ told \in [Files -> {"none", "active", "done", "failed"}]
  /\ torn \subseteq OnDisk
  /\ lane \in Seq(Packets) /\ Len(lane) <= LaneCapacity
  /\ lagged \in BOOLEAN
  /\ reached \subseteq Packets
  /\ rx \in [Files -> {"none", "missed", "receiving", "stored", "unstored", "refused"}]
  /\ got \in [Files -> SUBSET Packets]
  /\ \A f \in Files : got[f] \subseteq Chunks(f)
  /\ stores \in [Files -> Nat]

Init ==
  /\ TransportInit
  /\ asked = 0
  /\ pending = <<>>
  /\ preparing = {}
  /\ file = CHOOSE f \in Files : TRUE
  /\ stage = "none"
  /\ pump = "scan"
  /\ idx = 1
  /\ metaSent = 0
  /\ inFlight = <<>>
  /\ nextChunk = 1
  /\ ackedChunks = 0
  /\ late = {}
  /\ told = [f \in Files |-> "none"]
  /\ torn = {}
  /\ lane = <<>>
  /\ lagged = FALSE
  /\ reached = {}
  /\ rx = [f \in Files |-> "none"]
  /\ got = [f \in Files |-> {}]
  /\ stores = [f \in Files |-> 0]

-----------------------------------------------------------------------------
(* The queue.  Between two calls of the pump the network task takes what   *)
(* the user enters.                                                        *)

Resting == stage = "window" => pump = "scan" /\ idx = 1

(* handle_outgoing_input *)
Ask ==
  /\ Resting
  /\ asked + 1 \in Files
  /\ asked' = asked + 1
  /\ pending' = Append(pending, asked + 1)
  /\ UNCHANGED <<transportVars, preparing, told, jobVars, torn, rxVars>>

(* TransferUiState::apply, and the notice of a preparation that failed. *)
Told(f, what) == told' = [told EXCEPT ![f] = what]

(* The next of the queue is prepared by a task of its own. *)
Spawned ==
  IF pending = <<>> THEN preparing' = {} /\ UNCHANGED pending
  ELSE /\ preparing' = {[file |-> Head(pending), state |-> "running"]}
       /\ pending' = Tail(pending)

(* pump_attachment_upload without an upload under way: the prepared one    *)
(* begins, and the preparation of the next, too.                           *)
PumpQueue ==
  /\ stage = "none"
  /\ \A p \in preparing : p.state = "ready"
  /\ preparing # {} \/ pending # <<>>
  /\ Spawned
  /\ IF preparing = {} THEN UNCHANGED <<file, stage, told>>
     ELSE stage' = "meta" /\ \E p \in preparing : file' = p.file /\ Told(p.file, "active")
  /\ UNCHANGED <<transportVars, asked, windowVars, torn, rxVars>>

(* A preparation that failed is only reported; the queue goes on at the    *)
(* next tick.                                                              *)
PumpError ==
  /\ stage = "none"
  /\ \E p \in preparing : p.state = "error" /\ Told(p.file, "failed")
  /\ preparing' = {}
  /\ UNCHANGED <<transportVars, asked, pending, jobVars, torn, rxVars>>

(* Somebody may change a file on disk from one look at it to the next, or  *)
(* a read of it comes back short.                                          *)
MayChange(f) == torn' \in {torn, torn \cup ({f} \cap OnDisk)}

(* initialize_attachment_job: the file is measured, then hashed and opened *)
(* (even an empty one may have grown in between), or cannot be.  What is   *)
(* in memory is always ready.                                              *)
Prepare ==
  /\ \E p \in preparing :
       /\ p.state = "running"
       /\ \/ /\ preparing' = {[p EXCEPT !.state = "ready"]}
             /\ MayChange(p.file)
          \/ /\ p.file \in OnDisk
             /\ preparing' = {[p EXCEPT !.state = "error"]}
             /\ UNCHANGED torn
  /\ UNCHANGED <<transportVars, asked, pending, told, jobVars, rxVars>>

(* send_transport_payload_now: sealed anew each time. *)
SendNow(p) == /\ Written(Sealed(p))
              /\ sealed' = sealed + 1
              /\ late' = late \ {p}
              /\ UNCHANGED <<up, nextRecv, recent, acks, acked>>

(* The upload is over, and the fields of its job are gone.  The sender's   *)
(* own copy of a file that is done may fail to be stored: that is only a   *)
(* notice (emit_local_attachment_echo).                                    *)
Over(result) ==
  /\ stage' = "none"
  /\ Told(file, result)
  /\ pump' = "scan" /\ idx' = 1
  /\ metaSent' = 0
  /\ inFlight' = <<>>
  /\ nextChunk' = 1 /\ ackedChunks' = 0
  /\ late' = {}
  /\ UNCHANGED <<asked, pending, preparing, file>>

-----------------------------------------------------------------------------
(* process_attachment_meta. *)

(* Mutant of MetaAcked: the chunks do not wait for the manifest. *)
MetaAckedUnsent ==
  /\ stage = "meta"
  /\ Finish({Manifest(file)})
  /\ IF Size[file] = 0 THEN Over("done")
     ELSE stage' = "window" /\ UNCHANGED <<queueVars, file, windowVars>>
  /\ UNCHANGED <<up, sealed, wire, nextRecv, recent, acks, torn, rxVars>>

(* An empty file is done with its manifest. *)
MetaAcked ==
  /\ stage = "meta"
  /\ Manifest(file) \in acked
  /\ Finish({Manifest(file)})
  /\ IF Size[file] = 0 THEN Over("done")
     ELSE stage' = "window" /\ UNCHANGED <<queueVars, file, windowVars>>
  /\ UNCHANGED <<up, sealed, wire, nextRecv, recent, acks, torn, rxVars>>

MetaSend ==
  /\ stage = "meta"
  /\ Manifest(file) \notin acked
  /\ metaSent = 0 \/ Manifest(file) \in late
  /\ metaSent < MaxAttempts
  /\ SendNow(Manifest(file))
  /\ metaSent' = metaSent + 1
  /\ UNCHANGED <<queueVars, file, stage, pump, idx, inFlight, nextChunk,
                 ackedChunks, torn, rxVars>>

(* No ACK in time, no chain to encrypt the manifest with, or a failed      *)
(* write.                                                                  *)
MetaFails ==
  /\ stage = "meta"
  /\ Manifest(file) \notin acked
  /\ \/ metaSent = MaxAttempts /\ Manifest(file) \in late
     \/ metaSent = 0
     \/ ~up /\ metaSent < MaxAttempts /\ Manifest(file) \in late
  /\ Over("failed")
  /\ Finish({Manifest(file)})
  /\ UNCHANGED <<up, sealed, wire, nextRecv, recent, acks, torn, rxVars>>

-----------------------------------------------------------------------------
(* process_attachment_window: one scan of the window, then a refill. *)

Current == inFlight[idx]
Scanning == stage = "window" /\ pump = "scan" /\ idx <= Len(inFlight)
Filling == stage = "window" /\ (pump = "scan" => idx > Len(inFlight))

(* Mutant of ScanAcked: the chunk stays in the window. *)
ScanAckedKeeping ==
  /\ Scanning
  /\ Current.chunk \in acked
  /\ Finish({Current.chunk})
  /\ ackedChunks' = ackedChunks + 1
  /\ idx' = idx + 1
  /\ UNCHANGED <<up, sealed, wire, nextRecv, recent, acks, queueVars, file, stage,
                 pump, metaSent, inFlight, nextChunk, late, torn, rxVars>>

ScanAcked ==
  /\ Scanning
  /\ Current.chunk \in acked
  /\ Finish({Current.chunk})
  /\ ackedChunks' = ackedChunks + 1
  /\ inFlight' = RemoveAt(inFlight, idx)
  /\ UNCHANGED <<up, sealed, wire, nextRecv, recent, acks, queueVars, file, stage,
                 pump, idx, metaSent, nextChunk, late, torn, rxVars>>

(* A scan that would find nothing to do is left out: it changes nothing,   *)
(* and the window was filled after the one before.                         *)
ScanPasses ==
  /\ Scanning
  /\ Current.chunk \notin acked \cup late
  /\ idx = 1 => \E i \in DOMAIN inFlight : inFlight[i].chunk \in acked \cup late
  /\ idx' = idx + 1
  /\ UNCHANGED <<transportVars, queueVars, file, stage, pump, metaSent, inFlight,
                 nextChunk, ackedChunks, late, torn, rxVars>>

(* Mutant of ScanResends: one attempt too many. *)
ScanResendsOnceMore ==
  /\ Scanning
  /\ Current.chunk \in late \ acked
  /\ Current.attempts <= MaxAttempts
  /\ SendNow(Current.chunk)
  /\ inFlight' = [inFlight EXCEPT ![idx].attempts = @ + 1]
  /\ idx' = idx + 1
  /\ UNCHANGED <<queueVars, file, stage, pump, metaSent, nextChunk, ackedChunks,
                 torn, rxVars>>

ScanResends ==
  /\ Scanning
  /\ Current.chunk \in late \ acked
  /\ Current.attempts < MaxAttempts
  /\ SendNow(Current.chunk)
  /\ inFlight' = [inFlight EXCEPT ![idx].attempts = @ + 1]
  /\ idx' = idx + 1
  /\ UNCHANGED <<queueVars, file, stage, pump, metaSent, nextChunk, ackedChunks,
                 torn, rxVars>>

(* cleanup_attachment_window, and the job is dropped. *)
UploadFails ==
  /\ Over("failed")
  /\ Finish({inFlight[i].chunk : i \in DOMAIN inFlight})
  /\ UNCHANGED <<up, sealed, wire, nextRecv, recent, acks, torn, rxVars>>

(* Mutant of ScanFails: no chunk is ever given up. *)
ScanFailsNever == FALSE /\ UploadFails

(* A chunk was sent often enough, or its write fails. *)
ScanFails ==
  /\ Scanning
  /\ Current.chunk \in late \ acked
  /\ Current.attempts = MaxAttempts \/ ~up
  /\ UploadFails

Room == Len(inFlight) < WindowSize /\ nextChunk <= Size[file]

(* AttachmentSource::read_chunk *)
ReadChunk == MayChange(file)

(* The next chunk is read and sent. *)
FillSends ==
  /\ Filling /\ Room
  /\ pump' = "fill"
  /\ LET chunk == Packet(file, nextChunk)
     IN /\ SendNow(chunk)
        /\ inFlight' = Append(inFlight, [chunk |-> chunk, attempts |-> 1])
  /\ ReadChunk
  /\ nextChunk' = nextChunk + 1
  /\ UNCHANGED <<queueVars, file, stage, idx, metaSent, ackedChunks, rxVars>>

(* The file ended early or could not be read, or the write fails. *)
FillFails == Filling /\ Room /\ (file \in OnDisk \/ ~up) /\ UploadFails

(* Mutant of Complete: it is enough to have sent everything. *)
CompleteWhenSent == nextChunk > Size[file]

Complete ==
  ackedChunks >= Size[file] /\ nextChunk > Size[file] /\ inFlight = <<>>

(* The window is full or the file is out: the upload is done, or it goes   *)
(* on at the next tick.                                                    *)
FillEnds ==
  /\ Filling /\ ~Room
  /\ \/ Complete /\ Over("done")
     \/ /\ ~Complete
        /\ pump' = "scan" /\ idx' = 1
        /\ UNCHANGED <<queueVars, file, stage, metaSent, inFlight, nextChunk,
                       ackedChunks, late>>
  /\ UNCHANGED <<transportVars, torn, rxVars>>

(* PACKET_ACK_TIMEOUT_MS went by since the last write of a packet.  The    *)
(* scan looks at the time of each packet once, so that it is enough to let *)
(* time go by before a scan.                                               *)
Unconfirmed == (IF stage = "meta" /\ metaSent > 0 THEN {Manifest(file)} ELSE {})
                 \cup {inFlight[i].chunk : i \in DOMAIN inFlight}

Elapse(p) ==
  /\ stage # "none" /\ pump = "scan" /\ idx = 1
  /\ p \in Unconfirmed \ late
  /\ late' = late \cup {p}
  /\ UNCHANGED <<transportVars, queueVars, file, stage, pump, idx, metaSent,
                 inFlight, nextChunk, ackedChunks, torn, rxVars>>

-----------------------------------------------------------------------------
(* The server passes a fresh packet on to the low lane of the room; a      *)
(* receiver that is too far behind loses the oldest.                       *)
Relay ==
  /\ ServerReads
  /\ IF ~PassesOn THEN UNCHANGED <<lane, lagged, reached>>
     ELSE /\ lane' = Append(IF Len(lane) < LaneCapacity THEN lane ELSE Tail(lane),
                            Head(wire).packet)
          /\ lagged' = (lagged \/ Len(lane) = LaneCapacity)
          /\ reached' = reached \cup {Head(wire).packet}
  /\ UNCHANGED <<queueVars, jobVars, torn, rx, got, stores>>

Mark == ReaderMarks(Unconfirmed) /\ UNCHANGED <<queueVars, jobVars, torn, rxVars>>

Lost == Break /\ UNCHANGED <<queueVars, jobVars, torn, rxVars>>

-----------------------------------------------------------------------------
(* The receiver. *)

Take == lane # <<>> /\ lane' = Tail(lane)
           /\ UNCHANGED <<transportVars, queueVars, jobVars, torn, lagged, reached>>

Becomes(f, to) == rx' = [rx EXCEPT ![f] = to]

(* Mutant of Finalize: the checksum is not looked at. *)
FinalizeUnchecked(f) ==
  /\ got' = [got EXCEPT ![f] = {}]
  /\ \/ Becomes(f, "stored") /\ stores' = [stores EXCEPT ![f] = @ + 1]
     \/ Becomes(f, "unstored") /\ UNCHANGED stores

(* finalize_attachment: the assembly is over.  A file whose size or hash   *)
(* is not that of the manifest is refused; another is stored, or the store *)
(* fails.                                                                  *)
Finalize(f) ==
  /\ got' = [got EXCEPT ![f] = {}]
  /\ IF f \in torn THEN Becomes(f, "refused") /\ UNCHANGED stores
     ELSE \/ Becomes(f, "stored") /\ stores' = [stores EXCEPT ![f] = @ + 1]
          \/ Becomes(f, "unstored") /\ UNCHANGED stores

(* register_attachment *)
Register(f) ==
  IF Size[f] = 0 THEN Finalize(f)
  ELSE Becomes(f, "receiving") /\ UNCHANGED <<got, stores>>

(* A manifest is opened, or dropped without a trace: one that comes again, *)
(* because its message key is used up, and any that decrypt_message        *)
(* refuses, because the receiver knows the epoch or the sender not yet.    *)
TakeManifest(f) ==
  /\ Take
  /\ Head(lane) = Manifest(f)
  /\ IF rx[f] \notin {"none", "missed"} THEN UNCHANGED <<rx, got, stores>>
     ELSE \/ Register(f)
          \/ Becomes(f, "missed") /\ UNCHANGED <<got, stores>>

(* append_encrypted_chunk.  A chunk without an assembly is ignored. *)
TakeChunk(f) ==
  /\ Take
  /\ Head(lane) \in Chunks(f)
  /\ LET have == got[f] \cup {Head(lane)}
     IN IF rx[f] # "receiving" THEN UNCHANGED <<rx, got, stores>>
        ELSE IF have = Chunks(f) THEN Finalize(f)
        ELSE got' = [got EXCEPT ![f] = have] /\ UNCHANGED <<rx, stores>>

-----------------------------------------------------------------------------
Pump ==
  \/ PumpQueue \/ PumpError
  \/ MetaAcked \/ MetaSend \/ MetaFails
  \/ ScanAcked \/ ScanPasses \/ ScanResends \/ ScanFails
  \/ FillSends \/ FillFails \/ FillEnds

Goes == Pump \/ Prepare \/ \E p \in Packets : Elapse(p)

Next ==
  \/ Goes
  \/ Ask \/ \E f \in Files : TakeManifest(f) \/ TakeChunk(f)
  \/ Relay \/ Mark \/ Lost

Spec == Init /\ [][Next]_vars

(* The pump is called at every tick, a preparation ends, and time goes by  *)
(* when the pump has nothing to do.                                        *)
FairSpec == Spec /\ WF_vars(Goes)

-----------------------------------------------------------------------------
(* Properties.                                                             *)

(* The window counts right: every chunk sent is in flight once or counted  *)
(* as acknowledged once, and those acknowledged did reach the server.      *)
WindowAccounts ==
  LET flying == {inFlight[i].chunk : i \in DOMAIN inFlight}
  IN /\ Cardinality(flying) = Len(inFlight)
     /\ ackedChunks + Len(inFlight) = nextChunk - 1
     /\ \A i \in 1 .. (nextChunk - 1) :
          Packet(file, i) \in flying \cup reached

(* A chunk never comes before its manifest, so that none is thrown away,   *)
(* unless the receiver lost something or could not open the manifest.      *)
ManifestFirst ==
  ~lagged /\ lane # <<>> /\ Head(lane).part > 0 => rx[Head(lane).file] # "none"

(* An upload that is reported done reached the server whole.  A receiver   *)
(* that lost nothing comes to an end with it: it could not open a single   *)
(* one of its manifests and shows nothing, or it has the file unless the   *)
(* store failed or the file was changed while it was measured, hashed and  *)
(* read.  It is never left with a part of the file.                        *)
DoneIsDelivered ==
  \A f \in Files : told[f] = "done" =>
    /\ {Manifest(f)} \cup Chunks(f) \subseteq reached
    /\ ~lagged /\ lane = <<>> =>
         \/ rx[f] = "missed"
         \/ rx[f] = "refused" /\ f \in torn
         \/ rx[f] \in {"stored", "unstored"} /\ f \notin torn

(* However packets are repeated, a file is stored once at most and only if *)
(* it is what the manifest says, and no assembly is left behind.           *)
StoredOnce ==
  \A f \in Files :
    /\ stores[f] <= 1
    /\ stores[f] = 1 => f \notin torn
    /\ rx[f] # "receiving" => got[f] = {}

(* Every file the user sent comes to its turn and ends, done or failed,    *)
(* whatever became of those before it and whatever the server does.        *)
UploadsEnd == []<>(\A f \in Files : f <= asked => told[f] \in {"done", "failed"})
=============================================================================
