------------------------------- MODULE Transfer -------------------------------
(***************************************************************************)
(* A file on its way from clients to the device, in chunks: the loop of    *)
(* DeviceClient.sendChunks (src/desktop/device-client/src/client.ts) with  *)
(* uploadPackage, uploadPhoto and uploadFirmware around it, against the    *)
(* three servers that take chunks: net::UploadManager (packages),          *)
(* net::PhotoStore (photos) and the firmware handlers of http_server.cpp.  *)
(*                                                                         *)
(* All clients work on one name: one content id, one photo name, the one   *)
(* OTA slot.  A file is a sequence of cells <<x, k>>, the k-th of content  *)
(* x; the first one is its header.                                         *)
(*                                                                         *)
(* The device serves one request at a time, each one whole: UploadManager  *)
(* has the storage steps inside a handler.  A request of a client is never *)
(* served after a later one of the same client: each has a connection of   *)
(* its own and the device accepts them in order.  So a request or a reply  *)
(* that arrives after the client gave up on it is one that was served, or  *)
(* answered, before it gave up.                                            *)
(***************************************************************************)
EXTENDS Integers, Sequences

CONSTANTS
  Kinds,       (* which servers to follow: a subset of AllKinds            *)
  Contents,    (* the files there are                                      *)
  Size,        (* their lengths                                            *)
  Clients,
  File,        (* the content each client uploads                          *)
  ChunkSize,   (* maxChunkBytes, PHOTO_CHUNK_BYTES                         *)
  MaxRetries,  (* maxRetriesPerChunk                                       *)
  MaxUploads,  (* bound: uploads one client starts                         *)
  MaxResets,   (* bound: resets of the device                              *)
  Faults,      (* may the device refuse for want of space or storage?      *)
  Expiry,      (* may a package session pass its deadline?                 *)
  None

AllKinds == {"package", "photo", "firmware"}

ASSUME TransferAssumption ==
  /\ Kinds \subseteq AllKinds
  /\ Size \in [Contents -> Nat \ {0}]
  /\ "photo" \in Kinds => \A x, y \in Contents : Size[x] = Size[y]
  /\ File \in [Clients -> Contents]
  /\ ChunkSize \in Nat \ {0}
  /\ MaxRetries \in Nat /\ MaxUploads \in Nat /\ MaxResets \in Nat
  /\ Faults \in BOOLEAN /\ Expiry \in BOOLEAN
  /\ None \notin Contents

VARIABLES
  kind,                             (* which server this is about          *)
  session,                          (* the content begun, or None          *)
  part,                             (* what the device stored of it        *)
  installed,                        (* the file in place, or None          *)
  phase, offset, attempts, error,   (* each client                         *)
  chan,                             (* its request, then the reply         *)
  uploads, resets, expired         (* counters: bounds, history           *)

device   == <<session, part, installed>>
client   == <<phase, offset, attempts, error>>
counters == <<uploads, resets, expired>>
vars     == <<kind, device, client, chan, counters>>

Cell(x, k) == <<x, k>>
Content(x) == [k \in 1..Size[x] |-> Cell(x, k)]
Slice(x, off, len) == SubSeq(Content(x), off + 1, off + len)

Files == Seq(Contents \X Nat)

ASSUME NoFileAssumption == \A x \in Contents : None # Content(x)

Codes == {"OK", "NO_SESSION", "SIZE_MISMATCH", "OFFSET_MISMATCH",
          "STORAGE_ERROR", "VERIFY_FAILED"}

(* at: the offset of a chunk, or the count of bytes in a reply.            *)
Messages == [is : {"none", "begin", "chunk", "finish", "reply", "broken"},
             at : Nat, len : Nat, code : Codes \cup {""}]
Message(is, at, len, code) == [is |-> is, at |-> at, len |-> len, code |-> code]
Nothing == Message("none", 0, 0, "")
Broken  == Message("broken", 0, 0, "")

TypeOK ==
  /\ kind \in Kinds
  /\ session \in Contents \cup {None}
  /\ part \in Files
  /\ installed \in Files \cup {None}
  /\ phase \in [Clients -> {"idle", "begin", "chunks", "finish", "done", "failed"}]
  /\ offset \in [Clients -> Nat]
  /\ attempts \in [Clients -> 0..MaxRetries]
  /\ error \in [Clients -> Codes \cup {"", "TIMEOUT"}]
  /\ chan \in [Clients -> Messages]
  /\ uploads \in [Clients -> 0..MaxUploads]
  /\ resets \in 0..MaxResets
  /\ expired \in BOOLEAN

Init ==
  /\ kind \in Kinds
  /\ session = None /\ part = <<>> /\ installed = None
  /\ phase = [c \in Clients |-> "idle"]
  /\ offset = [c \in Clients |-> 0]
  /\ attempts = [c \in Clients |-> 0]
  /\ error = [c \in Clients |-> ""]
  /\ chan = [c \in Clients |-> Nothing]
  /\ uploads = [c \in Clients |-> 0]
  /\ resets = 0
  /\ expired = FALSE

-----------------------------------------------------------------------------
(* The client                                                              *)

Length(c) == Size[File[c]]

(* uploadPhoto goes straight to its chunks; the others begin a session.    *)
Start(c) ==
  /\ phase[c] \in {"idle", "failed"}
  /\ uploads[c] < MaxUploads
  /\ phase' = [phase EXCEPT ![c] = IF kind = "photo" THEN "chunks" ELSE "begin"]
  /\ offset' = [offset EXCEPT ![c] = 0]
  /\ attempts' = [attempts EXCEPT ![c] = 0]
  /\ error' = [error EXCEPT ![c] = ""]
  /\ uploads' = [uploads EXCEPT ![c] = @ + 1]
  /\ UNCHANGED <<kind, device, chan, resets, expired>>

Shorter(a, b) == IF a < b THEN a ELSE b

Request(c) ==
  CASE phase[c] = "begin"  -> Message("begin", 0, 0, "")
    [] phase[c] = "chunks" ->
         Message("chunk", offset[c], Shorter(ChunkSize, Length(c) - offset[c]), "")
    [] OTHER               -> Message("finish", 0, 0, "")

Send(c) ==
  /\ phase[c] \in {"begin", "chunks", "finish"}
  /\ chan[c] = Nothing
  /\ chan' = [chan EXCEPT ![c] = Request(c)]
  /\ UNCHANGED <<kind, device, client, counters>>

(* The loop goes on from where the device says it is, and ends when that   *)
(* is past the end of the file.                                            *)
ContinueFrom(c, count) ==
  /\ offset' = [offset EXCEPT ![c] = count]
  /\ attempts' = [attempts EXCEPT ![c] = 0]
  /\ phase' = [phase EXCEPT ![c] = IF count < Length(c) THEN "chunks" ELSE "finish"]
  /\ UNCHANGED error

Stop(c, code) ==
  /\ phase' = [phase EXCEPT ![c] = IF code = "OK" THEN "done" ELSE "failed"]
  /\ error' = [error EXCEPT ![c] = code]
  /\ UNCHANGED <<offset, attempts>>

Receive(c) ==
  /\ chan[c].is = "reply"
  /\ chan' = [chan EXCEPT ![c] = Nothing]
  /\ LET r == chan[c]
     IN  IF \/ phase[c] \in {"begin", "chunks"} /\ r.code = "OK"
            \/ phase[c] = "chunks" /\ r.code = "OFFSET_MISMATCH"
         THEN ContinueFrom(c, r.at)
         ELSE Stop(c, r.code)
  /\ UNCHANGED <<kind, device, counters>>

(* Mutation: an off-by-one in the count of retries.                        *)
GiveUpLate(c) ==
  /\ chan[c] # Nothing
  /\ chan' = [chan EXCEPT ![c] = Nothing]
  /\ \/ /\ phase[c] = "chunks" /\ attempts[c] <= MaxRetries
        /\ attempts' = [attempts EXCEPT ![c] = @ + 1]
        /\ UNCHANGED <<phase, offset, error>>
     \/ /\ phase[c] # "chunks" \/ attempts[c] > MaxRetries
        /\ Stop(c, "TIMEOUT")
  /\ UNCHANGED <<kind, device, counters>>

(* Mutation: retries are not counted.                                      *)
GiveUpNever(c) ==
  /\ chan[c] # Nothing
  /\ chan' = [chan EXCEPT ![c] = Nothing]
  /\ \/ phase[c] = "chunks" /\ UNCHANGED client
     \/ phase[c] # "chunks" /\ Stop(c, "TIMEOUT")
  /\ UNCHANGED <<kind, device, counters>>

(* Mutation: a finish without an answer is taken for a success.            *)
GiveUpHopefully(c) ==
  /\ chan[c] # Nothing
  /\ chan' = [chan EXCEPT ![c] = Nothing]
  /\ \/ /\ phase[c] = "chunks" /\ attempts[c] < MaxRetries
        /\ attempts' = [attempts EXCEPT ![c] = @ + 1]
        /\ UNCHANGED <<phase, offset, error>>
     \/ /\ phase[c] # "chunks" \/ attempts[c] = MaxRetries
        /\ Stop(c, IF phase[c] = "finish" THEN "OK" ELSE "TIMEOUT")
  /\ UNCHANGED <<kind, device, counters>>

(* The request or its reply is lost: the fetch fails or times out.  A      *)
(* chunk is tried again at once, anything else is not.                     *)
GiveUp(c) ==
  /\ chan[c] # Nothing
  /\ chan' = [chan EXCEPT ![c] = Nothing]
  /\ \/ /\ phase[c] = "chunks" /\ attempts[c] < MaxRetries
        /\ attempts' = [attempts EXCEPT ![c] = @ + 1]
        /\ UNCHANGED <<phase, offset, error>>
     \/ /\ phase[c] # "chunks" \/ attempts[c] = MaxRetries
        /\ Stop(c, "TIMEOUT")
  /\ UNCHANGED <<kind, device, counters>>

-----------------------------------------------------------------------------
(* The device: what every handler can do                                   *)

Asked(c, what) == chan[c].is = what

Answer(c, code, count) ==
  /\ chan' = [chan EXCEPT ![c] = Message("reply", count, 0, code)]
  /\ UNCHANGED <<kind, client, counters>>

Refuse(c, code) == Answer(c, code, 0) /\ UNCHANGED device

(* The cells go to the end of what is stored, or the device fails at it:   *)
(* the firmware update is aborted, a .part may have got some of them.      *)
StoreChunk(c, stored) ==
  LET off == chan[c].at
      len == chan[c].len
  IN  \/ /\ part' = stored \o Slice(File[c], off, len)
         /\ Answer(c, "OK", off + len)
         /\ UNCHANGED <<session, installed>>
      \/ /\ Faults
         /\ IF kind = "firmware"
            THEN part' = <<>> /\ session' = None
            ELSE /\ \E n \in 0..(len - 1) : part' = stored \o Slice(File[c], off, n)
                 /\ UNCHANGED session
         /\ Answer(c, "STORAGE_ERROR", 0)
         /\ UNCHANGED installed

(* The file is in place, and nothing is left of the upload.                *)
PutInPlace(c) ==
  /\ installed' = part
  /\ part' = <<>>
  /\ session' = None
  /\ Answer(c, "OK", 0)

Discard(c, code) ==
  /\ part' = <<>>
  /\ session' = None
  /\ UNCHANGED installed
  /\ Answer(c, code, 0)

-----------------------------------------------------------------------------
(* Packages                                                                *)

(* Mutation: a session is never resumed.                                   *)
PackageBeginAfresh(c) ==
  /\ kind = "package" /\ Asked(c, "begin")
  /\ session' = File[c]
  /\ part' = <<>>
  /\ Answer(c, "OK", 0)
  /\ UNCHANGED installed

PackageBegin(c) ==
  /\ kind = "package" /\ Asked(c, "begin")
  /\ IF session = File[c] /\ Len(part) <= Size[session]
     THEN Answer(c, "OK", Len(part)) /\ UNCHANGED device
     ELSE \/ /\ session' = File[c]
             /\ part' = <<>>
             /\ Answer(c, "OK", 0)
             /\ UNCHANGED installed
          \/ Faults /\ Discard(c, "STORAGE_ERROR")

PackageChunk(c) ==
  /\ kind = "package" /\ Asked(c, "chunk")
  /\ LET off == chan[c].at
         end == chan[c].at + chan[c].len
     IN  \/ session = None /\ Refuse(c, "NO_SESSION")
         \/ /\ session # None
            /\ \/ end > Size[session] /\ Refuse(c, "SIZE_MISMATCH")
               \/ /\ end <= Size[session]
                  /\ \/ end <= Len(part) /\ Answer(c, "OK", Len(part)) /\ UNCHANGED device
                     \/ /\ end > Len(part) /\ off # Len(part)
                        /\ Answer(c, "OFFSET_MISMATCH", Len(part))
                        /\ UNCHANGED device
                     \/ end > Len(part) /\ off = Len(part) /\ StoreChunk(c, part)

(* Mutation: the payload checksum is not computed.                         *)
PackageFinishUnverified(c) ==
  /\ kind = "package" /\ Asked(c, "finish")
  /\ \/ session = None /\ Refuse(c, "NO_SESSION")
     \/ /\ session # None
        /\ IF Len(part) # Size[session]
           THEN Refuse(c, "SIZE_MISMATCH")
           ELSE PutInPlace(c)

PackageFinish(c) ==
  /\ kind = "package" /\ Asked(c, "finish")
  /\ \/ session = None /\ Refuse(c, "NO_SESSION")
     \/ /\ session # None
        /\ \/ Len(part) # Size[session] /\ Refuse(c, "SIZE_MISMATCH")
           \/ part = Content(session) /\ PutInPlace(c)
           \/ Len(part) = Size[session] /\ part # Content(session) /\ Discard(c, "VERIFY_FAILED")

(* The next handler to look finds the deadline passed and discards.        *)
SessionExpires ==
  /\ Expiry
  /\ kind = "package" /\ session # None
  /\ session' = None
  /\ part' = <<>>
  /\ expired' = TRUE
  /\ UNCHANGED <<kind, installed, client, chan, uploads, resets>>

-----------------------------------------------------------------------------
(* Photos                                                                  *)

(* Mutation: the offset is not compared with what is stored.               *)
PhotoChunkUnordered(c) ==
  /\ kind = "photo" /\ Asked(c, "chunk")
  /\ IF Len(part) + chan[c].len > Length(c)
     THEN Refuse(c, "SIZE_MISMATCH")
     ELSE StoreChunk(c, IF chan[c].at = 0 THEN <<>> ELSE part)

(* Offset 0 starts the photo over; any other must be what is stored, even  *)
(* when the chunk is there already.                                        *)
PhotoChunk(c) ==
  /\ kind = "photo" /\ Asked(c, "chunk")
  /\ LET stored == IF chan[c].at = 0 THEN <<>> ELSE part
     IN  \/ /\ chan[c].at # Len(stored)
            /\ Answer(c, "OFFSET_MISMATCH", Len(stored))
            /\ UNCHANGED device
         \/ /\ chan[c].at = Len(stored)
            /\ IF chan[c].at + chan[c].len > Length(c)
               THEN /\ part' = stored
                    /\ UNCHANGED <<session, installed>>
                    /\ Answer(c, "SIZE_MISMATCH", 0)
               ELSE StoreChunk(c, stored)

(* All photos have one length and one header; nothing else is looked at.   *)
PhotoFinish(c) ==
  /\ kind = "photo" /\ Asked(c, "finish")
  /\ \/ part = <<>> /\ Refuse(c, "NO_SESSION")
     \/ part # <<>> /\ Len(part) # Length(c) /\ Refuse(c, "SIZE_MISMATCH")
     \/ /\ Len(part) = Length(c)
        /\ IF part[1][2] = 1 THEN PutInPlace(c) ELSE Discard(c, "VERIFY_FAILED")

-----------------------------------------------------------------------------
(* Firmware: the session and the update are in RAM, and a begin replaces   *)
(* whatever update there is.                                               *)

FirmwareBegin(c) ==
  /\ kind = "firmware" /\ Asked(c, "begin")
  /\ \/ /\ session' = File[c]
        /\ part' = <<>>
        /\ Answer(c, "OK", 0)
        /\ UNCHANGED installed
     \/ Faults /\ Discard(c, "STORAGE_ERROR")

FirmwareChunk(c) ==
  /\ kind = "firmware" /\ Asked(c, "chunk")
  /\ LET off == chan[c].at
         end == chan[c].at + chan[c].len
     IN  \/ session = None /\ Refuse(c, "NO_SESSION")
         \/ /\ session # None
            /\ \/ end <= Len(part) /\ Answer(c, "OK", Len(part)) /\ UNCHANGED device
               \/ /\ end > Len(part) /\ off # Len(part)
                  /\ Answer(c, "OFFSET_MISMATCH", Len(part))
                  /\ UNCHANGED device
               \/ /\ end > Len(part) /\ off = Len(part)
                  /\ IF end > Size[session] THEN Refuse(c, "SIZE_MISMATCH") ELSE StoreChunk(c, part)

(* Update.end() compares the MD5 given at begin.                           *)
FirmwareFinish(c) ==
  /\ kind = "firmware" /\ Asked(c, "finish")
  /\ \/ session = None /\ Refuse(c, "NO_SESSION")
     \/ /\ session # None
        /\ \/ Len(part) # Size[session] /\ Refuse(c, "SIZE_MISMATCH")
           \/ part = Content(session) /\ PutInPlace(c)
           \/ Len(part) = Size[session] /\ part # Content(session) /\ Discard(c, "VERIFY_FAILED")

-----------------------------------------------------------------------------
(* A reset in the middle of whatever the device was doing                  *)

(* A chunk that was being stored: some of it may be on the card, and a     *)
(* photo that was to start over may be gone.                               *)
CutChunk ==
  \E c \in Clients :
    /\ Asked(c, "chunk")
    /\ LET stored == IF kind = "photo" /\ chan[c].at = 0 THEN <<>> ELSE part
       IN  /\ chan[c].at = Len(stored)
           /\ \E n \in 0..chan[c].len : part' = stored \o Slice(File[c], chan[c].at, n)
    /\ kind = "package" => session # None /\ Len(part') <= Size[session]
    /\ UNCHANGED <<session, installed>>

(* A photo about to replace another: the old file goes first.              *)
CutReplace ==
  /\ kind = "photo"
  /\ \E c \in Clients : Asked(c, "finish") /\ Len(part) = Length(c)
  /\ installed' = None
  /\ UNCHANGED <<session, part>>

LoseRam ==
  /\ IF kind = "firmware"
     THEN session' = None /\ part' = <<>>
     ELSE UNCHANGED <<session, part>>
  /\ UNCHANGED installed

Reset ==
  /\ resets < MaxResets
  /\ resets' = resets + 1
  /\ LoseRam \/ (kind # "firmware" /\ (CutChunk \/ CutReplace))
  /\ chan' = [c \in Clients |-> IF chan[c] = Nothing THEN Nothing ELSE Broken]
  /\ UNCHANGED <<kind, client, uploads, expired>>

-----------------------------------------------------------------------------
Serve(c) ==
  \/ PackageBegin(c) \/ PackageChunk(c) \/ PackageFinish(c)
  \/ PhotoChunk(c) \/ PhotoFinish(c)
  \/ FirmwareBegin(c) \/ FirmwareChunk(c) \/ FirmwareFinish(c)

(* A user may leave it at a failed upload; having started one, the client  *)
(* goes on: fetch fails or times out, and the promise resumes the loop.    *)
ClientStep(c) == Send(c) \/ Receive(c) \/ GiveUp(c)

Next ==
  \/ \E c \in Clients : Start(c) \/ ClientStep(c) \/ Serve(c)
  \/ SessionExpires
  \/ Reset

Spec == Init /\ [][Next]_vars /\ \A c \in Clients : WF_vars(ClientStep(c))

-----------------------------------------------------------------------------
(* Properties                                                              *)

(* photo_store.h: "a half-sent or foreign file never becomes a photo"; the *)
(* same is meant for packages and firmware.  What finish puts in place is  *)
(* one whole file, whoever sent chunks of whatever to the same name.       *)
WholeInstalled == installed # None => \E x \in Contents : installed = Content(x)

(* With one client at work, losing requests, replies and power never sends *)
(* the resume logic astray: an upload fails because requests were lost     *)
(* again and again, or storage failed, or the session was really gone.     *)
FailsWithCause ==
  \A c \in Clients : phase[c] = "failed" =>
    \/ error[c] = "TIMEOUT"
    \/ error[c] = "STORAGE_ERROR" /\ Faults
    \/ /\ error[c] = "NO_SESSION"
       /\ \/ expired
          \/ kind = "firmware" /\ (resets > 0 \/ Faults)
          \/ installed = Content(File[c])

(* upload_manager.h and photo_store.h: the size of the .part is the resume *)
(* point, so a dropped connection or a reset costs no chunk that is        *)
(* stored.  Only finish, a deadline, or the client's own fresh start (a    *)
(* photo at offset 0) takes stored cells away.                             *)
GroundKept ==
  [][Len(part') < Len(part) =>
       \/ kind = "firmware"
       \/ kind = "package" /\ session' = None
       \/ kind = "photo" /\ (\/ installed' = part
                             \/ \E c \in Clients : Asked(c, "chunk") /\ chan[c].at = 0)]_vars

(* Every upload ends, with success or with an error: resynchronising and   *)
(* retrying never go round for ever.                                       *)
UploadEnds ==
  \A c \in Clients : phase[c] \in {"begin", "chunks", "finish"} ~> phase[c] \in {"done", "failed"}

(* One client's upload implements ResumableCopy.                           *)
TheClient == CHOOSE c \in Clients : TRUE

Stored ==
  IF part = SubSeq(Content(File[TheClient]), 1, Len(part)) THEN Len(part) ELSE -1

Verdict ==
  CASE phase[TheClient] = "idle"   -> "none"
    [] phase[TheClient] = "done"   -> "ok"
    [] phase[TheClient] = "failed" -> "failed"
    [] OTHER                       -> "pending"

Copy == INSTANCE ResumableCopy WITH
  Whole <- Length(TheClient), stored <- Stored,
  delivered <- installed = Content(File[TheClient]), verdict <- Verdict

CopiesInOrder == Copy!Spec
=============================================================================
