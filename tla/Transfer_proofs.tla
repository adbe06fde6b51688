---------------------------- MODULE Transfer_proofs ----------------------------
(***************************************************************************)
(* Proofs about Transfer, for any files, chunk size, number of clients,    *)
(* retries, resets and faults: the types, what finish puts in place, what  *)
(* stored cells may be taken away, why one client's upload fails, and that *)
(* its steps are steps of ResumableCopy.                                   *)
(***************************************************************************)
EXTENDS Transfer, SequenceTheorems, TLAPS

(* Clients that upload one and the same file.                              *)
SameFile == \A c, d \in Clients : File[c] = File[d]

(* A single client.                                                        *)
OneClient == \E c \in Clients : Clients = {c}

-----------------------------------------------------------------------------
(* Files                                                                   *)

(* The cells of x, from the first one, in order.                           *)
Prefix(x, s) ==
  /\ s \in Files /\ Len(s) <= Size[x]
  /\ \A k \in 1..Len(s) : s[k] = Cell(x, k)

(* A file is a sequence of cells.                                          *)
LEMMA ContentIsFile ==
  ASSUME NEW x \in Contents
  PROVE  /\ Size[x] \in Nat \ {0}
         /\ Content(x) \in Files /\ Len(Content(x)) = Size[x]
         /\ \A k \in 1..Size[x] : Content(x)[k] = Cell(x, k)
<1>1. Size[x] \in Nat \ {0}
  BY TransferAssumption
<1>2. \A k \in 1..Size[x] : Cell(x, k) \in Contents \X Nat
  BY DEF Cell
<1>. QED
  BY <1>1, <1>2 DEF Content, Files

(* A chunk of a file is as many cells of it, from its offset on.           *)
LEMMA SliceOfFile ==
  ASSUME NEW x \in Contents, NEW off \in Nat, NEW n \in Nat, off + n <= Size[x]
  PROVE  /\ Slice(x, off, n) \in Files /\ Len(Slice(x, off, n)) = n
         /\ \A k \in 1..n : Slice(x, off, n)[k] = Cell(x, off + k)
<1>1. Size[x] \in Nat /\ Content(x) \in Files /\ Len(Content(x)) = Size[x]
      /\ \A k \in 1..Size[x] : Content(x)[k] = Cell(x, k)
  BY ContentIsFile
<1>2. Slice(x, off, n) \in Files /\ Len(Slice(x, off, n)) = n
  BY <1>1 DEF Slice, Files
<1>3. ASSUME NEW k \in 1..n PROVE Slice(x, off, n)[k] = Cell(x, off + k)
  <2>1. Slice(x, off, n)[k] = Content(x)[off + k]
    BY <1>1 DEF Slice, Files
  <2>2. off + k \in 1..Size[x]
    BY <1>1
  <2>. QED
    BY <1>1, <2>1, <2>2
<1>. QED
  BY <1>2, <1>3

(* Where it begins at the end of what is stored, the order is kept.        *)
LEMMA StoredInOrder ==
  ASSUME NEW x \in Contents, NEW off \in Nat, NEW n \in Nat, off + n <= Size[x],
         NEW s \in Files
  PROVE  /\ s \o Slice(x, off, n) \in Files
         /\ Len(s \o Slice(x, off, n)) = Len(s) + n
         /\ Prefix(x, s) /\ Len(s) = off => Prefix(x, s \o Slice(x, off, n))
<1>. DEFINE t == Slice(x, off, n)
<1>1. t \in Files /\ Len(t) = n /\ \A k \in 1..n : t[k] = Cell(x, off + k)
  BY SliceOfFile
<1>. HIDE DEF t
<1>2. /\ s \o t \in Files /\ Len(s \o t) = Len(s) + n
      /\ \A k \in 1..(Len(s) + n) : (s \o t)[k] = IF k <= Len(s) THEN s[k] ELSE t[k - Len(s)]
  BY <1>1, ConcatProperties DEF Files
<1>3. ASSUME Prefix(x, s), Len(s) = off PROVE Prefix(x, s \o t)
  <2>1. ASSUME NEW k \in 1..Len(s \o t) PROVE (s \o t)[k] = Cell(x, k)
    <3>1. CASE k <= off
      <4>1. (s \o t)[k] = s[k]
        BY <1>2, <1>3, <3>1
      <4>. QED
        BY <1>3, <3>1, <4>1 DEF Prefix
    <3>2. CASE k > off
      <4>1. (s \o t)[k] = t[k - off] /\ k - off \in 1..n
        BY <1>2, <1>3, <3>2
      <4>2. t[k - off] = Cell(x, off + (k - off))
        BY <1>1, <4>1
      <4>. QED
        BY <4>1, <4>2
    <3>. QED
      BY <1>2, <3>1, <3>2 DEF Files
  <2>. QED
    BY <1>2, <1>3, <2>1, ContentIsFile DEF Prefix
<1>. QED
  BY <1>2, <1>3 DEF t

(* In order and as long as the file is the whole file.                     *)
LEMMA WholePrefix ==
  ASSUME NEW x \in Contents, NEW s, Prefix(x, s), Len(s) = Size[x]
  PROVE  s = Content(x)
<1>. DEFINE w == Content(x)
<1>1. w \in Files /\ Len(w) = Size[x] /\ \A k \in 1..Size[x] : w[k] = Cell(x, k)
  BY ContentIsFile
<1>. HIDE DEF w
<1>2. s \in Files /\ \A k \in 1..Len(s) : s[k] = w[k]
  BY <1>1 DEF Prefix
<1>. QED
  BY <1>1, <1>2, SeqEqual DEF Files, w

(* What is stored in order is the file, cut off.                           *)
LEMMA PrefixIsSubSeq ==
  ASSUME NEW x \in Contents, NEW s, Prefix(x, s)
  PROVE  s = SubSeq(Content(x), 1, Len(s))
<1>1. Size[x] \in Nat /\ Content(x) \in Files /\ Len(Content(x)) = Size[x]
      /\ \A k \in 1..Size[x] : Content(x)[k] = Cell(x, k)
  BY ContentIsFile
<1>2. s \in Files /\ Len(s) \in 0..Size[x] /\ \A k \in 1..Len(s) : s[k] = Cell(x, k)
  BY <1>1 DEF Prefix, Files
<1>. DEFINE t == SubSeq(Content(x), 1, Len(s))
<1>3. t \in Files /\ Len(t) = Len(s) /\ \A k \in 1..Len(s) : t[k] = Content(x)[k]
  BY <1>1, <1>2, SubSeqProperties DEF Files
<1>. HIDE DEF t
<1>4. \A k \in 1..Len(s) : s[k] = t[k]
  BY <1>1, <1>2, <1>3
<1>. QED
  BY <1>2, <1>3, <1>4, SeqEqual DEF Files, t

(* Nothing is stored: that is in order.                                    *)
LEMMA EmptyPrefix == ASSUME NEW x \in Contents PROVE Prefix(x, <<>>)
  BY ContentIsFile DEF Prefix, Files

-----------------------------------------------------------------------------
(* The inductive invariant: the types, a chunk that is asked for is one of *)
(* the file, and what is stored is in order while all upload one file.     *)

DeviceTyped == session \in Contents \cup {None} /\ part \in Files /\ installed \in Files \cup {None}
ClientTyped ==
  /\ phase \in [Clients -> {"idle", "begin", "chunks", "finish", "done", "failed"}]
  /\ offset \in [Clients -> Nat]
  /\ attempts \in [Clients -> 0..MaxRetries]
  /\ error \in [Clients -> Codes \cup {"", "TIMEOUT"}]
CountTyped == uploads \in [Clients -> 0..MaxUploads] /\ resets \in 0..MaxResets /\ expired \in BOOLEAN

OffsetInside == \A c \in Clients : phase[c] = "chunks" => offset[c] < Length(c)
ChunkInside  == \A c \in Clients :
  Asked(c, "chunk") => chan[c].len >= 1 /\ chan[c].at + chan[c].len <= Length(c)
SessionKnown ==
  /\ session # None => \E c \in Clients : session = File[c]
  /\ kind # "photo" /\ session = None => part = <<>>
InOrder == SameFile => \A c \in Clients : Prefix(File[c], part)

(* Photos are not checked against a checksum: of them only as many cells   *)
(* can go into place as belong together if nobody mixes two under one name.*)
OnePhoto == "photo" \in Kinds => SameFile
Whole    == OnePhoto => WholeInstalled

ClientInv == kind \in Kinds /\ ClientTyped /\ chan \in [Clients -> Messages] /\ CountTyped
             /\ OffsetInside /\ ChunkInside
DeviceInv == DeviceTyped /\ SessionKnown /\ InOrder /\ Whole
TInv      == ClientInv /\ DeviceInv

(* Nothing is begun.                                                       *)
LEMMA InitTInv == Init => TInv
<1>. SUFFICES ASSUME Init PROVE TInv
  OBVIOUS
<1>1. Nothing \in Messages /\ Nothing.is = "none"
  BY DEF Nothing, Message, Messages
<1>2. ClientTyped /\ CountTyped
  <2>1. 0 \in 0..MaxRetries /\ 0 \in 0..MaxUploads /\ 0 \in 0..MaxResets
    BY TransferAssumption
  <2>2. ClientTyped
    BY <2>1 DEF Init, ClientTyped
  <2>3. CountTyped
    BY <2>1 DEF Init, CountTyped
  <2>. QED
    BY <2>2, <2>3
<1>3. OffsetInside /\ ChunkInside
  BY <1>1 DEF Init, OffsetInside, ChunkInside, Asked
<1>4. DeviceTyped
  BY EmptySeq DEF Init, DeviceTyped, Files
<1>5. InOrder
  BY EmptyPrefix, TransferAssumption DEF Init, InOrder
<1>6. SessionKnown /\ Whole
  BY DEF Init, SessionKnown, Whole, WholeInstalled
<1>7. kind \in Kinds /\ chan \in [Clients -> Messages]
  BY <1>1 DEF Init
<1>. QED
  BY <1>2, <1>3, <1>4, <1>5, <1>6, <1>7 DEF TInv, ClientInv, DeviceInv

(* The invariant has the types.                                            *)
LEMMA TInvTyped == TInv => TypeOK
  BY DEF TInv, ClientInv, DeviceInv, ClientTyped, CountTyped, DeviceTyped, TypeOK

-----------------------------------------------------------------------------
(* What the device does to what it stores                                  *)

(* What the chunk of c goes after.                                         *)
Base(c) == IF kind = "photo" /\ chan[c].at = 0 THEN <<>> ELSE part

(* Some cells of the chunk, or all of them, are stored.                    *)
Grown(c) ==
  /\ Asked(c, "chunk") /\ chan[c].at = Len(Base(c))
  /\ kind # "photo" => session # None
  /\ \E n \in 0..chan[c].len : part' = Base(c) \o Slice(File[c], chan[c].at, n)
  /\ UNCHANGED <<session, installed>>

(* It starts over, for c or for nobody.                                    *)
Cleared(c) ==
  /\ part' = <<>> /\ session' \in {None, File[c]} /\ UNCHANGED installed
  /\ kind = "package" => session' = None \/ session # File[c] \/ Len(part) > Size[session]
  /\ kind = "photo" => Len(part) = Length(c) /\ part[1][2] # 1

(* What is stored goes into place.                                         *)
Placed(c) ==
  /\ installed' = part /\ part' = <<>> /\ session' = None
  /\ IF kind = "photo" THEN Len(part) = Length(c) ELSE \E x \in Contents : part = Content(x)

(* The chunk that is asked for is one of the client's file.                *)
LEMMA AskedChunk ==
  ASSUME TInv, NEW c \in Clients, Asked(c, "chunk")
  PROVE  /\ File[c] \in Contents /\ Length(c) = Size[File[c]] /\ Length(c) \in Nat
         /\ chan[c].at \in Nat /\ chan[c].len \in Nat \ {0}
         /\ chan[c].at + chan[c].len <= Length(c)
<1>1. File[c] \in Contents /\ Size[File[c]] \in Nat
  BY TransferAssumption
<1>2. chan[c].at \in Nat /\ chan[c].len \in Nat
  BY DEF TInv, ClientInv, Messages
<1>. QED
  BY <1>1, <1>2 DEF TInv, ClientInv, ChunkInside, Length

(* Its cells, or some of them, keep the order.                             *)
LEMMA GrownInOrder ==
  ASSUME TInv, NEW c \in Clients, Asked(c, "chunk"), chan[c].at = Len(Base(c)),
         NEW n \in 0..chan[c].len
  PROVE  /\ Base(c) \in Files
         /\ Base(c) \o Slice(File[c], chan[c].at, n) \in Files
         /\ Len(Base(c) \o Slice(File[c], chan[c].at, n)) = Len(Base(c)) + n
         /\ SameFile => Prefix(File[c], Base(c))
                        /\ Prefix(File[c], Base(c) \o Slice(File[c], chan[c].at, n))
<1>1. /\ File[c] \in Contents /\ chan[c].at \in Nat /\ n \in Nat
      /\ chan[c].at + n <= Size[File[c]]
  BY AskedChunk
<1>2. Base(c) \in Files
  BY EmptySeq DEF Base, TInv, DeviceInv, DeviceTyped, Files
<1>3. SameFile => Prefix(File[c], Base(c))
  BY <1>1, EmptyPrefix DEF Base, TInv, DeviceInv, InOrder
<1>. QED
  BY <1>1, <1>2, <1>3, StoredInOrder

(* A chunk that is stored.                                                 *)
LEMMA GrownStep ==
  ASSUME TInv, NEW c \in Clients, Grown(c), kind' = kind
  PROVE  DeviceInv'
<1>1. PICK n \in 0..chan[c].len : part' = Base(c) \o Slice(File[c], chan[c].at, n)
  BY DEF Grown
<1>2. part' \in Files /\ (SameFile => Prefix(File[c], part'))
  BY <1>1, GrownInOrder DEF Grown
<1>3. InOrder'
  <2>. SUFFICES ASSUME SameFile, NEW d \in Clients PROVE Prefix(File[d], part')
    BY DEF InOrder, SameFile
  <2>1. File[d] = File[c]
    BY DEF SameFile
  <2>. QED
    BY <1>2, <2>1
<1>. QED
  BY <1>2, <1>3 DEF Grown, TInv, DeviceInv, DeviceTyped, SessionKnown, Whole, WholeInstalled,
     OnePhoto, SameFile

(* A fresh start.                                                          *)
LEMMA ClearedStep ==
  ASSUME TInv, NEW c \in Clients, Cleared(c), kind' = kind
  PROVE  DeviceInv'
<1>1. InOrder'
  BY EmptyPrefix, TransferAssumption DEF Cleared, InOrder
<1>2. DeviceTyped'
  BY EmptySeq, TransferAssumption DEF Cleared, TInv, DeviceInv, DeviceTyped, Files
<1>3. SessionKnown'
  BY DEF Cleared, SessionKnown
<1>4. Whole'
  BY DEF Cleared, TInv, DeviceInv, Whole, WholeInstalled, OnePhoto, SameFile
<1>. QED
  BY <1>1, <1>2, <1>3, <1>4 DEF DeviceInv

(* What goes into place is whole: it was verified, or it is the one photo. *)
LEMMA PlacedStep ==
  ASSUME TInv, NEW c \in Clients, Placed(c), kind' = kind
  PROVE  DeviceInv'
<1>1. InOrder'
  BY EmptyPrefix, TransferAssumption DEF Placed, InOrder
<1>2. DeviceTyped' /\ SessionKnown'
  BY EmptySeq DEF Placed, TInv, DeviceInv, DeviceTyped, SessionKnown, Files
<1>3. ASSUME OnePhoto PROVE \E x \in Contents : part = Content(x)
  <2>1. CASE kind = "photo"
    <3>1. SameFile
      BY <1>3, <2>1 DEF OnePhoto, TInv, ClientInv
    <3>2. Prefix(File[c], part) /\ File[c] \in Contents /\ Len(part) = Size[File[c]]
      BY <2>1, <3>1, TransferAssumption DEF Placed, Length, TInv, DeviceInv, InOrder
    <3>. QED
      BY <3>2, WholePrefix
  <2>. QED
    BY <2>1 DEF Placed
<1>4. Whole'
  <2>. SUFFICES ASSUME OnePhoto PROVE \E x \in Contents : installed' = Content(x)
    BY DEF Whole, WholeInstalled, OnePhoto, SameFile
  <2>. QED
    BY <1>3 DEF Placed
<1>. QED
  BY <1>1, <1>2, <1>4 DEF DeviceInv

(* Nothing changes.                                                        *)
LEMMA SameDeviceStep == ASSUME TInv, UNCHANGED <<device, kind>> PROVE DeviceInv'
  BY DEF TInv, DeviceInv, device, DeviceTyped, SessionKnown, InOrder, Whole, WholeInstalled,
     OnePhoto, SameFile, Prefix

-----------------------------------------------------------------------------
(* What every request comes to                                             *)

Answered(c) == \E code \in Codes, count \in Nat : Answer(c, code, count)
Effect(c)   == UNCHANGED device \/ Grown(c) \/ Cleared(c) \/ Placed(c)

(* The number of cells that is answered is one.                            *)
LEMMA LenPart == ASSUME TInv PROVE Len(part) \in Nat
  BY DEF TInv, DeviceInv, DeviceTyped, Files

(* A refusal.                                                              *)
LEMMA RefuseEffect ==
  ASSUME NEW c \in Clients, NEW code \in Codes, Refuse(c, code)
  PROVE  Answered(c) /\ Effect(c)
<1>1. 0 \in Nat
  OBVIOUS
<1>. QED
  BY <1>1 DEF Refuse, Answered, Effect

(* A discard.                                                              *)
LEMMA DiscardEffect ==
  ASSUME NEW c \in Clients, NEW code \in Codes, Discard(c, code),
         kind = "photo" => Len(part) = Length(c) /\ part[1][2] # 1
  PROVE  Answered(c) /\ Effect(c)
<1>1. 0 \in Nat
  OBVIOUS
<1>. QED
  BY <1>1 DEF Discard, Answered, Effect, Cleared

(* The install.                                                            *)
LEMMA PutEffect ==
  ASSUME NEW c \in Clients, PutInPlace(c),
         IF kind = "photo" THEN Len(part) = Length(c) ELSE \E x \in Contents : part = Content(x)
  PROVE  Answered(c) /\ Effect(c)
<1>1. 0 \in Nat /\ "OK" \in Codes
  BY DEF Codes
<1>. QED
  BY <1>1 DEF PutInPlace, Answered, Effect, Placed

(* A chunk is stored, whole or in part, or the update is aborted.          *)
LEMMA StoreEffect ==
  ASSUME TInv, NEW c \in Clients, Asked(c, "chunk"), chan[c].at = Len(Base(c)),
         kind # "photo" => session # None, StoreChunk(c, Base(c))
  PROVE  Answered(c) /\ Effect(c)
<1>1. chan[c].at \in Nat /\ chan[c].len \in Nat \ {0}
  BY AskedChunk
<1>2. {"OK", "STORAGE_ERROR"} \subseteq Codes /\ 0 \in Nat /\ chan[c].at + chan[c].len \in Nat
  BY <1>1 DEF Codes
<1>3. CASE /\ part' = Base(c) \o Slice(File[c], chan[c].at, chan[c].len)
           /\ Answer(c, "OK", chan[c].at + chan[c].len)
           /\ UNCHANGED <<session, installed>>
  <2>1. chan[c].len \in 0..chan[c].len
    BY <1>1
  <2>. QED
    BY <1>2, <1>3, <2>1 DEF Answered, Effect, Grown
<1>4. CASE /\ kind = "firmware" /\ part' = <<>> /\ session' = None
           /\ Answer(c, "STORAGE_ERROR", 0) /\ UNCHANGED installed
  BY <1>2, <1>4 DEF Answered, Effect, Cleared
<1>5. CASE /\ \E n \in 0..(chan[c].len - 1) : part' = Base(c) \o Slice(File[c], chan[c].at, n)
           /\ UNCHANGED session
           /\ Answer(c, "STORAGE_ERROR", 0) /\ UNCHANGED installed
  <2>1. PICK n \in 0..(chan[c].len - 1) : part' = Base(c) \o Slice(File[c], chan[c].at, n)
    BY <1>5
  <2>2. n \in 0..chan[c].len
    BY <1>1
  <2>. QED
    BY <1>2, <1>5, <2>1, <2>2 DEF Answered, Effect, Grown
<1>. QED
  BY <1>3, <1>4, <1>5 DEF StoreChunk

(* Every handler answers and has one of the effects.                       *)
LEMMA ServeEffect ==
  ASSUME TInv, NEW c \in Clients, Serve(c)
  PROVE  Answered(c) /\ Effect(c)
<1>1. /\ {"OK", "NO_SESSION", "SIZE_MISMATCH", "OFFSET_MISMATCH", "STORAGE_ERROR",
           "VERIFY_FAILED"} \subseteq Codes
      /\ 0 \in Nat /\ Len(part) \in Nat
  BY LenPart DEF Codes
<1>2. session # None => session \in Contents
  BY DEF TInv, DeviceInv, DeviceTyped
<1>3. CASE PackageBegin(c) \/ FirmwareBegin(c)
  <2>. DEFINE Fresh == kind = "package" => session # File[c] \/ Len(part) > Size[session]
  <2>1. CASE UNCHANGED device /\ Answer(c, "OK", Len(part))
    BY <1>1, <2>1 DEF Answered, Effect
  <2>2. CASE /\ session' = File[c] /\ part' = <<>> /\ Answer(c, "OK", 0) /\ UNCHANGED installed
             /\ Fresh
    BY <1>1, <1>3, <2>2 DEF Answered, Effect, Cleared, PackageBegin, FirmwareBegin
  <2>3. CASE Discard(c, "STORAGE_ERROR")
    BY <1>1, <1>3, <2>3, DiscardEffect DEF PackageBegin, FirmwareBegin
  <2>4. session = File[c] => Size[session] \in Nat
    BY TransferAssumption
  <2>. QED
    BY <1>1, <1>3, <2>1, <2>2, <2>3, <2>4 DEF PackageBegin, FirmwareBegin
<1>4. CASE PackageChunk(c) \/ FirmwareChunk(c)
  <2>1. kind # "photo" /\ Base(c) = part /\ Asked(c, "chunk")
    BY <1>4 DEF PackageChunk, FirmwareChunk, Base
  <2>2. CASE Refuse(c, "NO_SESSION") \/ Refuse(c, "SIZE_MISMATCH")
    BY <1>1, <2>2, RefuseEffect
  <2>3. CASE UNCHANGED device /\ (Answer(c, "OK", Len(part)) \/ Answer(c, "OFFSET_MISMATCH", Len(part)))
    BY <1>1, <2>3 DEF Answered, Effect
  <2>4. CASE session # None /\ chan[c].at = Len(part) /\ StoreChunk(c, part)
    BY <2>1, <2>4, StoreEffect
  <2>. QED
    BY <1>4, <2>2, <2>3, <2>4 DEF PackageChunk, FirmwareChunk
<1>5. CASE PackageFinish(c) \/ FirmwareFinish(c)
  <2>1. kind # "photo"
    BY <1>5 DEF PackageFinish, FirmwareFinish
  <2>2. CASE Refuse(c, "NO_SESSION") \/ Refuse(c, "SIZE_MISMATCH")
    BY <1>1, <2>2, RefuseEffect
  <2>3. CASE session # None /\ part = Content(session) /\ PutInPlace(c)
    BY <1>2, <2>1, <2>3, PutEffect
  <2>4. CASE Discard(c, "VERIFY_FAILED")
    BY <1>1, <2>1, <2>4, DiscardEffect
  <2>. QED
    BY <1>5, <2>2, <2>3, <2>4 DEF PackageFinish, FirmwareFinish
<1>6. CASE PhotoChunk(c)
  <2>1. kind = "photo" /\ Asked(c, "chunk") /\ Len(Base(c)) \in Nat
    BY <1>1, <1>6, EmptySeq DEF PhotoChunk, Base
  <2>2. chan[c].at + chan[c].len <= Length(c) /\ chan[c].at + chan[c].len \in Nat /\ Length(c) \in Nat
    BY <2>1, AskedChunk
  <2>3. Base(c) = IF chan[c].at = 0 THEN <<>> ELSE part
    BY <2>1 DEF Base
  <2>4. CASE Answer(c, "OFFSET_MISMATCH", Len(Base(c))) /\ UNCHANGED device
    BY <1>1, <2>1, <2>4 DEF Answered, Effect
  <2>5. CASE chan[c].at = Len(Base(c)) /\ StoreChunk(c, Base(c))
    BY <2>1, <2>5, StoreEffect
  <2>. QED
    BY <1>6, <2>2, <2>3, <2>4, <2>5 DEF PhotoChunk
<1>7. CASE PhotoFinish(c)
  <2>1. kind = "photo"
    BY <1>7 DEF PhotoFinish
  <2>2. CASE Refuse(c, "NO_SESSION") \/ Refuse(c, "SIZE_MISMATCH")
    BY <1>1, <2>2, RefuseEffect
  <2>3. CASE Len(part) = Length(c) /\ PutInPlace(c)
    BY <2>1, <2>3, PutEffect
  <2>4. CASE Len(part) = Length(c) /\ part[1][2] # 1 /\ Discard(c, "VERIFY_FAILED")
    BY <1>1, <2>4, DiscardEffect
  <2>. QED
    BY <1>7, <2>2, <2>3, <2>4 DEF PhotoFinish
<1>. QED
  BY <1>3, <1>4, <1>5, <1>6, <1>7 DEF Serve

(* What is stored after any of them.                                       *)
LEMMA EffectStep ==
  ASSUME TInv, NEW c \in Clients, Effect(c), kind' = kind
  PROVE  DeviceInv'
  BY GrownStep, ClearedStep, PlacedStep, SameDeviceStep DEF Effect


-----------------------------------------------------------------------------
(* The clients                                                             *)

(* A reply changes nothing a client knows yet.                             *)
LEMMA AnsweredStep ==
  ASSUME TInv, NEW c \in Clients, Answered(c)
  PROVE  ClientInv'
<1>1. PICK code \in Codes, count \in Nat : Answer(c, code, count)
  BY DEF Answered
<1>2. Message("reply", count, 0, code) \in Messages
  BY DEF Message, Messages
<1>3. /\ chan' = [chan EXCEPT ![c] = Message("reply", count, 0, code)]
      /\ UNCHANGED <<kind, phase, offset, attempts, error, uploads, resets, expired>>
  BY <1>1 DEF Answer, client, counters
<1>4. chan' \in [Clients -> Messages]
  BY <1>2, <1>3 DEF TInv, ClientInv
<1>5. ASSUME NEW d \in Clients, Asked(d, "chunk")'
      PROVE  Asked(d, "chunk") /\ chan'[d] = chan[d]
  BY <1>3, <1>5 DEF TInv, ClientInv, Asked, Message
<1>6. ChunkInside'
  BY <1>5 DEF TInv, ClientInv, ChunkInside, Length
<1>. QED
  BY <1>3, <1>4, <1>6 DEF TInv, ClientInv, ClientTyped, CountTyped, OffsetInside, Length

(* The user starts an upload.                                              *)
LEMMA StartStep ==
  ASSUME TInv, NEW c \in Clients, Start(c)
  PROVE  TInv'
<1>1. /\ phase' = [phase EXCEPT ![c] = IF kind = "photo" THEN "chunks" ELSE "begin"]
      /\ offset' = [offset EXCEPT ![c] = 0]
      /\ attempts' = [attempts EXCEPT ![c] = 0]
      /\ error' = [error EXCEPT ![c] = ""]
      /\ uploads' = [uploads EXCEPT ![c] = uploads[c] + 1] /\ uploads[c] < MaxUploads
      /\ UNCHANGED <<kind, device, chan, resets, expired>>
  BY DEF Start
<1>2. ClientTyped'
  <2>1. 0 \in 0..MaxRetries
    BY TransferAssumption
  <2>. QED
    BY <1>1, <2>1 DEF TInv, ClientInv, ClientTyped
<1>3. CountTyped'
  <2>1. uploads \in [Clients -> 0..MaxUploads] /\ MaxUploads \in Nat
    BY TransferAssumption DEF TInv, ClientInv, CountTyped
  <2>2. uploads[c] \in 0..MaxUploads /\ uploads[c] < MaxUploads
    BY <1>1, <2>1
  <2>4. uploads[c] + 1 \in 0..MaxUploads
    BY <2>1, <2>2
  <2>3. uploads' \in [Clients -> 0..MaxUploads]
    BY <1>1, <2>1, <2>4
  <2>. QED
    BY <1>1, <2>3 DEF TInv, ClientInv, CountTyped
<1>4. OffsetInside'
  <2>1. 0 < Length(c)
    BY TransferAssumption DEF Length
  <2>2. ASSUME NEW d \in Clients, phase'[d] = "chunks" PROVE offset'[d] < Length(d)
    BY <1>1, <2>1, <2>2 DEF TInv, ClientInv, ClientTyped, OffsetInside
  <2>. QED
    BY <2>2 DEF OffsetInside, Length
<1>5. ChunkInside' /\ chan' \in [Clients -> Messages] /\ kind' \in Kinds
  BY <1>1 DEF TInv, ClientInv, ChunkInside, Asked, Length
<1>. QED
  BY <1>1, <1>2, <1>3, <1>4, <1>5, SameDeviceStep DEF TInv, ClientInv

(* A client asks for the next chunk of its file, if it asks for one.       *)
LEMMA RequestInside ==
  ASSUME TInv, NEW c \in Clients
  PROVE  /\ Request(c) \in Messages
         /\ Request(c).is = "chunk" =>
              Request(c).len >= 1 /\ Request(c).at + Request(c).len <= Length(c)
<1>1. CASE phase[c] = "chunks"
  <2>1. /\ offset[c] \in Nat /\ offset[c] < Length(c) /\ Length(c) \in Nat
        /\ ChunkSize \in Nat \ {0}
    BY <1>1, TransferAssumption DEF TInv, ClientInv, ClientTyped, OffsetInside, Length
  <2>. DEFINE len == Shorter(ChunkSize, Length(c) - offset[c])
  <2>2. len \in Nat /\ len >= 1 /\ offset[c] + len <= Length(c)
    BY <2>1 DEF Shorter
  <2>. HIDE DEF len
  <2>3. Request(c) = Message("chunk", offset[c], len, "")
    BY <1>1 DEF Request, len
  <2>. DEFINE m == Message("chunk", offset[c], len, "")
  <2>4. m \in Messages /\ m.len = len /\ m.at = offset[c]
    BY <2>1, <2>2 DEF Message, Messages
  <2>. HIDE DEF m
  <2>5. Request(c) = m
    BY <2>3 DEF m
  <2>. QED
    BY <2>2, <2>4, <2>5
<1>2. CASE phase[c] # "chunks"
  <2>1. Request(c) \in {Message("begin", 0, 0, ""), Message("finish", 0, 0, "")}
    BY <1>2 DEF Request
  <2>2. PICK what \in {"begin", "finish"} : Request(c) = Message(what, 0, 0, "")
    BY <2>1
  <2>. DEFINE m == Message(what, 0, 0, "")
  <2>3. m \in Messages /\ m.is = what
    BY DEF Message, Messages
  <2>. HIDE DEF m
  <2>4. Request(c) = m
    BY <2>2 DEF m
  <2>. QED
    BY <2>3, <2>4
<1>. QED
  BY <1>1, <1>2

(* It sends it.                                                            *)
LEMMA SendStep ==
  ASSUME TInv, NEW c \in Clients, Send(c)
  PROVE  TInv'
<1>1. /\ chan' = [chan EXCEPT ![c] = Request(c)]
      /\ UNCHANGED <<kind, device, phase, offset, attempts, error, uploads, resets, expired>>
  BY DEF Send, client, counters
<1>2. chan' \in [Clients -> Messages]
  BY <1>1, RequestInside DEF TInv, ClientInv
<1>3. ASSUME NEW d \in Clients, chan'[d].is = "chunk"
      PROVE  chan'[d].len >= 1 /\ chan'[d].at + chan'[d].len <= Length(d)
  <2>1. CASE d = c
    <3>1. chan'[d] = Request(c)
      BY <1>1, <2>1 DEF TInv, ClientInv
    <3>. QED
      BY <1>3, <2>1, <3>1, RequestInside
  <2>2. CASE d # c
    BY <1>1, <1>3, <2>2 DEF TInv, ClientInv, ChunkInside, Asked
  <2>. QED
    BY <2>1, <2>2
<1>4. ChunkInside'
  BY <1>3 DEF ChunkInside, Asked, Length
<1>. QED
  BY <1>1, <1>2, <1>4, SameDeviceStep DEF TInv, ClientInv, ClientTyped, CountTyped, OffsetInside, Length

(* Counting.                                                               *)
LEMMA NoRetry == 0 \in 0..MaxRetries
  BY TransferAssumption

LEMMA OneMore == ASSUME NEW m \in Nat, NEW n \in 0..m, n < m PROVE n + 1 \in 0..m
  OBVIOUS

(* The reply, or a lost request, leaves the loop where it may be.          *)
LEMMA SettledStep ==
  ASSUME TInv, NEW c \in Clients, chan' = [chan EXCEPT ![c] = Nothing],
         UNCHANGED <<kind, device, counters>>,
         \/ \E count \in Nat : ContinueFrom(c, count)
         \/ \E code \in Codes \cup {"", "TIMEOUT"} : Stop(c, code)
         \/ /\ attempts[c] < MaxRetries /\ attempts' = [attempts EXCEPT ![c] = @ + 1]
            /\ UNCHANGED <<phase, offset, error>>
  PROVE  TInv'
<1>1. chan' \in [Clients -> Messages] /\ ChunkInside'
  <2>1. Nothing \in Messages /\ Nothing.is = "none"
    BY DEF Nothing, Message, Messages
  <2>. QED
    BY <2>1 DEF TInv, ClientInv, ChunkInside, Asked, Length
<1>2. CountTyped' /\ kind' \in Kinds
  BY DEF counters, TInv, ClientInv, CountTyped
<1>3. ClientTyped' /\ OffsetInside'
  <2>1. ASSUME NEW count \in Nat, ContinueFrom(c, count) PROVE ClientTyped' /\ OffsetInside'
    <3>1. ClientTyped'
      <4>1. 0 \in 0..MaxRetries
        BY NoRetry
      <4>2. phase' \in [Clients -> {"idle", "begin", "chunks", "finish", "done", "failed"}]
        BY <2>1 DEF ContinueFrom, TInv, ClientInv, ClientTyped
      <4>3. attempts' \in [Clients -> 0..MaxRetries]
        BY <2>1, <4>1 DEF ContinueFrom, TInv, ClientInv, ClientTyped
      <4>4. offset' \in [Clients -> Nat]
        BY <2>1 DEF ContinueFrom, TInv, ClientInv, ClientTyped
      <4>. QED
        BY <2>1, <4>2, <4>3, <4>4 DEF ContinueFrom, TInv, ClientInv, ClientTyped
    <3>2. ASSUME NEW d \in Clients, phase'[d] = "chunks" PROVE offset'[d] < Length(d)
      BY <2>1, <3>2 DEF ContinueFrom, TInv, ClientInv, ClientTyped, OffsetInside
    <3>. QED
      BY <3>1, <3>2 DEF OffsetInside, Length
  <2>2. ASSUME NEW code \in Codes \cup {"", "TIMEOUT"}, Stop(c, code) PROVE ClientTyped' /\ OffsetInside'
    BY <2>2 DEF Stop, TInv, ClientInv, ClientTyped, OffsetInside, Length
  <2>3. CASE /\ attempts[c] < MaxRetries /\ attempts' = [attempts EXCEPT ![c] = @ + 1]
             /\ UNCHANGED <<phase, offset, error>>
    <3>1. attempts \in [Clients -> 0..MaxRetries] /\ MaxRetries \in Nat
      BY TransferAssumption DEF TInv, ClientInv, ClientTyped
    <3>4. attempts[c] \in 0..MaxRetries /\ attempts[c] < MaxRetries
      BY <2>3, <3>1
    <3>2. attempts[c] + 1 \in 0..MaxRetries
      BY <3>1, <3>4, OneMore
    <3>3. attempts' \in [Clients -> 0..MaxRetries]
      BY <2>3, <3>1, <3>2
    <3>. QED
      BY <2>3, <3>3 DEF TInv, ClientInv, ClientTyped, OffsetInside, Length
  <2>. QED
    BY <2>1, <2>2, <2>3
<1>. QED
  BY <1>1, <1>2, <1>3, SameDeviceStep DEF TInv, ClientInv

(* A reply that arrives has a number of cells and a code.                  *)
LEMMA ReceiveStep ==
  ASSUME TInv, NEW c \in Clients, Receive(c)
  PROVE  TInv'
<1>1. chan[c].at \in Nat /\ chan[c].code \in Codes \cup {""}
  BY DEF TInv, ClientInv, Messages
<1>2. \/ ContinueFrom(c, chan[c].at)
      \/ Stop(c, chan[c].code)
  BY DEF Receive
<1>. QED
  BY <1>1, <1>2, SettledStep DEF Receive

(* The client gives up on a request.                                       *)
LEMMA GiveUpStep ==
  ASSUME TInv, NEW c \in Clients, GiveUp(c)
  PROVE  TInv'
  BY SettledStep DEF GiveUp


-----------------------------------------------------------------------------
(* Deadlines and resets                                                    *)

(* A chunk that is being stored is cut off.                                *)
LEMMA CutChunkGrown ==
  ASSUME TInv, kind # "firmware", CutChunk
  PROVE  \E c \in Clients : Grown(c)
<1>1. PICK c \in Clients :
        /\ Asked(c, "chunk")
        /\ chan[c].at = Len(Base(c))
        /\ \E n \in 0..chan[c].len : part' = Base(c) \o Slice(File[c], chan[c].at, n)
  BY DEF CutChunk, Base
<1>2. kind # "photo" => session # None
  BY TransferAssumption DEF CutChunk, TInv, ClientInv, AllKinds
<1>. QED
  BY <1>1, <1>2 DEF CutChunk, Grown


(* A device that was reset: requests and replies that were on their way    *)
(* are broken.                                                             *)
LEMMA ResetClients ==
  ASSUME TInv, Reset
  PROVE  ClientInv'
<1>1. /\ resets < MaxResets /\ resets' = resets + 1
      /\ chan' = [d \in Clients |-> IF chan[d] = Nothing THEN Nothing ELSE Broken]
      /\ UNCHANGED <<kind, phase, offset, attempts, error, uploads, expired>>
  BY DEF Reset, client
<1>2. /\ Nothing \in Messages /\ Broken \in Messages
      /\ Nothing.is = "none" /\ Broken.is = "broken"
  BY DEF Nothing, Broken, Message, Messages
<1>3. chan' \in [Clients -> Messages] /\ \A d \in Clients : chan'[d].is # "chunk"
  BY <1>1, <1>2
<1>4. CountTyped'
  <2>1. resets + 1 \in 0..MaxResets
    BY <1>1, TransferAssumption DEF TInv, ClientInv, CountTyped
  <2>. QED
    BY <1>1, <2>1 DEF TInv, ClientInv, CountTyped
<1>. QED
  BY <1>1, <1>3, <1>4 DEF TInv, ClientInv, ClientTyped, OffsetInside, ChunkInside, Asked, Length

(* What a reset leaves of the upload.                                      *)
LEMMA ResetDevice ==
  ASSUME TInv, Reset
  PROVE  DeviceInv'
<1>1. kind' = kind
  BY DEF Reset
<1>2. CASE LoseRam
  <2>1. CASE kind = "firmware"
    <3>1. session' = None /\ part' = <<>> /\ installed' = installed
      BY <1>2, <2>1 DEF LoseRam
    <3>2. InOrder'
      BY <3>1, EmptyPrefix, TransferAssumption DEF InOrder
    <3>3. DeviceTyped' /\ SessionKnown'
      BY <3>1, EmptySeq DEF TInv, DeviceInv, DeviceTyped, SessionKnown, Files
    <3>. QED
      BY <3>1, <3>2, <3>3 DEF TInv, DeviceInv, Whole, WholeInstalled, OnePhoto, SameFile
  <2>2. CASE kind # "firmware"
    BY <1>1, <1>2, <2>2, SameDeviceStep DEF LoseRam, device
  <2>. QED
    BY <2>1, <2>2
<1>3. CASE kind # "firmware" /\ CutChunk
  BY <1>1, <1>3, CutChunkGrown, GrownStep
<1>4. CASE CutReplace
  BY <1>1, <1>4 DEF CutReplace, TInv, DeviceInv, DeviceTyped, SessionKnown, InOrder, Whole,
     WholeInstalled, OnePhoto, SameFile, Prefix
<1>. QED
  BY <1>2, <1>3, <1>4 DEF Reset

(* A session whose deadline has passed.                                    *)
LEMMA ExpiresStep ==
  ASSUME TInv, SessionExpires
  PROVE  TInv'
<1>1. /\ session' = None /\ part' = <<>> /\ expired' = TRUE
      /\ UNCHANGED <<kind, installed, phase, offset, attempts, error, chan, uploads, resets>>
  BY DEF SessionExpires, client
<1>2. InOrder'
  BY <1>1, EmptyPrefix, TransferAssumption DEF InOrder
<1>3. DeviceTyped' /\ SessionKnown'
  BY <1>1, EmptySeq DEF TInv, DeviceInv, DeviceTyped, SessionKnown, Files
<1>4. DeviceInv'
  BY <1>1, <1>2, <1>3 DEF TInv, DeviceInv, Whole, WholeInstalled, OnePhoto, SameFile
<1>5. ClientInv'
  BY <1>1 DEF TInv, ClientInv, ClientTyped, CountTyped, OffsetInside, ChunkInside, Asked, Length
<1>. QED
  BY <1>4, <1>5 DEF TInv

-----------------------------------------------------------------------------
(* The theorems about any clients                                          *)

(* Every step keeps the invariant.                                         *)
LEMMA NextTInv == ASSUME TInv, [Next]_vars PROVE TInv'
<1>1. ASSUME NEW c \in Clients, Start(c) PROVE TInv'
  BY <1>1, StartStep
<1>2. ASSUME NEW c \in Clients, ClientStep(c) PROVE TInv'
  BY <1>2, SendStep, ReceiveStep, GiveUpStep DEF ClientStep
<1>3. ASSUME NEW c \in Clients, Serve(c) PROVE TInv'
  <2>1. Answered(c) /\ Effect(c)
    BY <1>3, ServeEffect
  <2>2. kind' = kind
    BY <2>1 DEF Answered, Answer
  <2>. QED
    BY <2>1, <2>2, AnsweredStep, EffectStep DEF TInv
<1>4. CASE SessionExpires
  BY <1>4, ExpiresStep
<1>5. CASE Reset
  BY <1>5, ResetClients, ResetDevice DEF TInv
<1>6. CASE UNCHANGED vars
  <2>1. UNCHANGED <<kind, device, client, chan, counters>>
    BY <1>6 DEF vars
  <2>2. DeviceInv'
    BY <2>1, SameDeviceStep
  <2>3. ClientInv'
    BY <2>1 DEF client, counters, TInv, ClientInv, ClientTyped, CountTyped, OffsetInside,
       ChunkInside, Asked, Length
  <2>. QED
    BY <2>2, <2>3 DEF TInv
<1>. QED
  BY <1>1, <1>2, <1>3, <1>4, <1>5, <1>6 DEF Next

(* The inductive invariant, for all files, clients and bounds.             *)
THEOREM TransferInvariance == Spec => []TInv
  BY InitTInv, NextTInv, PTL DEF Spec

(* The variables keep their types.                                         *)
THEOREM TransferTyped == Spec => []TypeOK
  BY TInvTyped, TransferInvariance, PTL

(* Whoever sends chunks of whatever to one name: what finish puts in place *)
(* is one whole file.  For photos, which have no checksum, only if nobody  *)
(* uploads two of them under one name.                                     *)
THEOREM AlwaysWhole == ASSUME OnePhoto PROVE Spec => []WholeInstalled
<1>1. TInv => WholeInstalled
  BY DEF TInv, DeviceInv, Whole
<1>. QED
  BY <1>1, TransferInvariance, PTL

-----------------------------------------------------------------------------
(* Stored cells are kept                                                   *)

Kept ==
  Len(part') < Len(part) =>
    \/ kind = "firmware"
    \/ kind = "package" /\ session' = None
    \/ kind = "photo" /\ (\/ installed' = part
                          \/ \E c \in Clients : Asked(c, "chunk") /\ chan[c].at = 0)

(* A chunk goes after what is stored, unless a photo starts over.          *)
LEMMA GrownKeeps == ASSUME TInv, NEW c \in Clients, Grown(c) PROVE Kept
<1>1. PICK n \in 0..chan[c].len : part' = Base(c) \o Slice(File[c], chan[c].at, n)
  BY DEF Grown
<1>2. Len(part') = Len(Base(c)) + n /\ n \in Nat
  <2>1. Asked(c, "chunk") /\ chan[c].at = Len(Base(c))
    BY DEF Grown
  <2>2. chan[c].len \in Nat
    BY <2>1, AskedChunk
  <2>3. Len(Base(c) \o Slice(File[c], chan[c].at, n)) = Len(Base(c)) + n
    BY <2>1, GrownInOrder
  <2>. QED
    BY <1>1, <2>2, <2>3
<1>3. CASE Base(c) = part
  BY <1>2, <1>3, LenPart DEF Kept
<1>4. CASE kind = "photo" /\ chan[c].at = 0
  BY <1>4 DEF Grown, Kept
<1>. QED
  BY <1>3, <1>4 DEF Base

(* A fresh start finds nothing, or cells of another file.                  *)
LEMMA ClearedKeeps == ASSUME TInv, SameFile, NEW c \in Clients, Cleared(c) PROVE Kept
<1>1. kind \in AllKinds
  BY TransferAssumption DEF TInv, ClientInv
<1>2. File[c] \in Contents /\ Prefix(File[c], part)
  BY TransferAssumption DEF TInv, DeviceInv, InOrder
<1>3. CASE kind = "package" /\ session' # None
  <2>1. session = None \/ session = File[c]
    BY DEF TInv, DeviceInv, SessionKnown, SameFile
  <2>2. session # File[c]
    <3>1. session = File[c] => Len(part) <= Size[session] /\ Len(part) \in Nat /\ Size[session] \in Nat
      BY <1>2, LenPart, ContentIsFile DEF Prefix
    <3>. QED
      BY <1>3, <3>1 DEF Cleared
  <2>3. part = <<>>
    BY <1>3, <2>1, <2>2 DEF TInv, DeviceInv, SessionKnown
  <2>. QED
    BY <2>3 DEF Cleared, Kept
<1>4. CASE kind = "photo"
  <2>1. Len(part) = Size[File[c]] /\ part[1][2] # 1
    BY <1>4 DEF Cleared, Length
  <2>2. 1 \in 1..Len(part)
    BY <1>2, <2>1, ContentIsFile
  <2>3. part[1] = Cell(File[c], 1)
    BY <1>2, <2>2 DEF Prefix
  <2>. QED
    BY <2>1, <2>3 DEF Cell
<1>. QED
  BY <1>1, <1>3, <1>4 DEF AllKinds, Kept

(* A dropped connection or a reset costs no chunk that is stored: what     *)
(* every step does to the stored cells, while all upload one file.         *)
THEOREM GroundAlwaysKept == ASSUME SameFile PROVE Spec => GroundKept
<1>1. ASSUME TInv, [Next]_vars PROVE [Kept]_vars
  <2>1. ASSUME UNCHANGED part PROVE Kept
    BY <1>1, <2>1, LenPart DEF Kept
  <2>2. ASSUME NEW c \in Clients, Serve(c) PROVE Kept
    <3>1. Effect(c)
      BY <1>1, <2>2, ServeEffect
    <3>2. CASE UNCHANGED device
      BY <2>1, <3>2 DEF device
    <3>3. CASE Grown(c)
      BY <1>1, <3>3, GrownKeeps
    <3>4. CASE Cleared(c)
      BY <1>1, <3>4, ClearedKeeps
    <3>5. CASE Placed(c)
      <4>1. kind \in AllKinds
        BY <1>1, TransferAssumption DEF TInv, ClientInv
      <4>. QED
        BY <3>5, <4>1 DEF AllKinds, Placed, Kept
    <3>. QED
      BY <3>1, <3>2, <3>3, <3>4, <3>5 DEF Effect
  <2>3. ASSUME NEW c \in Clients, Start(c) \/ ClientStep(c) PROVE Kept
    BY <2>1, <2>3 DEF Start, ClientStep, Send, Receive, GiveUp, device
  <2>4. CASE SessionExpires
    BY <2>4 DEF SessionExpires, Kept
  <2>5. CASE Reset
    <3>1. CASE LoseRam
      BY <2>1, <3>1 DEF LoseRam, Kept
    <3>2. CASE kind # "firmware" /\ CutChunk
      BY <1>1, <3>2, CutChunkGrown, GrownKeeps
    <3>3. CASE CutReplace
      BY <2>1, <3>3 DEF CutReplace
    <3>. QED
      BY <2>5, <3>1, <3>2, <3>3 DEF Reset
  <2>. QED
    BY <1>1, <2>2, <2>3, <2>4, <2>5 DEF Next
<1>. QED
  BY <1>1, TransferInvariance, PTL DEF Spec, GroundKept, Kept


-----------------------------------------------------------------------------
(* One client at work: what holds of it on top of TInv                     *)

Working(c) == phase[c] \in {"begin", "chunks", "finish"}

(* Its request is one of the phase it is in.                               *)
Matching(c) ==
  /\ chan[c] # Nothing => Working(c)
  /\ Asked(c, "begin") => phase[c] = "begin"
  /\ Asked(c, "chunk") => phase[c] = "chunks"
  /\ Asked(c, "finish") => phase[c] = "finish"
  /\ phase[c] = "begin" => kind # "photo"

(* The session is gone, and for one of the reasons there are.              *)
Lost == kind # "photo" /\ session = None
Gone(c) ==
  \/ expired
  \/ kind = "firmware" /\ (resets > 0 \/ Faults)
  \/ installed = Content(File[c])

(* What a reply says is so: the cells are stored, or the session is gone.  *)
Stands(c, code, count) ==
  /\ code \in {"OK", "OFFSET_MISMATCH"} /\ phase[c] # "finish" =>
       count <= Length(c) /\ (Lost \/ count <= Len(part))
  /\ code = "OK" /\ phase[c] = "finish" => installed = Content(File[c])
  /\ code = "OFFSET_MISMATCH" => phase[c] = "chunks"
  /\ code = "STORAGE_ERROR" => Faults
  /\ code = "NO_SESSION" => kind # "photo" /\ Gone(c)
  /\ code \in {"OK", "OFFSET_MISMATCH", "STORAGE_ERROR", "NO_SESSION"}
  /\ Lost /\ code = "OK" => Gone(c)

ReplyTrue(c)     == Asked(c, "reply") => Stands(c, chan[c].code, chan[c].at)
FinishWhole(c)   == phase[c] = "finish" /\ (chan[c] = Nothing \/ Asked(c, "finish")) =>
                      Lost \/ Len(part) = Length(c)
LostWithCause(c) == Lost /\ phase[c] \in {"chunks", "finish"} => Gone(c)
Cause(c) == \/ error[c] = "TIMEOUT"
            \/ error[c] = "STORAGE_ERROR" /\ Faults
            \/ error[c] = "NO_SESSION" /\ kind # "photo" /\ Gone(c)
FailedFor(c) == phase[c] = "failed" => Cause(c)

CInv(c) == Matching(c) /\ ReplyTrue(c) /\ FinishWhole(c) /\ LostWithCause(c) /\ FailedFor(c)

(* What is stored and begun is the client's.                               *)
LEMMA OneUpload ==
  ASSUME TInv, NEW c \in Clients, Clients = {c}
  PROVE  /\ File[c] \in Contents /\ Length(c) = Size[File[c]] /\ Length(c) \in Nat \ {0}
         /\ Prefix(File[c], part) /\ Len(part) \in Nat /\ Len(part) <= Length(c)
         /\ session \in {None, File[c]} /\ File[c] # None
         /\ kind \in AllKinds
<1>1. File[c] \in Contents /\ Length(c) = Size[File[c]] /\ Length(c) \in Nat \ {0} /\ File[c] # None
  BY TransferAssumption DEF Length
<1>2. Prefix(File[c], part)
  BY DEF TInv, DeviceInv, InOrder, SameFile
<1>3. Len(part) \in Nat /\ Len(part) <= Length(c)
  BY <1>1, <1>2, LenPart DEF Prefix
<1>4. session \in {None, File[c]}
  BY DEF TInv, DeviceInv, SessionKnown
<1>5. kind \in AllKinds
  BY TransferAssumption DEF TInv, ClientInv
<1>. QED
  BY <1>1, <1>2, <1>3, <1>4, <1>5

(* All of it is the whole file.                                            *)
LEMMA OneWhole ==
  ASSUME TInv, NEW c \in Clients, Clients = {c}, Len(part) = Length(c)
  PROVE  part = Content(File[c]) /\ part # <<>> /\ part[1][2] = 1
<1>1. /\ File[c] \in Contents /\ Length(c) = Size[File[c]] /\ Length(c) \in Nat \ {0}
      /\ Prefix(File[c], part)
  BY OneUpload
<1>2. part = Content(File[c])
  BY <1>1, WholePrefix
<1>3. part[1] = Cell(File[c], 1)
  BY <1>1 DEF Prefix
<1>4. part # <<>>
  BY <1>1
<1>. QED
  BY <1>2, <1>3, <1>4 DEF Cell

(* A handler that answers what stands.                                     *)
LEMMA AnswerStands ==
  ASSUME TInv, NEW c \in Clients, CInv(c),
         NEW what \in {"begin", "chunk", "finish"}, Asked(c, what),
         NEW code \in Codes, NEW count \in Nat, Answer(c, code, count),
         Stands(c, code, count)', LostWithCause(c)'
  PROVE  CInv(c)'
<1>1. /\ chan' = [chan EXCEPT ![c] = Message("reply", count, 0, code)]
      /\ UNCHANGED <<kind, phase, error>>
  BY DEF Answer, client
<1>2. chan'[c] = [is |-> "reply", at |-> count, len |-> 0, code |-> code]
  BY <1>1 DEF TInv, ClientInv, Message
<1>3. chan'[c].is = "reply" /\ chan'[c].at = count /\ chan'[c].code = code
  BY <1>2
<1>4. Nothing.is = "none"
  BY DEF Nothing, Message
<1>5. chan[c] # Nothing /\ chan'[c] # Nothing
  BY <1>3, <1>4 DEF Asked
<1>6. Working(c) /\ phase[c] # "failed"
  BY <1>5 DEF CInv, Matching, Working
<1>7. Matching(c)'
  BY <1>1, <1>3, <1>6 DEF CInv, Matching, Working, Asked
<1>8. ReplyTrue(c)'
  BY <1>3, Zenon DEF ReplyTrue
<1>9. FinishWhole(c)'
  BY <1>3, <1>5 DEF FinishWhole, Asked
<1>10. FailedFor(c)'
  BY <1>1, <1>6 DEF FailedFor
<1>. QED
  BY <1>7, <1>8, <1>9, <1>10 DEF CInv


(* A cause stays one.                                                      *)
LEMMA GoneStays ==
  ASSUME NEW c \in Clients, Gone(c), UNCHANGED <<kind, expired, resets>>,
         installed' \in {installed, Content(File[c])}
  PROVE  Gone(c)'
  BY DEF Gone

(* Opening a session.                                                      *)
LEMMA BeginStands ==
  ASSUME TInv, NEW c \in Clients, Clients = {c}, CInv(c), PackageBegin(c) \/ FirmwareBegin(c)
  PROVE  CInv(c)'
<1>1. /\ Asked(c, "begin") /\ phase[c] = "begin" /\ kind # "photo"
      /\ {"OK", "STORAGE_ERROR"} \subseteq Codes /\ 0 \in Nat
  BY DEF PackageBegin, FirmwareBegin, CInv, Matching, Codes
<1>2. /\ Length(c) \in Nat /\ Len(part) \in Nat /\ Len(part) <= Length(c)
      /\ File[c] # None
  BY OneUpload
<1>3. CASE session = File[c] /\ Answer(c, "OK", Len(part)) /\ UNCHANGED device
  <2>1. UNCHANGED <<kind, phase, session, part>>
    BY <1>3 DEF Answer, device, client
  <2>2. PICK n \in Nat : n = Len(part)
    BY <1>2
  <2>3. Answer(c, "OK", n)
    BY <1>3, <2>2
  <2>4. Stands(c, "OK", n)' /\ LostWithCause(c)'
    BY <1>1, <1>2, <1>3, <2>1, <2>2 DEF Stands, LostWithCause, Lost, Length
  <2>. QED
    BY <1>1, <2>3, <2>4, AnswerStands
<1>4. CASE session' = File[c] /\ part' = <<>> /\ Answer(c, "OK", 0)
  <2>1. UNCHANGED <<kind, phase>>
    BY <1>4 DEF Answer, client
  <2>2. Stands(c, "OK", 0)' /\ LostWithCause(c)'
    BY <1>1, <1>2, <1>4, <2>1 DEF Stands, LostWithCause, Lost, Length
  <2>. QED
    BY <1>1, <1>4, <2>2, AnswerStands
<1>5. CASE Faults /\ Discard(c, "STORAGE_ERROR")
  <2>1. Answer(c, "STORAGE_ERROR", 0) /\ UNCHANGED phase
    BY <1>5 DEF Discard, Answer, client
  <2>2. Stands(c, "STORAGE_ERROR", 0)' /\ LostWithCause(c)'
    BY <1>1, <1>5, <2>1 DEF Stands, LostWithCause
  <2>. QED
    BY <1>1, <2>1, <2>2, AnswerStands
<1>. QED
  BY <1>3, <1>4, <1>5 DEF PackageBegin, FirmwareBegin

(* Storing a chunk.                                                        *)
LEMMA StoreStands ==
  ASSUME TInv, NEW c \in Clients, Clients = {c}, CInv(c), Asked(c, "chunk"),
         chan[c].at = Len(Base(c)), kind # "photo" => session = File[c], StoreChunk(c, Base(c))
  PROVE  CInv(c)'
<1>1. /\ phase[c] = "chunks" /\ {"OK", "STORAGE_ERROR"} \subseteq Codes /\ 0 \in Nat
      /\ chan[c].at \in Nat /\ chan[c].len \in Nat \ {0}
      /\ chan[c].at + chan[c].len <= Length(c) /\ Length(c) \in Nat /\ File[c] # None
  BY AskedChunk, OneUpload DEF CInv, Matching, Codes
<1>2. CASE /\ part' = Base(c) \o Slice(File[c], chan[c].at, chan[c].len)
           /\ Answer(c, "OK", chan[c].at + chan[c].len)
           /\ UNCHANGED <<session, installed>>
  <2>1. chan[c].len \in 0..chan[c].len
    BY <1>1
  <2>2. Len(part') = Len(Base(c)) + chan[c].len
    BY <1>2, <2>1, GrownInOrder
  <2>3. UNCHANGED <<kind, phase, session>>
    BY <1>2 DEF Answer, client
  <2>4. ~ Lost'
    BY <1>1, <2>3 DEF Lost
  <2>5. PICK n \in Nat : n = chan[c].at + chan[c].len
    BY <1>1
  <2>6. Answer(c, "OK", n) /\ n <= Length(c) /\ n = Len(part')
    BY <1>1, <1>2, <2>2, <2>5
  <2>7. Stands(c, "OK", n)' /\ LostWithCause(c)'
    BY <1>1, <2>3, <2>4, <2>6 DEF Stands, LostWithCause, Length
  <2>. QED
    BY <1>1, <2>6, <2>7, AnswerStands
<1>3. CASE Faults /\ Answer(c, "STORAGE_ERROR", 0) /\ (kind = "firmware" \/ UNCHANGED session)
  <2>1. UNCHANGED <<kind, phase>>
    BY <1>3 DEF Answer, client
  <2>2. Stands(c, "STORAGE_ERROR", 0)'
    BY <1>1, <1>3, <2>1 DEF Stands
  <2>3. LostWithCause(c)'
    BY <1>1, <1>3, <2>1 DEF LostWithCause, Lost, Gone
  <2>. QED
    BY <1>1, <1>3, <2>2, <2>3, AnswerStands
<1>. QED
  BY <1>2, <1>3 DEF StoreChunk

(* A chunk of a package or of firmware.                                    *)
LEMMA ChunkStands ==
  ASSUME TInv, NEW c \in Clients, Clients = {c}, CInv(c), PackageChunk(c) \/ FirmwareChunk(c)
  PROVE  CInv(c)'
<1>1. /\ Asked(c, "chunk") /\ phase[c] = "chunks" /\ kind # "photo" /\ Base(c) = part
      /\ {"OK", "NO_SESSION", "OFFSET_MISMATCH"} \subseteq Codes /\ 0 \in Nat
  BY DEF PackageChunk, FirmwareChunk, CInv, Matching, Codes, Base
<1>2. /\ chan[c].at \in Nat /\ chan[c].len \in Nat \ {0}
      /\ chan[c].at + chan[c].len <= Length(c) /\ Length(c) \in Nat /\ Length(c) = Size[File[c]]
      /\ File[c] # None /\ session \in {None, File[c]}
      /\ Len(part) \in Nat /\ Len(part) <= Length(c)
  BY <1>1, AskedChunk, OneUpload
<1>3. CASE session = None /\ Refuse(c, "NO_SESSION")
  <2>1. Answer(c, "NO_SESSION", 0) /\ UNCHANGED <<kind, session, installed, phase, expired, resets>>
    BY <1>3 DEF Refuse, Answer, device, client, counters
  <2>2. Gone(c)
    BY <1>1, <1>3 DEF CInv, LostWithCause, Lost
  <2>3. Gone(c)'
    BY <2>1, <2>2, GoneStays
  <2>4. Stands(c, "NO_SESSION", 0)' /\ LostWithCause(c)'
    BY <1>1, <2>1, <2>3 DEF Stands, LostWithCause
  <2>. QED
    BY <1>1, <2>1, <2>4, AnswerStands
<1>4. CASE /\ session # None /\ UNCHANGED device
           /\ Answer(c, "OK", Len(part)) \/ Answer(c, "OFFSET_MISMATCH", Len(part))
  <2>1. PICK code \in {"OK", "OFFSET_MISMATCH"}, n \in Nat : n = Len(part) /\ Answer(c, code, n)
    BY <1>2, <1>4
  <2>2. UNCHANGED <<kind, session, part, phase>>
    BY <1>4, <2>1 DEF Answer, device, client
  <2>3. Stands(c, code, n)' /\ LostWithCause(c)'
    BY <1>1, <1>2, <1>4, <2>1, <2>2 DEF Stands, LostWithCause, Lost, Length
  <2>. QED
    BY <1>1, <2>1, <2>3, AnswerStands
<1>5. CASE session # None /\ chan[c].at = Len(part) /\ StoreChunk(c, part)
  BY <1>1, <1>2, <1>5, StoreStands
<1>6. session # None => ~ (chan[c].at + chan[c].len > Size[session])
  BY <1>2
<1>. QED
  BY <1>3, <1>4, <1>5, <1>6 DEF PackageChunk, FirmwareChunk

(* A chunk of a photo.                                                     *)
LEMMA PhotoChunkStands ==
  ASSUME TInv, NEW c \in Clients, Clients = {c}, CInv(c), PhotoChunk(c)
  PROVE  CInv(c)'
<1>1. /\ Asked(c, "chunk") /\ phase[c] = "chunks" /\ kind = "photo" /\ "OFFSET_MISMATCH" \in Codes
      /\ Base(c) = IF chan[c].at = 0 THEN <<>> ELSE part
  BY DEF PhotoChunk, CInv, Matching, Codes, Base
<1>2. /\ chan[c].at \in Nat /\ chan[c].len \in Nat \ {0}
      /\ chan[c].at + chan[c].len <= Length(c) /\ Length(c) \in Nat
      /\ Len(part) \in Nat /\ Len(part) <= Length(c)
  BY <1>1, AskedChunk, OneUpload
<1>3. CASE chan[c].at # Len(Base(c)) /\ Answer(c, "OFFSET_MISMATCH", Len(Base(c))) /\ UNCHANGED device
  <2>1. Base(c) = part
    <3>1. Len(<<>>) = 0
      OBVIOUS
    <3>. QED
      BY <1>1, <1>3, <3>1
  <2>2. PICK n \in Nat : n = Len(part)
    BY <1>2
  <2>3. UNCHANGED <<kind, part, phase>> /\ Answer(c, "OFFSET_MISMATCH", n)
    BY <1>3, <2>1, <2>2 DEF Answer, device, client
  <2>4. Stands(c, "OFFSET_MISMATCH", n)' /\ LostWithCause(c)'
    BY <1>1, <1>2, <2>2, <2>3 DEF Stands, LostWithCause, Lost, Length
  <2>. QED
    BY <1>1, <2>3, <2>4, AnswerStands
<1>4. CASE chan[c].at = Len(Base(c)) /\ StoreChunk(c, Base(c))
  BY <1>1, <1>4, StoreStands
<1>. QED
  BY <1>1, <1>2, <1>3, <1>4 DEF PhotoChunk

(* The finish.                                                             *)
LEMMA FinishStands ==
  ASSUME TInv, NEW c \in Clients, Clients = {c}, CInv(c),
         PackageFinish(c) \/ FirmwareFinish(c) \/ PhotoFinish(c)
  PROVE  CInv(c)'
<1>1. /\ Asked(c, "finish") /\ phase[c] = "finish"
      /\ {"OK", "NO_SESSION"} \subseteq Codes /\ 0 \in Nat
  BY DEF PackageFinish, FirmwareFinish, PhotoFinish, CInv, Matching, Codes
<1>2. session \in {None, File[c]} /\ Length(c) = Size[File[c]] /\ File[c] # None
  BY OneUpload
<1>3. ~ Lost => /\ Len(part) = Length(c)
                /\ part = Content(File[c]) /\ part # <<>> /\ part[1][2] = 1
  BY <1>1, OneWhole DEF CInv, FinishWhole
<1>4. CASE Lost /\ Refuse(c, "NO_SESSION")
  <2>1. Answer(c, "NO_SESSION", 0) /\ UNCHANGED <<kind, session, installed, phase, expired, resets>>
    BY <1>4 DEF Refuse, Answer, device, client, counters
  <2>2. Gone(c)
    BY <1>1, <1>4 DEF CInv, LostWithCause
  <2>3. Gone(c)'
    BY <2>1, <2>2, GoneStays
  <2>4. Stands(c, "NO_SESSION", 0)' /\ LostWithCause(c)'
    BY <1>1, <1>4, <2>1, <2>3 DEF Stands, LostWithCause, Lost
  <2>. QED
    BY <1>1, <2>1, <2>4, AnswerStands
<1>5. CASE ~ Lost /\ PutInPlace(c)
  <2>1. Answer(c, "OK", 0) /\ UNCHANGED phase /\ installed' = Content(File[c])
    BY <1>3, <1>5 DEF PutInPlace, Answer, client
  <2>2. Gone(c)'
    BY <2>1 DEF Gone
  <2>3. Stands(c, "OK", 0)' /\ LostWithCause(c)'
    BY <1>1, <2>1, <2>2 DEF Stands, LostWithCause
  <2>. QED
    BY <1>1, <2>1, <2>3, AnswerStands
<1>6. CASE PackageFinish(c) \/ FirmwareFinish(c)
  <2>1. kind # "photo"
    BY <1>6 DEF PackageFinish, FirmwareFinish
  <2>2. CASE session = None
    BY <1>4, <1>6, <2>1, <2>2 DEF PackageFinish, FirmwareFinish, Lost
  <2>3. CASE session # None
    <3>1. session = File[c] /\ ~ Lost
      BY <1>2, <2>3 DEF Lost
    <3>2. PutInPlace(c)
      BY <1>2, <1>3, <1>6, <2>3, <3>1 DEF PackageFinish, FirmwareFinish
    <3>. QED
      BY <1>5, <3>1, <3>2
  <2>. QED
    BY <2>2, <2>3
<1>7. CASE PhotoFinish(c)
  <2>1. ~ Lost
    BY <1>7 DEF PhotoFinish, Lost
  <2>2. PutInPlace(c)
    BY <1>3, <1>7, <2>1 DEF PhotoFinish
  <2>. QED
    BY <1>5, <2>1, <2>2
<1>. QED
  BY <1>6, <1>7


-----------------------------------------------------------------------------
(* What the client itself does                                             *)

(* Nothing has been started.                                               *)
LEMMA InitCInv == ASSUME NEW c \in Clients, Init PROVE CInv(c)
<1>1. phase[c] = "idle" /\ chan[c] = Nothing /\ Nothing.is = "none"
  BY DEF Init, Nothing, Message
<1>. QED
  BY <1>1 DEF CInv, Matching, ReplyTrue, FinishWhole, LostWithCause, FailedFor, Asked

(* The upload is started, or started again.                                *)
LEMMA StartCause ==
  ASSUME TInv, NEW c \in Clients, CInv(c), Start(c)
  PROVE  CInv(c)'
<1>1. phase[c] \in {"idle", "failed"} /\ UNCHANGED <<kind, session, part, installed, chan, resets, expired>>
  BY DEF Start, device
<1>2. phase'[c] = IF kind = "photo" THEN "chunks" ELSE "begin"
  BY DEF Start, TInv, ClientInv, ClientTyped
<1>3. chan'[c] = Nothing /\ Nothing.is = "none"
  BY <1>1 DEF CInv, Matching, Working, Nothing, Message
<1>. QED
  BY <1>1, <1>2, <1>3 DEF CInv, Matching, Working, ReplyTrue, FinishWhole, LostWithCause, FailedFor,
     Lost, Asked

(* A request is sent.                                                      *)
LEMMA SendCause ==
  ASSUME TInv, NEW c \in Clients, CInv(c), Send(c)
  PROVE  CInv(c)'
<1>1. /\ phase[c] \in {"begin", "chunks", "finish"} /\ chan[c] = Nothing
      /\ UNCHANGED <<kind, session, part, installed, phase, error, resets, expired>>
  BY DEF Send, device, client, counters
<1>2. chan'[c] = Request(c)
  BY DEF Send, TInv, ClientInv
<1>3. PICK what \in {"begin", "chunk", "finish"}, n \in {0, offset[c]},
           m \in {0, Shorter(ChunkSize, Length(c) - offset[c])} :
        /\ chan'[c] = Message(what, n, m, "")
        /\ what = "begin" => phase[c] = "begin"
        /\ what = "chunk" => phase[c] = "chunks"
        /\ what = "finish" => phase[c] = "finish"
  BY <1>1, <1>2 DEF Request
<1>6. chan'[c].is = what
  <2>1. PICK r : r = Message(what, n, m, "")
    OBVIOUS
  <2>2. r.is = what
    BY ONLY <2>1 DEF Message
  <2>3. chan'[c] = r
    BY <1>3, <2>1
  <2>. QED
    BY <2>2, <2>3
<1>4. Matching(c)' /\ ReplyTrue(c)'
  BY <1>1, <1>3, <1>6 DEF CInv, Matching, Working, ReplyTrue, Asked
<1>5. FinishWhole(c)' /\ LostWithCause(c)' /\ FailedFor(c)'
  BY <1>1 DEF CInv, FinishWhole, LostWithCause, FailedFor, Cause, Lost, Gone, Length
<1>. QED
  BY <1>4, <1>5 DEF CInv

(* The reply is read.                                                      *)
LEMMA ReceiveCause ==
  ASSUME TInv, NEW c \in Clients, Clients = {c}, CInv(c), Receive(c)
  PROVE  CInv(c)'
<1>. DEFINE code == chan[c].code
            count == chan[c].at
<1>1. /\ Asked(c, "reply") /\ chan'[c] = Nothing /\ Nothing.is = "none"
      /\ UNCHANGED <<kind, session, part, installed, resets, expired>>
  BY DEF Receive, device, counters, TInv, ClientInv, Nothing, Message, Asked
<1>2. Working(c) /\ Stands(c, code, count) /\ count \in Nat
  <2>1. chan[c] # Nothing
    BY <1>1 DEF Asked
  <2>. QED
    BY <1>1, <2>1 DEF CInv, Matching, ReplyTrue, TInv, ClientInv, Messages
<1>3. Matching(c)' <=> (phase'[c] = "begin" => kind # "photo")
  BY <1>1 DEF Matching, Asked
<1>4. ReplyTrue(c)'
  BY <1>1 DEF ReplyTrue, Asked
<1>5. Len(part) \in Nat /\ Len(part) <= Length(c) /\ Length(c) \in Nat
  BY OneUpload
<1>6. CASE /\ \/ phase[c] \in {"begin", "chunks"} /\ code = "OK"
              \/ phase[c] = "chunks" /\ code = "OFFSET_MISMATCH"
           /\ ContinueFrom(c, count)
  <2>1. phase'[c] = IF count < Length(c) THEN "chunks" ELSE "finish"
    BY <1>6 DEF ContinueFrom, TInv, ClientInv, ClientTyped
  <2>2. Lost => Gone(c)
    BY <1>2, <1>6 DEF Stands, CInv, LostWithCause
  <2>3. count <= Length(c) /\ (Lost \/ count <= Len(part))
    BY <1>2, <1>6 DEF Stands
  <2>4. phase'[c] = "finish" => Lost \/ Len(part) = Length(c)
    BY <1>2, <1>5, <2>1, <2>3
  <2>5. FinishWhole(c)' /\ LostWithCause(c)'
    BY <1>1, <2>2, <2>4 DEF FinishWhole, LostWithCause, Lost, Gone, Length
  <2>6. FailedFor(c)' /\ Matching(c)'
    BY <1>3, <2>1 DEF FailedFor
  <2>. QED
    BY <1>4, <2>5, <2>6 DEF CInv
<1>7. CASE /\ ~ \/ phase[c] \in {"begin", "chunks"} /\ code = "OK"
                \/ phase[c] = "chunks" /\ code = "OFFSET_MISMATCH"
           /\ Stop(c, code)
  <2>1. phase'[c] = (IF code = "OK" THEN "done" ELSE "failed") /\ error'[c] = code
    BY <1>7 DEF Stop, TInv, ClientInv, ClientTyped
  <2>2. code # "OK" => \/ code = "STORAGE_ERROR" /\ Faults
                       \/ code = "NO_SESSION" /\ kind # "photo" /\ Gone(c)
    BY <1>2, <1>7 DEF Stands
  <2>3. FailedFor(c)'
    BY <1>1, <2>1, <2>2 DEF FailedFor, Cause, Gone
  <2>4. FinishWhole(c)' /\ LostWithCause(c)' /\ Matching(c)'
    BY <1>3, <2>1 DEF FinishWhole, LostWithCause
  <2>. QED
    BY <1>4, <2>3, <2>4 DEF CInv
<1>. QED
  BY <1>6, <1>7 DEF Receive

(* The request is given up.                                                *)
LEMMA GiveUpCause ==
  ASSUME TInv, NEW c \in Clients, CInv(c), GiveUp(c)
  PROVE  CInv(c)'
<1>1. /\ chan[c] # Nothing /\ chan'[c] = Nothing /\ Nothing.is = "none"
      /\ UNCHANGED <<kind, session, part, installed, resets, expired>>
  BY DEF GiveUp, device, counters, TInv, ClientInv, Nothing, Message
<1>2. Working(c) /\ ReplyTrue(c)'
  BY <1>1 DEF CInv, Matching, ReplyTrue, Asked
<1>3. CASE phase[c] = "chunks" /\ UNCHANGED <<phase, error>>
  BY <1>1, <1>2, <1>3 DEF CInv, Matching, Asked, FinishWhole, LostWithCause, Lost, Gone, FailedFor
<1>4. CASE Stop(c, "TIMEOUT")
  <2>1. phase'[c] = "failed" /\ error'[c] = "TIMEOUT"
    BY <1>4 DEF Stop, TInv, ClientInv, ClientTyped
  <2>. QED
    BY <1>1, <1>2, <2>1 DEF CInv, Matching, Asked, FinishWhole, LostWithCause, FailedFor, Cause
<1>. QED
  BY <1>3, <1>4 DEF GiveUp

-----------------------------------------------------------------------------
(* What happens to the client                                              *)

(* The deadline passes.                                                    *)
LEMMA ExpiresCause ==
  ASSUME NEW c \in Clients, CInv(c), SessionExpires
  PROVE  CInv(c)'
<1>1. /\ kind = "package" /\ session' = None /\ expired' = TRUE
      /\ UNCHANGED <<kind, installed, chan, phase, error>>
  BY DEF SessionExpires, client
<1>2. Lost' /\ Gone(c)'
  BY <1>1 DEF Lost, Gone
<1>3. Matching(c)'
  BY <1>1 DEF CInv, Matching, Working, Asked
<1>4. FinishWhole(c)' /\ LostWithCause(c)'
  BY <1>2 DEF FinishWhole, LostWithCause
<1>5. ReplyTrue(c)'
  BY <1>1, <1>2 DEF CInv, ReplyTrue, Asked, Stands, Length
<1>6. FailedFor(c)'
  BY <1>1, <1>2 DEF CInv, FailedFor, Cause
<1>. QED
  BY <1>3, <1>4, <1>5, <1>6 DEF CInv

(* The device is reset.                                                    *)
LEMMA ResetCause ==
  ASSUME TInv, NEW c \in Clients, Clients = {c}, CInv(c), Reset
  PROVE  CInv(c)'
<1>1. /\ chan'[c] = IF chan[c] = Nothing THEN Nothing ELSE Broken
      /\ resets' = resets + 1 /\ resets \in Nat
      /\ UNCHANGED <<kind, phase, error, expired>>
  BY TransferAssumption DEF Reset, client, TInv, ClientInv, CountTyped
<1>2. Nothing.is = "none" /\ Broken.is = "broken"
  BY DEF Nothing, Broken, Message
<1>3. Matching(c)' /\ ReplyTrue(c)'
  BY <1>1, <1>2 DEF CInv, Matching, Working, ReplyTrue, Asked
<1>4. chan'[c] = Nothing \/ Asked(c, "finish")' => chan[c] = Nothing
  BY <1>1, <1>2 DEF Asked
<1>5. CASE LoseRam
  <2>1. CASE kind = "firmware"
    <3>1. Lost' /\ Gone(c)' /\ installed' = installed
      BY <1>1, <1>5, <2>1 DEF LoseRam, Lost, Gone
    <3>. QED
      BY <1>1, <1>3, <3>1 DEF CInv, FinishWhole, LostWithCause, FailedFor, Cause
  <2>2. CASE kind # "firmware"
    <3>1. UNCHANGED <<session, part, installed>>
      BY <1>5, <2>2 DEF LoseRam
    <3>. QED
      BY <1>1, <1>3, <1>4, <2>2, <3>1 DEF CInv, FinishWhole, LostWithCause, FailedFor, Cause, Lost,
         Gone, Length
  <2>. QED
    BY <2>1, <2>2
<1>6. CASE kind # "firmware" /\ CutChunk
  <2>1. phase[c] = "chunks" /\ UNCHANGED <<session, installed>>
    BY <1>6 DEF CutChunk, CInv, Matching
  <2>. QED
    BY <1>1, <1>3, <1>6, <2>1 DEF CInv, FinishWhole, LostWithCause, FailedFor, Lost, Gone
<1>7. CASE CutReplace
  <2>1. kind = "photo" /\ phase[c] = "finish" /\ chan'[c] = Broken /\ Broken # Nothing
    BY <1>1, <1>2, <1>7 DEF CutReplace, CInv, Matching, Asked
  <2>. QED
    BY <1>1, <1>2, <1>3, <2>1 DEF CInv, FinishWhole, LostWithCause, FailedFor, Lost, Asked
<1>. QED
  BY <1>5, <1>6, <1>7 DEF Reset

(* Every step keeps what holds of the one client.                          *)
LEMMA NextCInv ==
  ASSUME NEW c \in Clients, Clients = {c}, TInv, CInv(c), [Next]_vars
  PROVE  CInv(c)'
<1>1. CASE Start(c) \/ ClientStep(c)
  BY <1>1, StartCause, SendCause, ReceiveCause, GiveUpCause DEF ClientStep
<1>2. CASE Serve(c)
  BY <1>2, BeginStands, ChunkStands, PhotoChunkStands, FinishStands DEF Serve
<1>3. CASE SessionExpires \/ Reset
  BY <1>3, ExpiresCause, ResetCause
<1>4. CASE UNCHANGED vars
  <2>1. UNCHANGED <<kind, session, part, installed, phase, error, chan, resets, expired>>
    BY <1>4 DEF vars, device, client, counters
  <2>. QED
    BY <2>1 DEF CInv, Matching, Working, ReplyTrue, Stands, FinishWhole, LostWithCause, FailedFor,
       Cause, Lost, Gone, Asked, Length
<1>5. \A d \in Clients : d = c
  OBVIOUS
<1>. QED
  BY <1>1, <1>2, <1>3, <1>4, <1>5 DEF Next

(* An upload that no other disturbs fails for a reason: losing requests,   *)
(* replies and power never sends the resume logic astray.                  *)
THEOREM AlwaysFailsWithCause == ASSUME OneClient PROVE Spec => []FailsWithCause
<1>1. PICK c \in Clients : Clients = {c}
  BY DEF OneClient
<1>2. Init => CInv(c)
  BY InitCInv
<1>3. TInv /\ CInv(c) /\ [Next]_vars => CInv(c)'
  BY <1>1, NextCInv
<1>4. CInv(c) => FailsWithCause
  BY <1>1 DEF CInv, FailedFor, Cause, Gone, FailsWithCause
<1>. QED
  BY <1>2, <1>3, <1>4, TransferInvariance, PTL DEF Spec


-----------------------------------------------------------------------------
(* One client's upload and ResumableCopy                                   *)

(* The client is the one there is.                                         *)
LEMMA TheClientIs == ASSUME NEW c, Clients = {c} PROVE TheClient = c
  BY DEF TheClient

(* The cells in order are counted.                                         *)
LEMMA StoredIsLen ==
  ASSUME TInv, NEW c \in Clients, Clients = {c}
  PROVE  Stored = Len(part)
<1>1. part = SubSeq(Content(File[c]), 1, Len(part))
  BY OneUpload, PrefixIsSubSeq
<1>. QED
  BY <1>1, TheClientIs DEF Stored

(* After a step too.                                                       *)
LEMMA StoredStaysLen ==
  ASSUME TInv', NEW c \in Clients, Clients = {c}
  PROVE  /\ Stored' = Len(part') /\ Len(part') \in Nat
         /\ Len(part') <= Length(c)
<1>1. File[c] \in Contents /\ Length(c) = Size[File[c]] /\ Size[File[c]] \in Nat
  BY TransferAssumption DEF Length
<1>2. Prefix(File[c], part')
  BY DEF TInv, DeviceInv, InOrder, SameFile
<1>3. part' = SubSeq(Content(File[c]), 1, Len(part'))
  BY <1>1, <1>2, PrefixIsSubSeq
<1>4. Stored' = Len(part')
  BY <1>3, TheClientIs DEF Stored
<1>5. Len(part') \in Nat /\ Len(part') <= Length(c)
  BY <1>1, <1>2 DEF Prefix, Files
<1>. QED
  BY <1>4, <1>5

(* What is delivered.                                                      *)
Delivered == installed = Content(File[TheClient])

(* Whatever a step stores or drops is a Store or a StartOver.              *)
LEMMA StoringSteps ==
  ASSUME TInv, TInv', NEW c \in Clients, Clients = {c}, UNCHANGED <<installed, phase>>
  PROVE  [Copy!Next]_(Copy!vars)
<1>1. Stored = Len(part) /\ Len(part) \in Nat /\ Len(part) <= Length(c) /\ Length(c) \in Nat
  BY StoredIsLen, OneUpload
<1>2. Stored' = Len(part') /\ Len(part') \in Nat /\ Len(part') <= Length(c)
  BY StoredStaysLen
<1>3. Verdict' = Verdict /\ Delivered' = Delivered /\ Length(TheClient) = Length(c)
  BY TheClientIs DEF Verdict, Delivered
<1>4. CASE Len(part') > Len(part)
  <2>1. Stored' \in (Stored + 1)..Length(TheClient)
    BY <1>1, <1>2, <1>3, <1>4
  <2>2. Copy!Store
    BY <1>3, <2>1 DEF Copy!Store, Delivered
  <2>. QED
    BY <2>2 DEF Copy!Next
<1>5. CASE Len(part') < Len(part)
  <2>1. Stored' \in 0..(Stored - 1)
    BY <1>1, <1>2, <1>5
  <2>2. Copy!StartOver
    BY <1>3, <2>1 DEF Copy!StartOver, Delivered
  <2>. QED
    BY <2>2 DEF Copy!Next
<1>6. CASE Len(part') = Len(part)
  BY <1>1, <1>2, <1>3, <1>6 DEF Copy!vars, Delivered
<1>. QED
  BY <1>1, <1>2, <1>4, <1>5, <1>6

(* The install is the delivery.                                            *)
LEMMA PlacedDelivers ==
  ASSUME TInv, TInv', NEW c \in Clients, Clients = {c}, Placed(c), UNCHANGED phase
  PROVE  Copy!Next
<1>1. /\ File[c] \in Contents /\ Length(c) = Size[File[c]] /\ Length(c) \in Nat \ {0}
      /\ Prefix(File[c], part)
  BY OneUpload
<1>2. part = Content(File[c])
  <2>1. CASE kind = "photo"
    BY <1>1, <2>1, WholePrefix DEF Placed
  <2>2. CASE kind # "photo"
    <3>1. PICK x \in Contents : part = Content(x)
      BY <2>2 DEF Placed
    <3>2. 1 \in 1..Size[x] /\ 1 \in 1..Len(part) /\ part[1] = Cell(x, 1)
      BY <3>1, ContentIsFile
    <3>3. part[1] = Cell(File[c], 1)
      BY <1>1, <3>2 DEF Prefix
    <3>4. x = File[c]
      BY <3>2, <3>3 DEF Cell
    <3>. QED
      BY <3>1, <3>4
  <2>. QED
    BY <2>1, <2>2
<1>3. Len(part) = Length(c)
  BY <1>1, <1>2, ContentIsFile
<1>4. Stored = Length(TheClient) /\ Stored' = 0
  <2>1. part' = <<>> /\ Len(<<>>) = 0
    BY DEF Placed
  <2>. QED
    BY <1>3, <2>1, StoredIsLen, StoredStaysLen, TheClientIs
<1>5. Delivered' /\ Verdict' = Verdict
  BY <1>2, TheClientIs DEF Placed, Delivered, Verdict
<1>6. Copy!Deliver
  BY <1>4, <1>5 DEF Copy!Deliver, Delivered
<1>. QED
  BY <1>6 DEF Copy!Next

(* A photo about to replace one that is cut off.                           *)
LEMMA CutReplaces ==
  ASSUME TInv, TInv', NEW c \in Clients, Clients = {c}, CutReplace, UNCHANGED phase
  PROVE  Copy!Next
<1>1. Len(part) = Length(c) /\ part' = part /\ installed' = None
  BY DEF CutReplace
<1>2. Stored = Length(TheClient) /\ Stored' = Stored
  BY <1>1, StoredIsLen, StoredStaysLen, TheClientIs
<1>3. ~ Delivered' /\ Verdict' = Verdict
  BY <1>1, NoFileAssumption, OneUpload, TheClientIs DEF Delivered, Verdict
<1>4. Copy!Replace
  BY <1>2, <1>3 DEF Copy!Replace, Delivered
<1>. QED
  BY <1>4 DEF Copy!Next

(* The client asks, or hears of its upload.                                *)
LEMMA HearingSteps ==
  ASSUME TInv, TInv', NEW c \in Clients, Clients = {c}, CInv(c), Start(c) \/ ClientStep(c)
  PROVE  [Copy!Next]_(Copy!vars)
<1>1. UNCHANGED <<part, installed>>
  BY DEF Start, ClientStep, Send, Receive, GiveUp, device
<1>2. Stored' = Stored /\ Delivered' = Delivered
  BY <1>1, StoredIsLen, StoredStaysLen DEF Delivered
<1>3. TheClient = c
  BY TheClientIs
<1>4. CASE Start(c)
  <2>1. phase[c] \in {"idle", "failed"} /\ phase'[c] \in {"chunks", "begin"}
    BY <1>4 DEF Start, TInv, ClientInv, ClientTyped
  <2>2. Verdict \in {"none", "failed"} /\ Verdict' = "pending"
    BY <1>3, <2>1 DEF Verdict
  <2>3. Copy!Ask
    BY <1>2, <2>2 DEF Copy!Ask, Delivered
  <2>. QED
    BY <2>3 DEF Copy!Next
<1>5. CASE Working(c) /\ Working(c)'
  <2>1. Verdict = "pending" /\ Verdict' = "pending"
    BY <1>3, <1>5 DEF Verdict, Working
  <2>. QED
    BY <1>2, <2>1 DEF Copy!vars, Delivered
<1>6. ASSUME NEW code, Stop(c, code), Working(c),
             code = "OK" => installed = Content(File[c])
      PROVE  Copy!Next
  <2>1. phase'[c] = IF code = "OK" THEN "done" ELSE "failed"
    BY <1>6 DEF Stop, TInv, ClientInv, ClientTyped
  <2>2. Verdict = "pending"
    BY <1>3, <1>6 DEF Verdict, Working
  <2>3. Verdict' = IF code = "OK" THEN "ok" ELSE "failed"
    BY <1>3, <2>1 DEF Verdict
  <2>4. code = "OK" => Delivered
    BY <1>3, <1>6 DEF Delivered
  <2>5. Copy!Report
    BY <1>2, <2>2, <2>3, <2>4 DEF Copy!Report, Delivered
  <2>. QED
    BY <2>5 DEF Copy!Next
<1>7. CASE Send(c)
  <2>1. Working(c) /\ phase' = phase
    BY <1>7 DEF Send, client, Working
  <2>. QED
    BY <1>5, <2>1 DEF Working
<1>8. CASE Receive(c)
  <2>1. Asked(c, "reply") /\ Nothing.is = "none"
    BY <1>8 DEF Receive, Asked, Nothing, Message
  <2>2. Working(c) /\ Stands(c, chan[c].code, chan[c].at)
    BY <2>1 DEF CInv, Matching, ReplyTrue, Asked
  <2>3. CASE ContinueFrom(c, chan[c].at)
    <3>1. Working(c)'
      BY <2>3 DEF ContinueFrom, Working, TInv, ClientInv, ClientTyped
    <3>. QED
      BY <1>5, <2>2, <3>1
  <2>4. CASE /\ ~ (phase[c] \in {"begin", "chunks"} /\ chan[c].code = "OK")
             /\ Stop(c, chan[c].code)
    <3>1. chan[c].code = "OK" => installed = Content(File[c])
      BY <2>2, <2>4 DEF Stands, Working
    <3>. QED
      BY <1>6, <2>2, <2>4, <3>1
  <2>. QED
    BY <1>8, <2>3, <2>4 DEF Receive
<1>9. CASE GiveUp(c)
  <2>1. Working(c)
    BY <1>9 DEF GiveUp, CInv, Matching
  <2>2. CASE UNCHANGED phase
    BY <1>5, <2>1, <2>2 DEF Working
  <2>3. CASE Stop(c, "TIMEOUT")
    BY <1>6, <2>1, <2>3
  <2>. QED
    BY <1>9, <2>2, <2>3 DEF GiveUp
<1>. QED
  BY <1>4, <1>7, <1>8, <1>9 DEF ClientStep

(* Every step is one of ResumableCopy, or none.                            *)
LEMMA CopyStep ==
  ASSUME TInv, TInv', NEW c \in Clients, Clients = {c}, CInv(c), [Next]_vars
  PROVE  [Copy!Next]_(Copy!vars)
<1>1. CASE Start(c) \/ ClientStep(c)
  BY <1>1, HearingSteps
<1>2. CASE Serve(c)
  <2>1. Effect(c) /\ UNCHANGED phase
    BY <1>2, ServeEffect DEF Answered, Answer, client
  <2>2. CASE Placed(c)
    BY <2>1, <2>2, PlacedDelivers
  <2>3. CASE UNCHANGED device \/ Grown(c) \/ Cleared(c)
    BY <2>1, <2>3, StoringSteps DEF device, Grown, Cleared
  <2>. QED
    BY <2>1, <2>2, <2>3 DEF Effect
<1>3. CASE SessionExpires
  BY <1>3, StoringSteps DEF SessionExpires, client
<1>4. CASE Reset
  <2>1. UNCHANGED phase
    BY <1>4 DEF Reset, client
  <2>2. CASE CutReplace
    BY <2>1, <2>2, CutReplaces
  <2>3. CASE LoseRam \/ CutChunk
    BY <2>1, <2>3, StoringSteps DEF LoseRam, CutChunk
  <2>. QED
    BY <1>4, <2>2, <2>3 DEF Reset
<1>5. CASE UNCHANGED vars
  BY <1>5, StoringSteps DEF vars, device, client
<1>6. \A d \in Clients : d = c
  OBVIOUS
<1>. QED
  BY <1>1, <1>2, <1>3, <1>4, <1>5, <1>6 DEF Next

(* Nothing is stored, delivered or told.                                   *)
LEMMA CopyInit ==
  ASSUME NEW c \in Clients, Clients = {c}, Init
  PROVE  Copy!Init
<1>1. Stored = 0
  <2>1. part = <<>> /\ Len(<<>>) = 0
    BY DEF Init
  <2>. QED
    BY <2>1, InitTInv, StoredIsLen
<1>2. ~ Delivered
  BY NoFileAssumption, TransferAssumption, TheClientIs DEF Init, Delivered
<1>3. Verdict = "none"
  BY TheClientIs DEF Init, Verdict
<1>. QED
  BY <1>1, <1>2, <1>3 DEF Copy!Init, Delivered

(* The safety of the refinement: one client's upload, against whichever    *)
(* server, stores, starts over, delivers and reports as ResumableCopy does.*)
THEOREM CopiesSafely ==
  ASSUME OneClient PROVE Spec => Copy!Init /\ [][Copy!Next]_(Copy!vars)
<1>1. PICK c \in Clients : Clients = {c}
  BY DEF OneClient
<1>2. Init => CInv(c) /\ Copy!Init
  BY <1>1, InitCInv, CopyInit
<1>3. TInv /\ CInv(c) /\ [Next]_vars => CInv(c)'
  BY <1>1, NextCInv
<1>4. TInv /\ TInv' /\ CInv(c) /\ [Next]_vars => [Copy!Next]_(Copy!vars)
  BY <1>1, CopyStep
<1>. QED
  BY <1>2, <1>3, <1>4, TransferInvariance, PTL DEF Spec
=============================================================================
