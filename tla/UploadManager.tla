---------------------------- MODULE UploadManager ----------------------------
(***************************************************************************)
(* The package store of the reader: resumable uploads and the atomic       *)
(* install (src/firmware/wifi/upload_manager.cpp), the index file          *)
(* (storage/library_index.cpp), the delete handler (drivers/net/           *)
(* http_server.cpp) and boot recovery (src/main.cpp), on an SD card that   *)
(* may lose power between any two of its writes.                           *)
(*                                                                         *)
(* The device runs one handler at a time, from loop().  A handler is split *)
(* at its storage mutations: pc says which one comes next and call holds   *)
(* the handler's arguments, then its reply.  Everything read from the card *)
(* between two mutations is read in one step.                              *)
(*                                                                         *)
(* Files: part[i] and meta[i] are /DEVICE/uploads/<i>.part and .meta,      *)
(* lib[<<t, i>>] is /LIBRARY/<t>/<i>.qpk, idx and tmp are                  *)
(* library_index.bin and its .tmp.  A .meta that is absent and one whose   *)
(* checksum is wrong are both None: every reader treats them alike.        *)
(***************************************************************************)
EXTENDS LibraryIndex

CONSTANTS
  Jobs,        (* what clients send: a declaration and the package behind it *)
  MaxChunk,    (* kMaxChunkBytes, in cells                                 *)
  MaxPart,     (* bound: the longest .part the model follows               *)
  SweepMax,    (* orphans one sweep can hold                               *)
  Clocks,      (* may the clock be synced (TRUE) or not (FALSE)?           *)
  Torn,        (* a .tmp whose write did not complete                      *)
  IoFaults     (* may a storage operation fail while the power stays on?   *)

ASSUME StoreAssumption ==
  /\ Jobs \subseteq [decl : Header, pkg : Packages]
  /\ MaxChunk \in Nat \ {0}
  /\ MaxPart \in Nat
  /\ SweepMax \in Nat
  /\ IoFaults \in BOOLEAN
  /\ Clocks \subseteq BOOLEAN
  /\ Torn \notin Indexes \cup {None}

VARIABLES
  part, meta, lib, idx, tmp,   (* the card                                 *)
  index,                       (* g_library_index, in RAM                  *)
  pc, call,                    (* the handler that is running              *)
  promised                     (* history: the packages clients were told
                                  are installed, and nobody replaced or
                                  deleted since                            *)

card == <<part, meta, lib, idx, tmp>>
vars == <<part, meta, lib, idx, tmp, index, pc, call, promised>>

Labels == {"off", "idle", "discard_part", "discard_meta", "begin_write",
           "unlink", "install", "save_temp", "save_unlink", "save_rename",
           "drop_meta", "sweep"}
Reqs   == {"none", "boot", "begin", "chunk", "finish", "abort", "delete"}
Errors == {"", "OK", "NO_SESSION", "NO_SPACE", "SIZE_MISMATCH",
           "OFFSET_MISMATCH", "STORAGE_ERROR", "VERIFY_FAILED",
           "PACKAGE_REJECTED", "NOT_FOUND"}

(* due: the deadline in the .meta, as judged by the clock of the moment.   *)
Sessions == [decl : Header, due : {"none", "ahead", "past"}]

ASSUME SessionAssumption == None \notin Sessions

Calls == [req : Reqs, id : Ids \cup {None}, pkg : Header \cup {None},
          clock : BOOLEAN, err : Errors]

TypeOK ==
  /\ part \in [Ids -> Files \cup {None}]
  /\ meta \in [Ids -> Sessions \cup {None}]
  /\ lib \in [Paths -> Files \cup {None}]
  /\ idx \in Indexes \cup {None}
  /\ tmp \in Indexes \cup {None, Torn}
  /\ index \in Indexes
  /\ pc \in Labels
  /\ call \in Calls
  /\ promised \in [Ids -> Header \cup {None}]

NoCall == [req |-> "none", id |-> None, pkg |-> None, clock |-> FALSE, err |-> ""]

(* A new card, and a device that has not booted yet.                       *)
Init ==
  /\ part = [i \in Ids |-> None]
  /\ meta = [i \in Ids |-> None]
  /\ lib = [path \in Paths |-> None]
  /\ idx = None
  /\ tmp = None
  /\ index = EmptyIndex
  /\ pc = "off"
  /\ call = NoCall
  /\ promised = [i \in Ids |-> None]

-----------------------------------------------------------------------------
(* Control                                                                 *)

Run(req, i, pkg, clock, label) ==
  /\ pc' = label
  /\ call' = [req |-> req, id |-> i, pkg |-> pkg, clock |-> clock, err |-> ""]

(* The handler that is running returns err.                                *)
Return(err) ==
  /\ pc' = "idle"
  /\ call' = [call EXCEPT !.pkg = None, !.clock = FALSE, !.err = err]

(* A handler that returns at once, without touching the card.              *)
Reply(req, i, err) ==
  /\ pc' = "idle"
  /\ call' = [req |-> req, id |-> i, pkg |-> None, clock |-> FALSE, err |-> err]

Goto(label) == pc' = label /\ UNCHANGED call

(* The power goes: RAM is lost, the card is not.                           *)
CutPower ==
  /\ pc' = "off"
  /\ call' = NoCall
  /\ index' = EmptyIndex

PowerLoss ==
  /\ pc # "off"
  /\ CutPower
  /\ UNCHANGED <<card, promised>>

(* The outcomes of a storage operation that should store new in place of   *)
(* old: remove() reports a failure its callers ignore.                     *)
Outcomes(old, new) == IF IoFaults THEN {old, new} ELSE {new}

-----------------------------------------------------------------------------
(* Session state, read fresh from the card by every handler                *)

ReadMeta(i) == IF IoFaults THEN {meta[i], None} ELSE {meta[i]}

PartSize(i) ==
  LET size == IF part[i] = None THEN 0 ELSE Len(part[i])
  IN  IF IoFaults THEN {size, 0} ELSE {size}

Expired(m, clock) == clock /\ m.due = "past"

(* The first m of them that tick past their deadline.                      *)
DeadlinePasses(i) ==
  /\ meta[i] # None
  /\ meta[i].due = "ahead"
  /\ meta' = [meta EXCEPT ![i].due = "past"]
  /\ UNCHANGED <<part, lib, idx, tmp, index, pc, call, promised>>

(* discard(): the .part, then the .meta.  The err a handler has decided on *)
(* waits in call, and a begin goes on to open its session afresh.          *)
Discard(req, i, pkg, clock, err) ==
  /\ pc' = "discard_part"
  /\ call' = [req |-> req, id |-> i, pkg |-> pkg, clock |-> clock, err |-> err]
  /\ UNCHANGED <<card, index, promised>>

DiscardPart ==
  /\ pc = "discard_part"
  /\ \E file \in Outcomes(part[call.id], None) :
       part' = [part EXCEPT ![call.id] = file]
  /\ Goto("discard_meta")
  /\ UNCHANGED <<meta, lib, idx, tmp, index, promised>>

DiscardMeta ==
  /\ pc = "discard_meta"
  /\ \E m \in Outcomes(meta[call.id], None) :
       meta' = [meta EXCEPT ![call.id] = m]
  /\ IF call.req = "begin" THEN Goto("begin_write") ELSE Return(call.err)
  /\ UNCHANGED <<part, lib, idx, tmp, index, promised>>

-----------------------------------------------------------------------------
(* beginUpload                                                             *)

SameSession(m, decl) ==
  /\ m.decl.version = decl.version
  /\ m.decl.size = decl.size
  /\ m.decl.crc = decl.crc
  /\ m.decl.type = decl.type

Resumable(m, decl, clock, size) ==
  m # None /\ ~ Expired(m, clock) /\ SameSession(m, decl) /\ size <= decl.size

Begin(job, clock) ==
  LET i == job.decl.id
  IN  /\ pc = "idle"
      /\ \E m \in ReadMeta(i), size \in PartSize(i) :
           IF Resumable(m, job.decl, clock, size)
           THEN Reply("begin", i, "OK") /\ UNCHANGED <<card, index, promised>>
           ELSE Discard("begin", i, job.decl, clock, "")

(* Mutation: the version it will replace is removed to make room.          *)
BeginWriteMakingRoom ==
  /\ pc = "begin_write"
  /\ meta' = [meta EXCEPT ![call.id] = [decl |-> call.pkg, due |-> "none"]]
  /\ lib' = [lib EXCEPT ![Path(call.pkg)] = None]
  /\ Return("OK")
  /\ UNCHANGED <<part, idx, tmp, index, promised>>

(* Without a clock no deadline is recorded.  A write that fails leaves a   *)
(* .meta that cannot be read.                                              *)
BeginWrite ==
  /\ pc = "begin_write"
  /\ \/ Return("NO_SPACE") /\ UNCHANGED meta
     \/ /\ meta' = [meta EXCEPT ![call.id] =
              [decl |-> call.pkg, due |-> IF call.clock THEN "ahead" ELSE "none"]]
        /\ Return("OK")
     \/ /\ IoFaults
        /\ meta' = [meta EXCEPT ![call.id] = None]
        /\ Return("STORAGE_ERROR")
  /\ UNCHANGED <<part, lib, idx, tmp, index, promised>>

-----------------------------------------------------------------------------
(* writeChunk: a client of job sends len of its cells from off on          *)

Slice(p, off, len) == SubSeq(Content(p), off + 1, off + len)
Appended(i, cells) == (IF part[i] = None THEN <<>> ELSE part[i]) \o cells

(* append() writes all of it, or, when the card or the power fails, any    *)
(* shorter piece.                                                          *)
AppendChunk(i, cells) ==
  \/ /\ part' = [part EXCEPT ![i] = Appended(i, cells)]
     /\ Reply("chunk", i, "OK")
     /\ UNCHANGED index
  \/ /\ IoFaults
     /\ \E n \in 1..(Len(cells) - 1) :
          part' = [part EXCEPT ![i] = Appended(i, SubSeq(cells, 1, n))]
     /\ Reply("chunk", i, "STORAGE_ERROR")
     /\ UNCHANGED index
  \/ /\ IoFaults
     /\ Reply("chunk", i, "STORAGE_ERROR")
     /\ UNCHANGED <<part, index>>
  \/ /\ \E n \in 1..(Len(cells) - 1) :
          part' = [part EXCEPT ![i] = Appended(i, SubSeq(cells, 1, n))]
     /\ CutPower

Chunk(job, off, len, clock) ==
  LET i == job.decl.id
      refused(err) == Reply("chunk", i, err) /\ UNCHANGED <<card, index, promised>>
  IN  /\ pc = "idle"
      /\ off + len <= job.pkg.size
      /\ \E m \in ReadMeta(i), size \in PartSize(i) :
           \/ m = None /\ refused("NO_SESSION")
           \/ /\ m # None
              /\ Expired(m, clock)
              /\ Discard("chunk", i, None, clock, "NO_SESSION")
           \/ /\ m # None /\ ~ Expired(m, clock)
              /\ \/ off + len > m.decl.size /\ refused("SIZE_MISMATCH")
                 \/ /\ off + len <= m.decl.size
                    /\ \/ off + len <= size /\ refused("OK")
                       \/ off + len > size /\ off # size /\ refused("OFFSET_MISMATCH")
                       \/ /\ off = size
                          /\ Len(Appended(i, <<>>)) + len <= MaxPart
                          /\ AppendChunk(i, Slice(job.pkg, off, len))
                          /\ UNCHANGED <<meta, lib, idx, tmp, promised>>

-----------------------------------------------------------------------------
(* finish                                                                  *)

(* Mutation: the size is compared, the checksums are not.                  *)
VerifiedBySize(file, m, p) == p \in Packages /\ Len(file) = p.size /\ p = m.decl

(* Size, header and both checksums: the file is a whole package, of the    *)
(* declared size and payload.                                              *)
Verified(file, m, p) ==
  p \in Packages /\ file = Content(p) /\ p.size = m.decl.size /\ p.crc = m.decl.crc

(* qpk::Reader opens it, and it is of the declared type.                   *)
Acceptable(p, m) == p \notin Malformed /\ p.type = m.decl.type

Finish(i, clock) ==
  LET refused(err) == Reply("finish", i, err) /\ UNCHANGED <<card, index, promised>>
      dropped(err) == Discard("finish", i, None, clock, err)
  IN  /\ pc = "idle"
      /\ \E m \in ReadMeta(i), size \in PartSize(i) :
           \/ m = None /\ refused("NO_SESSION")
           \/ m # None /\ Expired(m, clock) /\ dropped("NO_SESSION")
           \/ /\ m # None /\ ~ Expired(m, clock)
              /\ \/ size # m.decl.size /\ refused("SIZE_MISMATCH")
                 \/ /\ size = m.decl.size
                    /\ \/ IoFaults /\ refused("STORAGE_ERROR")
                       \/ /\ IoFaults
                          /\ \E err \in {"VERIFY_FAILED", "PACKAGE_REJECTED"} : dropped(err)
                       \/ ~ (\E p \in Packages : Verified(part[i], m, p)) /\ dropped("VERIFY_FAILED")
                       \/ \E p \in Packages :
                            /\ Verified(part[i], m, p)
                            /\ IF Acceptable(p, m)
                               THEN /\ Run("finish", i, p, clock, "unlink")
                                    /\ UNCHANGED <<card, index, promised>>
                               ELSE dropped("PACKAGE_REJECTED")

(* The old version goes first: FAT cannot rename over a file.              *)
Unlink ==
  /\ pc = "unlink"
  /\ \E file \in Outcomes(lib[Path(call.pkg)], None) :
       lib' = [lib EXCEPT ![Path(call.pkg)] = file]
  /\ promised' = [promised EXCEPT ![call.pkg.id] = None]
  /\ Goto("install")
  /\ UNCHANGED <<part, meta, idx, tmp, index>>

(* The rename, and the entry in RAM, which a full index has no room for.   *)
Install ==
  /\ pc = "install"
  /\ \/ /\ lib[Path(call.pkg)] = None
        /\ lib' = [lib EXCEPT ![Path(call.pkg)] = part[call.id]]
        /\ part' = [part EXCEPT ![call.id] = None]
        /\ IF HasRoom(index, call.pkg)
           THEN index' = Upsert(index, call.pkg) /\ Goto("save_temp")
           ELSE UNCHANGED index /\ Return("STORAGE_ERROR")
     \/ /\ IoFaults \/ lib[Path(call.pkg)] # None
        /\ Return("STORAGE_ERROR")
        /\ UNCHANGED <<lib, part, index>>
  /\ UNCHANGED <<meta, idx, tmp, promised>>

DropMeta ==
  /\ pc = "drop_meta"
  /\ \E m \in Outcomes(meta[call.id], None) :
       meta' = [meta EXCEPT ![call.id] = m]
  /\ promised' = [promised EXCEPT ![call.pkg.id] = call.pkg]
  /\ Return("OK")
  /\ UNCHANGED <<part, lib, idx, tmp, index>>

-----------------------------------------------------------------------------
(* LibraryIndex::save, called by finish, by the delete handler and by boot *)

(* Mutation: finish ignores what save() returns.                           *)
SaveReturnsUnchecked(ok) ==
  CASE call.req = "finish" -> Goto("drop_meta")
    [] call.req = "delete" -> Return("OK")
    [] OTHER               -> Goto("sweep")

(* Only finish looks at what save() returns.                               *)
SaveReturns(ok) ==
  CASE call.req = "finish" /\ ok   -> Goto("drop_meta")
    [] call.req = "finish" /\ ~ ok -> Return("STORAGE_ERROR")
    [] call.req = "delete"         -> Return("OK")
    [] OTHER                       -> Goto("sweep")

(* Mutation: a failed append goes unnoticed.                               *)
SaveTempUnchecked ==
  /\ pc = "save_temp"
  /\ tmp' \in {index, Torn}
  /\ Goto("save_unlink")
  /\ UNCHANGED <<part, meta, lib, idx, index, promised>>

SaveTemp ==
  /\ pc = "save_temp"
  /\ \/ tmp' = index /\ Goto("save_unlink") /\ UNCHANGED index
     \/ IoFaults /\ tmp' \in {None, Torn} /\ SaveReturns(FALSE) /\ UNCHANGED index
     \/ tmp' = Torn /\ CutPower
  /\ UNCHANGED <<part, meta, lib, idx, promised>>

SaveUnlink ==
  /\ pc = "save_unlink"
  /\ idx' \in Outcomes(idx, None)
  /\ Goto("save_rename")
  /\ UNCHANGED <<part, meta, lib, tmp, index, promised>>

SaveRename ==
  /\ pc = "save_rename"
  /\ \/ /\ idx = None
        /\ idx' = tmp
        /\ tmp' = None
        /\ SaveReturns(TRUE)
     \/ /\ IoFaults \/ idx # None
        /\ tmp' \in Outcomes(tmp, None)
        /\ SaveReturns(FALSE)
        /\ UNCHANGED idx
  /\ UNCHANGED <<part, meta, lib, index, promised>>

-----------------------------------------------------------------------------
(* abort, DELETE /api/library/<id> and boot                                *)

Abort(i) ==
  /\ pc = "idle"
  /\ \E m \in ReadMeta(i) :
       Discard("abort", i, None, FALSE, IF m = None THEN "NO_SESSION" ELSE "OK")

(* The package file, then the entry, then save(): no result is looked at.  *)
Delete(i) ==
  /\ pc = "idle"
  /\ \/ index[i] = None /\ Reply("delete", i, "NOT_FOUND") /\ UNCHANGED <<card, index, promised>>
     \/ /\ index[i] # None
        /\ \E file \in Outcomes(lib[Path(index[i])], None) :
             lib' = [lib EXCEPT ![Path(index[i])] = file]
        /\ index' = Remove(index, i)
        /\ promised' = [promised EXCEPT ![i] = None]
        /\ Run("delete", i, None, FALSE, "save_temp")
        /\ UNCHANGED <<part, meta, idx, tmp>>

(* load() or rebuild(), then prune(); a save() follows when the index in   *)
(* RAM is not the one on the card.  A read that fails makes load() fail,   *)
(* prune() drop an entry it should keep, or rebuild() pass over a file.    *)
Boot ==
  /\ pc = "off"
  /\ \/ /\ idx # None
        /\ \E S \in IF IoFaults THEN SUBSET Listed(idx) ELSE {Prunable(idx, lib)} :
             /\ Prunable(idx, lib) \subseteq S
             /\ index' = Drop(idx, S)
             /\ Run("boot", None, None, FALSE, IF S = {} THEN "sweep" ELSE "save_temp")
     \/ /\ idx = None \/ IoFaults
        /\ \E S \in IF IoFaults THEN SUBSET Scannable(lib) ELSE RebuildChoices(lib) :
             /\ Cardinality(S) <= MaxEntries
             /\ index' = Rebuild(lib, S)
        /\ Run("boot", None, None, FALSE, "save_temp")
  /\ UNCHANGED <<card, promised>>

(* A .part without a readable .meta can never be finished.  One sweep      *)
(* finds SweepMax of them and discards each, .part and .meta; cut short or *)
(* failing, it removes fewer files.                                        *)
Orphans == {i \in Ids : part[i] # None /\ None \in ReadMeta(i)}

SweepOrphans ==
  /\ pc = "sweep"
  /\ \E S \in SUBSET Orphans, M \in SUBSET Orphans :
       /\ Cardinality(S \cup M) <= SweepMax
       /\ part' = [i \in Ids |-> IF i \in S THEN None ELSE part[i]]
       /\ meta' = [i \in Ids |-> IF i \in M THEN None ELSE meta[i]]
       /\ \/ /\ IoFaults \/ S = Orphans \/ Cardinality(S) = SweepMax
             /\ Return("OK")
             /\ UNCHANGED index
          \/ CutPower
  /\ UNCHANGED <<lib, idx, tmp, promised>>

-----------------------------------------------------------------------------
Request ==
  \/ \E job \in Jobs, clock \in Clocks :
       \/ Begin(job, clock)
       \/ \E len \in 1..MaxChunk, off \in 0..(job.pkg.size - 1) : Chunk(job, off, len, clock)
       \/ Finish(job.decl.id, clock)
  \/ \E i \in Ids : Abort(i) \/ Delete(i)

Step ==
  \/ DiscardPart \/ DiscardMeta \/ BeginWrite
  \/ Unlink \/ Install \/ SaveTemp \/ SaveUnlink \/ SaveRename \/ DropMeta
  \/ SweepOrphans

Next ==
  \/ Request
  \/ Step
  \/ Boot
  \/ PowerLoss
  \/ \E i \in Ids : DeadlinePasses(i)

Spec == Init /\ [][Next]_vars

-----------------------------------------------------------------------------
(* Properties                                                              *)

(* Every file in /LIBRARY is the whole, well-formed package its name says, *)
(* whatever was sent, cut off or mixed on the way there: finish() verifies *)
(* several writes before it renames.                                       *)
InstalledIntact ==
  \A path \in Paths : lib[path] # None =>
    \E p \in WellFormed : lib[path] = Content(p) /\ Path(p) = path

(* docs/qpk-format.md, section 12: after boot recovery, and from then on   *)
(* between requests, the index on the card names only packages that exist  *)
(* and parse, and it is the index the device works with.                   *)
IndexSound ==
  pc = "idle" =>
    /\ idx = index
    /\ \A i \in Listed(index) : Parses(lib[Path(index[i])])

(* A package whose finish() was answered OK stays on the card, and is      *)
(* listed whenever the device answers requests, across any power loss,     *)
(* until a client deletes or replaces it.                                  *)
PromiseKept ==
  \A i \in Ids : promised[i] # None =>
    /\ lib[Path(promised[i])] = Content(promised[i])
    /\ pc = "idle" => index[i] = promised[i]

(* finish() answers OK only when the package is on the card, listed in RAM *)
(* and listed in library_index.bin, whichever storage operations failed on *)
(* the way.                                                                *)
OkMeansDurable ==
  pc = "idle" /\ call.req = "finish" /\ call.err = "OK" =>
    \E p \in WellFormed :
      /\ promised[p.id] = p
      /\ lib[Path(p)] = Content(p)
      /\ index[p.id] = p
      /\ idx = index

(* The RAM table has room for MaxEntries entries and nobody writes past    *)
(* it: not upsert(), not rebuild() of a card that holds more packages, not *)
(* load() of a file save() wrote.                                          *)
WithinCapacity ==
  /\ Cardinality(Listed(index)) <= MaxEntries
  /\ idx # None => Cardinality(Listed(idx)) <= MaxEntries

(* Some whole version of the content is on the card: installed, or in a    *)
(* .part with a session that finish() would install it for.                *)
Held(i) ==
  \/ \E path \in Paths, p \in WellFormed : p.id = i /\ lib[path] = Content(p)
  \/ \E j \in Ids, p \in WellFormed :
       /\ p.id = i /\ meta[j] # None
       /\ Verified(part[j], meta[j], p) /\ Acceptable(p, meta[j])

(* No step of an install, of saving the index, of boot or of its sweep     *)
(* takes away the last whole copy of a content: only discarding an upload  *)
(* session and a client's delete do.                                       *)
LastCopyKept ==
  [][\A i \in Ids : Held(i) /\ ~ Held(i)' =>
       \/ pc = "discard_part"
       \/ pc = "idle" /\ call'.req = "delete"]_vars
=============================================================================
