------------------------ MODULE UploadManager_proofs ------------------------
(***************************************************************************)
(* Proofs about UploadManager, for any set of contents and packages, any   *)
(* jobs of the clients, with and without failing storage operations: what  *)
(* is in /LIBRARY is whole and known to be, the index keeps its limit.     *)
(*                                                                         *)
(* Then what survives on the card: OkMeansDurable, with and without        *)
(* failing storage operations, and, for a card whose operations succeed    *)
(* while the power is on, IndexSound, PromiseKept and LastCopyKept,        *)
(* wherever the power goes.                                                *)
(***************************************************************************)
EXTENDS UploadManager, SequenceTheorems, FiniteSetTheorems, TLAPS

-----------------------------------------------------------------------------
(* Files and indexes                                                       *)

(* The content of a package is a file.                                     *)
LEMMA ContentIsFile ==
  ASSUME NEW p \in Packages
  PROVE  Content(p) \in Files
<1>1. p \in Header
  BY PackagesAssumption
<1>2. p.size \in Nat /\ p.crc \in Nat
  BY <1>1 DEF Header
<1>3. \A k \in 1..p.size : Cell(p, k) \in Cells
  BY <1>1, <1>2 DEF Cell, Cells
<1>. QED
  BY <1>2, <1>3 DEF Content, Files

(* A well-formed package is a package, and its path is a path.             *)
LEMMA WellFormedTyped ==
  ASSUME NEW p \in WellFormed
  PROVE  /\ p \in Packages
         /\ p \in Header
         /\ p.id \in Ids
         /\ Path(p) \in Paths
BY PackagesAssumption DEF WellFormed, Header, Path, Paths

(* The path of an index entry is a path.                                   *)
LEMMA HeaderPath ==
  ASSUME NEW p \in Header
  PROVE  p.id \in Ids /\ Path(p) \in Paths
BY DEF Header, Path, Paths

(* A piece of a file is a file.                                            *)
LEMMA SubSeqIsFile ==
  ASSUME NEW s \in Files, NEW m \in Nat \ {0}, NEW n \in Nat, n <= Len(s)
  PROVE  SubSeq(s, m, n) \in Files
<1>1. \A k \in m..n : s[k] \in Cells
  BY DEF Files
<1>. QED
  BY <1>1, SubSeqProperties DEF Files

(* What a chunk appends leaves a file.                                     *)
LEMMA AppendedIsFile ==
  ASSUME TypeOK, NEW i \in Ids, NEW s \in Files
  PROVE  Appended(i, s) \in Files
<1>1. CASE part[i] = None
  BY <1>1, ConcatProperties, EmptySeq DEF Appended, Files
<1>2. CASE part[i] # None
  <2>1. part[i] \in Files
    BY <1>2 DEF TypeOK
  <2>. QED
    BY <1>2, <2>1, ConcatProperties DEF Appended, Files
<1>. QED
  BY <1>1, <1>2

(* Of the packages of one content that are on the card, one is in the      *)
(* directory that rebuild() scans last.                                    *)
LEMMA LastScannedOnCard ==
  ASSUME NEW card1, NEW i \in Scannable(card1)
  PROVE  LastScanned(card1, i) \in OnCard(card1, i)
<1>. DEFINE O == OnCard(card1, i)
<1>1. O # {} /\ O \subseteq WellFormed
  BY DEF Scannable, OnCard
<1>2. \A p \in O : DirRank[p.type] \in 1..4
  <2>. TAKE p \in O
  <2>1. p.type \in {"QURAN", "BOOK", "TRANSLATION", "TAFSIR"}
    BY <1>1, WellFormedTyped DEF Header, Types, DirRank
  <2>. QED
    BY <2>1 DEF DirRank
<1>3. \E p \in O : \A q \in O : DirRank[q.type] <= DirRank[p.type]
  <2>. DEFINE rank(p) == DirRank[p.type]
  <2>. HIDE DEF O
  <2>1. \A p \in O : rank(p) \in 1..4
    BY <1>2
  <2>2. \E p \in O : \A q \in O : rank(q) <= rank(p)
    <3>. HIDE DEF rank
    <3>1. CASE \E p \in O : rank(p) = 4
      BY <3>1, <2>1
    <3>2. CASE (\A p \in O : rank(p) <= 3) /\ (\E p \in O : rank(p) = 3)
      BY <3>2, <2>1
    <3>3. CASE (\A p \in O : rank(p) <= 2) /\ (\E p \in O : rank(p) = 2)
      BY <3>3, <2>1
    <3>4. CASE \A p \in O : rank(p) <= 1
      BY <3>4, <2>1, <1>1
    <3>. QED
      BY <3>1, <3>2, <3>3, <3>4, <2>1
  <2>. QED
    BY <2>2
<1>. QED
  BY <1>3 DEF LastScanned

(* So rebuild() yields an index.                                           *)
LEMMA RebuildIsIndex ==
  ASSUME NEW card1, NEW S \in SUBSET Scannable(card1)
  PROVE  Rebuild(card1, S) \in Indexes
<1>1. \A i \in S : LastScanned(card1, i) \in OnCard(card1, i)
  BY LastScannedOnCard
<1>2. \A i \in S : LastScanned(card1, i) \in Header
  BY <1>1, WellFormedTyped DEF OnCard
<1>. QED
  BY <1>2 DEF Rebuild, Indexes

-----------------------------------------------------------------------------
(* The inductive invariant.  pc says what call must hold: the storage      *)
(* steps of a handler rely on what its first step decided, and in          *)
(* particular Unlink and Install rely on the verification that was done    *)
(* before the first of them.                                               *)

DiscardReady ==
  pc \in {"discard_part", "discard_meta"} =>
    call.id \in Ids /\ (call.req = "begin" => call.pkg \in Header)

BeginReady == pc = "begin_write" => call.id \in Ids /\ call.pkg \in Header

InstallReady ==
  pc \in {"unlink", "install"} =>
    /\ call.id \in Ids
    /\ call.pkg \in WellFormed
    /\ part[call.id] = Content(call.pkg)

SaveReady ==
  /\ pc \in {"save_temp", "save_unlink", "save_rename"} /\ call.req = "finish" =>
       call.id \in Ids /\ call.pkg \in WellFormed
  /\ pc \in {"save_unlink", "save_rename"} => tmp = index

DropReady == pc = "drop_meta" => call.id \in Ids /\ call.pkg \in WellFormed

Ready == DiscardReady /\ BeginReady /\ InstallReady /\ SaveReady /\ DropReady

IInv == TypeOK /\ InstalledIntact /\ Ready

-----------------------------------------------------------------------------
(* What a handler does with pc and call                                    *)

(* The initial state satisfies the invariant.                              *)
LEMMA InitIInv == Init => IInv
<1>. SUFFICES ASSUME Init PROVE IInv
  OBVIOUS
<1>1. TypeOK
  BY DEF Init, TypeOK, EmptyIndex, Indexes, NoCall, Calls, Labels, Reqs, Errors
<1>2. InstalledIntact
  BY DEF Init, InstalledIntact
<1>3. Ready
  BY DEF Init, Ready, DiscardReady, BeginReady, InstallReady, SaveReady, DropReady
<1>. QED
  BY <1>1, <1>2, <1>3 DEF IInv

(* A device that is idle or off, and one whose sweep is next, has no       *)
(* handler whose decisions could be wrong.                                 *)
LEMMA RestIsReady ==
  ASSUME pc' \in {"off", "idle", "sweep"}
  PROVE  Ready'
BY DEF Ready, DiscardReady, BeginReady, InstallReady, SaveReady, DropReady

(* A handler that returns leaves the device idle.                          *)
LEMMA ReturnTyped ==
  ASSUME TypeOK, NEW err \in Errors, Return(err)
  PROVE  pc' = "idle" /\ pc' \in Labels /\ call' \in Calls
BY DEF Return, TypeOK, Labels, Calls

(* So does a request that is answered at once.                             *)
LEMMA ReplyTyped ==
  ASSUME NEW req \in Reqs, NEW i \in Ids, NEW err \in Errors, Reply(req, i, err)
  PROVE  pc' = "idle" /\ pc' \in Labels /\ call' \in Calls
BY DEF Reply, Labels, Calls

(* A power loss leaves the device off, with an empty RAM.                  *)
LEMMA CutPowerTyped ==
  ASSUME CutPower
  PROVE  pc' = "off" /\ pc' \in Labels /\ call' \in Calls /\ index' \in Indexes
BY DEF CutPower, NoCall, EmptyIndex, Indexes, Labels, Calls, Reqs, Errors

(* After save(), finish goes on to drop its .meta or fails, and the other  *)
(* callers go on regardless.                                               *)
LEMMA SaveReturnsTyped ==
  ASSUME TypeOK, NEW ok \in BOOLEAN, SaveReturns(ok)
  PROVE  /\ pc' \in {"drop_meta", "idle", "sweep"}
         /\ pc' \in Labels
         /\ call' \in Calls
         /\ pc' = "drop_meta" => call' = call /\ call.req = "finish"
<1>1. CASE call.req = "finish" /\ ok
  BY <1>1 DEF SaveReturns, Goto, TypeOK, Labels
<1>2. CASE call.req = "finish" /\ ~ ok
  BY <1>2, ReturnTyped DEF SaveReturns, Errors
<1>3. CASE call.req = "delete"
  BY <1>3, ReturnTyped DEF SaveReturns, Errors
<1>4. CASE call.req \notin {"finish", "delete"}
  BY <1>4 DEF SaveReturns, Goto, TypeOK, Labels
<1>. QED
  BY <1>1, <1>2, <1>3, <1>4

(* A request that is answered at once, without touching the card, keeps    *)
(* the invariant.                                                          *)
LEMMA RefusedStep ==
  ASSUME IInv, NEW req \in Reqs, NEW i \in Ids, NEW err \in Errors,
         Reply(req, i, err), UNCHANGED <<card, index, promised>>
  PROVE  IInv'
<1>1. TypeOK'
  BY ReplyTyped DEF IInv, TypeOK, card
<1>2. InstalledIntact'
  BY DEF IInv, InstalledIntact, card
<1>. QED
  BY <1>1, <1>2, ReplyTyped, RestIsReady DEF IInv

(* So does a decision to discard the session.                              *)
LEMMA DiscardStep ==
  ASSUME IInv, NEW req \in Reqs, NEW i \in Ids, NEW pkg \in Header \cup {None},
         NEW clock \in BOOLEAN, NEW err \in Errors, req = "begin" => pkg \in Header,
         Discard(req, i, pkg, clock, err)
  PROVE  IInv'
<1>1. TypeOK'
  BY DEF IInv, TypeOK, Discard, card, Labels, Calls
<1>2. InstalledIntact'
  BY DEF IInv, InstalledIntact, Discard, card
<1>3. Ready'
  BY DEF Discard, Ready, DiscardReady, BeginReady, InstallReady, SaveReady, DropReady
<1>. QED
  BY <1>1, <1>2, <1>3 DEF IInv

-----------------------------------------------------------------------------
(* The storage steps                                                       *)

(* Discarding the .part.                                                   *)
LEMMA DiscardPartStep == ASSUME IInv, DiscardPart PROVE IInv'
<1>1. TypeOK'
  <2>1. part' \in [Ids -> Files \cup {None}]
    BY DEF IInv, TypeOK, DiscardPart, Outcomes, Ready, DiscardReady
  <2>. QED
    BY <2>1 DEF IInv, TypeOK, DiscardPart, Goto, Labels
<1>2. InstalledIntact'
  BY DEF IInv, InstalledIntact, DiscardPart
<1>3. Ready'
  BY DEF IInv, DiscardPart, Goto, Ready, DiscardReady, BeginReady, InstallReady, SaveReady, DropReady
<1>. QED
  BY <1>1, <1>2, <1>3 DEF IInv

(* Discarding the .meta, after which a begin goes on.                      *)
LEMMA DiscardMetaStep == ASSUME IInv, DiscardMeta PROVE IInv'
<1>1. CASE call.req = "begin"
  <2>1. TypeOK'
    <3>1. meta' \in [Ids -> Sessions \cup {None}]
      BY DEF IInv, TypeOK, DiscardMeta, Outcomes, Ready, DiscardReady
    <3>. QED
      BY <1>1, <3>1 DEF IInv, TypeOK, DiscardMeta, Goto, Labels
  <2>2. Ready'
    BY <1>1 DEF IInv, DiscardMeta, Goto, Ready, DiscardReady, BeginReady, InstallReady, SaveReady, DropReady
  <2>. QED
    BY <2>1, <2>2 DEF IInv, InstalledIntact, DiscardMeta
<1>2. CASE call.req # "begin"
  <2>1. Return(call.err) /\ call.err \in Errors
    BY <1>2 DEF DiscardMeta, IInv, TypeOK, Calls
  <2>2. pc' = "idle" /\ pc' \in Labels /\ call' \in Calls
    BY <2>1, ReturnTyped DEF IInv
  <2>3. TypeOK'
    <3>1. meta' \in [Ids -> Sessions \cup {None}]
      BY DEF IInv, TypeOK, DiscardMeta, Outcomes, Ready, DiscardReady
    <3>. QED
      BY <2>2, <3>1 DEF IInv, TypeOK, DiscardMeta
  <2>. QED
    BY <2>2, <2>3, RestIsReady DEF IInv, InstalledIntact, DiscardMeta
<1>. QED
  BY <1>1, <1>2

(* A power loss between two steps.                                         *)
LEMMA PowerLossStep == ASSUME IInv, PowerLoss PROVE IInv'
<1>1. TypeOK'
  BY CutPowerTyped DEF IInv, TypeOK, PowerLoss, card
<1>. QED
  BY <1>1, CutPowerTyped, RestIsReady DEF IInv, InstalledIntact, PowerLoss, card

(* The clock.                                                              *)
LEMMA DeadlineStep == ASSUME IInv, NEW i \in Ids, DeadlinePasses(i) PROVE IInv'
<1>1. TypeOK'
  <2>1. meta[i] \in Sessions
    BY DEF IInv, TypeOK, DeadlinePasses
  <2>2. [meta[i] EXCEPT !.due = "past"] \in Sessions
    BY <2>1 DEF Sessions
  <2>3. meta' \in [Ids -> Sessions \cup {None}]
    BY <2>2 DEF IInv, TypeOK, DeadlinePasses
  <2>. QED
    BY <2>3 DEF IInv, TypeOK, DeadlinePasses
<1>2. Ready'
  BY DEF IInv, DeadlinePasses, Ready, DiscardReady, BeginReady, InstallReady, SaveReady, DropReady
<1>. QED
  BY <1>1, <1>2 DEF IInv, InstalledIntact, DeadlinePasses

(* Writing the .meta of a new session.                                     *)
LEMMA BeginWriteStep == ASSUME IInv, BeginWrite PROVE IInv'
<1>1. call.id \in Ids /\ call.pkg \in Header
  BY DEF IInv, Ready, BeginReady, BeginWrite
<1>2. \E err \in Errors : Return(err)
  BY DEF BeginWrite, Errors
<1>3. pc' = "idle" /\ pc' \in Labels /\ call' \in Calls
  BY <1>2, ReturnTyped DEF IInv
<1>4. [decl |-> call.pkg, due |-> IF call.clock THEN "ahead" ELSE "none"] \in Sessions
  BY <1>1 DEF Sessions
<1>5. meta' \in [Ids -> Sessions \cup {None}]
  BY <1>1, <1>4 DEF IInv, TypeOK, BeginWrite
<1>6. TypeOK'
  BY <1>3, <1>5 DEF IInv, TypeOK, BeginWrite
<1>. QED
  BY <1>3, <1>6, RestIsReady DEF IInv, InstalledIntact, BeginWrite

(* Removing the version that is replaced.                                  *)
LEMMA UnlinkStep == ASSUME IInv, Unlink PROVE IInv'
<1>1. call.id \in Ids /\ call.pkg \in WellFormed /\ Path(call.pkg) \in Paths /\ call.pkg.id \in Ids
  BY WellFormedTyped DEF IInv, Ready, InstallReady, Unlink
<1>2. PICK file \in Outcomes(lib[Path(call.pkg)], None) : lib' = [lib EXCEPT ![Path(call.pkg)] = file]
  BY DEF Unlink
<1>3. file \in {lib[Path(call.pkg)], None}
  BY <1>2 DEF Outcomes
<1>4. TypeOK'
  <2>1. lib' \in [Paths -> Files \cup {None}]
    BY <1>1, <1>2, <1>3 DEF IInv, TypeOK
  <2>2. promised' \in [Ids -> Header \cup {None}]
    BY <1>1 DEF IInv, TypeOK, Unlink
  <2>. QED
    BY <2>1, <2>2 DEF IInv, TypeOK, Unlink, Goto, Labels
<1>5. \A path \in Paths : lib'[path] \in {lib[path], None}
  BY <1>2, <1>3 DEF IInv, TypeOK
<1>6. InstalledIntact'
  BY <1>5 DEF IInv, InstalledIntact
<1>7. Ready'
  BY DEF IInv, Unlink, Goto, Ready, DiscardReady, BeginReady, InstallReady, SaveReady, DropReady
<1>. QED
  BY <1>4, <1>6, <1>7 DEF IInv

(* The rename: what is installed is what was verified.                     *)
LEMMA InstallStep == ASSUME IInv, Install PROVE IInv'
<1>1. /\ call.id \in Ids /\ call.pkg \in WellFormed /\ call.pkg \in Header
      /\ Path(call.pkg) \in Paths /\ call.pkg.id \in Ids
      /\ part[call.id] = Content(call.pkg)
  BY WellFormedTyped DEF IInv, Ready, InstallReady, Install
<1>2. UNCHANGED <<meta, idx, tmp, promised>>
  BY DEF Install
<1>3. CASE /\ lib' = [lib EXCEPT ![Path(call.pkg)] = part[call.id]]
           /\ part' = [part EXCEPT ![call.id] = None]
           /\ \/ index' = Upsert(index, call.pkg) /\ Goto("save_temp")
              \/ UNCHANGED index /\ Return("STORAGE_ERROR")
  <2>1. lib' \in [Paths -> Files \cup {None}] /\ part' \in [Ids -> Files \cup {None}]
    BY <1>1, <1>3 DEF IInv, TypeOK
  <2>2. InstalledIntact'
    <3>1. ASSUME NEW path \in Paths, lib'[path] # None
          PROVE  \E p \in WellFormed : lib'[path] = Content(p) /\ Path(p) = path
      <4>1. CASE path = Path(call.pkg)
        BY <1>1, <1>3, <4>1 DEF IInv, TypeOK
      <4>2. CASE path # Path(call.pkg)
        BY <1>3, <3>1, <4>2 DEF IInv, TypeOK, InstalledIntact
      <4>. QED
        BY <4>1, <4>2
    <3>. QED
      BY <3>1 DEF InstalledIntact
  <2>3. CASE index' = Upsert(index, call.pkg) /\ Goto("save_temp")
    <3>1. index' \in Indexes
      BY <1>1, <2>3 DEF IInv, TypeOK, Upsert, Indexes
    <3>2. TypeOK'
      BY <1>2, <2>1, <2>3, <3>1 DEF IInv, TypeOK, Goto, Labels
    <3>3. Ready'
      BY <1>1, <2>3 DEF Goto, Ready, DiscardReady, BeginReady, InstallReady, SaveReady, DropReady
    <3>. QED
      BY <2>2, <3>2, <3>3 DEF IInv
  <2>4. CASE UNCHANGED index /\ Return("STORAGE_ERROR")
    <3>1. pc' = "idle" /\ pc' \in Labels /\ call' \in Calls
      BY <2>4, ReturnTyped DEF IInv, Errors
    <3>2. TypeOK'
      BY <1>2, <2>1, <2>4, <3>1 DEF IInv, TypeOK
    <3>. QED
      BY <2>2, <3>1, <3>2, RestIsReady DEF IInv
  <2>. QED
    BY <1>3, <2>3, <2>4
<1>4. CASE Return("STORAGE_ERROR") /\ UNCHANGED <<lib, part, index>>
  <2>1. pc' = "idle" /\ pc' \in Labels /\ call' \in Calls
    BY <1>4, ReturnTyped DEF IInv, Errors
  <2>2. TypeOK'
    BY <1>2, <1>4, <2>1 DEF IInv, TypeOK
  <2>. QED
    BY <1>4, <2>1, <2>2, RestIsReady DEF IInv, InstalledIntact
<1>. QED
  BY <1>3, <1>4 DEF Install

(* Writing library_index.bin.tmp.                                          *)
LEMMA SaveTempStep == ASSUME IInv, SaveTemp PROVE IInv'
<1>1. UNCHANGED <<part, meta, lib, idx, promised>> /\ pc = "save_temp"
  BY DEF SaveTemp
<1>2. InstalledIntact'
  BY <1>1 DEF IInv, InstalledIntact
<1>3. CASE tmp' = index /\ Goto("save_unlink") /\ UNCHANGED index
  <2>1. TypeOK'
    BY <1>1, <1>3 DEF IInv, TypeOK, Goto, Labels
  <2>2. Ready'
    BY <1>1, <1>3 DEF IInv, Goto, Ready, DiscardReady, BeginReady, InstallReady, SaveReady, DropReady
  <2>. QED
    BY <1>2, <2>1, <2>2 DEF IInv
<1>4. CASE tmp' \in {None, Torn} /\ SaveReturns(FALSE) /\ UNCHANGED index
  <2>1. pc' \in {"idle", "sweep"} /\ pc' \in Labels /\ call' \in Calls
    BY <1>4, SaveReturnsTyped DEF IInv, SaveReturns, Return, Goto
  <2>2. TypeOK'
    BY <1>1, <1>4, <2>1 DEF IInv, TypeOK
  <2>. QED
    BY <1>2, <2>1, <2>2, RestIsReady DEF IInv
<1>5. CASE tmp' = Torn /\ CutPower
  <2>1. TypeOK'
    BY <1>1, <1>5, CutPowerTyped DEF IInv, TypeOK
  <2>. QED
    BY <1>2, <1>5, <2>1, CutPowerTyped, RestIsReady DEF IInv
<1>. QED
  BY <1>3, <1>4, <1>5 DEF SaveTemp

(* Removing the old library_index.bin.                                     *)
LEMMA SaveUnlinkStep == ASSUME IInv, SaveUnlink PROVE IInv'
<1>1. idx' \in {idx, None}
  BY DEF SaveUnlink, Outcomes
<1>2. TypeOK'
  BY <1>1 DEF IInv, TypeOK, SaveUnlink, Goto, Labels
<1>3. Ready'
  BY DEF IInv, SaveUnlink, Goto, Ready, DiscardReady, BeginReady, InstallReady, SaveReady, DropReady
<1>. QED
  BY <1>2, <1>3 DEF IInv, InstalledIntact, SaveUnlink

(* Renaming the .tmp, whole by then, into its place.                       *)
LEMMA SaveRenameStep == ASSUME IInv, SaveRename PROVE IInv'
<1>1. PICK ok \in BOOLEAN : SaveReturns(ok)
  BY DEF SaveRename
<1>2. /\ pc' \in {"drop_meta", "idle", "sweep"} /\ pc' \in Labels /\ call' \in Calls
      /\ pc' = "drop_meta" => call' = call /\ call.req = "finish"
  BY <1>1, SaveReturnsTyped DEF IInv
<1>3. tmp = index /\ idx' \in {idx, tmp} /\ tmp' \in {tmp, None}
  BY DEF IInv, Ready, SaveReady, SaveRename, Outcomes
<1>4. TypeOK'
  BY <1>2, <1>3 DEF IInv, TypeOK, SaveRename
<1>5. Ready'
  <2>1. CASE pc' = "drop_meta"
    BY <1>2, <2>1 DEF IInv, SaveRename, Ready, DiscardReady, BeginReady, InstallReady, SaveReady, DropReady
  <2>. QED
    BY <1>2, <2>1, RestIsReady
<1>. QED
  BY <1>4, <1>5 DEF IInv, InstalledIntact, SaveRename

(* The end of a finish that succeeds.                                      *)
LEMMA DropMetaStep == ASSUME IInv, DropMeta PROVE IInv'
<1>1. call.id \in Ids /\ call.pkg \in Header /\ call.pkg.id \in Ids
  BY WellFormedTyped DEF IInv, Ready, DropReady, DropMeta
<1>2. pc' = "idle" /\ pc' \in Labels /\ call' \in Calls
  BY ReturnTyped DEF IInv, DropMeta, Errors
<1>3. meta' \in [Ids -> Sessions \cup {None}]
  BY <1>1 DEF IInv, TypeOK, DropMeta, Outcomes
<1>4. promised' \in [Ids -> Header \cup {None}]
  BY <1>1 DEF IInv, TypeOK, DropMeta
<1>5. TypeOK'
  BY <1>2, <1>3, <1>4 DEF IInv, TypeOK, DropMeta
<1>. QED
  BY <1>2, <1>5, RestIsReady DEF IInv, InstalledIntact, DropMeta

(* The end of a boot.                                                      *)
LEMMA SweepStep == ASSUME IInv, SweepOrphans PROVE IInv'
<1>1. part' \in [Ids -> Files \cup {None}] /\ meta' \in [Ids -> Sessions \cup {None}]
  BY DEF IInv, TypeOK, SweepOrphans
<1>2. /\ pc' \in {"idle", "off"} /\ pc' \in Labels /\ call' \in Calls
      /\ index' \in Indexes
  <2>1. CASE Return("OK") /\ UNCHANGED index
    BY <2>1, ReturnTyped DEF IInv, TypeOK, Errors
  <2>2. CASE CutPower
    BY <2>2, CutPowerTyped
  <2>. QED
    BY <2>1, <2>2 DEF SweepOrphans
<1>3. TypeOK'
  BY <1>1, <1>2 DEF IInv, TypeOK, SweepOrphans
<1>. QED
  BY <1>2, <1>3, RestIsReady DEF IInv, InstalledIntact, SweepOrphans

-----------------------------------------------------------------------------
(* The requests and boot                                                   *)

(* DELETE /api/library/<id>.                                               *)
LEMMA DeleteStep == ASSUME IInv, NEW i \in Ids, Delete(i) PROVE IInv'
<1>1. CASE Reply("delete", i, "NOT_FOUND") /\ UNCHANGED <<card, index, promised>>
  BY <1>1, RefusedStep DEF Reqs, Errors
<1>2. ASSUME index[i] # None,
             NEW file \in {lib[Path(index[i])], None},
             lib' = [lib EXCEPT ![Path(index[i])] = file],
             index' = Remove(index, i),
             promised' = [promised EXCEPT ![i] = None],
             Run("delete", i, None, FALSE, "save_temp"),
             UNCHANGED <<part, meta, idx, tmp>>
      PROVE  IInv'
  <2>1. index[i] \in Header /\ Path(index[i]) \in Paths
    BY <1>2, HeaderPath DEF IInv, TypeOK, Indexes
  <2>2. lib' \in [Paths -> Files \cup {None}]
    BY <1>2, <2>1 DEF IInv, TypeOK
  <2>3. \A path \in Paths : lib'[path] \in {lib[path], None}
    BY <1>2 DEF IInv, TypeOK
  <2>4. index' \in Indexes /\ promised' \in [Ids -> Header \cup {None}]
    BY <1>2 DEF IInv, TypeOK, Remove, Indexes
  <2>5. pc' = "save_temp" /\ call'.req = "delete" /\ call' \in Calls
    BY <1>2 DEF Run, Calls, Reqs, Errors
  <2>6. TypeOK'
    BY <1>2, <2>2, <2>4, <2>5 DEF IInv, TypeOK, Labels
  <2>7. InstalledIntact'
    BY <2>3 DEF IInv, InstalledIntact
  <2>8. Ready'
    BY <2>5 DEF Ready, DiscardReady, BeginReady, InstallReady, SaveReady, DropReady
  <2>. QED
    BY <2>6, <2>7, <2>8 DEF IInv
<1>. QED
  BY <1>1, <1>2 DEF Delete, Outcomes

(* POST /api/upload/begin.                                                 *)
LEMMA BeginStep ==
  ASSUME IInv, NEW job \in Jobs, NEW clock \in BOOLEAN, Begin(job, clock)
  PROVE  IInv'
<1>1. job.decl \in Header /\ job.decl.id \in Ids
  BY StoreAssumption DEF Header
<1>2. CASE Reply("begin", job.decl.id, "OK") /\ UNCHANGED <<card, index, promised>>
  BY <1>1, <1>2, RefusedStep DEF Reqs, Errors
<1>3. CASE Discard("begin", job.decl.id, job.decl, clock, "")
  BY <1>1, <1>3, DiscardStep DEF Reqs, Errors
<1>. QED
  BY <1>2, <1>3 DEF Begin

(* What a client sends in a chunk is a nonempty file.                      *)
LEMMA SliceIsFile ==
  ASSUME NEW p \in Packages, NEW off \in Nat, NEW len \in Nat \ {0}, off + len <= p.size
  PROVE  Slice(p, off, len) \in Files
<1>1. Content(p) \in Files
  BY ContentIsFile
<1>2. p.size \in Nat
  BY PackagesAssumption DEF Header
<1>3. Len(Content(p)) = p.size
  BY <1>2 DEF Content
<1>. QED
  BY <1>1, <1>2, <1>3, SubSeqIsFile DEF Slice

(* Appending cells to a .part, all of them or some.                        *)
LEMMA AppendStep ==
  ASSUME IInv, pc = "idle", NEW i \in Ids, NEW cells \in Files, AppendChunk(i, cells),
         UNCHANGED <<meta, lib, idx, tmp, promised>>
  PROVE  IInv'
<1>1. part' \in [Ids -> Files \cup {None}]
  <2>1. CASE part' = [part EXCEPT ![i] = Appended(i, cells)]
    BY <2>1, AppendedIsFile DEF IInv, TypeOK
  <2>2. ASSUME NEW n \in 1..(Len(cells) - 1),
               part' = [part EXCEPT ![i] = Appended(i, SubSeq(cells, 1, n))]
        PROVE  part' \in [Ids -> Files \cup {None}]
    <3>1. Len(cells) \in Nat
      BY DEF Files
    <3>2. SubSeq(cells, 1, n) \in Files
      BY <3>1, SubSeqIsFile
    <3>3. Appended(i, SubSeq(cells, 1, n)) \in Files
      BY <3>2, AppendedIsFile DEF IInv
    <3>. QED
      BY <2>2, <3>3 DEF IInv, TypeOK
  <2>3. CASE UNCHANGED part
    BY <2>3 DEF IInv, TypeOK
  <2>. QED
    BY <2>1, <2>2, <2>3 DEF AppendChunk
<1>2. /\ pc' \in {"idle", "off"} /\ pc' \in Labels /\ call' \in Calls
      /\ index' \in Indexes
  <2>1. ASSUME NEW err \in {"OK", "STORAGE_ERROR"}, Reply("chunk", i, err), UNCHANGED index
        PROVE  /\ pc' \in {"idle", "off"} /\ pc' \in Labels /\ call' \in Calls
               /\ index' \in Indexes
    BY <2>1, ReplyTyped DEF IInv, TypeOK, Reqs, Errors
  <2>2. CASE CutPower
    BY <2>2, CutPowerTyped
  <2>. QED
    BY <2>1, <2>2 DEF AppendChunk
<1>3. TypeOK'
  BY <1>1, <1>2 DEF IInv, TypeOK
<1>. QED
  BY <1>2, <1>3, RestIsReady DEF IInv, InstalledIntact

(* POST /api/upload/chunk.                                                 *)
LEMMA ChunkStep ==
  ASSUME IInv, NEW job \in Jobs, NEW off \in Nat, NEW len \in Nat \ {0},
         NEW clock \in BOOLEAN, Chunk(job, off, len, clock)
  PROVE  IInv'
<1>. DEFINE i == job.decl.id
            refused(err) == Reply("chunk", i, err) /\ UNCHANGED <<card, index, promised>>
<1>1. i \in Ids /\ job.pkg \in Packages
  BY StoreAssumption DEF Header
<1>2. ASSUME NEW err \in {"OK", "NO_SESSION", "SIZE_MISMATCH", "OFFSET_MISMATCH"}, refused(err)
      PROVE  IInv'
  BY <1>1, <1>2, RefusedStep DEF Reqs, Errors
<1>3. CASE Discard("chunk", i, None, clock, "NO_SESSION")
  BY <1>1, <1>3, DiscardStep DEF Reqs, Errors
<1>4. CASE /\ AppendChunk(i, Slice(job.pkg, off, len))
           /\ UNCHANGED <<meta, lib, idx, tmp, promised>>
  <2>1. pc = "idle" /\ off + len <= job.pkg.size
    BY DEF Chunk
  <2>2. Slice(job.pkg, off, len) \in Files
    BY <1>1, <2>1, SliceIsFile
  <2>. QED
    BY <1>1, <1>4, <2>1, <2>2, AppendStep
<1>. QED
  BY <1>2, <1>3, <1>4 DEF Chunk

(* POST /api/upload/finish goes on to the install only with a .part that   *)
(* is a well-formed package, whole.                                        *)
LEMMA FinishStep ==
  ASSUME IInv, NEW i \in Ids, NEW clock \in BOOLEAN, Finish(i, clock)
  PROVE  IInv'
<1>. DEFINE refused(err) == Reply("finish", i, err) /\ UNCHANGED <<card, index, promised>>
            dropped(err) == Discard("finish", i, None, clock, err)
<1>1. ASSUME NEW err \in Errors, refused(err)
      PROVE  IInv'
  BY <1>1, RefusedStep DEF Reqs
<1>2. ASSUME NEW err \in Errors, dropped(err)
      PROVE  IInv'
  BY <1>2, DiscardStep DEF Reqs
<1>3. ASSUME NEW m \in ReadMeta(i), NEW p \in Packages, Verified(part[i], m, p), Acceptable(p, m),
             Run("finish", i, p, clock, "unlink"), UNCHANGED <<card, index, promised>>
      PROVE  IInv'
  <2>1. p \in WellFormed /\ p \in Header /\ part[i] = Content(p)
    BY <1>3, PackagesAssumption DEF Verified, Acceptable, WellFormed
  <2>2. pc' = "unlink" /\ call'.id = i /\ call'.pkg = p /\ call'.req = "finish" /\ call' \in Calls
    BY <1>3, <2>1 DEF Run, Calls, Reqs, Errors
  <2>3. TypeOK'
    BY <1>3, <2>2 DEF IInv, TypeOK, card, Labels
  <2>4. Ready'
    BY <1>3, <2>1, <2>2 DEF card, Ready, DiscardReady, BeginReady, InstallReady, SaveReady, DropReady
  <2>. QED
    BY <1>3, <2>3, <2>4 DEF IInv, InstalledIntact, card
<1>. HIDE DEF refused, dropped
<1>4. \/ \E err \in Errors : refused(err)
      \/ \E err \in Errors : dropped(err)
      \/ \E m \in ReadMeta(i), p \in Packages :
           /\ Verified(part[i], m, p) /\ Acceptable(p, m)
           /\ Run("finish", i, p, clock, "unlink")
           /\ UNCHANGED <<card, index, promised>>
  BY DEF Finish, refused, dropped, Errors
<1>. QED
  BY <1>1, <1>2, <1>3, <1>4

(* DELETE /api/upload/<id>.                                                *)
LEMMA AbortStep == ASSUME IInv, NEW i \in Ids, Abort(i) PROVE IInv'
<1>1. \E err \in {"NO_SESSION", "OK"} : Discard("abort", i, None, FALSE, err)
  BY DEF Abort
<1>. QED
  BY <1>1, DiscardStep DEF Reqs, Errors

(* Boot recovery up to its first storage step.                             *)
LEMMA BootStep == ASSUME IInv, Boot PROVE IInv'
<1>1. ASSUME NEW label \in {"sweep", "save_temp"}, index' \in Indexes,
             Run("boot", None, None, FALSE, label), UNCHANGED <<card, promised>>
      PROVE  IInv'
  <2>1. pc' = label /\ call'.req = "boot" /\ call' \in Calls
    BY <1>1 DEF Run, Calls, Reqs, Errors
  <2>2. TypeOK'
    BY <1>1, <2>1 DEF IInv, TypeOK, card, Labels
  <2>3. Ready'
    BY <2>1 DEF Ready, DiscardReady, BeginReady, InstallReady, SaveReady, DropReady
  <2>. QED
    BY <1>1, <2>2, <2>3 DEF IInv, InstalledIntact, card
<1>2. UNCHANGED <<card, promised>>
  BY DEF Boot
<1>3. ASSUME idx # None, NEW S, index' = Drop(idx, S)
      PROVE  index' \in Indexes
  BY <1>3 DEF IInv, TypeOK, Drop, Indexes
<1>4. ASSUME NEW S \in SUBSET Scannable(lib), index' = Rebuild(lib, S)
      PROVE  index' \in Indexes
  BY <1>4, RebuildIsIndex
<1>5. CASE /\ idx # None
           /\ \E S : /\ index' = Drop(idx, S)
                     /\ Run("boot", None, None, FALSE, IF S = {} THEN "sweep" ELSE "save_temp")
  BY <1>1, <1>2, <1>3, <1>5
<1>6. CASE /\ \E S \in SUBSET Scannable(lib) : index' = Rebuild(lib, S)
           /\ Run("boot", None, None, FALSE, "save_temp")
  BY <1>1, <1>2, <1>4, <1>6
<1>7. \A S \in (IF IoFaults THEN SUBSET Scannable(lib) ELSE RebuildChoices(lib)) :
        S \in SUBSET Scannable(lib)
  BY DEF RebuildChoices
<1>. QED
  BY <1>5, <1>6, <1>7 DEF Boot

-----------------------------------------------------------------------------
(* The theorems                                                            *)

(* Every step of the specification keeps the invariant.                    *)
LEMMA NextStep == IInv /\ [Next]_vars => IInv'
<1>. SUFFICES ASSUME IInv, [Next]_vars PROVE IInv'
  OBVIOUS
<1>1. ASSUME NEW job \in Jobs, NEW clock \in Clocks, Begin(job, clock) PROVE IInv'
  BY <1>1, BeginStep, StoreAssumption
<1>2. ASSUME NEW job \in Jobs, NEW clock \in Clocks, NEW len \in 1..MaxChunk,
             NEW off \in 0..(job.pkg.size - 1), Chunk(job, off, len, clock)
      PROVE  IInv'
  <2>1. clock \in BOOLEAN /\ len \in Nat \ {0} /\ off \in Nat
    BY StoreAssumption
  <2>. QED
    BY <1>2, <2>1, ChunkStep
<1>3. ASSUME NEW job \in Jobs, NEW clock \in Clocks, Finish(job.decl.id, clock) PROVE IInv'
  <2>1. clock \in BOOLEAN /\ job.decl.id \in Ids
    BY StoreAssumption DEF Header
  <2>. QED
    BY <1>3, <2>1, FinishStep
<1>4. ASSUME NEW i \in Ids, Abort(i) \/ Delete(i) PROVE IInv'
  BY <1>4, AbortStep, DeleteStep
<1>5. CASE Step
  BY <1>5, DiscardPartStep, DiscardMetaStep, BeginWriteStep, UnlinkStep, InstallStep,
     SaveTempStep, SaveUnlinkStep, SaveRenameStep, DropMetaStep, SweepStep DEF Step
<1>6. CASE Boot
  BY <1>6, BootStep
<1>7. CASE PowerLoss
  BY <1>7, PowerLossStep
<1>8. ASSUME NEW i \in Ids, DeadlinePasses(i) PROVE IInv'
  BY <1>8, DeadlineStep
<1>9. CASE UNCHANGED vars
  BY <1>9 DEF vars, IInv, TypeOK, InstalledIntact, Ready, DiscardReady, BeginReady,
     InstallReady, SaveReady, DropReady
<1>. QED
  BY <1>1, <1>2, <1>3, <1>4, <1>5, <1>6, <1>7, <1>8, <1>9 DEF Next, Request

(* The inductive invariant holds in every reachable state.                 *)
THEOREM Invariance == Spec => []IInv
BY InitIInv, NextStep, PTL DEF Spec

(* Whatever clients send and whichever operations fail, the variables keep *)
(* their types.                                                            *)
THEOREM TypeCorrect == Spec => []TypeOK
<1>1. IInv => TypeOK
  BY DEF IInv
<1>. QED
  BY Invariance, <1>1, PTL

(* Whatever clients send, mix or cut off, whichever storage operations     *)
(* fail and whenever the power goes, every file in /LIBRARY is a whole,    *)
(* well-formed package under its own name.                                 *)
THEOREM InstalledAlwaysIntact == Spec => []InstalledIntact
<1>1. IInv => InstalledIntact
  BY DEF IInv
<1>. QED
  BY Invariance, <1>1, PTL

-----------------------------------------------------------------------------
(* The capacity of the index.  The table in RAM, the file and the          *)
(* temporary file are copied into each other, so each of them has to keep  *)
(* the bound.                                                              *)

CapInv ==
  /\ Cardinality(Listed(index)) <= MaxEntries
  /\ idx \in Indexes => Cardinality(Listed(idx)) <= MaxEntries
  /\ tmp \in Indexes => Cardinality(Listed(tmp)) <= MaxEntries

(* What an index lists is a finite set, whose size is a number.            *)
LEMMA ListedFinite ==
  ASSUME NEW ix
  PROVE  IsFiniteSet(Listed(ix)) /\ Cardinality(Listed(ix)) \in Nat
<1>1. Listed(ix) \subseteq Ids /\ IsFiniteSet(Ids)
  BY PackagesAssumption DEF Listed
<1>. QED
  BY <1>1, FS_Subset, FS_CardinalityType

(* An index that lists no more than another one does is no larger.         *)
LEMMA ListsLess ==
  ASSUME NEW ix, NEW iy, Listed(ix) \subseteq Listed(iy),
         Cardinality(Listed(iy)) <= MaxEntries
  PROVE  Cardinality(Listed(ix)) <= MaxEntries
<1>1. Cardinality(Listed(ix)) <= Cardinality(Listed(iy))
  BY ListedFinite, FS_Subset
<1>. QED
  BY <1>1, ListedFinite, PackagesAssumption

(* upsert() of an entry there is room for keeps within the capacity.       *)
LEMMA UpsertFits ==
  ASSUME NEW ix \in Indexes, NEW p \in Header, HasRoom(ix, p),
         Cardinality(Listed(ix)) <= MaxEntries
  PROVE  Cardinality(Listed(Upsert(ix, p))) <= MaxEntries
<1>1. p.id \in Ids /\ p # None
  BY PackagesAssumption DEF Header
<1>2. Listed(Upsert(ix, p)) = Listed(ix) \cup {p.id}
  BY <1>1 DEF Listed, Upsert, Indexes
<1>3. CASE ix[p.id] # None
  BY <1>1, <1>2, <1>3 DEF Listed
<1>4. CASE ix[p.id] = None /\ Cardinality(Listed(ix)) < MaxEntries
  <2>1. Cardinality(Listed(ix) \cup {p.id}) = Cardinality(Listed(ix)) + 1
    <3>1. p.id \notin Listed(ix)
      BY <1>4 DEF Listed
    <3>. QED
      BY <3>1, ListedFinite, FS_AddElement
  <2>. QED
    BY <1>2, <1>4, <2>1, ListedFinite, PackagesAssumption
<1>. QED
  BY <1>3, <1>4 DEF HasRoom

(* rebuild() lists only what it chose to keep.                             *)
LEMMA RebuildFits ==
  ASSUME NEW card1, NEW S \in SUBSET Ids, Cardinality(S) <= MaxEntries
  PROVE  Cardinality(Listed(Rebuild(card1, S))) <= MaxEntries
<1>1. Listed(Rebuild(card1, S)) \subseteq S
  BY DEF Listed, Rebuild
<1>2. IsFiniteSet(S)
  BY PackagesAssumption, FS_Subset
<1>3. Cardinality(Listed(Rebuild(card1, S))) <= Cardinality(S)
  BY <1>1, <1>2, FS_Subset
<1>. QED
  BY <1>2, <1>3, ListedFinite, FS_CardinalityType, PackagesAssumption

(* The empty index fits.                                                   *)
LEMMA EmptyFits == Cardinality(Listed(EmptyIndex)) <= MaxEntries
<1>1. Listed(EmptyIndex) = {}
  BY DEF Listed, EmptyIndex
<1>. QED
  BY <1>1, FS_EmptySet, PackagesAssumption

(* A step that leaves the table in RAM alone or clears it, and both files  *)
(* alone, keeps the bound.                                                 *)
LEMMA FilesAside ==
  ASSUME CapInv, index' \in {index, EmptyIndex}, UNCHANGED <<idx, tmp>>
  PROVE  CapInv'
BY EmptyFits DEF CapInv

(* So does every step of saving.                                           *)
LEMMA SavingFits ==
  ASSUME CapInv, TypeOK, index' \in {index, EmptyIndex},
         idx' \in {idx, None, tmp}, tmp' \in {tmp, None, Torn, index}
  PROVE  CapInv'
<1>1. None \notin Indexes /\ Torn \notin Indexes
  BY PackagesAssumption, StoreAssumption DEF Indexes
<1>2. Cardinality(Listed(index'))  <= MaxEntries
  BY EmptyFits DEF CapInv
<1>3. idx' \in Indexes => Cardinality(Listed(idx')) <= MaxEntries
  BY <1>1 DEF CapInv
<1>4. tmp' \in Indexes => Cardinality(Listed(tmp')) <= MaxEntries
  BY <1>1 DEF CapInv
<1>. QED
  BY <1>2, <1>3, <1>4 DEF CapInv

(* A client's request touches the table only to delete from it.            *)
LEMMA RequestFits == ASSUME CapInv, TypeOK, Request PROVE CapInv'
<1>1. ASSUME NEW job \in Jobs, NEW clock \in Clocks, Begin(job, clock) PROVE CapInv'
  <2>1. UNCHANGED <<card, index>>
    BY <1>1 DEF Begin, Discard
  <2>. QED
    BY <2>1, FilesAside DEF card
<1>2. ASSUME NEW job \in Jobs, NEW clock \in Clocks, NEW len \in 1..MaxChunk,
             NEW off \in 0..(job.pkg.size - 1), Chunk(job, off, len, clock)
      PROVE  CapInv'
  <2>1. index' \in {index, EmptyIndex} /\ UNCHANGED <<idx, tmp>>
    BY <1>2 DEF Chunk, Discard, AppendChunk, CutPower, card
  <2>. QED
    BY <2>1, FilesAside
<1>3. ASSUME NEW job \in Jobs, NEW clock \in Clocks, Finish(job.decl.id, clock) PROVE CapInv'
  <2>1. UNCHANGED <<card, index>>
    BY <1>3 DEF Finish, Discard
  <2>. QED
    BY <2>1, FilesAside DEF card
<1>4. ASSUME NEW i \in Ids, Abort(i) PROVE CapInv'
  <2>1. UNCHANGED <<card, index>>
    BY <1>4 DEF Abort, Discard
  <2>. QED
    BY <2>1, FilesAside DEF card
<1>5. ASSUME NEW i \in Ids, Delete(i) PROVE CapInv'
  <2>1. UNCHANGED <<idx, tmp>> /\ index' \in {index, Remove(index, i)}
    BY <1>5 DEF Delete, card
  <2>2. Listed(Remove(index, i)) \subseteq Listed(index)
    BY DEF Listed, Remove, TypeOK, Indexes
  <2>3. Cardinality(Listed(index')) <= MaxEntries
    BY <2>1, <2>2, ListsLess DEF CapInv
  <2>. QED
    BY <2>1, <2>3 DEF CapInv
<1>. QED
  BY <1>1, <1>2, <1>3, <1>4, <1>5 DEF Request

(* A storage step copies the table or adds an entry there is room for.     *)
LEMMA StepFits == ASSUME CapInv, IInv, Step PROVE CapInv'
<1>1. TypeOK
  BY DEF IInv
<1>2. CASE DiscardPart \/ DiscardMeta \/ BeginWrite \/ Unlink \/ DropMeta
  <2>1. UNCHANGED <<index, idx, tmp>>
    BY <1>2 DEF DiscardPart, DiscardMeta, BeginWrite, Unlink, DropMeta
  <2>. QED
    BY <2>1, FilesAside
<1>3. CASE SweepOrphans
  <2>1. index' \in {index, EmptyIndex} /\ UNCHANGED <<idx, tmp>>
    BY <1>3 DEF SweepOrphans, CutPower
  <2>. QED
    BY <2>1, FilesAside
<1>4. CASE SaveTemp
  <2>1. index' \in {index, EmptyIndex} /\ idx' = idx /\ tmp' \in {None, Torn, index}
    BY <1>4 DEF SaveTemp, CutPower
  <2>. QED
    BY <1>1, <2>1, SavingFits
<1>5. CASE SaveUnlink
  <2>1. index' = index /\ idx' \in {idx, None} /\ tmp' = tmp
    BY <1>5 DEF SaveUnlink, Outcomes
  <2>. QED
    BY <1>1, <2>1, SavingFits
<1>6. CASE SaveRename
  <2>1. index' = index /\ idx' \in {idx, tmp} /\ tmp' \in {tmp, None}
    BY <1>6 DEF SaveRename, Outcomes
  <2>. QED
    BY <1>1, <2>1, SavingFits
<1>7. CASE Install
  <2>1. UNCHANGED <<idx, tmp>>
        /\ (index' = index \/ (HasRoom(index, call.pkg) /\ index' = Upsert(index, call.pkg)))
    BY <1>7 DEF Install
  <2>2. call.pkg \in Header
    BY <1>7, WellFormedTyped DEF Install, IInv, Ready, InstallReady
  <2>3. index \in Indexes
    BY <1>1 DEF TypeOK
  <2>4. Cardinality(Listed(index')) <= MaxEntries
    BY <2>1, <2>2, <2>3, UpsertFits DEF CapInv
  <2>. QED
    BY <2>1, <2>4 DEF CapInv
<1>. QED
  BY <1>2, <1>3, <1>4, <1>5, <1>6, <1>7 DEF Step

(* Boot keeps entries of the file, or rebuilds as many as fit.             *)
LEMMA BootFits == ASSUME CapInv, TypeOK, Boot PROVE CapInv'
<1>1. UNCHANGED <<idx, tmp>>
  BY DEF Boot, card
<1>2. ASSUME idx # None, NEW S, index' = Drop(idx, S)
      PROVE  Cardinality(Listed(index')) <= MaxEntries
  <2>1. idx \in Indexes
    BY <1>2 DEF TypeOK
  <2>2. Listed(Drop(idx, S)) \subseteq Listed(idx)
    BY DEF Listed, Drop
  <2>. QED
    BY <1>2, <2>1, <2>2, ListsLess DEF CapInv
<1>3. ASSUME NEW S \in SUBSET Scannable(lib), Cardinality(S) <= MaxEntries,
             index' = Rebuild(lib, S)
      PROVE  Cardinality(Listed(index')) <= MaxEntries
  BY <1>3, RebuildFits DEF Scannable
<1>4. \A S \in (IF IoFaults THEN SUBSET Scannable(lib) ELSE RebuildChoices(lib)) :
        S \in SUBSET Scannable(lib)
  BY DEF RebuildChoices
<1>5. Cardinality(Listed(index')) <= MaxEntries
  BY <1>2, <1>3, <1>4 DEF Boot
<1>. QED
  BY <1>1, <1>5 DEF CapInv

(* The table has room for MaxEntries entries, and nobody writes past it:   *)
(* not upsert() after an upload, not rebuild() of a card that holds more   *)
(* packages than fit, not load() of a file that was saved before.          *)
THEOREM CapacityKept == Spec => []WithinCapacity
<1>1. Init => CapInv
  <2>. SUFFICES ASSUME Init PROVE CapInv
    OBVIOUS
  <2>1. None \notin Indexes
    BY PackagesAssumption DEF Indexes
  <2>. QED
    BY <2>1, EmptyFits DEF Init, CapInv
<1>2. IInv /\ CapInv /\ [Next]_vars => CapInv'
  <2>. SUFFICES ASSUME IInv, CapInv, [Next]_vars PROVE CapInv'
    OBVIOUS
  <2>1. TypeOK
    BY DEF IInv
  <2>2. CASE Request
    BY <2>1, <2>2, RequestFits
  <2>3. CASE Step
    BY <2>3, StepFits
  <2>4. CASE Boot
    BY <2>1, <2>4, BootFits
  <2>5. CASE PowerLoss
    BY <2>5, FilesAside DEF PowerLoss, CutPower, card
  <2>6. ASSUME NEW i \in Ids, DeadlinePasses(i) PROVE CapInv'
    BY <2>6, FilesAside DEF DeadlinePasses
  <2>7. CASE UNCHANGED vars
    BY <2>7, FilesAside DEF vars, card
  <2>. QED
    BY <2>2, <2>3, <2>4, <2>5, <2>6, <2>7 DEF Next
<1>3. IInv /\ CapInv => WithinCapacity
  BY DEF IInv, TypeOK, CapInv, WithinCapacity
<1>. QED
  BY <1>1, <1>2, <1>3, Invariance, PTL DEF Spec

-----------------------------------------------------------------------------
(* Packages on the card                                                    *)

(* Two packages with the same content are one package.                     *)
LEMMA ContentDetermines ==
  ASSUME NEW p \in Packages, NEW q \in Packages, Content(p) = Content(q)
  PROVE  p = q
<1>1. p.size \in Nat \ {0} /\ q.size \in Nat \ {0}
  BY PackagesAssumption DEF Header
<1>2. Content(p)[1] = Cell(p, 1) /\ Content(q)[1] = Cell(q, 1)
  BY <1>1 DEF Content
<1>3. Cell(p, 1).head = p /\ Cell(q, 1).head = q
  BY DEF Cell
<1>. QED
  BY <1>2, <1>3

(* A package's content is a file, so its absence is not one.               *)
LEMMA ContentIsNotNone ==
  ASSUME NEW p \in Packages
  PROVE  Content(p) # None
BY ContentIsFile, PackagesAssumption DEF Files, Cells

(* An installed package is under its own path.                             *)
LEMMA AtItsPath ==
  ASSUME InstalledIntact, NEW path \in Paths, NEW p \in WellFormed,
         lib[path] = Content(p)
  PROVE  path = Path(p)
<1>1. lib[path] # None
  BY WellFormedTyped, ContentIsNotNone
<1>2. PICK q \in WellFormed : lib[path] = Content(q) /\ Path(q) = path
  BY <1>1 DEF InstalledIntact
<1>3. p = q
  BY <1>2, WellFormedTyped, ContentDetermines
<1>. QED
  BY <1>2, <1>3

-----------------------------------------------------------------------------
(* What a client's request changes, whichever request it is                *)

(* It is answered without an effect.                                       *)
Answers ==
  /\ pc' = "idle"
  /\ UNCHANGED <<card, index, promised>>
  /\ call'.req = "finish" => call'.err # "OK"

(* It discards a session first.                                            *)
Discards ==
  /\ pc' = "discard_part"
  /\ UNCHANGED <<card, index, promised>>
  /\ call'.id \in Ids
  /\ call'.req = "finish" => call'.err # "OK"

(* A chunk grows a .part, of a session that is not complete yet.           *)
Appends ==
  /\ \E i \in Ids, file \in Files :
       /\ part' = [part EXCEPT ![i] = file]
       /\ meta[i] # None
       /\ ~ IoFaults => part[i] = None \/ Len(part[i]) < meta[i].decl.size
  /\ \/ pc' = "idle" /\ call'.req = "chunk" /\ UNCHANGED index
     \/ pc' = "off" /\ index' = EmptyIndex
  /\ UNCHANGED <<meta, lib, idx, tmp, promised>>

(* A finish has verified the .part and goes on to install it.              *)
Verifies ==
  /\ pc' = "unlink"
  /\ UNCHANGED <<card, index, promised>>
  /\ call'.req = "finish" /\ call'.id \in Ids /\ call'.pkg \in WellFormed
  /\ meta[call'.id] # None
  /\ Verified(part[call'.id], meta[call'.id], call'.pkg)
  /\ Acceptable(call'.pkg, meta[call'.id])

(* A client deletes the content i.                                         *)
Deletes(i) ==
  /\ pc' = "save_temp"
  /\ call'.req = "delete"
  /\ index[i] # None
  /\ \E file \in Outcomes(lib[Path(index[i])], None) :
       lib' = [lib EXCEPT ![Path(index[i])] = file]
  /\ index' = Remove(index, i)
  /\ promised' = [promised EXCEPT ![i] = None]
  /\ UNCHANGED <<part, meta, idx, tmp>>

(* A chunk that is not refused grows an incomplete .part.                  *)
LEMMA ChunkEffect ==
  ASSUME IInv, NEW job \in Jobs, NEW clock \in Clocks, NEW len \in 1..MaxChunk,
         NEW off \in 0..(job.pkg.size - 1), Chunk(job, off, len, clock)
  PROVE  Answers \/ Discards \/ Appends
<1>. DEFINE i == job.decl.id
            cells == Slice(job.pkg, off, len)
<1>1. i \in Ids /\ off \in Nat /\ len \in Nat \ {0} /\ job.pkg \in Packages
  BY StoreAssumption DEF Header
<1>2. ASSUME NEW err \in Errors, Reply("chunk", i, err), UNCHANGED <<card, index, promised>>
      PROVE  Answers
  BY <1>2 DEF Reply, Answers
<1>3. ASSUME Discard("chunk", i, None, clock, "NO_SESSION")
      PROVE  Discards
  BY <1>1, <1>3 DEF Discard, Discards
<1>4. ASSUME NEW m \in ReadMeta(i), NEW size \in PartSize(i),
             m # None, off + len <= m.decl.size, off = size,
             off + len <= job.pkg.size,
             AppendChunk(i, cells), UNCHANGED <<meta, lib, idx, tmp, promised>>
      PROVE  Answers \/ Appends
  <2>1. m = meta[i] /\ meta[i] \in Sessions
    BY <1>1, <1>4 DEF ReadMeta, IInv, TypeOK
  <2>2. meta[i].decl.size \in Nat
    BY <2>1 DEF Sessions, Header
  <2>3. ~ IoFaults => part[i] = None \/ Len(part[i]) < meta[i].decl.size
    <3>1. CASE ~ IoFaults /\ part[i] # None
      <4>1. size = Len(part[i])
        BY <3>1 DEF PartSize
      <4>. QED
        BY <1>1, <1>4, <2>1, <2>2, <4>1
    <3>. QED
      BY <3>1
  <2>4. Content(job.pkg) \in Files
    BY <1>1, ContentIsFile
  <2>5. job.pkg.size \in Nat /\ Len(Content(job.pkg)) = job.pkg.size
    BY <1>1, PackagesAssumption DEF Header, Content
  <2>6. cells \in Files /\ Len(cells) \in Nat
    <3>1. cells \in Files
      BY <1>1, <1>4, <2>4, <2>5, SubSeqIsFile DEF Slice
    <3>. QED
      BY <3>1 DEF Files
  <2>7. \A n \in 1..(Len(cells) - 1) : SubSeq(cells, 1, n) \in Files
    BY <2>6, SubSeqIsFile
  <2>8. CASE Reply("chunk", i, "STORAGE_ERROR") /\ UNCHANGED <<part, index>>
    BY <1>4, <2>8 DEF Reply, Answers, card
  <2>9. CASE /\ \E file \in Files : part' = [part EXCEPT ![i] = file]
             /\ \/ pc' = "idle" /\ call'.req = "chunk" /\ UNCHANGED index
                \/ pc' = "off" /\ index' = EmptyIndex
    <3>. HIDE DEF i, cells
    <3>. QED
      BY <1>1, <1>4, <2>1, <2>3, <2>9 DEF Appends
  <2>10. \A s \in Files : Appended(i, s) \in Files
    BY <1>1, AppendedIsFile DEF IInv
  <2>. QED
    BY <1>4, <2>6, <2>7, <2>8, <2>9, <2>10 DEF AppendChunk, Reply, CutPower
<1>. QED
  BY <1>2, <1>3, <1>4 DEF Chunk, Errors

(* A finish is refused, discards the session or has verified the .part.    *)
LEMMA FinishEffect ==
  ASSUME IInv, NEW i \in Ids, NEW clock \in Clocks, Finish(i, clock)
  PROVE  Answers \/ Discards \/ Verifies
<1>1. ASSUME NEW err \in Errors, err # "OK", Reply("finish", i, err),
             UNCHANGED <<card, index, promised>>
      PROVE  Answers
  BY <1>1 DEF Reply, Answers
<1>2. ASSUME NEW err \in Errors, err # "OK", Discard("finish", i, None, clock, err)
      PROVE  Discards
  BY <1>2 DEF Discard, Discards
<1>3. ASSUME NEW m \in ReadMeta(i), NEW p \in Packages, m # None,
             Verified(part[i], m, p), Acceptable(p, m),
             Run("finish", i, p, clock, "unlink"), UNCHANGED <<card, index, promised>>
      PROVE  Verifies
  <2>1. m = meta[i]
    BY <1>3 DEF ReadMeta
  <2>. QED
    BY <1>3, <2>1 DEF Run, Verifies, Acceptable, WellFormed
<1>. QED
  BY <1>1, <1>2, <1>3 DEF Finish, Errors

(* Every request is one of these.                                          *)
LEMMA RequestEffect ==
  ASSUME IInv, Request
  PROVE  pc = "idle" /\ (Answers \/ Discards \/ Appends \/ Verifies \/ \E i \in Ids : Deletes(i))
<1>1. ASSUME NEW job \in Jobs, NEW clock \in Clocks, Begin(job, clock)
      PROVE  pc = "idle" /\ (Answers \/ Discards)
  <2>1. job.decl.id \in Ids
    BY StoreAssumption DEF Header
  <2>2. ASSUME Reply("begin", job.decl.id, "OK"), UNCHANGED <<card, index, promised>>
        PROVE  Answers
    BY <2>2 DEF Reply, Answers
  <2>3. ASSUME Discard("begin", job.decl.id, job.decl, clock, "")
        PROVE  Discards
    BY <2>1, <2>3 DEF Discard, Discards
  <2>. QED
    BY <1>1, <2>2, <2>3 DEF Begin
<1>2. ASSUME NEW job \in Jobs, NEW clock \in Clocks, NEW len \in 1..MaxChunk,
             NEW off \in 0..(job.pkg.size - 1), Chunk(job, off, len, clock)
      PROVE  pc = "idle" /\ (Answers \/ Discards \/ Appends)
  BY <1>2, ChunkEffect DEF Chunk
<1>3. ASSUME NEW job \in Jobs, NEW clock \in Clocks, Finish(job.decl.id, clock)
      PROVE  pc = "idle" /\ (Answers \/ Discards \/ Verifies)
  <2>1. job.decl.id \in Ids
    BY StoreAssumption DEF Header
  <2>. QED
    BY <1>3, <2>1, FinishEffect DEF Finish
<1>4. ASSUME NEW i \in Ids, Abort(i)
      PROVE  pc = "idle" /\ Discards
  BY <1>4 DEF Abort, Discard, Discards
<1>5. ASSUME NEW i \in Ids, Delete(i)
      PROVE  pc = "idle" /\ (Answers \/ Deletes(i))
  <2>1. CASE index[i] = None
    BY <1>5, <2>1 DEF Delete, Reply, Answers
  <2>2. CASE index[i] # None
    <3>1. Run("delete", i, None, FALSE, "save_temp")
      BY <1>5, <2>2, Zenon DEF Delete
    <3>2. pc' = "save_temp" /\ call'.req = "delete"
      BY <3>1 DEF Run
    <3>. QED
      BY <1>5, <2>2, <3>2, Zenon DEF Delete, Deletes
  <2>. QED
    BY <2>1, <2>2
<1>. QED
  BY <1>1, <1>2, <1>3, <1>4, <1>5 DEF Request

-----------------------------------------------------------------------------
(* OkMeansDurable.  From the rename on, finish has the package on the card *)
(* and in RAM; when save() succeeded it is in the file too, and that is    *)
(* the only way to the answer OK.                                          *)

Saving == {"save_temp", "save_unlink", "save_rename"}
Installed(p) == lib[Path(p)] = Content(p) /\ index[p.id] = p

DurInv ==
  /\ pc \in Saving /\ call.req = "finish" => Installed(call.pkg)
  /\ pc = "drop_meta" => Installed(call.pkg) /\ idx = index
  /\ pc \in {"discard_part", "discard_meta"} /\ call.req = "finish" => call.err # "OK"
  /\ pc = "begin_write" => call.req = "begin"
  /\ pc = "sweep" => call.req # "finish"
  /\ OkMeansDurable

(* A device that is off, or at rest with an answer other than finish's OK, *)
(* has promised nothing new.                                               *)
LEMMA RestIsDurable ==
  ASSUME \/ pc' = "off"
         \/ pc' = "idle" /\ (call'.req = "finish" => call'.err # "OK")
  PROVE  DurInv'
BY DEF DurInv, OkMeansDurable, Saving

(* A client's request keeps it.                                            *)
LEMMA RequestDurable == ASSUME IInv, Request PROVE DurInv'
<1>1. CASE Answers \/ Appends
  BY <1>1, RestIsDurable DEF Answers, Appends
<1>2. CASE Discards
  BY <1>2 DEF Discards, DurInv, OkMeansDurable, Saving
<1>3. CASE Verifies
  BY <1>3 DEF Verifies, DurInv, OkMeansDurable, Saving
<1>4. ASSUME NEW i \in Ids, Deletes(i) PROVE DurInv'
  BY <1>4 DEF Deletes, DurInv, OkMeansDurable, Saving
<1>. QED
  BY <1>1, <1>2, <1>3, <1>4, RequestEffect

(* The steps of a discard and of a begin keep it.                          *)
LEMMA SessionStepsDurable ==
  ASSUME IInv, DurInv, DiscardPart \/ DiscardMeta \/ BeginWrite PROVE DurInv'
<1>1. CASE DiscardPart
  BY <1>1 DEF DiscardPart, Goto, DurInv, OkMeansDurable, Saving
<1>2. CASE DiscardMeta /\ call.req = "begin"
  BY <1>2 DEF DiscardMeta, Goto, DurInv, OkMeansDurable, Saving
<1>3. CASE DiscardMeta /\ call.req # "begin"
  <2>1. call \in Calls
    BY DEF IInv, TypeOK
  <2>2. pc' = "idle" /\ call'.req = call.req /\ call'.err = call.err
    BY <1>3, <2>1 DEF DiscardMeta, Return, Calls
  <2>3. call.req = "finish" => call.err # "OK"
    BY <1>3 DEF DiscardMeta, DurInv
  <2>. QED
    BY <2>2, <2>3, RestIsDurable
<1>4. CASE BeginWrite
  <2>1. call \in Calls
    BY DEF IInv, TypeOK
  <2>2. call.req = "begin"
    BY <1>4 DEF BeginWrite, DurInv
  <2>3. pc' = "idle" /\ call'.req = call.req
    BY <1>4, <2>1 DEF BeginWrite, Return, Calls
  <2>. QED
    BY <2>2, <2>3, RestIsDurable
<1>. QED
  BY <1>1, <1>2, <1>3, <1>4

(* Install puts the package in its place and its entry in RAM.             *)
LEMMA InstallDurable ==
  ASSUME IInv, Unlink \/ Install PROVE DurInv'
<1>1. call \in Calls
  BY DEF IInv, TypeOK
<1>2. CASE Unlink
  BY <1>2 DEF Unlink, Goto, DurInv, OkMeansDurable, Saving
<1>3. CASE Install /\ Return("STORAGE_ERROR")
  BY <1>1, <1>3, RestIsDurable DEF Return, Calls
<1>4. CASE Install /\ ~ Return("STORAGE_ERROR")
  <2>1. call.id \in Ids /\ call.pkg \in WellFormed /\ part[call.id] = Content(call.pkg)
    BY <1>4 DEF Install, IInv, Ready, InstallReady
  <2>2. call.pkg.id \in Ids /\ Path(call.pkg) \in Paths
    BY <2>1, WellFormedTyped
  <2>3. lib' = [lib EXCEPT ![Path(call.pkg)] = part[call.id]]
    BY <1>4 DEF Install
  <2>4. index' = Upsert(index, call.pkg) /\ Goto("save_temp")
    BY <1>4 DEF Install
  <2>5. lib'[Path(call.pkg)] = Content(call.pkg)
    BY <2>1, <2>2, <2>3 DEF IInv, TypeOK
  <2>6. index'[call.pkg.id] = call.pkg
    BY <2>2, <2>4 DEF IInv, TypeOK, Indexes, Upsert
  <2>. QED
    BY <2>4, <2>5, <2>6 DEF Goto, DurInv, OkMeansDurable, Saving, Installed
<1>. QED
  BY <1>2, <1>3, <1>4

(* Only a save() that succeeded takes finish on to drop its .meta.         *)
LEMMA SaveReturnsDurable ==
  ASSUME IInv, DurInv, NEW ok \in BOOLEAN, SaveReturns(ok),
         pc \in Saving, UNCHANGED <<lib, index>>, ok => idx' = index
  PROVE  DurInv'
<1>1. call \in Calls
  BY DEF IInv, TypeOK
<1>2. CASE call.req = "finish" /\ ok
  BY <1>2 DEF SaveReturns, Goto, DurInv, OkMeansDurable, Saving, Installed
<1>3. CASE call.req = "finish" /\ ~ ok
  <2>1. Return("STORAGE_ERROR")
    BY <1>3 DEF SaveReturns
  <2>. QED
    BY <1>1, <2>1, RestIsDurable DEF Return, Calls
<1>4. CASE call.req = "delete"
  <2>1. Return("OK")
    BY <1>4 DEF SaveReturns
  <2>. QED
    BY <1>1, <1>4, <2>1, RestIsDurable DEF Return, Calls
<1>5. CASE call.req \notin {"finish", "delete"}
  <2>1. Goto("sweep")
    BY <1>5 DEF SaveReturns
  <2>. QED
    BY <1>5, <2>1 DEF Goto, DurInv, OkMeansDurable, Saving
<1>. QED
  BY <1>2, <1>3, <1>4, <1>5

(* The steps of save().                                                    *)
LEMMA SavingDurable ==
  ASSUME IInv, DurInv, SaveTemp \/ SaveUnlink \/ SaveRename PROVE DurInv'
<1>1. CASE SaveTemp /\ CutPower
  BY <1>1, RestIsDurable DEF CutPower
<1>2. CASE SaveTemp /\ ~ CutPower
  <2>1. pc \in Saving /\ UNCHANGED <<lib, index>>
    BY <1>2 DEF SaveTemp, Saving
  <2>2. Goto("save_unlink") \/ SaveReturns(FALSE)
    BY <1>2 DEF SaveTemp
  <2>3. CASE Goto("save_unlink")
    BY <2>1, <2>3 DEF Goto, DurInv, OkMeansDurable, Saving, Installed
  <2>. QED
    BY <2>1, <2>2, <2>3, SaveReturnsDurable
<1>3. CASE SaveUnlink
  BY <1>3 DEF SaveUnlink, Goto, DurInv, OkMeansDurable, Saving, Installed
<1>4. CASE SaveRename
  <2>1. pc \in Saving /\ UNCHANGED <<lib, index>> /\ tmp = index
    BY <1>4 DEF SaveRename, Saving, IInv, Ready, SaveReady
  <2>2. \/ idx' = tmp /\ SaveReturns(TRUE)
        \/ SaveReturns(FALSE)
    BY <1>4 DEF SaveRename
  <2>. QED
    BY <2>1, <2>2, SaveReturnsDurable
<1>. QED
  BY <1>1, <1>2, <1>3, <1>4

(* The answer OK.                                                          *)
LEMMA DropMetaDurable == ASSUME IInv, DurInv, DropMeta PROVE DurInv'
<1>1. call \in Calls /\ call.pkg \in WellFormed /\ call.pkg.id \in Ids
  BY WellFormedTyped DEF DropMeta, IInv, TypeOK, Ready, DropReady
<1>2. Installed(call.pkg) /\ idx = index
  BY DEF DropMeta, DurInv
<1>3. pc' = "idle"
  BY DEF DropMeta, Return
<1>4. promised'[call.pkg.id] = call.pkg
  BY <1>1 DEF DropMeta, IInv, TypeOK
<1>5. UNCHANGED <<lib, idx, index>>
  BY DEF DropMeta
<1>6. \E p \in WellFormed : /\ promised'[p.id] = p
                            /\ lib'[Path(p)] = Content(p)
                            /\ index'[p.id] = p
                            /\ idx' = index'
  BY <1>1, <1>2, <1>4, <1>5 DEF Installed
<1>. QED
  BY <1>3, <1>6 DEF DurInv, OkMeansDurable, Saving

(* Boot, its sweep and everything that leaves the handler alone.           *)
LEMMA OthersDurable ==
  ASSUME IInv, DurInv,
         \/ SweepOrphans \/ Boot \/ PowerLoss
         \/ \E i \in Ids : DeadlinePasses(i)
         \/ UNCHANGED vars
  PROVE  DurInv'
<1>1. call \in Calls
  BY DEF IInv, TypeOK
<1>2. CASE SweepOrphans
  <2>1. call.req # "finish"
    BY <1>2 DEF SweepOrphans, DurInv
  <2>2. pc' = "off" \/ (pc' = "idle" /\ call'.req = call.req)
    BY <1>1, <1>2 DEF SweepOrphans, Return, CutPower, Calls
  <2>. QED
    BY <2>1, <2>2, RestIsDurable
<1>3. CASE Boot
  <2>1. PICK label \in {"sweep", "save_temp"} : Run("boot", None, None, FALSE, label)
    BY <1>3 DEF Boot
  <2>2. call'.req = "boot" /\ pc' \in {"sweep", "save_temp"}
    BY <2>1 DEF Run
  <2>. QED
    BY <2>2 DEF DurInv, OkMeansDurable, Saving
<1>4. CASE PowerLoss
  BY <1>4, RestIsDurable DEF PowerLoss, CutPower
<1>5. CASE (\E i \in Ids : DeadlinePasses(i)) \/ UNCHANGED vars
  <2>1. UNCHANGED <<lib, idx, index, pc, call, promised>>
    BY <1>5 DEF DeadlinePasses, vars
  <2>. QED
    BY <2>1 DEF DurInv, OkMeansDurable, Saving, Installed
<1>. QED
  BY <1>2, <1>3, <1>4, <1>5

(* Every step keeps it.                                                    *)
LEMMA NextDurable == IInv /\ DurInv /\ [Next]_vars => DurInv'
BY RequestDurable, SessionStepsDurable, InstallDurable, SavingDurable,
   DropMetaDurable, OthersDurable DEF Next, Step

(* finish() answers OK only when the package is on the card, listed in RAM *)
(* and listed in library_index.bin, whichever storage operations failed.   *)
THEOREM OkAlwaysDurable == Spec => []OkMeansDurable
<1>1. Init => DurInv
  BY DEF Init, DurInv, OkMeansDurable, Saving
<1>2. IInv /\ DurInv /\ [Next]_vars => DurInv'
  BY NextDurable
<1>3. DurInv => OkMeansDurable
  BY DEF DurInv
<1>. QED
  BY <1>1, <1>2, <1>3, Invariance, PTL DEF Spec

-----------------------------------------------------------------------------
(* IndexSound, on a card whose operations succeed while the power is on.   *)
(* An entry is filed under its own id, so a step that takes the file of    *)
(* one entry takes no other's; between a handler's first mutation and the  *)
(* end of save() the file and the table differ, and only boot, which       *)
(* prunes, may start from the file.                                        *)

Keyed(ix) == \A i \in Listed(ix) : ix[i].id = i
IndexKeyed == Keyed(index) /\ (idx # None => Keyed(idx))
EntriesParse ==
  pc # "off" =>
    \A i \in Listed(index) :
      Parses(lib[Path(index[i])]) \/ (pc = "install" /\ Path(index[i]) = Path(call.pkg))
FileCurrent ==
  /\ pc \notin {"off"} \cup Saving => idx = index
  /\ pc = "save_rename" => idx = None
PathFree == pc = "install" => lib[Path(call.pkg)] = None

SoundInv == IndexKeyed /\ EntriesParse /\ FileCurrent /\ PathFree

(* What an index lists is a header.                                        *)
LEMMA ListedIsHeader ==
  ASSUME NEW ix \in Indexes, NEW i \in Listed(ix)
  PROVE  i \in Ids /\ ix[i] \in Header /\ ix[i] # None
BY DEF Indexes, Listed

(* A handler that leaves the card's library and both indexes alone, outside *)
(* of an install and of save().                                            *)
LEMMA SoundFrame ==
  ASSUME SoundInv, UNCHANGED <<lib, idx, index>>,
         pc \notin {"off", "install"} \cup Saving,
         pc' \notin {"off", "install"} \cup Saving
  PROVE  SoundInv'
<1>1. IndexKeyed'
  BY DEF SoundInv, IndexKeyed, Keyed, Listed
<1>2. EntriesParse'
  BY DEF SoundInv, EntriesParse, Listed, Parses
<1>3. FileCurrent' /\ PathFree'
  BY DEF SoundInv, FileCurrent, PathFree, Saving
<1>. QED
  BY <1>1, <1>2, <1>3 DEF SoundInv

(* The power goes.                                                         *)
LEMMA SoundOff ==
  ASSUME SoundInv, pc' = "off", index' = EmptyIndex, idx' = idx
  PROVE  SoundInv'
<1>1. IndexKeyed'
  BY DEF SoundInv, IndexKeyed, Keyed, Listed, EmptyIndex
<1>. QED
  BY <1>1 DEF SoundInv, EntriesParse, FileCurrent, PathFree, Saving

(* Nothing of what the invariant speaks of changes.                        *)
LEMMA SoundStutter ==
  ASSUME SoundInv, UNCHANGED <<lib, idx, index, pc, call>>
  PROVE  SoundInv'
<1>1. IndexKeyed'
  BY DEF SoundInv, IndexKeyed, Keyed, Listed
<1>2. EntriesParse'
  BY DEF SoundInv, EntriesParse, Listed, Parses
<1>3. FileCurrent' /\ PathFree'
  BY DEF SoundInv, FileCurrent, PathFree, Saving
<1>. QED
  BY <1>1, <1>2, <1>3 DEF SoundInv

(* Deleting a content takes the file of its entry and of no other.         *)
LEMMA DeleteSound ==
  ASSUME ~ IoFaults, IInv, SoundInv, pc = "idle", NEW i \in Ids, Deletes(i)
  PROVE  SoundInv'
<1>1. index \in Indexes /\ index[i] \in Header /\ lib \in [Paths -> Files \cup {None}]
  BY DEF Deletes, IInv, TypeOK, Indexes
<1>2. Path(index[i]) \in Paths
  BY <1>1, HeaderPath
<1>3. lib' = [lib EXCEPT ![Path(index[i])] = None] /\ index' = [index EXCEPT ![i] = None]
  BY DEF Deletes, Outcomes, Remove
<1>4. Listed(index') = Listed(index) \ {i}
  BY <1>1, <1>3 DEF Listed, Indexes
<1>5. \A j \in Listed(index') : index'[j] = index[j]
  BY <1>1, <1>3, <1>4 DEF Listed, Indexes
<1>6. ASSUME NEW j \in Listed(index')
      PROVE  Parses(lib'[Path(index'[j])])
  <2>1. index[j].id = j /\ index[i].id = i /\ j # i /\ j \in Listed(index)
    BY <1>4, <1>6 DEF SoundInv, IndexKeyed, Keyed, Deletes, Listed
  <2>2. Path(index[j]) # Path(index[i])
    BY <2>1 DEF Path
  <2>3. index[j] \in Header /\ Path(index[j]) \in Paths
    BY <1>1, <2>1, ListedIsHeader, HeaderPath
  <2>4. lib'[Path(index[j])] = lib[Path(index[j])]
    BY <1>1, <1>2, <1>3, <2>2, <2>3
  <2>5. Parses(lib[Path(index[j])])
    BY <2>1 DEF SoundInv, EntriesParse
  <2>. QED
    BY <1>5, <2>4, <2>5 DEF Parses
<1>7. IndexKeyed'
  <2>1. idx' = idx
    BY DEF Deletes
  <2>2. Keyed(index')
    BY <1>4, <1>5 DEF SoundInv, IndexKeyed, Keyed
  <2>. QED
    BY <2>1, <2>2 DEF SoundInv, IndexKeyed, Keyed, Listed
<1>8. EntriesParse'
  BY <1>6 DEF EntriesParse
<1>. QED
  BY <1>7, <1>8 DEF Deletes, SoundInv, FileCurrent, PathFree, Saving

(* A client's request.                                                     *)
LEMMA RequestSound == ASSUME ~ IoFaults, IInv, SoundInv, Request PROVE SoundInv'
<1>1. CASE Answers \/ Discards \/ Verifies
  BY <1>1, RequestEffect, SoundFrame DEF Answers, Discards, Verifies, Saving, card
<1>2. CASE Appends
  <2>1. CASE pc' = "off" /\ index' = EmptyIndex
    BY <1>2, <2>1, SoundOff DEF Appends
  <2>2. CASE pc' = "idle" /\ index' = index
    BY <1>2, <2>2, RequestEffect, SoundFrame DEF Appends, Saving
  <2>. QED
    BY <1>2, <2>1, <2>2 DEF Appends
<1>. QED
  BY <1>1, <1>2, RequestEffect, DeleteSound

(* Unlink takes the file of the entry that install is about to replace.    *)
LEMMA UnlinkSound == ASSUME ~ IoFaults, IInv, SoundInv, Unlink PROVE SoundInv'
<1>1. call.pkg \in WellFormed /\ index \in Indexes /\ lib \in [Paths -> Files \cup {None}]
  BY DEF Unlink, IInv, TypeOK, Ready, InstallReady
<1>2. Path(call.pkg) \in Paths
  BY <1>1, WellFormedTyped
<1>3. /\ lib' = [lib EXCEPT ![Path(call.pkg)] = None]
      /\ pc = "unlink" /\ pc' = "install" /\ call' = call
      /\ UNCHANGED <<idx, index>>
  BY DEF Unlink, Outcomes, Goto
<1>4. EntriesParse'
  <2>. SUFFICES ASSUME NEW i \in Listed(index), Path(index[i]) # Path(call.pkg)
                PROVE  Parses(lib'[Path(index[i])])
    BY <1>3 DEF EntriesParse, Listed
  <2>1. Path(index[i]) \in Paths
    BY <1>1, ListedIsHeader, HeaderPath
  <2>2. lib'[Path(index[i])] = lib[Path(index[i])]
    BY <1>1, <1>2, <1>3, <2>1
  <2>. QED
    BY <1>3, <2>2 DEF SoundInv, EntriesParse, Parses
<1>5. PathFree' /\ FileCurrent'
  BY <1>1, <1>2, <1>3 DEF PathFree, FileCurrent, SoundInv, Saving
<1>6. IndexKeyed'
  BY <1>3 DEF SoundInv, IndexKeyed, Keyed, Listed
<1>. QED
  BY <1>4, <1>5, <1>6 DEF SoundInv

(* Install fills the path that every entry still without a file names.     *)
LEMMA InstallSound == ASSUME ~ IoFaults, IInv, SoundInv, Install PROVE SoundInv'
<1>. DEFINE p == call.pkg
<1>1. /\ p \in WellFormed /\ call.id \in Ids /\ part[call.id] = Content(p)
      /\ index \in Indexes /\ lib \in [Paths -> Files \cup {None}]
  BY DEF Install, IInv, TypeOK, Ready, InstallReady
<1>2. p.id \in Ids /\ Path(p) \in Paths /\ p \in Header /\ p # None
  BY <1>1, WellFormedTyped, PackagesAssumption
<1>3. /\ lib' = [lib EXCEPT ![Path(p)] = Content(p)]
      /\ \/ index' = Upsert(index, p) /\ pc' = "save_temp"
         \/ index' = index /\ pc' = "idle"
      /\ pc = "install" /\ idx' = idx
  BY <1>1 DEF Install, SoundInv, PathFree, Goto, Return
<1>4. \A i \in Listed(index) : Parses(lib'[Path(index[i])])
  <2>. TAKE i \in Listed(index)
  <2>1. Path(index[i]) \in Paths
    BY <1>1, ListedIsHeader, HeaderPath
  <2>2. CASE Path(index[i]) = Path(p)
    BY <1>1, <1>2, <1>3, <2>2 DEF Parses
  <2>3. CASE Path(index[i]) # Path(p)
    <3>1. lib'[Path(index[i])] = lib[Path(index[i])]
      BY <1>1, <1>2, <1>3, <2>1, <2>3
    <3>. QED
      BY <1>3, <2>3, <3>1 DEF SoundInv, EntriesParse, Parses
  <2>. QED
    BY <2>2, <2>3
<1>5. CASE index' = index /\ pc' = "idle"
  BY <1>3, <1>4, <1>5 DEF SoundInv, IndexKeyed, Keyed, EntriesParse, FileCurrent,
     PathFree, Saving, Listed, Parses
<1>6. CASE index' = Upsert(index, p) /\ pc' = "save_temp"
  <2>1. Listed(index') = Listed(index) \cup {p.id}
    BY <1>1, <1>2, <1>6 DEF Listed, Upsert, Indexes
  <2>2. \A i \in Listed(index') : index'[i] = IF i = p.id THEN p ELSE index[i]
    BY <1>1, <1>2, <1>6 DEF Listed, Upsert, Indexes
  <2>3. Parses(lib'[Path(p)])
    BY <1>1, <1>2, <1>3 DEF Parses
  <2>4. EntriesParse'
    BY <1>4, <2>1, <2>2, <2>3 DEF EntriesParse, Parses
  <2>5. Keyed(index')
    BY <2>1, <2>2 DEF SoundInv, IndexKeyed, Keyed
  <2>6. IndexKeyed'
    BY <1>3, <2>5 DEF SoundInv, IndexKeyed, Keyed, Listed
  <2>. QED
    BY <1>6, <2>4, <2>6 DEF SoundInv, FileCurrent, PathFree, Saving
<1>. QED
  BY <1>3, <1>5, <1>6

(* The steps of save() end with the table in the file.                     *)
LEMMA SavingSound ==
  ASSUME ~ IoFaults, IInv, SoundInv, SaveTemp \/ SaveUnlink \/ SaveRename
  PROVE  SoundInv'
<1>1. CASE SaveTemp /\ CutPower
  BY <1>1, SoundOff DEF SaveTemp, CutPower
<1>2. CASE SaveTemp /\ ~ CutPower
  <2>1. pc = "save_temp" /\ pc' = "save_unlink" /\ UNCHANGED <<lib, idx, index>>
    BY <1>2 DEF SaveTemp, Goto
  <2>. QED
    BY <2>1 DEF SoundInv, IndexKeyed, Keyed, EntriesParse, FileCurrent, PathFree,
       Saving, Listed, Parses
<1>3. CASE SaveUnlink
  <2>1. /\ pc = "save_unlink" /\ pc' = "save_rename" /\ UNCHANGED <<lib, index>>
        /\ idx' = None
    BY <1>3 DEF SaveUnlink, Goto, Outcomes
  <2>. QED
    BY <2>1 DEF SoundInv, IndexKeyed, Keyed, EntriesParse, FileCurrent, PathFree,
       Saving, Listed, Parses
<1>4. CASE SaveRename
  <2>1. idx = None /\ tmp = index
    BY <1>4 DEF SaveRename, SoundInv, FileCurrent, IInv, Ready, SaveReady
  <2>2. idx' = index /\ SaveReturns(TRUE) /\ UNCHANGED <<lib, index>> /\ pc = "save_rename"
    BY <1>4, <2>1 DEF SaveRename
  <2>3. pc' \in {"drop_meta", "idle", "sweep"}
    BY <2>2, SaveReturnsTyped DEF IInv
  <2>. QED
    BY <2>2, <2>3 DEF SoundInv, IndexKeyed, Keyed, EntriesParse, FileCurrent, PathFree,
       Saving, Listed, Parses
<1>. QED
  BY <1>1, <1>2, <1>3, <1>4

(* What load() and prune() keep parses, and so does what rebuild() finds.  *)
LEMMA BootSound == ASSUME ~ IoFaults, IInv, SoundInv, Boot PROVE SoundInv'
<1>1. UNCHANGED <<lib, idx>> /\ pc' \in {"sweep", "save_temp"}
  BY DEF Boot, Run, card
<1>2. ASSUME idx # None, index' = Drop(idx, Prunable(idx, lib)),
             Prunable(idx, lib) # {} => pc' = "save_temp"
      PROVE  SoundInv'
  <2>1. idx \in Indexes
    BY <1>2 DEF IInv, TypeOK
  <2>2. /\ Listed(index') = Listed(idx) \ Prunable(idx, lib)
        /\ \A i \in Listed(index') : index'[i] = idx[i]
    BY <1>2 DEF Listed, Drop
  <2>3. \A i \in Listed(index') : Parses(lib[Path(index'[i])])
    BY <2>2 DEF Prunable
  <2>4. Keyed(index') /\ Keyed(idx)
    BY <1>2, <2>2 DEF SoundInv, IndexKeyed, Keyed
  <2>5. Prunable(idx, lib) = {} => index' = idx
    BY <1>2, <2>1 DEF Drop, Indexes
  <2>6. IndexKeyed'
    BY <1>1, <2>4 DEF IndexKeyed, Keyed, Listed
  <2>7. EntriesParse'
    BY <1>1, <2>3 DEF EntriesParse, Parses
  <2>. QED
    BY <1>1, <1>2, <2>5, <2>6, <2>7 DEF SoundInv, FileCurrent, PathFree, Saving
<1>3. ASSUME NEW S \in SUBSET Scannable(lib), index' = Rebuild(lib, S), pc' = "save_temp"
      PROVE  SoundInv'
  <2>1. ASSUME NEW i \in S
        PROVE  LastScanned(lib, i) \in OnCard(lib, i)
    BY LastScannedOnCard
  <2>2. \A i \in Listed(index') : i \in S /\ index'[i] \in OnCard(lib, i)
    BY <1>3, <2>1 DEF Listed, Rebuild, Scannable
  <2>3. ASSUME NEW i \in Listed(index')
        PROVE  Parses(lib[Path(index'[i])])
    <3>1. index'[i] \in WellFormed
      BY <2>2 DEF OnCard
    <3>2. PICK path \in Paths : lib[path] = Content(index'[i])
      BY <2>2 DEF OnCard
    <3>3. path = Path(index'[i])
      BY <3>1, <3>2, AtItsPath DEF IInv
    <3>. QED
      BY <3>1, <3>2, <3>3 DEF Parses
  <2>4. Keyed(index')
    BY <2>2 DEF Keyed, OnCard
  <2>5. IndexKeyed'
    BY <1>1, <2>4 DEF SoundInv, IndexKeyed, Keyed, Listed
  <2>6. EntriesParse'
    BY <1>1, <2>3 DEF EntriesParse, Parses
  <2>. QED
    BY <1>3, <2>5, <2>6 DEF SoundInv, FileCurrent, PathFree, Saving
<1>4. CASE idx # None
  <2>1. /\ index' = Drop(idx, Prunable(idx, lib))
        /\ Run("boot", None, None, FALSE, IF Prunable(idx, lib) = {} THEN "sweep" ELSE "save_temp")
    BY <1>4 DEF Boot
  <2>. QED
    BY <1>2, <1>4, <2>1 DEF Run
<1>5. CASE idx = None
  <2>1. PICK S \in RebuildChoices(lib) : index' = Rebuild(lib, S)
    BY <1>5 DEF Boot
  <2>2. pc' = "save_temp"
    BY <1>5 DEF Boot, Run
  <2>. QED
    BY <1>3, <2>1, <2>2 DEF RebuildChoices
<1>. QED
  BY <1>4, <1>5

(* Every step keeps it.                                                    *)
LEMMA NextSound == ~ IoFaults /\ IInv /\ SoundInv /\ [Next]_vars => SoundInv'
<1>. SUFFICES ASSUME ~ IoFaults, IInv, SoundInv, [Next]_vars PROVE SoundInv'
  OBVIOUS
<1>1. CASE DiscardPart \/ DiscardMeta \/ BeginWrite \/ DropMeta
  <2>1. UNCHANGED <<lib, idx, index>>
    BY <1>1 DEF DiscardPart, DiscardMeta, BeginWrite, DropMeta
  <2>2. pc \in {"discard_part", "discard_meta", "begin_write", "drop_meta"}
    BY <1>1 DEF DiscardPart, DiscardMeta, BeginWrite, DropMeta
  <2>3. pc' \in {"discard_meta", "begin_write", "idle"}
    BY <1>1 DEF DiscardPart, DiscardMeta, BeginWrite, DropMeta, Goto, Return
  <2>. QED
    BY <2>1, <2>2, <2>3, SoundFrame DEF Saving
<1>2. CASE SweepOrphans
  <2>1. CASE CutPower
    BY <1>2, <2>1, SoundOff DEF SweepOrphans, CutPower
  <2>2. CASE ~ CutPower
    <3>1. pc = "sweep" /\ pc' = "idle" /\ UNCHANGED <<lib, idx, index>>
      BY <1>2, <2>2 DEF SweepOrphans, Return
    <3>. QED
      BY <3>1, SoundFrame DEF Saving
  <2>. QED
    BY <2>1, <2>2
<1>3. CASE PowerLoss
  BY <1>3, SoundOff DEF PowerLoss, CutPower, card
<1>4. CASE (\E i \in Ids : DeadlinePasses(i)) \/ UNCHANGED vars
  BY <1>4, SoundStutter DEF DeadlinePasses, vars
<1>. QED
  BY <1>1, <1>2, <1>3, <1>4, RequestSound, UnlinkSound, InstallSound, SavingSound, BootSound
     DEF Next, Step

(* A new card is sound.                                                    *)
LEMMA InitSound == Init => SoundInv
BY DEF Init, SoundInv, IndexKeyed, Keyed, EntriesParse, FileCurrent, PathFree, Saving,
   Listed, EmptyIndex

(* On a card whose operations succeed while the power is on: whenever the  *)
(* device answers requests, the index file names only packages that exist  *)
(* and parse, and is the index the device works with, wherever the power   *)
(* went before.                                                            *)
THEOREM IndexAlwaysSound == ASSUME ~ IoFaults PROVE Spec => []IndexSound
<1>1. Init => SoundInv
  BY InitSound
<1>2. IInv /\ SoundInv /\ [Next]_vars => SoundInv'
  BY NextSound
<1>3. SoundInv => IndexSound
  BY DEF SoundInv, EntriesParse, FileCurrent, IndexSound, Saving
<1>. QED
  BY <1>1, <1>2, <1>3, Invariance, PTL DEF Spec

-----------------------------------------------------------------------------
(* PromiseKept.  An installed package can be forgotten only by rebuild(),  *)
(* when it lists another file of the same content or has no room for it.   *)
(* A content id is derived from the type among other things                *)
(* (src/desktop/converter/src/pipeline/content-id.ts), so a content has    *)
(* one type and one path; and the contents must not outnumber the entries. *)

OneTypePerId == \A p, q \in WellFormed : p.id = q.id => p.type = q.type
RoomForAll   == Cardinality({p.id : p \in WellFormed}) <= MaxEntries

PromInv ==
  /\ \A i \in Ids : promised[i] # None =>
       /\ promised[i] \in WellFormed
       /\ promised[i].id = i
       /\ lib[Path(promised[i])] = Content(promised[i])
       /\ pc # "off" => index[i] = promised[i]
       /\ idx # None => idx[i] = promised[i]
  /\ pc = "install" => promised[call.pkg.id] = None

(* The library and the promises are left alone, and the indexes are left   *)
(* alone, cleared or copied into each other.                               *)
LEMMA PromiseFrame ==
  ASSUME PromInv, pc # "off", UNCHANGED <<lib, promised>>,
         pc' = "off" \/ (index' = index /\ pc' # "install"),
         idx' \in {idx, None, index}
  PROVE  PromInv'
BY DEF PromInv

(* Deleting a content takes its file, which no other promise names.        *)
LEMMA DeletePromise ==
  ASSUME IInv, SoundInv, PromInv, pc = "idle", NEW i \in Ids, Deletes(i)
  PROVE  PromInv'
<1>1. /\ index \in Indexes /\ index[i] \in Header /\ lib \in [Paths -> Files \cup {None}]
      /\ promised \in [Ids -> Header \cup {None}] /\ index[i].id = i
  BY DEF Deletes, IInv, TypeOK, Indexes, SoundInv, IndexKeyed, Keyed, Listed
<1>2. Path(index[i]) \in Paths
  BY <1>1, HeaderPath
<1>3. PICK file : lib' = [lib EXCEPT ![Path(index[i])] = file]
  BY DEF Deletes
<1>4. /\ index' = [index EXCEPT ![i] = None] /\ promised' = [promised EXCEPT ![i] = None]
      /\ pc' = "save_temp" /\ idx' = idx
  BY DEF Deletes, Remove
<1>5. ASSUME NEW j \in Ids, promised'[j] # None
      PROVE  /\ promised'[j] \in WellFormed
             /\ promised'[j].id = j
             /\ lib'[Path(promised'[j])] = Content(promised'[j])
             /\ index'[j] = promised'[j]
             /\ idx' # None => idx'[j] = promised'[j]
  <2>1. j # i /\ promised'[j] = promised[j] /\ index'[j] = index[j]
    BY <1>1, <1>4, <1>5
  <2>2. /\ promised[j] \in WellFormed /\ promised[j].id = j /\ index[j] = promised[j]
        /\ lib[Path(promised[j])] = Content(promised[j])
        /\ idx # None => idx[j] = promised[j]
    BY <1>5, <2>1 DEF PromInv
  <2>3. Path(promised[j]) # Path(index[i]) /\ Path(promised[j]) \in Paths
    BY <1>1, <2>1, <2>2, WellFormedTyped DEF Path
  <2>4. lib'[Path(promised[j])] = lib[Path(promised[j])]
    BY <1>1, <1>2, <1>3, <2>3
  <2>. QED
    BY <1>4, <2>1, <2>2, <2>4
<1>. QED
  BY <1>4, <1>5 DEF PromInv

(* A client's request.                                                     *)
LEMMA RequestPromise == ASSUME IInv, SoundInv, PromInv, Request PROVE PromInv'
<1>1. CASE Answers \/ Discards \/ Verifies
  BY <1>1, RequestEffect, PromiseFrame DEF Answers, Discards, Verifies, card
<1>2. CASE Appends
  BY <1>2, RequestEffect, PromiseFrame DEF Appends
<1>. QED
  BY <1>1, <1>2, RequestEffect, DeletePromise

(* From unlink on, the content that is being replaced is not promised.     *)
LEMMA UnlinkPromise == ASSUME IInv, PromInv, Unlink PROVE PromInv'
<1>1. /\ call.pkg \in WellFormed /\ lib \in [Paths -> Files \cup {None}]
      /\ promised \in [Ids -> Header \cup {None}]
  BY DEF Unlink, IInv, TypeOK, Ready, InstallReady
<1>2. Path(call.pkg) \in Paths /\ call.pkg.id \in Ids
  BY <1>1, WellFormedTyped
<1>3. PICK file : lib' = [lib EXCEPT ![Path(call.pkg)] = file]
  BY DEF Unlink
<1>4. /\ promised' = [promised EXCEPT ![call.pkg.id] = None]
      /\ pc = "unlink" /\ pc' = "install" /\ UNCHANGED <<call, index, idx>>
  BY DEF Unlink, Goto
<1>5. ASSUME NEW j \in Ids, promised'[j] # None
      PROVE  /\ promised'[j] = promised[j]
             /\ lib'[Path(promised'[j])] = lib[Path(promised[j])]
  <2>1. j # call.pkg.id /\ promised'[j] = promised[j]
    BY <1>1, <1>2, <1>4, <1>5
  <2>2. promised[j] \in WellFormed /\ promised[j].id = j
    BY <1>5, <2>1 DEF PromInv
  <2>3. Path(promised[j]) # Path(call.pkg) /\ Path(promised[j]) \in Paths
    BY <2>1, <2>2, WellFormedTyped DEF Path
  <2>. QED
    BY <1>1, <1>2, <1>3, <2>1, <2>3
<1>6. promised'[call'.pkg.id] = None
  BY <1>1, <1>2, <1>4
<1>. QED
  BY <1>4, <1>5, <1>6 DEF PromInv

(* Install touches that content's file and entry only.                     *)
LEMMA InstallPromise == ASSUME IInv, PromInv, Install PROVE PromInv'
<1>1. /\ call.pkg \in WellFormed /\ lib \in [Paths -> Files \cup {None}]
      /\ index \in Indexes /\ promised \in [Ids -> Header \cup {None}]
  BY DEF Install, IInv, TypeOK, Ready, InstallReady
<1>2. Path(call.pkg) \in Paths /\ call.pkg.id \in Ids
  BY <1>1, WellFormedTyped
<1>3. /\ lib' = lib \/ \E file : lib' = [lib EXCEPT ![Path(call.pkg)] = file]
      /\ index' = index \/ index' = Upsert(index, call.pkg)
      /\ pc = "install" /\ pc' \in {"idle", "save_temp"} /\ UNCHANGED <<promised, idx>>
  BY DEF Install, Goto, Return
<1>4. promised[call.pkg.id] = None
  BY <1>3 DEF PromInv
<1>5. ASSUME NEW j \in Ids, promised[j] # None
      PROVE  lib'[Path(promised[j])] = lib[Path(promised[j])] /\ index'[j] = index[j]
  <2>1. promised[j] \in WellFormed /\ promised[j].id = j /\ j # call.pkg.id
    BY <1>4, <1>5 DEF PromInv
  <2>2. Path(promised[j]) # Path(call.pkg) /\ Path(promised[j]) \in Paths
    BY <2>1, WellFormedTyped DEF Path
  <2>3. lib'[Path(promised[j])] = lib[Path(promised[j])]
    BY <1>1, <1>2, <1>3, <2>2
  <2>4. index'[j] = index[j]
    BY <1>1, <1>2, <1>3, <2>1 DEF Upsert, Indexes
  <2>. QED
    BY <2>3, <2>4
<1>. QED
  BY <1>3, <1>5 DEF PromInv

(* The promise is made when the package is installed, listed and saved.    *)
LEMMA DropMetaPromise == ASSUME IInv, DurInv, PromInv, DropMeta PROVE PromInv'
<1>1. /\ call.pkg \in WellFormed /\ call.pkg.id \in Ids
      /\ promised \in [Ids -> Header \cup {None}]
  BY WellFormedTyped DEF DropMeta, IInv, TypeOK, Ready, DropReady
<1>2. Installed(call.pkg) /\ idx = index /\ pc = "drop_meta"
  BY DEF DropMeta, DurInv
<1>3. /\ promised' = [promised EXCEPT ![call.pkg.id] = call.pkg]
      /\ pc' = "idle" /\ UNCHANGED <<lib, idx, index>>
  BY DEF DropMeta, Return
<1>4. ASSUME NEW j \in Ids, promised'[j] # None
      PROVE  /\ promised'[j] \in WellFormed
             /\ promised'[j].id = j
             /\ lib[Path(promised'[j])] = Content(promised'[j])
             /\ index[j] = promised'[j]
  <2>1. CASE j = call.pkg.id
    BY <1>1, <1>2, <1>3, <2>1 DEF Installed
  <2>2. CASE j # call.pkg.id
    BY <1>1, <1>2, <1>3, <1>4, <2>2 DEF PromInv
  <2>. QED
    BY <2>1, <2>2
<1>. QED
  BY <1>2, <1>3, <1>4 DEF PromInv

(* What rebuild() finds of a promised content is the package promised.     *)
LEMMA RebuildPromise ==
  ASSUME IInv, PromInv, OneTypePerId, NEW i \in Ids, promised[i] # None
  PROVE  i \in Scannable(lib) /\ LastScanned(lib, i) = promised[i]
<1>. DEFINE p == promised[i]
<1>1. p \in WellFormed /\ p.id = i /\ lib[Path(p)] = Content(p)
  BY DEF PromInv
<1>2. Path(p) \in Paths
  BY <1>1, WellFormedTyped
<1>3. p \in OnCard(lib, i)
  BY <1>1, <1>2 DEF OnCard
<1>4. i \in Scannable(lib)
  BY <1>3 DEF Scannable
<1>5. ASSUME NEW q \in OnCard(lib, i)
      PROVE  q = p
  <2>1. q \in WellFormed /\ q.id = i
    BY DEF OnCard
  <2>2. PICK path \in Paths : lib[path] = Content(q)
    BY DEF OnCard
  <2>3. path = Path(q)
    BY <2>1, <2>2, AtItsPath DEF IInv
  <2>4. Path(q) = Path(p)
    BY <1>1, <2>1 DEF OneTypePerId, Path
  <2>5. Content(p) = Content(q)
    BY <1>1, <2>2, <2>3, <2>4
  <2>. QED
    BY <1>1, <2>1, <2>5, WellFormedTyped, ContentDetermines
<1>. QED
  BY <1>4, <1>5, LastScannedOnCard

(* When there is room for every content, rebuild() lists all it finds.     *)
LEMMA RebuildComplete ==
  ASSUME IInv, RoomForAll, NEW S \in RebuildChoices(lib)
  PROVE  Scannable(lib) \subseteq S
<1>. DEFINE C == {p.id : p \in WellFormed}
<1>1. Scannable(lib) \subseteq C /\ S \subseteq Scannable(lib) /\ C \subseteq Ids
  BY WellFormedTyped DEF Scannable, OnCard, RebuildChoices
<1>2. IsFiniteSet(C) /\ IsFiniteSet(S)
  BY <1>1, PackagesAssumption, FS_Subset
<1>3. CASE Cardinality(S) = MaxEntries
  <2>1. Cardinality(C) <= Cardinality(S)
    BY <1>3 DEF RoomForAll
  <2>2. S \subseteq C /\ Cardinality(S) <= Cardinality(C) /\ (Cardinality(S) = Cardinality(C) => S = C)
    BY <1>1, <1>2, FS_Subset
  <2>3. Cardinality(S) \in Nat /\ Cardinality(C) \in Nat
    BY <1>2, FS_CardinalityType
  <2>4. S = C
    BY <2>1, <2>2, <2>3
  <2>. QED
    BY <1>1, <2>4
<1>. QED
  BY <1>3 DEF RebuildChoices

(* Boot lists every promised package.                                      *)
LEMMA BootPromise ==
  ASSUME ~ IoFaults, IInv, PromInv, OneTypePerId, RoomForAll, Boot
  PROVE  PromInv'
<1>1. UNCHANGED <<lib, idx, promised>> /\ pc' \in {"sweep", "save_temp"}
  BY DEF Boot, Run, card
<1>2. ASSUME NEW i \in Ids, promised[i] # None
      PROVE  index'[i] = promised[i]
  <2>1. /\ promised[i] \in WellFormed
        /\ lib[Path(promised[i])] = Content(promised[i])
        /\ idx # None => idx[i] = promised[i]
    BY <1>2 DEF PromInv
  <2>2. CASE idx # None
    <3>1. index' = Drop(idx, Prunable(idx, lib))
      BY <2>2 DEF Boot
    <3>2. i \notin Prunable(idx, lib)
      BY <2>1, <2>2 DEF Prunable, Parses
    <3>. QED
      BY <2>1, <2>2, <3>1, <3>2 DEF Drop
  <2>3. CASE idx = None
    <3>1. PICK S \in RebuildChoices(lib) : index' = Rebuild(lib, S)
      BY <2>3 DEF Boot
    <3>2. i \in S /\ LastScanned(lib, i) = promised[i]
      BY <1>2, RebuildPromise, RebuildComplete
    <3>. QED
      BY <3>1, <3>2 DEF Rebuild
  <2>. QED
    BY <2>2, <2>3
<1>. QED
  BY <1>1, <1>2 DEF PromInv

(* Every step keeps the promises.                                          *)
LEMMA NextPromise ==
  ~ IoFaults /\ OneTypePerId /\ RoomForAll
    /\ IInv /\ DurInv /\ SoundInv /\ PromInv /\ [Next]_vars => PromInv'
<1>. SUFFICES ASSUME ~ IoFaults, OneTypePerId, RoomForAll,
                     IInv, DurInv, SoundInv, PromInv, [Next]_vars
              PROVE  PromInv'
  OBVIOUS
<1>1. CASE DiscardPart \/ DiscardMeta \/ BeginWrite
  BY <1>1, PromiseFrame DEF DiscardPart, DiscardMeta, BeginWrite, Goto, Return
<1>2. CASE SaveTemp \/ SaveUnlink \/ SaveRename
  <2>1. pc # "off" /\ UNCHANGED <<lib, promised>>
    BY <1>2 DEF SaveTemp, SaveUnlink, SaveRename
  <2>2. idx' \in {idx, None, index}
    BY <1>2 DEF SaveTemp, SaveUnlink, SaveRename, Outcomes, IInv, Ready, SaveReady
  <2>3. CASE SaveTemp
    BY <2>1, <2>2, <2>3, PromiseFrame DEF SaveTemp, CutPower, Goto
  <2>4. CASE SaveUnlink
    BY <2>1, <2>2, <2>4, PromiseFrame DEF SaveUnlink, Goto
  <2>5. CASE SaveRename
    <3>1. index' = index /\ \E ok \in BOOLEAN : SaveReturns(ok)
      BY <2>5 DEF SaveRename
    <3>2. pc' # "install"
      BY <3>1, SaveReturnsTyped DEF IInv
    <3>. QED
      BY <2>1, <2>2, <3>1, <3>2, PromiseFrame
  <2>. QED
    BY <1>2, <2>3, <2>4, <2>5
<1>3. CASE SweepOrphans
  BY <1>3, PromiseFrame DEF SweepOrphans, CutPower, Return
<1>4. CASE PowerLoss
  BY <1>4, PromiseFrame DEF PowerLoss, CutPower, card
<1>5. CASE (\E i \in Ids : DeadlinePasses(i)) \/ UNCHANGED vars
  <2>1. UNCHANGED <<lib, idx, index, pc, call, promised>>
    BY <1>5 DEF DeadlinePasses, vars
  <2>. QED
    BY <2>1 DEF PromInv
<1>. QED
  BY <1>1, <1>2, <1>3, <1>4, <1>5, RequestPromise, UnlinkPromise, InstallPromise,
     DropMetaPromise, BootPromise DEF Next, Step

(* On such a card, and when every content has one type and an entry to     *)
(* spare: what finish() answered OK stays installed and listed, across any *)
(* number of power losses, until a client replaces or deletes it.          *)
THEOREM PromiseAlwaysKept ==
  ASSUME ~ IoFaults, OneTypePerId, RoomForAll
  PROVE  Spec => []PromiseKept
<1>1. Init => DurInv /\ SoundInv /\ PromInv
  BY InitSound DEF Init, DurInv, OkMeansDurable, Saving, PromInv
<1>2. IInv /\ DurInv /\ SoundInv /\ PromInv /\ [Next]_vars => DurInv' /\ SoundInv' /\ PromInv'
  BY NextDurable, NextSound, NextPromise
<1>3. PromInv => PromiseKept
  BY DEF PromInv, PromiseKept
<1>. QED
  BY <1>1, <1>2, <1>3, Invariance, PTL DEF Spec

-----------------------------------------------------------------------------
(* LastCopyKept.  When an installed version is unlinked, the verified .part *)
(* that replaces it is there, with its session; and a session is dropped   *)
(* only after its .part is gone.                                           *)

CopyInv ==
  /\ pc \in {"unlink", "install"} =>
       /\ meta[call.id] # None
       /\ Verified(part[call.id], meta[call.id], call.pkg)
       /\ Acceptable(call.pkg, meta[call.id])
  /\ pc \in {"discard_meta", "begin_write"} => part[call.id] = None
  /\ pc = "drop_meta" \/ (pc \in Saving /\ call.req = "finish") => part[call.id] = None

(* A deadline that passes leaves every session its declaration.            *)
LEMMA KeepsDeclarations ==
  ASSUME IInv, NEW i \in Ids, DeadlinePasses(i)
  PROVE  \A j \in Ids : meta[j] # None => meta'[j] # None /\ meta'[j].decl = meta[j].decl
<1>1. meta \in [Ids -> Sessions \cup {None}] /\ meta[i] \in Sessions
  BY DEF IInv, TypeOK, DeadlinePasses
<1>2. meta' = [meta EXCEPT ![i] = [meta[i] EXCEPT !.due = "past"]]
  BY DEF DeadlinePasses
<1>3. meta'[i] = [decl |-> meta[i].decl, due |-> "past"]
  BY <1>1, <1>2 DEF Sessions
<1>4. [decl |-> meta[i].decl, due |-> "past"] # None
  BY SessionAssumption, <1>1 DEF Sessions
<1>. QED
  BY <1>1, <1>2, <1>3, <1>4

(* A request leaves nothing half done.                                     *)
LEMMA RequestCopy == ASSUME IInv, Request PROVE CopyInv'
<1>1. CASE Answers \/ Discards \/ Appends
  BY <1>1 DEF Answers, Discards, Appends, CopyInv, Saving
<1>2. CASE Verifies
  BY <1>2 DEF Verifies, CopyInv, Saving, card, Verified, Acceptable
<1>3. ASSUME NEW i \in Ids, Deletes(i) PROVE CopyInv'
  BY <1>3 DEF Deletes, CopyInv, Saving
<1>. QED
  BY <1>1, <1>2, <1>3, RequestEffect

(* The steps of save() leave the sessions alone.                           *)
LEMMA SavingCopy ==
  ASSUME IInv, CopyInv, SaveTemp \/ SaveUnlink \/ SaveRename PROVE CopyInv'
<1>1. UNCHANGED <<part, meta>> /\ pc \in Saving
  BY DEF SaveTemp, SaveUnlink, SaveRename, Saving
<1>2. ASSUME NEW ok \in BOOLEAN, SaveReturns(ok) PROVE CopyInv'
  <2>1. CASE pc' = "drop_meta"
    <3>1. call' = call /\ call.req = "finish"
      BY <1>2, <2>1, SaveReturnsTyped DEF IInv
    <3>. QED
      BY <1>1, <2>1, <3>1 DEF CopyInv, Saving
  <2>2. CASE pc' # "drop_meta"
    <3>1. pc' \in {"idle", "sweep"}
      BY <1>2, <2>2, SaveReturnsTyped DEF IInv
    <3>. QED
      BY <3>1 DEF CopyInv, Saving
  <2>. QED
    BY <2>1, <2>2
<1>3. ASSUME NEW label \in Saving, Goto(label) PROVE CopyInv'
  BY <1>1, <1>3 DEF Goto, CopyInv, Saving
<1>4. CASE CutPower
  BY <1>4 DEF CutPower, CopyInv, Saving
<1>5. CutPower \/ Goto("save_unlink") \/ Goto("save_rename") \/ \E ok \in BOOLEAN : SaveReturns(ok)
  BY DEF SaveTemp, SaveUnlink, SaveRename
<1>. QED
  BY <1>2, <1>3, <1>4, <1>5 DEF Saving

(* Every step keeps it.                                                    *)
LEMMA NextCopy == ~ IoFaults /\ IInv /\ SoundInv /\ CopyInv /\ [Next]_vars => CopyInv'
<1>. SUFFICES ASSUME ~ IoFaults, IInv, SoundInv, CopyInv, [Next]_vars PROVE CopyInv'
  OBVIOUS
<1>1. CASE DiscardPart
  <2>1. call.id \in Ids /\ part \in [Ids -> Files \cup {None}]
    BY <1>1 DEF DiscardPart, IInv, TypeOK, Ready, DiscardReady
  <2>. QED
    BY <1>1, <2>1 DEF DiscardPart, Goto, Outcomes, CopyInv, Saving
<1>2. CASE DiscardMeta
  BY <1>2 DEF DiscardMeta, Goto, Return, CopyInv, Saving
<1>3. CASE BeginWrite \/ DropMeta
  BY <1>3 DEF BeginWrite, DropMeta, Return, CopyInv, Saving
<1>4. CASE Unlink
  BY <1>4 DEF Unlink, Goto, CopyInv, Saving, Verified, Acceptable
<1>5. CASE Install
  <2>1. call.id \in Ids /\ part \in [Ids -> Files \cup {None}]
    BY <1>5 DEF Install, IInv, TypeOK, Ready, InstallReady
  <2>2. part' = [part EXCEPT ![call.id] = None]
    BY <1>5 DEF Install, SoundInv, PathFree
  <2>3. pc' = "idle" \/ (pc' = "save_temp" /\ call' = call)
    BY <1>5 DEF Install, Goto, Return
  <2>. QED
    BY <2>1, <2>2, <2>3 DEF CopyInv, Saving
<1>6. CASE SweepOrphans
  BY <1>6 DEF SweepOrphans, Return, CutPower, CopyInv, Saving
<1>7. CASE Boot
  <2>1. PICK label \in {"sweep", "save_temp"} : Run("boot", None, None, FALSE, label)
    BY <1>7 DEF Boot
  <2>. QED
    BY <2>1 DEF Run, CopyInv, Saving
<1>8. CASE PowerLoss
  BY <1>8 DEF PowerLoss, CutPower, CopyInv, Saving
<1>9. ASSUME NEW i \in Ids, DeadlinePasses(i) PROVE CopyInv'
  <2>1. UNCHANGED <<part, pc, call>> /\ meta' = [meta EXCEPT ![i].due = "past"]
    BY <1>9 DEF DeadlinePasses
  <2>2. \A j \in Ids : meta[j] # None => meta'[j] # None /\ meta'[j].decl = meta[j].decl
    BY <1>9, KeepsDeclarations
  <2>3. pc \in {"unlink", "install"} => call.id \in Ids
    BY DEF IInv, Ready, InstallReady
  <2>. QED
    BY <2>1, <2>2, <2>3 DEF CopyInv, Saving, Verified, Acceptable
<1>10. CASE UNCHANGED vars
  BY <1>10 DEF vars, CopyInv, Verified, Acceptable
<1>. QED
  BY <1>1, <1>2, <1>3, <1>4, <1>5, <1>6, <1>7, <1>8, <1>9, <1>10, RequestCopy, SavingCopy
     DEF Next, Step

(* A step that leaves the library alone, and every session that finish()   *)
(* would install from, keeps every content.                                *)
LEMMA HeldFrame ==
  ASSUME NEW i \in Ids, Held(i), lib' = lib,
         \A j \in Ids, p \in WellFormed :
           meta[j] # None /\ Verified(part[j], meta[j], p) =>
             /\ part'[j] = part[j]
             /\ meta'[j] # None
             /\ meta'[j].decl = meta[j].decl
  PROVE  Held(i)'
<1>1. CASE \E path \in Paths, p \in WellFormed : p.id = i /\ lib[path] = Content(p)
  BY <1>1 DEF Held
<1>2. ASSUME NEW j \in Ids, NEW p \in WellFormed, p.id = i, meta[j] # None,
             Verified(part[j], meta[j], p), Acceptable(p, meta[j])
      PROVE  Held(i)'
  BY <1>2 DEF Held, Verified, Acceptable
<1>. QED
  BY <1>1, <1>2 DEF Held

(* While the card keeps its library, its sessions and its .part files,     *)
(* every content stays.                                                    *)
LEMMA HeldUnchanged ==
  ASSUME NEW i \in Ids, Held(i), UNCHANGED <<lib, part, meta>>
  PROVE  Held(i)'
BY HeldFrame

(* A .part that is absent is no copy.                                      *)
LEMMA AbsentIsNoCopy ==
  ASSUME NEW m, NEW p \in WellFormed
  PROVE  ~ Verified(None, m, p)
BY WellFormedTyped, ContentIsNotNone DEF Verified

(* Unlinking the old version leaves the verified new one.                  *)
LEMMA UnlinkHolds ==
  ASSUME ~ IoFaults, IInv, CopyInv, Unlink, NEW i \in Ids, Held(i)
  PROVE  Held(i)'
<1>1. /\ call.id \in Ids /\ call.pkg \in WellFormed /\ lib \in [Paths -> Files \cup {None}]
      /\ pc = "unlink"
  BY DEF Unlink, IInv, TypeOK, Ready, InstallReady
<1>2. Path(call.pkg) \in Paths
  BY <1>1, WellFormedTyped
<1>3. lib' = [lib EXCEPT ![Path(call.pkg)] = None] /\ UNCHANGED <<part, meta>>
  BY DEF Unlink, Outcomes
<1>4. ASSUME NEW path \in Paths, NEW p \in WellFormed, p.id = i, lib[path] = Content(p)
      PROVE  Held(i)'
  <2>1. CASE path = Path(call.pkg)
    <3>1. call.pkg.id = i
      BY <1>4, <2>1, AtItsPath DEF IInv, Path
    <3>. QED
      BY <1>1, <1>3, <3>1 DEF CopyInv, Held, Verified, Acceptable
  <2>2. CASE path # Path(call.pkg)
    BY <1>1, <1>2, <1>3, <1>4, <2>2 DEF Held
  <2>. QED
    BY <2>1, <2>2
<1>5. ASSUME NEW j \in Ids, NEW p \in WellFormed, p.id = i, meta[j] # None,
             Verified(part[j], meta[j], p), Acceptable(p, meta[j])
      PROVE  Held(i)'
  BY <1>3, <1>5 DEF Held, Verified, Acceptable
<1>. QED
  BY <1>4, <1>5 DEF Held

(* The rename takes the copy from the session to the library.              *)
LEMMA InstallHolds ==
  ASSUME ~ IoFaults, IInv, SoundInv, Install, NEW i \in Ids, Held(i)
  PROVE  Held(i)'
<1>1. /\ call.id \in Ids /\ call.pkg \in WellFormed /\ part[call.id] = Content(call.pkg)
      /\ lib \in [Paths -> Files \cup {None}] /\ part \in [Ids -> Files \cup {None}]
  BY DEF Install, IInv, TypeOK, Ready, InstallReady
<1>2. Path(call.pkg) \in Paths
  BY <1>1, WellFormedTyped
<1>3. /\ lib' = [lib EXCEPT ![Path(call.pkg)] = Content(call.pkg)]
      /\ part' = [part EXCEPT ![call.id] = None]
      /\ lib[Path(call.pkg)] = None /\ meta' = meta
  BY <1>1 DEF Install, SoundInv, PathFree
<1>4. ASSUME NEW path \in Paths, NEW p \in WellFormed, p.id = i, lib[path] = Content(p)
      PROVE  Held(i)'
  <2>1. path # Path(call.pkg)
    BY <1>3, <1>4, WellFormedTyped, ContentIsNotNone
  <2>. QED
    BY <1>1, <1>2, <1>3, <1>4, <2>1 DEF Held
<1>5. ASSUME NEW j \in Ids, NEW p \in WellFormed, p.id = i, meta[j] # None,
             Verified(part[j], meta[j], p), Acceptable(p, meta[j])
      PROVE  Held(i)'
  <2>1. CASE j = call.id
    <3>1. p = call.pkg
      BY <1>1, <1>5, <2>1, WellFormedTyped, ContentDetermines DEF Verified
    <3>. QED
      BY <1>1, <1>2, <1>3, <1>5, <3>1 DEF Held
  <2>2. CASE j # call.id
    BY <1>1, <1>3, <1>5, <2>2 DEF Held, Verified, Acceptable
  <2>. QED
    BY <2>1, <2>2
<1>. QED
  BY <1>4, <1>5 DEF Held

(* A chunk grows only a .part that is no copy yet.                         *)
LEMMA AppendHolds ==
  ASSUME ~ IoFaults, IInv, Appends, NEW i \in Ids, Held(i)
  PROVE  Held(i)'
<1>1. PICK k \in Ids, file \in Files :
        /\ part' = [part EXCEPT ![k] = file]
        /\ part[k] = None \/ Len(part[k]) < meta[k].decl.size
  BY DEF Appends
<1>2. part \in [Ids -> Files \cup {None}] /\ UNCHANGED <<lib, meta>>
  BY DEF Appends, IInv, TypeOK
<1>3. ASSUME NEW p \in WellFormed
      PROVE  ~ Verified(part[k], meta[k], p)
  <2>1. p.size \in Nat \ {0} /\ Len(Content(p)) = p.size
    BY WellFormedTyped DEF Header, Content
  <2>. QED
    BY <1>1, <2>1, AbsentIsNoCopy DEF Verified
<1>4. \A j \in Ids : j = k \/ part'[j] = part[j]
  BY <1>1, <1>2
<1>. QED
  BY <1>2, <1>3, <1>4, HeldFrame

(* Sessions are dropped after their .part.                                 *)
LEMMA SessionStepsHold ==
  ASSUME ~ IoFaults, IInv, CopyInv, DiscardMeta \/ BeginWrite \/ DropMeta,
         NEW i \in Ids, Held(i)
  PROVE  Held(i)'
<1>1. call.id \in Ids /\ meta \in [Ids -> Sessions \cup {None}]
  BY DEF DiscardMeta, BeginWrite, DropMeta, IInv, TypeOK, Ready, DiscardReady, BeginReady, DropReady
<1>2. part[call.id] = None /\ UNCHANGED <<part, lib>>
  BY DEF DiscardMeta, BeginWrite, DropMeta, CopyInv
<1>3. \/ meta' = meta
      \/ \E m : meta' = [meta EXCEPT ![call.id] = m]
  BY DEF DiscardMeta, BeginWrite, DropMeta
<1>4. \A j \in Ids : j = call.id \/ meta'[j] = meta[j]
  BY <1>1, <1>3
<1>. QED
  BY <1>2, <1>4, HeldFrame, AbsentIsNoCopy

(* The sweep discards what nobody can finish.                              *)
LEMMA SweepHolds ==
  ASSUME ~ IoFaults, SweepOrphans, NEW i \in Ids, Held(i)
  PROVE  Held(i)'
<1>1. \A j \in Ids : meta[j] # None => part'[j] = part[j] /\ meta'[j] = meta[j]
  BY DEF SweepOrphans, Orphans, ReadMeta
<1>2. lib' = lib
  BY DEF SweepOrphans
<1>. QED
  BY <1>1, <1>2, HeldFrame

(* No step of an install, of saving the index, of boot or of its sweep     *)
(* takes away the last whole copy of a content, wherever the power goes.   *)
THEOREM LastCopyAlwaysKept == ASSUME ~ IoFaults PROVE Spec => LastCopyKept
<1>1. Init => SoundInv /\ CopyInv
  BY InitSound DEF Init, CopyInv, Saving
<1>2. IInv /\ SoundInv /\ CopyInv /\ [Next]_vars => SoundInv' /\ CopyInv'
  BY NextSound, NextCopy
<1>3. ASSUME IInv, SoundInv, CopyInv, [Next]_vars, NEW i \in Ids, Held(i), ~ Held(i)'
      PROVE  \/ pc = "discard_part"
             \/ pc = "idle" /\ call'.req = "delete"
  <2>1. ~ UNCHANGED <<lib, part, meta>>
    BY <1>3, HeldUnchanged
  <2>2. CASE Request
    <3>1. ~ Answers /\ ~ Discards /\ ~ Verifies
      BY <2>1 DEF Answers, Discards, Verifies, card
    <3>2. ~ Appends
      BY <1>3, AppendHolds
    <3>. QED
      BY <1>3, <2>2, <3>1, <3>2, RequestEffect DEF Deletes
  <2>3. ~ DiscardMeta /\ ~ BeginWrite /\ ~ DropMeta
    BY <1>3, SessionStepsHold
  <2>4. ~ Unlink /\ ~ Install /\ ~ SweepOrphans
    BY <1>3, UnlinkHolds, InstallHolds, SweepHolds
  <2>5. ~ SaveTemp /\ ~ SaveUnlink /\ ~ SaveRename /\ ~ Boot /\ ~ PowerLoss
    BY <2>1 DEF SaveTemp, SaveUnlink, SaveRename, Boot, PowerLoss, card
  <2>6. \A j \in Ids : ~ DeadlinePasses(j)
    <3>. SUFFICES ASSUME NEW j \in Ids, DeadlinePasses(j) PROVE FALSE
      OBVIOUS
    <3>1. \A k \in Ids : meta[k] # None => meta'[k] # None /\ meta'[k].decl = meta[k].decl
      BY <1>3, KeepsDeclarations
    <3>2. UNCHANGED <<lib, part>>
      BY DEF DeadlinePasses
    <3>. QED
      BY <1>3, <3>1, <3>2, HeldFrame
  <2>7. ~ UNCHANGED vars
    BY <2>1 DEF vars
  <2>. QED
    BY <1>3, <2>2, <2>3, <2>4, <2>5, <2>6, <2>7 DEF Next, Step, DiscardPart
<1>4. IInv /\ SoundInv /\ CopyInv /\ [Next]_vars =>
        [\A i \in Ids : Held(i) /\ ~ Held(i)' =>
           \/ pc = "discard_part"
           \/ pc = "idle" /\ call'.req = "delete"]_vars
  BY <1>3
<1>. QED
  BY <1>1, <1>2, <1>4, Invariance, PTL DEF Spec, LastCopyKept
=============================================================================
