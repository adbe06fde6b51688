---------------------------- MODULE LibraryIndex ----------------------------
(***************************************************************************)
(* QPK packages as the device sees them, and the operations of             *)
(* net::LibraryIndex on them (src/firmware/storage/library_index.cpp).     *)
(*                                                                         *)
(* Abstractions:                                                           *)
(*   - A file is a sequence of cells.  The first cell of a package is its  *)
(*     header (every header field is in it), the others are its payload,   *)
(*     of which the CRC-32 in the header is a faithful fingerprint: two    *)
(*     payloads with one CRC are one payload.                              *)
(*   - A LibraryEntry is the package header it was read from.  Title,      *)
(*     author and language follow from the payload, and installed_at is    *)
(*     shown to the user only.                                             *)
(*   - The index is a function of the content id: upsert() and remove()    *)
(*     search by id, and the order of the entries is only ever displayed.  *)
(***************************************************************************)
EXTENDS Integers, Sequences, FiniteSets

CONSTANTS
  Ids,         (* content ids: 16 bytes on the device                      *)
  Packages,    (* the packages in circulation, each one given by its header *)
  Malformed,   (* those whose checksums are right but qpk::Reader rejects   *)
  MaxEntries,  (* kMaxLibraryEntries                                       *)
  None         (* no file, no entry, or one that cannot be read            *)

(* The directories under /LIBRARY, in the order rebuild() scans them.      *)
DirRank == [QURAN |-> 1, BOOK |-> 2, TRANSLATION |-> 3, TAFSIR |-> 4]
Types   == DOMAIN DirRank

Header == [id: Ids, type: Types, version: Nat, size: Nat \ {0}, crc: Nat]

ASSUME PackagesAssumption ==
  /\ Packages \subseteq Header
  /\ Malformed \subseteq Packages
  /\ MaxEntries \in Nat \ {0}
  /\ None \notin Header
  /\ None \notin Seq([at : Nat, crc : Nat, head : Header \cup {None}])
  /\ None \notin [Ids -> Header \cup {None}]
  /\ None \notin Ids
  /\ IsFiniteSet(Ids)  (* 16 bytes *)

-----------------------------------------------------------------------------
(* Files                                                                   *)

Cells == [at : Nat, crc : Nat, head : Header \cup {None}]
Files == Seq(Cells)

Cell(p, k) == [at |-> k, crc |-> p.crc, head |-> IF k = 1 THEN p ELSE None]
Content(p) == [k \in 1..p.size |-> Cell(p, k)]

WellFormed == Packages \ Malformed

(* BuildPackagePath: the file name follows from the entry.                 *)
Paths   == Types \X Ids
Path(p) == <<p.type, p.id>>

(* describePackage: the file opens and passes qpk::Reader validation.      *)
Parses(file) == \E p \in WellFormed : file = Content(p)

-----------------------------------------------------------------------------
(* The in-memory index                                                     *)

Indexes    == [Ids -> Header \cup {None}]
EmptyIndex == [i \in Ids |-> None]
Listed(ix) == {i \in Ids : ix[i] # None}

HasRoom(ix, p) == ix[p.id] # None \/ Cardinality(Listed(ix)) < MaxEntries
Upsert(ix, p)  == [ix EXCEPT ![p.id] = p]
Remove(ix, i)  == [ix EXCEPT ![i] = None]

(* Mutation: boot forgets to prune.                                        *)
PrunableNever(ix, lib) == {}

(* prune keeps an entry when the file it names exists and parses.  What    *)
(* the file describes itself as is parsed and then ignored.                *)
Prunable(ix, lib) == {i \in Listed(ix) : ~ Parses(lib[Path(ix[i])])}
Drop(ix, S) == [i \in Ids |-> IF i \in S THEN None ELSE ix[i]]

(* rebuild scans the directories in turn and upserts what it can describe, *)
(* so of two packages with one id the later directory's stays (a package   *)
(* is in the directory of its type).                                       *)
OnCard(lib, i) ==
  {p \in WellFormed : p.id = i /\ \E path \in Paths : lib[path] = Content(p)}
LastScanned(lib, i) ==
  CHOOSE p \in OnCard(lib, i) :
    \A q \in OnCard(lib, i) : DirRank[q.type] <= DirRank[p.type]
(* Mutation: rebuild() misses the directory of the Quran.                  *)
ScannableButQuran(lib) ==
  {i \in Ids : \E p \in OnCard(lib, i) : p.type # "QURAN"}

Scannable(lib) == {i \in Ids : OnCard(lib, i) # {}}
(* When the index is full, which ids are in it depends on the order in     *)
(* which the directories list their files: S is what fits.                 *)
Rebuild(lib, S) ==
  [i \in Ids |-> IF i \in S THEN LastScanned(lib, i) ELSE None]
RebuildChoices(lib) ==
  {S \in SUBSET Scannable(lib) :
     Cardinality(S) = MaxEntries \/ (S = Scannable(lib) /\ Cardinality(S) <= MaxEntries)}
=============================================================================
