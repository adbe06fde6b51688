----------------------------- MODULE PackageReader -----------------------------
(***************************************************************************)
(* A package file as the reader sees it: qpk::Reader (qpk/qpk_reader.cpp)  *)
(* and the list of packages whose checksums passed once, net::             *)
(* VerifiedPackages (storage/verified_packages.cpp), as OpenPackage        *)
(* (main.cpp) uses them.                                                   *)
(*                                                                         *)
(* A package is a header, a table of sections and the records of each.     *)
(* Sizes are scaled down: the header is 4 units, a table entry 2, a record *)
(* 1 or 2, and sections start on even units.  An offset has 64 bits and an *)
(* index 32, scaled to W64 and W32.  Every record has the same fields:     *)
(* key (its own id or number), surah, first (the first ayah or word), n    *)
(* (how many, or a metadata value's length), off and len (a stretch of a   *)
(* blob; for the ayah markers' metadata, the two numbers of its value).    *)
(* What a record says of a page's juz, a line's height or a word's box is  *)
(* left out: the reader hands it on unread.  A call that the card fails    *)
(* returns an error and changes nothing, and is left out too.              *)
(***************************************************************************)
EXTENDS Naturals, Sequences, FiniteSets

CONSTANTS
  Files,       (* the packages a card may hold at first                    *)
  Installs,    (* those that come to it later                              *)
  W64, W32,    (* 2^64 and 2^32, scaled down                               *)
  W16,         (* 2^16: glyph ids                                          *)
  GlyphCapacity, (* the glyph records main.cpp has memory for              *)
  TextCapacity,  (* the buffer a text is read into                         *)
  MaxVerified,   (* kMaxVerifiedPackages                                   *)
  Numbers, Words (* the numbers and the word indices the reader asks for   *)

kMaxRecordSize == 2

(* The number of records of an index section times their size stays below  *)
(* 2^64, as 2^32 times the 24 bytes of the code does.                      *)
ASSUME PackageAssumption ==
  /\ {W64, W32, W16} \subseteq Nat \ {0}
  /\ kMaxRecordSize * W32 <= W64
  /\ GlyphCapacity \in Nat /\ TextCapacity \in Nat /\ MaxVerified \in Nat \ {0}
  /\ Numbers \subseteq Nat /\ Words \subseteq Nat

VARIABLES
  card,      (* the package file                                           *)
  rotted,    (* whether a record of it went bad since it was put there     *)
  opened,    (* Reader::isOpen                                             *)
  glyphs,    (* the glyph index: record numbers by glyph id, or <<>>       *)
  verified,  (* VerifiedPackages: fingerprints, the latest first           *)
  saved,     (* /DEVICE/verified.bin                                       *)
  answer     (* what the last call asked, returned and read                *)

packageVars == <<card, rotted, opened, glyphs, verified, saved, answer>>

kHeaderSize       == 4
kSectionEntrySize == 2
kMaxSections      == 8

kMetadata         == 1
kSurahIndex       == 2
kPageIndex        == 6
kAyahIndex        == 7
kWordIndex        == 8
kTextData         == 10
kLayoutData       == 11
kTranslationIndex == 12
kTranslationData  == 13
kFontMetadata     == 14
kAssets           == 15
kChapterIndex     == 16
kTextIndex        == 18
kCover            == 19
kPageImageIndex   == 20
kPageImageData    == 21

RecordSizeFor(id) ==
  CASE id \in {kSurahIndex, kAyahIndex} -> 2
    [] id \in {kPageIndex, kWordIndex, kTranslationIndex, kFontMetadata,
               kChapterIndex, kTextIndex, kPageImageIndex} -> 1
    [] OTHER -> 0
IsFixedIndexSection(id) == RecordSizeFor(id) # 0

Required(type) ==
  {kMetadata} \cup CASE type = "quran" -> {kSurahIndex, kPageIndex, kAyahIndex, kTextData}
                     [] type = "book" -> {kChapterIndex, kPageIndex, kTextIndex, kTextData}
                     [] type = "translation" -> {kTranslationIndex, kTranslationData}
                     [] OTHER -> {}

(* What a record that went bad may hold.                                   *)
Junk == [key |-> 0, surah |-> 0, first |-> W32 - 1, n |-> W32 - 1, off |-> W32 - 1, len |-> W32 - 1]

Sections(f) == {f.sections[i] : i \in DOMAIN f.sections}
Has(f, id)   == \E e \in Sections(f) : e.id = id
Entry(f, id) == CHOOSE e \in Sections(f) : e.id = id
Count(f, id) == IF Has(f, id) THEN Entry(f, id).count ELSE 0
Rec(f, id, i) == IF id \in DOMAIN f.records /\ i < Len(f.records[id])
                 THEN f.records[id][i + 1] ELSE Junk

(* What the file on the card can be: any numbers of the width of the field *)
(* they are read from.                                                     *)
Upto(w) == 0..(w - 1)
Record  == [key : Nat, surah : Nat, first : Upto(W32), n : Upto(W32), off : Upto(W32), len : Upto(W32)]
SectionEntry == [id : Nat, off : Upto(W64), len : Upto(W64), count : Upto(W32), rs : Upto(W16),
                 crcOk : BOOLEAN]
IsPackage(f) ==
  /\ f \in [type : STRING, contentId : STRING, build : STRING, flags : SUBSET STRING,
            magic : BOOLEAN, version : BOOLEAN, headerCrc : BOOLEAN,
            size : Upto(W64), packageSize : Upto(W64), headerSize : Upto(W16),
            sectionCount : Upto(W16), tableAt : Upto(W32), tableLength : Upto(W32),
            linesAt : Upto(W32), lineTotal : Upto(W16),
            sections : Seq(SectionEntry), records : {f.records}]
  /\ \A id \in DOMAIN f.records : f.records[id] \in Seq(Record)

(* Mutant: the sum form of the bounds check, which overflows.              *)
SumWithinBounds(offset, length, limit) == (offset + length) % W64 <= limit

WithinBounds(offset, length, limit) == offset <= limit /\ length <= limit - offset

-----------------------------------------------------------------------------
(* Opening: the first rule a package breaks, "kOk" if it breaks none       *)

Then(first, second) == IF first # "kOk" THEN first ELSE second
Rule(holds, error)  == IF holds THEN "kOk" ELSE error

ReadHeader(f) ==
  IF f.size < kHeaderSize THEN "kTooSmall"
  ELSE IF ~f.magic THEN "kBadMagic"
  ELSE IF ~f.version THEN "kUnsupportedVersion"
  ELSE IF f.headerSize < kHeaderSize \/ f.headerSize > f.size THEN "kBadHeaderSize"
  ELSE IF ~f.headerCrc THEN "kHeaderChecksum"
  ELSE Rule(f.packageSize = f.size, "kSizeMismatch")

ReadSectionTable(f) ==
  Rule(/\ f.sectionCount \in 1..kMaxSections
       /\ f.sectionCount * kSectionEntrySize = f.tableLength
       /\ f.tableAt >= f.headerSize
       /\ WithinBounds(f.tableAt, f.tableLength, f.packageSize), "kBadSectionTable")

ValidateEntry(f, e) ==
  IF e.off % 2 # 0 THEN "kSectionMisaligned"
  ELSE IF e.off < f.tableAt + f.tableLength \/ ~WithinBounds(e.off, e.len, f.packageSize)
  THEN "kSectionOutOfRange"
  ELSE Rule(/\ IsFixedIndexSection(e.id) => e.rs = RecordSizeFor(e.id)
            /\ e.rs # 0 => (e.count * e.rs) % W64 = e.len, "kSectionSizeMismatch")

Overlap(a, b) == /\ a.len # 0 /\ b.len # 0
                 /\ a.off < (b.off + b.len) % W64 /\ b.off < (a.off + a.len) % W64

(* Rules 8 to 11.  Of several broken ones the code names the first.        *)
ValidateSectionTable(f) ==
  LET n   == Len(f.sections)
      bad == {i \in 1..n : \/ i > 1 /\ f.sections[i].id <= f.sections[i - 1].id
                           \/ ValidateEntry(f, f.sections[i]) # "kOk"}
  IN IF bad # {}
     THEN LET i == CHOOSE i \in bad : \A j \in bad : i <= j
          IN IF i > 1 /\ f.sections[i].id <= f.sections[i - 1].id
             THEN "kSectionOrder" ELSE ValidateEntry(f, f.sections[i])
     ELSE Rule(\A i, j \in 1..n : i < j => ~Overlap(f.sections[i], f.sections[j]),
               "kSectionOverlap")

RequireSectionsForType(f) ==
  Rule(\A id \in Required(f.type) : Has(f, id), "kMissingSection")
RequireFontSectionsIfShaped(f) ==
  Rule("shaped" \in f.flags => Has(f, kFontMetadata) /\ Has(f, kAssets), "kFontSectionsRequired")
RequireLayoutIfHasWordLayout(f) ==
  Rule("layout" \in f.flags => Has(f, kLayoutData), "kLayoutSectionRequired")

VerifyFixedIndexChecksums(f) ==
  Rule(\A e \in Sections(f) : IsFixedIndexSection(e.id) => e.crcOk, "kSectionChecksum")

(* Where the records of METADATA start, as its walk finds them: a head of  *)
(* one unit and a value, rounded up to an even unit.                       *)
MetadataAt(f) ==
  LET At[k \in 0..Entry(f, kMetadata).len] ==
        IF k = 0 THEN 0
        ELSE LET past == At[k - 1] + 1 + Rec(f, kMetadata, k - 1).n
             IN past + (past % 2)
  IN At

(* The number of records the walk finds, and whether it finds them sound.  *)
MetadataRecords(f) ==
  LET len == Entry(f, kMetadata).len
      Walk[k \in 0..len] ==
        LET at == MetadataAt(f)[k]
        IN IF at + 1 > len THEN [n |-> k, sound |-> TRUE]
           ELSE IF ~WithinBounds(at + 1, Rec(f, kMetadata, k).n, len)
           THEN [n |-> k, sound |-> FALSE]
           ELSE Walk[k + 1]
  IN Walk[0]

CheckIndexConsistency(f) ==
  LET Surah(i) == Rec(f, kSurahIndex, i)
      Ayah(i)  == Rec(f, kAyahIndex, i)
      InText(r) == Has(f, kTextData) => WithinBounds(r.off, r.len, Entry(f, kTextData).len)
      ayahs == Count(f, kAyahIndex)
      pages == Count(f, kPageIndex)
  IN Rule(/\ Has(f, kSurahIndex) /\ Has(f, kAyahIndex) =>
               \A i \in 0..(Count(f, kSurahIndex) - 1) :
                  WithinBounds(Surah(i).first, Surah(i).n, ayahs) /\ InText(Surah(i))
          /\ ayahs > 0 =>
               \A i \in {0, ayahs - 1} :
                  /\ InText(Ayah(i))
                  /\ Has(f, kWordIndex) =>
                       WithinBounds(Ayah(i).first, Ayah(i).n, Count(f, kWordIndex))
          /\ Has(f, kMetadata) => MetadataRecords(f).sound
          /\ pages > 0 => /\ Rec(f, kPageIndex, 0).key = 1
                          /\ Rec(f, kPageIndex, pages - 1).key = pages,
          "kIndexInconsistent")

(* Reader::open, with or without the checksum sweep.                       *)
OpenError(f, sweep) ==
  Then(ReadHeader(f), Then(ReadSectionTable(f), Then(ValidateSectionTable(f),
  Then(RequireSectionsForType(f), Then(RequireFontSectionsIfShaped(f),
  Then(RequireLayoutIfHasWordLayout(f),
  Then(IF sweep THEN VerifyFixedIndexChecksums(f) ELSE "kOk", CheckIndexConsistency(f))))))))

-----------------------------------------------------------------------------
(* The accessors: an error, a value, and the stretches of the file read    *)

Fail(error) == [err |-> error, val |-> 0, reads |-> {}]
Got(value, reads) == [err |-> "kOk", val |-> value, reads |-> reads]
Stretch(e, at, n) == [id |-> e.id, at |-> (e.off + at) % W64, n |-> n]
(* The next call is made only if this one returned.                        *)
Chain(r, next) == IF r.err # "kOk" THEN r ELSE [next EXCEPT !.reads = @ \cup r.reads]

ReadRecordBytes(f, id, i) ==
  IF ~Has(f, id) \/ Entry(f, id).rs = 0 THEN Fail("kNoSuchSection")
  ELSE LET e == Entry(f, id)
       IN IF e.rs > kMaxRecordSize THEN Fail("kSectionSizeMismatch")
          ELSE IF i >= e.count THEN Fail("kOutOfRange")
          ELSE Got(i, {Stretch(e, i * e.rs, e.rs)})

(* getPage, getJuz, getHizb, getRub: record n is at n-1 and says so itself. *)
GetNumbered(f, id, n) ==
  IF ~Has(f, id) THEN Fail("kNoSuchSection")
  ELSE IF n = 0 \/ n > Count(f, id) THEN Fail("kOutOfRange")
  ELSE Chain(ReadRecordBytes(f, id, n - 1),
             IF Rec(f, id, n - 1).key = n THEN Got(n - 1, {}) ELSE Fail("kIndexInconsistent"))

GetSurah(f, s) == GetNumbered(f, kSurahIndex, s)

GetAyah(f, s, a) ==
  LET surah == Rec(f, kSurahIndex, s - 1)
      index == (surah.first + a - 1) % W32
      ayah  == Rec(f, kAyahIndex, index)
  IN Chain(GetSurah(f, s),
           IF a = 0 \/ a > surah.n THEN Fail("kOutOfRange")
           ELSE Chain(ReadRecordBytes(f, kAyahIndex, index),
                      IF ayah.surah = s /\ ayah.key = a THEN Got(index, {})
                      ELSE Fail("kIndexInconsistent")))

GetWord(f, s, a, w) ==
  LET r == GetAyah(f, s, a)
      ayah == Rec(f, kAyahIndex, r.val)
  IN Chain(r, IF w >= ayah.n THEN Fail("kOutOfRange")
              ELSE ReadRecordBytes(f, kWordIndex, (ayah.first + w) % W32))

(* readBlob: readText, readTranslationText, readAsset.                     *)
ReadBlob(f, id, offset, length, capacity) ==
  IF ~Has(f, id) \/ ~WithinBounds(offset, length, Entry(f, id).len) THEN Fail("-1")
  ELSE LET n == IF length < capacity THEN length ELSE capacity
       IN Got(n, IF n = 0 THEN {} ELSE {Stretch(Entry(f, id), offset, n)})

(* A record, and then the text or the bitmap it points at.                 *)
TextOf(f, index, i, blob) ==
  Chain(ReadRecordBytes(f, index, i),
        ReadBlob(f, blob, Rec(f, index, i).off, Rec(f, index, i).len, TextCapacity))

ReadPageImage(f, i, capacity) ==
  LET image == Rec(f, kPageImageIndex, i)
  IN IF ~Has(f, kPageImageIndex) \/ ~Has(f, kPageImageData) THEN Fail("kNoSuchSection")
     ELSE Chain(ReadRecordBytes(f, kPageImageIndex, i),
                IF ~WithinBounds(image.off, image.len, Entry(f, kPageImageData).len)
                THEN Fail("kSectionOutOfRange")
                ELSE IF image.len > capacity THEN Fail("kSectionSizeMismatch")
                ELSE ReadBlob(f, kPageImageData, image.off, image.len, capacity))

(* LAYOUT_DATA is a blob: a header of one unit that says where its lines   *)
(* start and how many there are, and the lines.                            *)
GetLayoutHeader(f) ==
  IF ~Has(f, kLayoutData) THEN Fail("kNoSuchSection")
  ELSE LET e == Entry(f, kLayoutData)
       IN IF e.len < 1 THEN Fail("kOutOfRange")
          ELSE IF WithinBounds(f.linesAt, f.lineTotal, e.len) THEN Got(f.lineTotal, {Stretch(e, 0, 1)})
          ELSE [Fail("kOutOfRange") EXCEPT !.reads = {Stretch(e, 0, 1)}]
GetLine(f, i) ==
  Chain(GetLayoutHeader(f),
        IF i >= f.lineTotal THEN Fail("kOutOfRange")
        ELSE Got(i, {Stretch(Entry(f, kLayoutData), f.linesAt + i, 1)}))

(* Mutant: the first record after the word asked for.                      *)
LastStep(low) == low

(* The search ends one past the last record at or before the word.         *)
LastBefore(low) == low - 1

(* The halving both searches do: one past the last index whose record      *)
(* starts at or before the word, and the indices probed on the way.        *)
UpperBound(n, starts, word) ==
  LET Search[between \in (0..n) \X (0..n)] ==
        LET low  == between[1]
            high == between[2]
            mid  == low + (high - low) \div 2
            rest == IF starts[mid] <= word THEN Search[<<mid + 1, high>>] ELSE Search[<<low, mid>>]
        IN IF low >= high THEN [at |-> low, probes |-> {}]
           ELSE [at |-> rest.at, probes |-> rest.probes \cup {mid}]
  IN Search[<<0, n>>]

FindByWordIndex(f, n, get, id, word) ==
  LET found == UpperBound(n, [i \in 0..(n - 1) |-> Rec(f, id, i).first], word)
      read  == {get[i] : i \in found.probes}
  IN IF n = 0 THEN Fail("kNoSuchSection")
     ELSE LET reads == UNION {r.reads : r \in read}
          IN IF \E r \in read : r.err # "kOk" THEN CHOOSE r \in read : r.err # "kOk"
             ELSE IF found.at = 0 THEN [Fail("kOutOfRange") EXCEPT !.reads = reads]
             ELSE Got(LastBefore(found.at), reads)

GetAyahByIndex(f, i) == ReadRecordBytes(f, kAyahIndex, i)
FindAyahByWordIndex(f, word) ==
  LET n == Count(f, kAyahIndex)
  IN FindByWordIndex(f, n, [i \in 0..(n - 1) |-> GetAyahByIndex(f, i)],
                     kAyahIndex, word)
FindLineByWordIndex(f, word) ==
  Chain(GetLayoutHeader(f),
        FindByWordIndex(f, f.lineTotal,
                        [i \in 0..(f.lineTotal - 1) |-> GetLine(f, i)],
                        kLayoutData, word))

(* buildGlyphIndex: the records by glyph id, those of one id in the order  *)
(* of the table; nothing if they do not fit.                               *)
BuildGlyphIndex(f) ==
  LET n == Count(f, kFontMetadata)
      Key(i) == Rec(f, kFontMetadata, i).key
      Placed[k \in 0..n] ==
        IF k = 0 THEN <<>>
        ELSE LET before == Placed[k - 1]
                 j == Cardinality({i \in DOMAIN before : Key(before[i]) <= Key(k - 1)})
             IN SubSeq(before, 1, j) \o <<k - 1>> \o SubSeq(before, j + 1, k - 1)
  IN IF n = 0 \/ n > GlyphCapacity THEN <<>> ELSE Placed[n]

(* getGlyph: the lower bound in the index, or a scan of the section.       *)
GetGlyph(f, glyph) ==
  LET Key(i) == Rec(f, kFontMetadata, i).key
      n   == Count(f, kFontMetadata)
      low == UpperBound(Len(glyphs), [i \in 0..(Len(glyphs) - 1) |-> Key(glyphs[i + 1]) + 1], glyph).at
      at  == {i \in 0..(n - 1) : Key(i) = glyph}
      stop == IF at = {} THEN n - 1 ELSE CHOOSE i \in at : \A j \in at : i <= j
  IN IF ~Has(f, kFontMetadata) THEN Fail("kNoSuchSection")
     ELSE IF glyphs # <<>>
     THEN IF low < Len(glyphs) /\ Key(glyphs[low + 1]) = glyph
          THEN Got(glyphs[low + 1], {}) ELSE Fail("kOutOfRange")
     ELSE IF n = 0 THEN Fail("kOutOfRange")
     ELSE LET reads == UNION {ReadRecordBytes(f, kFontMetadata, i).reads : i \in 0..stop}
          IN IF at = {} THEN [Fail("kOutOfRange") EXCEPT !.reads = reads] ELSE Got(stop, reads)

(* metadata(): the first record with the key, as the walk finds it.        *)
Metadata(f, key) ==
  LET walk  == MetadataRecords(f)
      ks    == {k \in 0..(walk.n - 1) : Rec(f, kMetadata, k).key = key}
      first == CHOOSE k \in ks : \A j \in ks : k <= j
      heads(last) == {Stretch(Entry(f, kMetadata), MetadataAt(f)[k], 1) : k \in 0..last}
  IN IF ~Has(f, kMetadata) THEN Fail("false")
     ELSE IF ks = {} THEN [Fail("false") EXCEPT !.reads = heads(walk.n - 1)]
     ELSE Got(first, heads(first) \cup
              {Stretch(Entry(f, kMetadata), MetadataAt(f)[first] + 1, Rec(f, kMetadata, first).n)})

kAyahMarkerGlyphs == 10

(* ayahMarkerGlyphs, and the glyph of an ayah's marker by it.              *)
MarkerGlyph(f, a) ==
  LET r == Metadata(f, kAyahMarkerGlyphs)
      v == Rec(f, kMetadata, r.val)
  IN Chain(r, IF v.len = 0 \/ v.off >= W16 \/ v.len >= W16 \/ v.off + v.len - 1 >= W16 \/ a \notin 1..v.len
              THEN Fail("false") ELSE Got((v.off + a - 1) % W16, {}))

(* ReadCoverFromFile: before the package is opened, the table unchecked.   *)
(* A read past the end of the file fails.                                  *)
ReadCover(f) ==
  LET n     == Len(f.sections)
      at    == {i \in 1..n : f.sections[i].id = kCover}
      first == CHOOSE i \in at : \A j \in at : i <= j
      e     == f.sections[first]
      seen  == IF at = {} THEN f.sectionCount ELSE first
  IN IF f.size < kHeaderSize THEN Fail("kIoError")
     ELSE IF ~f.magic THEN Fail("kBadMagic")
     ELSE IF f.sectionCount \notin 1..kMaxSections THEN Fail("kBadSectionTable")
     ELSE IF f.tableAt + seen * kSectionEntrySize > f.size THEN Fail("kIoError")
     ELSE IF at = {} THEN Fail("kNoSuchSection")
     ELSE IF e.len # 2 \/ ~WithinBounds(e.off, e.len, f.size) THEN Fail("kSectionSizeMismatch")
     ELSE Got(0, {Stretch(e, 0, 2)})

-----------------------------------------------------------------------------
(* net::VerifiedPackages                                                   *)

(* One build of a content: header_crc32, payload_crc32 and package_size    *)
(* tell builds of one content_id apart.                                    *)
Fingerprint(f) == [id |-> f.contentId, build |-> f.build]

(* Mutant: only the content id is compared.                                *)
SameContent(x, y) == x.id = y.id

Same(x, y) == x = y

OnList(list, fp) == \E i \in DOMAIN list : Same(list[i], fp)

(* What is before it moves one place down; a full list drops its last.     *)
Add(list, fp) ==
  LET at   == {i \in DOMAIN list : Same(list[i], fp)}
      last == IF at # {} THEN (CHOOSE i \in at : \A j \in at : i <= j) - 1
              ELSE IF Len(list) < MaxVerified THEN Len(list) ELSE MaxVerified - 1
  IN <<fp>> \o SubSeq(list, 1, last) \o SubSeq(list, last + 2, Len(list))

(* What the checksums of the packages that may come were found to be.  The *)
(* payload's checksum covers every section, so builds that look alike are. *)
Cards   == Files \cup Installs
Checked == {Fingerprint(f) : f \in {g \in Cards : VerifyFixedIndexChecksums(g) = "kOk"}}

ASSUME CardsAssumption ==
  \A f \in Cards : /\ IsPackage(f)
                   /\ Fingerprint(f) \in Checked => VerifyFixedIndexChecksums(f) = "kOk"

(* save(): a write to the temporary that fails leaves the file as it was;  *)
(* a rename that fails, or a power loss before it, leaves none.            *)
AfterSave(list) == {saved, <<>>, list}

-----------------------------------------------------------------------------
Nothing == [op |-> "none", arg |-> <<>>, res |-> Fail("kNotOpen")]

PackageInit ==
  /\ card \in Files /\ rotted = FALSE /\ opened = FALSE /\ glyphs = <<>>
  /\ verified = <<>> /\ saved = <<>> /\ answer = Nothing

(* OpenPackage: without the sweep first, which runs only for a build that  *)
(* is not on the list; the glyph index is built after it (OpenQuran).      *)
OpenPackage ==
  /\ ~opened
  /\ OpenError(card, FALSE) = "kOk"
  /\ \/ OnList(verified, Fingerprint(card)) /\ UNCHANGED <<verified, saved>>
     \/ /\ ~OnList(verified, Fingerprint(card))
        /\ VerifyFixedIndexChecksums(card) = "kOk"
        /\ verified' = Add(verified, Fingerprint(card))
        /\ saved' \in AfterSave(Add(verified, Fingerprint(card)))
  /\ opened' = TRUE
  /\ glyphs' \in {<<>>, BuildGlyphIndex(card)}
  /\ answer' = Nothing
  /\ UNCHANGED <<card, rotted>>

ClosePackage ==
  /\ opened /\ opened' = FALSE /\ glyphs' = <<>> /\ answer' = Nothing
  /\ UNCHANGED <<card, rotted, verified, saved>>

Answered(op, arg, result) ==
  /\ answer' = [op |-> op, arg |-> arg, res |-> result]
  /\ UNCHANGED <<card, rotted, opened, glyphs, verified, saved>>

Ask ==
  /\ opened /\ answer = Nothing
  /\ \/ \E n \in Numbers : Answered("page", <<n>>, GetNumbered(card, kPageIndex, n))
     \/ \E s \in Numbers : Answered("surah", <<s>>, GetSurah(card, s))
     \/ \E s, a \in Numbers : Answered("ayah", <<s, a>>, GetAyah(card, s, a))
     \/ \E s, a, w \in Numbers : Answered("word", <<s, a, w>>, GetWord(card, s, a, w))
     \/ \E w \in Words : Answered("ayahOfWord", <<w>>, FindAyahByWordIndex(card, w))
     \/ \E w \in Words : Answered("lineOfWord", <<w>>, FindLineByWordIndex(card, w))
     \/ \E i \in Numbers : \E b \in {<<kWordIndex, kAssets>>, <<kTextIndex, kTextData>>,
                                  <<kAyahIndex, kTextData>>, <<kFontMetadata, kAssets>>,
                                  <<kTranslationIndex, kTranslationData>>} :
           Answered("text", <<i, b>>, TextOf(card, b[1], i, b[2]))
     \/ \E i \in Numbers : Answered("image", <<i>>, ReadPageImage(card, i, TextCapacity))
     \/ \E g \in Numbers : Answered("glyph", <<g>>, GetGlyph(card, g))
     \/ \E a \in Numbers : Answered("marker", <<a>>, MarkerGlyph(card, a))

(* The shelf draws covers of packages nobody has opened (LoadShelfCovers). *)
AskCover == ~opened /\ answer = Nothing /\ Answered("cover", <<>>, ReadCover(card))

(* An upload or another card puts another package at the path.             *)
ReplacePackage ==
  /\ ~opened
  /\ card' \in Installs /\ rotted' = FALSE /\ answer' = Nothing
  /\ UNCHANGED <<opened, glyphs, verified, saved>>

(* A record on the card goes bad; its section's checksum no longer holds.  *)
Rot ==
  /\ ~rotted /\ rotted' = TRUE
  /\ \E i \in DOMAIN card.sections :
       LET id == card.sections[i].id
       IN /\ IsFixedIndexSection(id)
          /\ \E k \in DOMAIN card.records[id] :
               card' = [card EXCEPT !.records[id][k] = Junk, !.sections[i].crcOk = FALSE]
  /\ answer' = Nothing
  /\ UNCHANGED <<opened, glyphs, verified, saved>>

PackageRestart ==
  /\ opened' = FALSE /\ glyphs' = <<>> /\ verified' = saved /\ answer' = Nothing
  /\ UNCHANGED <<card, rotted, saved>>

PackageNext ==
  OpenPackage \/ ClosePackage \/ Ask \/ AskCover \/ ReplacePackage \/ Rot \/ PackageRestart

PackageSpec == PackageInit /\ [][PackageNext]_packageVars

-----------------------------------------------------------------------------
(* No accessor of an open package reads a unit outside the section it asks *)
(* of, or outside the file, whatever the section table and the records     *)
(* say: offsets near the top of their range included, and a record that    *)
(* went bad after the checksums passed.                                    *)
ReadsInBounds ==
  \A r \in answer.res.reads :
    /\ r.at + r.n <= card.size
    /\ opened => LET e == Entry(card, r.id) IN e.off <= r.at /\ r.at + r.n <= e.off + e.len

(* A package is open without its index checksums having been read only if  *)
(* this very build passed them: one that is open and has not gone bad on   *)
(* the card since is sound, however it and others came and went.           *)
OpenIsSound == opened /\ ~rotted => VerifyFixedIndexChecksums(card) = "kOk"

Ascends(id, n) == \A i, j \in 0..(n - 1) : i < j => Rec(card, id, i).first < Rec(card, id, j).first
Apart(id, n) == \A i, j \in 0..(n - 1) :
                  i < j => Rec(card, id, i).first + Rec(card, id, i).n <= Rec(card, id, j).first
AtOrBefore(id, n, w) == {i \in 0..(n - 1) : Rec(card, id, i).first <= w}
Latest(S) == CHOOSE i \in S : \A j \in S : j <= i

Answers(op) == answer.op = op /\ answer.res.err = "kOk"
Finds(id, n) ==
  LET S == AtOrBefore(id, n, answer.arg[1])
  IN Ascends(id, n) => /\ (answer.res.err = "kOk") = (S # {})
                       /\ answer.res.err = "kOk" => answer.res.val = Latest(S)
FindsGlyph ==
  LET keyed == {i \in 0..(Count(card, kFontMetadata) - 1) :
                  Rec(card, kFontMetadata, i).key = answer.arg[1]}
  IN /\ (answer.res.err = "kOk") = (keyed # {})
     /\ answer.res.err = "kOk" => answer.res.val \in keyed /\ \A i \in keyed : answer.res.val <= i
WordInItsAyah ==
  LET n == Count(card, kAyahIndex)
      a == Rec(card, kAyahIndex, Latest(AtOrBefore(kAyahIndex, n, answer.res.val)))
  IN Apart(kAyahIndex, n) => a.surah = answer.arg[1] /\ a.key = answer.arg[2]

(* The searches find what a walk over the records finds: the ayah and the  *)
(* line a word is in, a glyph with the index as without it, and, where the *)
(* ayahs' words are apart, a word by surah and ayah in the ayah that the   *)
(* search gives for it.                                                    *)
LookupsAgree ==
  opened /\ ~rotted =>
    /\ answer.op = "ayahOfWord" => Finds(kAyahIndex, Count(card, kAyahIndex))
    /\ answer.op = "lineOfWord" /\ GetLayoutHeader(card).err = "kOk" =>
         Finds(kLayoutData, card.lineTotal)
    /\ answer.op = "glyph" => FindsGlyph
    /\ Answers("word") => WordInItsAyah
    /\ Answers("marker") => answer.res.val >= answer.arg[1] - 1
================================================================================
