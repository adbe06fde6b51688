------------------------------- MODULE MCPackages -------------------------------
(* Small packages: a Quran in two builds, a book and a translation, each    *)
(* as a converter writes it and with the damage a file can have.            *)
EXTENDS PackageReader, BookText

VARIABLE about  (* what this behaviour is about: a package, or a job       *)

Plain == [key |-> 0, surah |-> 0, first |-> 0, n |-> 0, off |-> 0, len |-> 0]
Numbered(n) == [i \in 1..n |-> [Plain EXCEPT !.key = i, !.off = i - 1, !.len = 1]]
AyahRecs == <<[Plain EXCEPT !.surah = 1, !.key = 1, !.first = 0, !.n = 2, !.len = 1],
              [Plain EXCEPT !.surah = 1, !.key = 2, !.first = 2, !.n = 1, !.len = 2],
              [Plain EXCEPT !.surah = 2, !.key = 1, !.first = 3, !.n = 2, !.off = 2]>>
SurahRecs == <<[Plain EXCEPT !.key = 1, !.first = 0, !.n = 2, !.len = 1],
               [Plain EXCEPT !.key = 2, !.first = 2, !.n = 1, !.off = 1]>>
MetaRecs == <<[Plain EXCEPT !.key = 1, !.n = 2], [Plain EXCEPT !.key = 10, !.n = 1, !.off = 2, !.len = 2]>>
Lines    == <<[Plain EXCEPT !.first = 0], [Plain EXCEPT !.first = 1], [Plain EXCEPT !.first = 4]>>
GlyphRecs == <<[Plain EXCEPT !.key = 3], [Plain EXCEPT !.key = 1, !.len = 2],
               [Plain EXCEPT !.key = 3, !.off = 1], [Plain EXCEPT !.key = 2, !.off = 3, !.len = 1]>>

(* A section and its records: index sections as long as their records, a   *)
(* blob of four units; METADATA as long as its walk.                       *)
Section(id, recs) == [id |-> id, recs |-> recs,
                      len |-> IF IsFixedIndexSection(id) THEN Len(recs) * RecordSizeFor(id)
                              ELSE IF id = kMetadata THEN 6 ELSE IF id = kCover THEN 2 ELSE 4]
QuranParts == <<Section(kMetadata, MetaRecs), Section(kSurahIndex, SurahRecs),
                Section(kPageIndex, Numbered(2)), Section(kAyahIndex, AyahRecs),
                Section(kWordIndex, Numbered(5)), Section(kTextData, <<>>),
                Section(kLayoutData, Lines)>>
FontParts  == <<Section(kMetadata, MetaRecs), Section(kWordIndex, Numbered(3)),
                Section(kFontMetadata, GlyphRecs), Section(kAssets, <<>>)>>
BookParts  == <<Section(kMetadata, <<>>), Section(kPageIndex, Numbered(2)), Section(kTextData, <<>>),
                Section(kChapterIndex, Numbered(1)), Section(kTextIndex, Numbered(3)),
                Section(kCover, <<>>), Section(kPageImageIndex, Numbered(2)), Section(kPageImageData, <<>>)>>
VerseParts == <<Section(kMetadata, <<>>), Section(kTranslationIndex, Numbered(4)),
                Section(kTranslationData, <<>>)>>

(* The parts laid out one after the other behind the table.                *)
Build(type, id, build, parts, flags) ==
  LET n == Len(parts)
      Even(x) == x + (x % 2)
      Off[i \in 1..(n + 1)] == IF i = 1 THEN kHeaderSize + n * kSectionEntrySize
                               ELSE Even(Off[i - 1] + parts[i - 1].len)
      RecsOf(s) == (CHOOSE p \in {parts[k] : k \in 1..n} : p.id = s).recs
  IN [type |-> type, contentId |-> id, build |-> build, flags |-> flags,
      size |-> Off[n + 1], packageSize |-> Off[n + 1], magic |-> TRUE, version |-> TRUE,
      headerSize |-> kHeaderSize, headerCrc |-> TRUE, sectionCount |-> n,
      tableAt |-> kHeaderSize, tableLength |-> n * kSectionEntrySize,
      linesAt |-> 1, lineTotal |-> IF \E i \in 1..n : parts[i].id = kLayoutData THEN 3 ELSE 0,
      records |-> [s \in {p.id : p \in {parts[k] : k \in 1..n}} |-> RecsOf(s)],
      sections |-> [i \in 1..n |->
        [id |-> parts[i].id, off |-> Off[i], len |-> parts[i].len, crcOk |-> TRUE,
         rs |-> RecordSizeFor(parts[i].id),
         count |-> IF IsFixedIndexSection(parts[i].id) THEN Len(parts[i].recs) ELSE 0]]]

Quran  == Build("quran", "Q", "v1", QuranParts, {"layout"})
Quran2 == [Quran EXCEPT !.build = "v2", !.sections[4].crcOk = FALSE]
Shaped == Build("other", "S", "v1", FontParts, {"shaped"})
Book   == Build("book", "B", "v1", BookParts, {})
Verses == Build("translation", "T", "v1", VerseParts, {})
Sound  == {Quran, Shaped, Book, Verses}

(* A table entry that is not what the converter writes, in a file whose    *)
(* header is: any place and length, near the top of their range too.       *)
Entries(f) ==
  {[f EXCEPT !.build = "odd", !.sections[i].off = o, !.sections[i].len = l, !.sections[i].count = c] :
     i \in DOMAIN f.sections,
     o \in {12, f.size - 2, W64 - 4, W64 - 2}, l \in {2, 4, 6, W64 - 2}, c \in {2, 4, 6}}
Strides(f) == {[f EXCEPT !.build = "odd", !.sections[i].rs = r] : i \in DOMAIN f.sections, r \in {0, 1, 3}}
Headers(f) ==
  {[f EXCEPT !.build = "odd", !.size = @ - 1], [f EXCEPT !.build = "odd", !.magic = FALSE],
   [f EXCEPT !.build = "odd", !.tableAt = 3], [f EXCEPT !.build = "odd", !.sections[2].id = 1],
   [f EXCEPT !.build = "odd", !.flags = {"shaped", "layout"}], [f EXCEPT !.build = "odd", !.size = 3],
   [f EXCEPT !.build = "odd", !.linesAt = 3], [f EXCEPT !.build = "odd", !.lineTotal = 0]}
(* A record that points or counts too far.                                 *)
Records(f) ==
  UNION {UNION {{[f EXCEPT !.build = "odd", !.records[id][k].off = o, !.records[id][k].len = l,
                           !.records[id][k].first = p] :
                   o \in {0, 3, W32 - 1}, l \in {0, 2, W32 - 1}, p \in {f.records[id][k].first, W32 - 1}} :
                k \in DOMAIN f.records[id]} : id \in DOMAIN f.records}

MCFiles == Sound \cup {Quran2}
             \cup UNION {Entries(f) \cup Strides(f) \cup Headers(f) \cup Records(f) : f \in Sound}
MCInstalls == Sound \cup {Quran2}
MCNumbers  == 0..3
MCWords    == 0..6

-----------------------------------------------------------------------------
Strings(chars, n) == UNION {[1..k -> chars] : k \in 0..n}
FoldJobs   == [kind : {"fold"}, text : Strings({"x", "2", "3", "4", "c", "b"}, 4), capacity : 0..4]
Page(text) == [text |-> text, found |-> TRUE, readable |-> TRUE]
LoadJobs   == [kind : {"load"}, capacity : 0..9,
               records : Strings({Page(<<>>), Page(<<"x">>), Page(<<"x", "n", "x">>),
                                  [Page(<<"x">>) EXCEPT !.readable = FALSE],
                                  [Page(<<"x">>) EXCEPT !.found = FALSE]}, 3)]
VerseRecord(o, l) == [off |-> o, len |-> l]
Pointers  == {VerseRecord(0, 2), VerseRecord(2, 4), VerseRecord(6, 3), VerseRecord(1, 0),
              VerseRecord(9, 0), VerseRecord(10, 0), VerseRecord(8, 2), VerseRecord(3, 15), VerseRecord(15, 2)}
VerseJobs == [kind : {"verses"}, data : {<<"x", "2", "c", "x", "3", "c", "c", "n", "x">>},
              records : Strings(Pointers, 3), first : 0..1, count : {1, 3},
              capacity : {0, 5, 40}, scratch : {0, 4, 9}]
MCBytes    == {"x", "n", "s", "2", "3", "4", "c", "b", "e", "d", "q", "1", "."}
MCVerseNumber(i) == <<<<"1", "2", "3">>[i], ".">>
UnpackJobs == [kind : {"unpack"}, src : Strings(0..5, 4), length : 0..5]
MCJobs == FoldJobs \cup LoadJobs \cup VerseJobs \cup UnpackJobs
NoJob  == [kind |-> "none"]

Init ==
  \/ about = "package" /\ PackageInit /\ job = NoJob /\ done = FALSE /\ result = <<>>
  \/ /\ about = "job" /\ BookTextInit
     /\ card = Quran /\ rotted = FALSE /\ opened = FALSE /\ glyphs = <<>>
     /\ verified = <<>> /\ saved = <<>> /\ answer = Nothing

Next ==
  \/ about = "package" /\ PackageNext /\ UNCHANGED <<jobVars, about>>
  \/ about = "job" /\ BookTextNext /\ UNCHANGED <<packageVars, about>>

Spec == Init /\ [][Next]_<<packageVars, jobVars, about>>
================================================================================
