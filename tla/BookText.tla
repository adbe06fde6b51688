-------------------------------- MODULE BookText --------------------------------
(***************************************************************************)
(* What is made of the bytes a package holds before they are read or shown *)
(* (qpk/book_reader.cpp, qpk/translation_text.cpp, util/ascii_fold.h and   *)
(* UnpackBits of qpk/qpk_reader.cpp).  Each is a function from bytes and   *)
(* buffer sizes to bytes; a behaviour picks a job and does it.             *)
(*                                                                         *)
(* Bytes of text fall into classes: "x" any ASCII character, "n" a newline *)
(* and "s" a space, "2", "3" and "4" the first byte of a character of so   *)
(* many, "c" a byte that continues one, "b" a byte UTF-8 has no use for.   *)
(* Of the characters folded, one of two bytes stands for the marked        *)
(* letters, one of three for the dashes that become two, one of four for   *)
(* those the font has nothing for.  Packed bytes count 0..(2*Half - 1),    *)
(* scaled down from 0..255: below Half a run of bytes as they are, above   *)
(* it one byte repeated.  A loop is a function of how often it has run,    *)
(* that keeps its value once the loop has ended.                           *)
(***************************************************************************)
EXTENDS Naturals, Sequences, FiniteSets

CONSTANTS
  Jobs,        (* what may be asked for                                    *)
  Bytes,       (* the classes of bytes, those of the digits too            *)
  Half,        (* 128 of a packed byte, scaled down                        *)
  RawCapacity, (* sizeof(g_raw): the bytes of a verse that are read        *)
  FoldCapacity,(* sizeof(g_folded)                                         *)
  RecordBatch, (* kRecordBatch                                             *)
  W,           (* 2^32, scaled down                                        *)
  VerseNumber(_) (* snprintf's "%u. "                                      *)

FoldJob   == [kind : {"fold"}, text : Seq(Bytes), capacity : Nat]
LoadJob   == [kind : {"load"}, capacity : Nat,
              records : Seq([text : Seq(Bytes), found : BOOLEAN, readable : BOOLEAN])]
VerseJob  == [kind : {"verses"}, data : Seq(Bytes),
              records : Seq([off : 0..(W - 1), len : 0..(W - 1)]),
              first : Nat, count : Nat, capacity : Nat, scratch : Nat]
UnpackJob == [kind : {"unpack"}, src : Seq(0..(2 * Half - 1)), length : Nat]

ASSUME BookTextAssumption ==
  /\ {"x", "n", "s", "2", "3", "4", "c", "b", "e", "d", "q"} \subseteq Bytes
  /\ {Half, RecordBatch, W} \subseteq Nat \ {0} /\ {RawCapacity, FoldCapacity} \subseteq Nat
  /\ Jobs \subseteq FoldJob \cup LoadJob \cup VerseJob \cup UnpackJob
  /\ \A j \in Jobs : j.kind = "verses" => \A i \in 1..j.count : VerseNumber(i) \in Seq(Bytes)

VARIABLES job, done, result

jobVars == <<job, done, result>>

Lower(a, b) == IF a < b THEN a ELSE b
Front(s, n) == SubSeq(s, 1, Lower(n, Len(s)))
IsPrefixOf(s, t) == Len(s) <= Len(t) /\ SubSeq(t, 1, Len(s)) = s

-----------------------------------------------------------------------------
(* FoldToAscii                                                             *)

Ascii == {"x", "n", "s"}
Extra(byte) == CASE byte = "2" -> 1 [] byte = "3" -> 2 [] byte = "4" -> 3 [] OTHER -> 0
Folded(byte) == CASE byte = "2" -> <<"e">> [] byte = "3" -> <<"d", "d">> [] OTHER -> <<"q">>

(* The character at i (from 1): how many bytes it takes, and what becomes  *)
(* of it.  A broken one takes the bytes that continue it along.            *)
CharAt(in, i) ==
  LET extra  == Extra(in[i])
      broken == \/ in[i] \in {"c", "b"}
                \/ i + extra > Len(in)
                \/ \E k \in 1..extra : in[i + k] # "c"
      past   == CHOOSE j \in (i + 1)..(Len(in) + 1) :
                  /\ j <= Len(in) => in[j] # "c"
                  /\ \A k \in (i + 1)..(j - 1) : in[k] = "c"
  IN IF in[i] \in Ascii THEN [n |-> 1, out |-> <<in[i]>>]
     ELSE IF broken THEN [n |-> past - i, out |-> <<"q">>]
     ELSE [n |-> extra + 1, out |-> Folded(in[i])]

(* The loop stops when the input ends or the buffer is full.               *)
FoldChar(in, capacity, s) ==
  LET char == CharAt(in, s.at)
  IN IF s.at > Len(in) \/ Len(s.out) = capacity THEN s
     ELSE [at |-> s.at + char.n, out |-> s.out \o Front(char.out, capacity - Len(s.out))]

FoldToAscii(in, capacity) ==
  LET After[k \in 0..Len(in)] ==
        IF k = 0 THEN [at |-> 1, out |-> <<>>] ELSE FoldChar(in, capacity, After[k - 1])
  IN After[Len(in)].out

-----------------------------------------------------------------------------
(* LoadBookText: the records of TEXT_INDEX, a blank line between them.     *)

Unwrapped(text) == [k \in DOMAIN text |-> IF text[k] = "n" THEN "s" ELSE text[k]]

(* Mutant: the terminating NUL is forgotten.                               *)
RoomExact(written, n, capacity) == written + n <= capacity + 1

(* Room for n more bytes and the NUL.                                      *)
RoomFor(written, n, capacity) == written + n < capacity

LoadRecord(s, i, record, capacity) ==
  LET start == IF i > 1 THEN s.out \o <<"n", "n">> ELSE s.out
      space == capacity - Len(start) - 1
      text  == Unwrapped(Front(record.text, space))
      Error == [err |-> "kReaderError", out |-> <<>>]
  IN IF s.err # "kOk" THEN s
     ELSE IF ~record.found THEN Error
     ELSE IF i > 1 /\ ~RoomFor(Len(s.out), 2, capacity) THEN [err |-> "kTruncated", out |-> s.out]
     ELSE IF ~RoomFor(Len(start), 1, capacity) THEN [err |-> "kTruncated", out |-> start]
     ELSE IF ~record.readable THEN Error
     ELSE [err |-> IF Len(record.text) > space THEN "kTruncated" ELSE "kOk", out |-> start \o text]

LoadBookText(records, capacity) ==
  LET After[i \in 0..Len(records)] ==
        IF i = 0 THEN [err |-> "kOk", out |-> <<>>] ELSE LoadRecord(After[i - 1], i, records[i], capacity)
  IN IF capacity = 0 THEN [err |-> "kTruncated", out |-> <<>>] ELSE After[Len(records)]

-----------------------------------------------------------------------------
(* AppendTranslationVerses: the verses of a surah, numbered and folded.    *)
(* The records of TRANSLATION_INDEX come in batches, and the stretch of    *)
(* TRANSLATION_DATA a batch points into is read at once if it fits.        *)

(* readTranslationText: the bytes, or <<"fail">> out of bounds.            *)
Failed == <<"fail">>
ReadTranslationText(data, off, len, capacity) ==
  IF off > Len(data) \/ len > Len(data) - off THEN Failed
  ELSE SubSeq(data, off + 1, off + Lower(len, capacity))

Span(records) ==
  LET good == {r \in {records[i] : i \in DOMAIN records} : (r.off + r.len) % W >= r.off}
  IN IF good = {} THEN [start |-> W - 1, end |-> 0]
     ELSE [start |-> CHOOSE s \in {r.off : r \in good} : \A r \in good : s <= r.off,
           end   |-> CHOOSE e \in {r.off + r.len : r \in good} : \A r \in good : e >= r.off + r.len]

(* A verse's bytes, out of the batch's span if it was read, and else by    *)
(* a read of its own.                                                      *)
VerseText(data, record, span, haveSpan) ==
  LET end == (record.off + record.len) % W
  IN IF haveSpan /\ record.off >= span.start /\ end <= span.end /\ end >= record.off
     THEN SubSeq(data, record.off + 1, record.off + Lower(record.len, RawCapacity))
     ELSE ReadTranslationText(data, record.off, record.len, RawCapacity)

(* Whether the span of a batch comes whole into the scratch buffer.        *)
HaveSpan(data, span, scratch) ==
  /\ span.end > span.start
  /\ span.end - span.start <= scratch
  /\ ReadTranslationText(data, span.start, span.end - span.start, scratch) # Failed

Put(out, piece, capacity) == out \o Front(piece, capacity - Len(out))
Fits(out, piece, capacity) == Len(out) + Len(piece) <= capacity

(* One verse: the text so far and whether to go on.                        *)
PutVerse(s, number, text, capacity) ==
  LET all == VerseNumber(number) \o FoldToAscii(text, FoldCapacity) \o <<"n", "n">>
  IN IF ~s.on \/ text = Failed THEN [s EXCEPT !.on = FALSE]
     ELSE [out |-> Put(s.out, all, capacity), on |-> Fits(s.out, all, capacity)]

(* The verses of one batch, the first of them with the number after from.  *)
PutBatch(data, batch, from, out, capacity, scratch) ==
  LET span == Span(batch)
      have == HaveSpan(data, span, scratch)
      After[i \in 0..Len(batch)] ==
        IF i = 0 THEN [out |-> out, on |-> TRUE]
        ELSE PutVerse(After[i - 1], from + i, VerseText(data, batch[i], span, have), capacity)
  IN After[Len(batch)]

(* Reader::readRecordRange: the records there are, of those asked for.     *)
ReadRecordRange(records, from, want) == SubSeq(records, from + 1, Lower(from + want, Len(records)))

(* A batch shorter than was asked for, an empty one too, is the last.      *)
NextBatch(data, records, first, count, capacity, scratch, s) ==
  LET want  == Lower(count - s.finished, RecordBatch)
      batch == ReadRecordRange(records, first + s.finished, want)
      r     == PutBatch(data, batch, s.finished, s.out, capacity, scratch)
  IN IF ~s.on \/ s.finished >= count THEN s
     ELSE [finished |-> s.finished + Len(batch), out |-> r.out, on |-> r.on /\ Len(batch) = want]

AppendTranslationVerses(data, records, first, count, capacity, scratch) ==
  LET After[k \in 0..count] ==
        IF k = 0 THEN [finished |-> 0, out |-> <<>>, on |-> TRUE]
        ELSE NextBatch(data, records, first, count, capacity, scratch, After[k - 1])
  IN IF capacity = 0 THEN <<>> ELSE After[count].out

-----------------------------------------------------------------------------
(* UnpackBits                                                              *)

(* The bytes a repeat stands for.                                          *)
RunLength(byte) == 2 * Half + 1 - byte

UnpackRun(src, length, s) ==
  LET byte == src[s.at]
      left == Len(src) - s.at
      run  == IF byte < Half THEN SubSeq(src, s.at + 1, s.at + byte + 1)
              ELSE [k \in 1..RunLength(byte) |-> src[s.at + 1]]
  IN IF ~s.ok \/ s.at > Len(src) THEN s
     ELSE IF byte = Half THEN [s EXCEPT !.at = @ + 1]
     ELSE IF left < (IF byte < Half THEN byte + 1 ELSE 1) \/ Len(run) > length - Len(s.out)
     THEN [s EXCEPT !.ok = FALSE]
     ELSE [s EXCEPT !.at = @ + (IF byte < Half THEN byte + 2 ELSE 2), !.out = @ \o run]

UnpackBits(src, length) ==
  LET After[k \in 0..Len(src)] ==
        IF k = 0 THEN [at |-> 1, out |-> <<>>, ok |-> TRUE] ELSE UnpackRun(src, length, After[k - 1])
      end == After[Len(src)]
  IN [ok |-> end.ok /\ Len(end.out) = length, out |-> end.out]

-----------------------------------------------------------------------------
BookTextInit == job \in Jobs /\ done = FALSE /\ result = <<>>

Fold == job.kind = "fold" /\ result' = FoldToAscii(job.text, job.capacity)
Load == job.kind = "load" /\ result' = LoadBookText(job.records, job.capacity)
AppendVerses ==
  /\ job.kind = "verses"
  /\ result' = AppendTranslationVerses(job.data, job.records, job.first, job.count, job.capacity, job.scratch)
Unpack == job.kind = "unpack" /\ result' = UnpackBits(job.src, job.length)

Do == ~done /\ done' = TRUE /\ UNCHANGED job /\ (Fold \/ Load \/ AppendVerses \/ Unpack)

(* The buffers are static: the next text goes where this one was.          *)
Reuse == done /\ done' = FALSE /\ result' = <<>> /\ UNCHANGED job

BookTextNext == Do \/ Reuse

BookTextSpec == BookTextInit /\ [][BookTextNext]_jobVars

-----------------------------------------------------------------------------
(* What a whole text, a whole folding and a whole unpacking are, without   *)
(* buffers: the records joined; a character at a time; the pieces joined.  *)
Joined(records) ==
  LET To[i \in 0..Len(records)] ==
        IF i = 0 THEN <<>>
        ELSE To[i - 1] \o (IF i > 1 THEN <<"n", "n">> ELSE <<>>) \o Unwrapped(records[i].text)
  IN To[Len(records)]

(* A book that loads without an error is all there, every byte of every    *)
(* record; one that is reported cut is cut where the buffer ends, and what *)
(* is there of it is its beginning.                                        *)
LoadsWhole ==
  job.kind = "load" /\ done =>
    LET whole == Joined(job.records)
    IN /\ result.err = "kOk" => result.out = whole /\ Len(whole) < job.capacity
       /\ result.err = "kTruncated" =>
            /\ IsPrefixOf(result.out, whole)
            /\ job.capacity > 0 => Len(result.out) < job.capacity /\ Len(whole) + 1 >= job.capacity
       /\ result.err = "kReaderError" => \E i \in DOMAIN job.records : ~(job.records[i].found /\ job.records[i].readable)

(* The verses of a surah read in batches are, to the byte, those read one  *)
(* by one, whatever the records point at and whichever buffer is short.    *)
VerseBytes(i) == ReadTranslationText(job.data, job.records[job.first + i].off,
                                     job.records[job.first + i].len, RawCapacity)

OneByOne(n) ==
  LET To[i \in 0..n] ==
        IF i = 0 THEN <<>>
        ELSE To[i - 1] \o (VerseNumber(i) \o FoldToAscii(VerseBytes(i), FoldCapacity) \o <<"n", "n">>)
  IN To[n]

VersesAsRead ==
  job.kind = "verses" /\ done =>
    LET n == Lower(job.count, IF job.first > Len(job.records) THEN 0 ELSE Len(job.records) - job.first)
        failing == {i \in 1..n : VerseBytes(i) = Failed}
        last    == IF failing = {} THEN n ELSE (CHOOSE i \in failing : \A j \in failing : i <= j) - 1
    IN result = Front(OneByOne(last), job.capacity)

(* Folding loses its place nowhere: a text that starts with an ASCII       *)
(* character folds to what its parts fold to, however broken the part      *)
(* before it is; nothing but ASCII comes out, and no more than fits.       *)
FoldsInPlace ==
  job.kind = "fold" /\ done =>
    /\ Len(result) <= job.capacity
    /\ \A k \in DOMAIN result : result[k] \notin {"2", "3", "4", "c", "b"}
    /\ \A k \in DOMAIN job.text :
         job.text[k] \in Ascii =>
           LET before == FoldToAscii(SubSeq(job.text, 1, k - 1), job.capacity)
               rest   == SubSeq(job.text, k, Len(job.text))
           IN result = before \o FoldToAscii(rest, job.capacity - Len(before))

(* A page's bits come out as exactly the bytes a page has, or not at all:  *)
(* no run reaches past either buffer, and what comes out is what the runs  *)
(* stand for.                                                              *)
Spans(src, i) == IF src[i] < Half THEN src[i] + 2 ELSE IF src[i] = Half THEN 1 ELSE 2
Means(src, i) == IF src[i] < Half THEN SubSeq(src, i + 1, i + 1 + src[i])
                 ELSE IF src[i] = Half THEN <<>>
                 ELSE [k \in 1..(1 + (2 * Half - src[i])) |-> src[i + 1]]

Runs(src) ==
  LET n == Len(src)
      From[i \in 1..(n + 1)] ==
        IF i = n + 1 THEN [whole |-> TRUE, out |-> <<>>]
        ELSE IF i + Spans(src, i) > n + 1 THEN [whole |-> FALSE, out |-> <<>>]
        ELSE LET rest == From[i + Spans(src, i)]
             IN [whole |-> rest.whole, out |-> Means(src, i) \o rest.out]
  IN From[1]

UnpacksExactly ==
  job.kind = "unpack" /\ done =>
    LET runs == Runs(job.src)
    IN /\ result.ok = (runs.whole /\ Len(runs.out) = job.length)
       /\ result.ok => result.out = runs.out

(* Everything that is made of a package's bytes is made of all of them.    *)
TextWhole == LoadsWhole /\ VersesAsRead /\ FoldsInPlace /\ UnpacksExactly
================================================================================
