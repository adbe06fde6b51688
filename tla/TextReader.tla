------------------------------ MODULE TextReader ------------------------------
(***************************************************************************)
(* Reading text in the 5x7 font: a book, or a translation that shows one   *)
(* surah at a time (main.cpp, ScreenMode::kReader).  util::TextPager cuts  *)
(* the text into lines and pages; OK changes the text size, which moves    *)
(* every line.                                                             *)
(*                                                                         *)
(* A text is a sequence of letters, spaces and newlines; offsets count     *)
(* from 0, pages and surahs from 1, as in the code.  A book is a sequence  *)
(* of parts: the surahs of a translation whose Quran is on the card, or    *)
(* else one part.  How a part's text comes off the card is the subject of  *)
(* BookText.                                                               *)
(***************************************************************************)
EXTENDS Integers, Sequences, FiniteSets, SequencesExt

CONSTANTS
  Library,     (* the books that can be opened: non-empty sequences of texts *)
  BookScales,  (* kBookScales, in the order OK goes through them           *)
  LineWidth,   (* the width of the body, and the height, in glyphs at x1   *)
  BodyHeight,
  MaxLines,    (* ui::kReaderMaxLines                                      *)
  MaxBookmark, (* bound: the pages a bookmark may name                     *)
  NoText

Newline == "n"
Space   == "s"
Letter  == "x"

(* A line has room for a character in every size.                          *)
ASSUME TextReaderAssumption ==
  /\ Library \subseteq Seq(Seq({Letter, Space, Newline})) \ {<<>>}
  /\ NoText \notin Library
  /\ BookScales \in Seq(Nat \ {0}) /\ BookScales # <<>>
  /\ LineWidth \in Nat /\ \A i \in 1..Len(BookScales) : BookScales[i] <= LineWidth
  /\ BodyHeight \in Nat /\ MaxLines \in Nat \ {0} /\ MaxBookmark \in Nat

VARIABLES
  shelf,      (* the book on the card                                      *)
  body,       (* the open book, or NoText                                  *)
  surah,      (* g_trans_surah: the part shown                             *)
  bookPage,   (* g_book_page                                               *)
  scale       (* g_book_scale                                              *)

textVars == <<shelf, body, surah, bookPage, scale>>

-----------------------------------------------------------------------------
(* util::TextPager                                                         *)

Least(S)   == CHOOSE n \in S : \A m \in S : n <= m
Greatest(S) == CHOOSE n \in S : \A m \in S : m <= n

ReaderCharsPerLine(s) == LineWidth \div s
ReaderLinesPerPage(s) ==
  LET lines == BodyHeight \div s
  IN IF lines < 1 THEN 1 ELSE IF lines > MaxLines THEN MaxLines ELSE lines

(* Mutant: the character a line breaks at is taken for a space.            *)
NextLineSkips(text, cursor, width) ==
  LET Is(i, c) == i < Len(text) /\ text[i + 1] = c
      at  == Least({cursor + width, Len(text)}
                   \cup {i \in cursor..(Len(text) - 1) : Is(i, Newline)})
      spaces == {i \in (cursor + 1)..(at - 1) : Is(i, Space)}
      end == IF at = Len(text) \/ Is(at, Newline) \/ Is(at, Space) \/ spaces = {}
             THEN at ELSE Greatest(spaces)
  IN [offset |-> cursor, length |-> end - cursor, next |-> IF end < Len(text) THEN end + 1 ELSE end]

(* The line at the cursor, and where the next one starts.  It breaks where *)
(* the width ends if a word ends there too, or else at the last space that *)
(* fits; a word longer than the line is split.                             *)
NextLine(text, cursor, width) ==
  LET Is(i, c) == i < Len(text) /\ text[i + 1] = c
      at       == Least({cursor + width, Len(text)}
                        \cup {i \in cursor..(Len(text) - 1) : Is(i, Newline)})
      spaces   == {i \in (cursor + 1)..(at - 1) : Is(i, Space)}
      end      == IF at = Len(text) \/ Is(at, Newline) \/ Is(at, Space) \/ spaces = {}
                  THEN at ELSE Greatest(spaces)
      trimmed  == Least({k \in cursor..end : \A i \in k..(end - 1) : Is(i, Space)})
      past     == Greatest({k \in end..Len(text) : \A i \in end..(k - 1) : Is(i, Space)})
  IN IF Is(cursor, Newline)
     THEN [offset |-> cursor, length |-> 0, next |-> cursor + 1]
     ELSE [offset |-> cursor, length |-> trimmed - cursor,
           next |-> IF Is(past, Newline) THEN past + 1 ELSE past]

Lines(text, s) ==
  LET width == IF ReaderCharsPerLine(s) = 0 THEN 1 ELSE ReaderCharsPerLine(s)
      From[cursor \in 0..Len(text)] ==
        IF cursor = Len(text) THEN <<>>
        ELSE LET line == NextLine(text, cursor, width)
             IN <<[offset |-> line.offset, length |-> line.length]>> \o From[line.next]
  IN From[0]

PageCountOf(text, s) ==
  LET pages == (Len(Lines(text, s)) + ReaderLinesPerPage(s) - 1) \div ReaderLinesPerPage(s)
  IN IF pages = 0 THEN 1 ELSE pages

LinesForPage(text, s, page) ==
  LET lines == Lines(text, s)
      first == (page - 1) * ReaderLinesPerPage(s) + 1
      last  == first + ReaderLinesPerPage(s) - 1
  IN SubSeq(lines, first, IF last > Len(lines) THEN Len(lines) ELSE last)

-----------------------------------------------------------------------------
(* The reader                                                              *)

TextTypeOK ==
  /\ shelf \in Library /\ body \in {shelf, NoText}
  /\ scale \in {BookScales[i] : i \in 1..Len(BookScales)}
  /\ body # NoText =>
       surah \in 1..Len(body) /\ bookPage \in 1..PageCountOf(body[surah], scale)

TextInit ==
  /\ shelf \in Library
  /\ body = NoText /\ surah = 1 /\ bookPage = 1
  /\ scale = BookScales[Len(BookScales)]

Pages(s) == PageCountOf(body[surah], s)

OpenText ==
  /\ body = NoText
  /\ body' = shelf /\ surah' = 1 /\ bookPage' = 1
  /\ UNCHANGED <<shelf, scale>>

CloseText ==
  /\ body # NoText
  /\ body' = NoText /\ surah' = 1 /\ bookPage' = 1
  /\ UNCHANGED <<shelf, scale>>

(* A bookmark carries the text size its page was counted at; the book may  *)
(* have been replaced since.                                               *)
OpenTextBookmark ==
  /\ body = NoText
  /\ \E mark \in [a : 1..MaxBookmark, b : 1..2, c : {BookScales[i] : i \in 1..Len(BookScales)}] :
       /\ body' = shelf /\ scale' = mark.c
       /\ surah' = IF mark.b <= Len(shelf) THEN mark.b ELSE 1
       /\ bookPage' = LET last == PageCountOf(shelf[surah'], mark.c)
                      IN IF mark.a <= last THEN mark.a ELSE IF Len(shelf) > 1 THEN 1 ELSE last
  /\ UNCHANGED shelf

(* Mutant: going back a surah opens its first page.                        *)
ShowFromTheStart(s, atEnd) == surah' = s /\ bookPage' = 1

ShowTranslationSurah(s, atEnd) ==
  surah' = s /\ bookPage' = IF atEnd THEN PageCountOf(body[s], scale) ELSE 1

(* Past the last page of a surah into the next one, and back.              *)
TurnText(d) ==
  /\ body # NoText
  /\ LET to == bookPage + d IN
     \/ to > Pages(scale) /\ surah < Len(body) /\ ShowTranslationSurah(surah + 1, FALSE)
     \/ to < 1 /\ surah > 1 /\ ShowTranslationSurah(surah - 1, TRUE)
     \/ /\ ~(to > Pages(scale) /\ surah < Len(body)) /\ ~(to < 1 /\ surah > 1)
        /\ bookPage' = IF to < 1 THEN 1 ELSE IF to > Pages(scale) THEN Pages(scale) ELSE to
        /\ UNCHANGED surah
  /\ UNCHANGED <<shelf, body, scale>>

(* Mutant: the page number is kept.                                        *)
CycleKeepsPage ==
  /\ body # NoText
  /\ \E i \in 1..Len(BookScales) :
       BookScales[i] = scale /\ scale' = BookScales[(i % Len(BookScales)) + 1]
  /\ UNCHANGED <<shelf, body, surah, bookPage>>

CycleBookTextSize ==
  /\ body # NoText
  /\ LET i     == CHOOSE k \in 1..Len(BookScales) : BookScales[k] = scale
         next  == BookScales[(i % Len(BookScales)) + 1]
         count == Pages(next)
         page  == IF Pages(scale) > 1 /\ count > 1 /\ bookPage > 1
                  THEN 1 + ((bookPage - 1) * (count - 1)) \div (Pages(scale) - 1) ELSE 1
     IN scale' = next /\ bookPage' = IF page > count THEN count ELSE page
  /\ UNCHANGED <<shelf, body, surah>>

TextNext ==
  \/ OpenText \/ OpenTextBookmark \/ CloseText \/ CycleBookTextSize
  \/ \E d \in {-3, -1, 1, 3} : TurnText(d)

TextSpec == TextInit /\ [][TextNext]_textVars

-----------------------------------------------------------------------------
(* The lines hold every letter of the text, in order and once; none is     *)
(* wider than width; a word is split only where it alone is wider than a   *)
(* line; and two newlines leave an empty line.                             *)
HoldAll(lines, text, width) ==
  LET End(k) == IF k = 0 THEN 0 ELSE lines[k].offset + lines[k].length
      Blank(from, to) == \A i \in from..(to - 1) : text[i + 1] # Letter
      SplitsWord(k) == /\ End(k) \in 1..(Len(text) - 1)
                       /\ text[End(k)] = Letter /\ text[End(k) + 1] = Letter
  IN /\ \A k \in 1..Len(lines) :
          /\ lines[k].length <= width
          /\ Blank(End(k - 1), lines[k].offset) /\ End(k - 1) <= lines[k].offset
          /\ SplitsWord(k) =>
               \E first \in lines[k].offset..End(k) :
                 /\ Blank(lines[k].offset, first)
                 /\ \A i \in first..(End(k) - 1) : text[i + 1] = Letter
     /\ Blank(End(Len(lines)), Len(text))
     /\ \A i \in 1..(Len(text) - 1) :
          text[i] = Newline /\ text[i + 1] = Newline =>
            \E k \in 1..Len(lines) : lines[k] = [offset |-> i, length |-> 0]

(* What all the pages show together holds the whole text.                  *)
NoTextLost ==
  body # NoText =>
    HoldAll(FlattenSeq([p \in 1..Pages(scale) |-> LinesForPage(body[surah], scale, p)]),
            body[surah], ReaderCharsPerLine(scale))

(* Where the reader is in the whole book, in pages of this text size.      *)
PagesOf(surahs) == Cardinality(UNION {{k} \X (1..PageCountOf(body[k], scale)) : k \in surahs})
Position == bookPage + PagesOf(1..(surah - 1))

(* The wheel goes through the whole book: one detent, one page, across the *)
(* borders of surahs as within them, and several detents at once never     *)
(* pass over more pages than detents.  A change of the text size keeps the *)
(* first page of the text the first, and the last the last.                *)
WheelReadsOn ==
  /\ [][\A d \in {-3, -1, 1, 3} : TurnText(d) =>
          LET to   == (Position)'
              by   == IF d > 0 THEN to - Position ELSE Position - to
              size == IF d > 0 THEN d ELSE 0 - d
              end  == IF d > 0 THEN PagesOf(1..Len(body)) ELSE 1
          IN by \in 0..size /\ (by = 0 => Position = end)]_textVars
  /\ [][body # NoText /\ CycleBookTextSize =>
          /\ bookPage = 1 => bookPage' = 1
          /\ bookPage = Pages(scale) /\ Pages(scale) > 1 => bookPage' = (Pages(scale))']_textVars
================================================================================
