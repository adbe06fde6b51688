----------------------------- MODULE QuranPaging -----------------------------
(***************************************************************************)
(* Reading a Quran package by paging (ui/quran_screen.cpp and the paging   *)
(* of main.cpp).  A screen is drawn from a cursor and reports where the    *)
(* next one starts; forward goes there, back pops a stack of the starts    *)
(* already shown.  A package with the mushaf's own lines (LAYOUT_DATA) is  *)
(* paged by line, another one by ayah, filling rows with words.            *)
(*                                                                         *)
(* A package is a sequence of words with a width, cut into ayahs, surahs   *)
(* and lines; everything is counted from 0 as in the code, but surahs from *)
(* 1.  A panel has Rows rows of Width; row Rows + 1 runs into the footer.  *)
(* Widths include the space after them.  Words that cannot be read, which  *)
(* the screen passes over, and the surah's name are left out.              *)
(*                                                                         *)
(* Steps of the wheel gather until it rests, and loop() draws nothing in   *)
(* the meantime; a button pressed then acts first (drivers/input).         *)
(***************************************************************************)
EXTENDS Integers, Sequences, FiniteSets, SequencesExt

CONSTANTS
  Qurans,        (* the packages on the card                               *)
  Words,         (* Words[q][w + 1]: the width of a word                   *)
  Ayahs,         (* Ayahs[q][a + 1] = [surah, first]: its first word       *)
  MushafLines,   (* MushafLines[q][l + 1]: the first word of a line; or <<>>  *)
  Width, Rows,   (* the panel                                              *)
  Marker,        (* the width of the sign after an ayah                    *)
  HistoryDepth,  (* ui::kQuranHistoryDepth                                 *)
  MaxScreen,     (* bound: screens counted in one reading                  *)
  CalmPicking,   (* is the wheel at rest whenever a surah is picked?       *)
  NoQuran

(* The first words of ayahs, or of lines, one after another from word 0.   *)
Ascends(starts, words) ==
  /\ starts \in Seq(0..(words - 1)) /\ starts[1] = 0
  /\ \A i, j \in DOMAIN starts : i < j => starts[i] < starts[j]

(* A package as the converter makes it: ayahs and lines cut the words into *)
(* parts that are not empty, and surahs are numbered from 1, each with an  *)
(* ayah; a surah begins on a line of its own.                              *)
WellMade(words, ayahs, lines) ==
  LET n == Len(words)
      last == ayahs[Len(ayahs)].surah
  IN /\ words \in Seq(Nat) /\ ayahs \in Seq([surah : Nat, first : Nat])
     /\ ayahs # <<>> /\ Ascends([a \in DOMAIN ayahs |-> ayahs[a].first], n)
     /\ {ayahs[a].surah : a \in DOMAIN ayahs} = 1..last
     /\ \A a, b \in DOMAIN ayahs : a < b => ayahs[a].surah <= ayahs[b].surah
     /\ lines # <<>> =>
          /\ Ascends(lines, n)
          /\ \A a \in 2..Len(ayahs) : ayahs[a - 1].surah # ayahs[a].surah =>
               \E l \in DOMAIN lines : lines[l] = ayahs[a].first

ASSUME QuranPagingAssumption ==
  /\ NoQuran \notin Qurans
  /\ CalmPicking \in BOOLEAN
  /\ {HistoryDepth, Width, Rows, Marker, MaxScreen} \subseteq Nat
  /\ \A q \in Qurans : WellMade(Words[q], Ayahs[q], MushafLines[q])

VARIABLES
  quran,    (* what g_quran_reader has open                                *)
  view,     (* the picker, or the pages                                    *)
  cur,      (* g_quran_state                                               *)
  next,     (* g_quran_next_ayah_index, g_quran_next_line_index, g_quran_used_layout *)
  history,  (* g_quran_history                                             *)
  status,   (* the message in the footer                                   *)
  stale,    (* g_dirty                                                     *)
  pending,  (* steps of the wheel that are not released yet                *)
  drawing,  (* loop() has handled an event and is about to draw            *)
  progress, (* /USER/progress.bin                                          *)
  seen     (* history: the words on the screen drawn last, and how it was reached *)

quranVars == <<quran, view, cur, next, history, status, stale, pending, drawing,
               progress, seen>>

-----------------------------------------------------------------------------
(* The package                                                             *)

WordCount(q)  == Len(Words[q])
AyahCount(q)  == Len(Ayahs[q])
LineCount(q)  == Len(MushafLines[q])
HasLayout(q)  == LineCount(q) > 0
SurahCount(q) == Ayahs[q][AyahCount(q)].surah

Largest(S) == CHOOSE n \in S : \A m \in S : m <= n

SurahOf(q, a)   == Ayahs[q][a + 1].surah
FirstAyah(q, s) == CHOOSE a \in 0..(AyahCount(q) - 1) :
                     SurahOf(q, a) = s /\ (a > 0 => SurahOf(q, a - 1) # s)
FirstWord(q, a) == Ayahs[q][a + 1].first
EndOfAyah(q, a) == IF a + 1 = AyahCount(q) THEN WordCount(q) ELSE FirstWord(q, a + 1)
EndOfLine(q, l) == IF l + 1 = LineCount(q) THEN WordCount(q) ELSE MushafLines[q][l + 2]

(* findAyahByWordIndex() and findLineByWordIndex().                        *)
AyahOfWord(q, w) == Largest({a \in 0..(AyahCount(q) - 1) : FirstWord(q, a) <= w})
LineOfWord(q, w) == Largest({l \in 0..(LineCount(q) - 1) : MushafLines[q][l + 1] <= w})

(* The sign of an ayah follows its last word.                              *)
EndsAyah(q, v) == EndOfAyah(q, AyahOfWord(q, v)) = v + 1

-----------------------------------------------------------------------------
(* Drawing by line                                                         *)

(* One item after another, from the right; a row that is not empty wraps.  *)
PlaceItem(at, width) ==
  IF at.used > 0 /\ at.used + width > Width
  THEN [at EXCEPT !.row = @ + 1, !.used = width]
  ELSE [at EXCEPT !.used = @ + width]

PlaceWord(q, at, v) ==
  LET placed == PlaceItem(at, Words[q][v + 1])
      drawn  == [placed EXCEPT !.drawn = IF placed.row <= Rows THEN @ \cup {v} ELSE @]
  IN IF EndsAyah(q, v) THEN PlaceItem(drawn, Marker) ELSE drawn

(* The words of a line, the first at the start of a row.                   *)
PlaceLine(q, row, drawn, l) ==
  LET first == MushafLines[q][l + 1]
      At[v \in first..EndOfLine(q, l)] ==
        IF v = first THEN [row |-> row, used |-> 0, drawn |-> drawn]
        ELSE PlaceWord(q, At[v - 1], v - 1)
  IN At[EndOfLine(q, l)]

(* A line goes on the screen whole, unless it is the first.                *)
DrawLine(q, screen, l) ==
  LET end == PlaceLine(q, screen.row, screen.drawn, l)
  IN IF screen.full \/ screen.row > Rows \/ (end.row > Rows /\ screen.drawn # {})
     THEN [screen EXCEPT !.full = TRUE]
     ELSE [row |-> end.row + 1, drawn |-> end.drawn, next |-> l + 1, full |-> FALSE]

RenderLayoutPath(q, from) ==
  LET Screen[l \in from..LineCount(q)] ==
        IF l = from THEN [row |-> 1, drawn |-> {}, next |-> from, full |-> FALSE]
        ELSE DrawLine(q, Screen[l - 1], l - 1)
      screen == Screen[LineCount(q)]
  IN [drawn |-> screen.drawn, line |-> screen.next, layout |-> TRUE,
      ayah  |-> IF screen.next < LineCount(q) THEN AyahOfWord(q, MushafLines[q][screen.next + 1])
                                              ELSE AyahCount(q)]

-----------------------------------------------------------------------------
(* Drawing by ayah                                                         *)

Wrapped(screen, width) ==
  IF screen.used + width > Width THEN [screen EXCEPT !.row = @ + 1, !.used = 0] ELSE screen

(* The sign after an ayah may wrap onto a row below the last one, where it *)
(* is not drawn, and where the next word is: only a word that wraps there  *)
(* ends the screen.                                                        *)
FillSign(screen) ==
  LET at == Wrapped(screen, Marker)
  IN [at EXCEPT !.used = IF at.row <= Rows THEN @ + Marker ELSE @,
                !.next = @ + 1, !.ayahs = @ + 1, !.started = FALSE]

FillWord(screen, v, width) ==
  LET at == Wrapped(screen, width)
  IN IF at.row # screen.row /\ at.row > Rows
     THEN [screen EXCEPT !.full = TRUE,
                         !.next = IF screen.ayahs = 0 /\ ~screen.started THEN @ + 1 ELSE @]
     ELSE [at EXCEPT !.used = @ + width, !.started = TRUE, !.drawn = @ \cup {v}]

(* Mutant: the next screen starts after the ayah that did not fit.         *)
FillDropsRest(q, screen, v) ==
  LET word == FillWord(screen, v, Words[q][v + 1])
  IN CASE screen.full -> screen
       [] ~screen.full /\ word.full -> [word EXCEPT !.next = IF screen.started THEN @ + 1 ELSE @]
       [] OTHER -> IF EndsAyah(q, v) THEN FillSign(word) ELSE word

Fill(q, screen, v) ==
  LET word == FillWord(screen, v, Words[q][v + 1])
  IN IF screen.full THEN screen
     ELSE IF word.full \/ ~EndsAyah(q, v) THEN word
     ELSE FillSign(word)

(* The surah of the cursor, from its ayah to its end.                      *)
RenderByAyah(q, c) ==
  LET rest   == {a \in c.ayah..(AyahCount(q) - 1) : SurahOf(q, a) = c.surah}
      first  == FirstWord(q, c.ayah)
      end    == IF c.ayah \in rest THEN EndOfAyah(q, Largest(rest)) ELSE first
      Screen[v \in first..end] ==
        IF v = first THEN [row |-> 1, used |-> 0, drawn |-> {}, next |-> c.ayah, ayahs |-> 0,
                           started |-> FALSE, full |-> FALSE]
        ELSE Fill(q, Screen[v - 1], v - 1)
  IN [drawn |-> Screen[end].drawn, ayah |-> Screen[end].next, line |-> 0, layout |-> FALSE]

Rendered(q, c) == IF HasLayout(q) THEN RenderLayoutPath(q, c.line) ELSE RenderByAyah(q, c)

-----------------------------------------------------------------------------
(* The cursor                                                              *)

NewState == [surah |-> 1, ayah |-> 0, line |-> 0, screen |-> 1]

LoadSurah(q, c, s) == [c EXCEPT !.surah = s, !.ayah = FirstAyah(q, s), !.screen = 1]

SeekToAyah(q, c, a) ==
  [c EXCEPT !.ayah = a, !.line = IF HasLayout(q) THEN LineOfWord(q, FirstWord(q, a)) ELSE @]

(* Mutant: the ayah is left as it was.                                     *)
NoSync(q, c) == c

(* The ayah of the line's first word, and its surah.                       *)
QuranSyncAyahToLine(q, c) ==
  IF c.line < LineCount(q)
  THEN LET a == AyahOfWord(q, MushafLines[q][c.line + 1])
       IN [c EXCEPT !.ayah = a, !.surah = SurahOf(q, a)]
  ELSE c

-----------------------------------------------------------------------------
(* Opening and leaving                                                     *)

Cursor == [surah : Nat, ayah : Nat, line : Nat, screen : Nat]

QuranTypeOK ==
  /\ quran \in Qurans \cup {NoQuran}
  /\ view \in {"picker", "pages"}
  /\ cur \in Cursor
  /\ status \in {"", "end", "start"} /\ pending \in -1..1
  /\ {stale, drawing} \subseteq BOOLEAN
  /\ Len(history) <= HistoryDepth
  /\ quran # NoQuran =>
       /\ cur.surah \in 1..SurahCount(quran) /\ cur.ayah < AyahCount(quran)
       /\ HasLayout(quran) => cur.line < LineCount(quran)

NowhereYet == [words |-> {}, by |-> "open"]

QuranInit ==
  /\ quran = NoQuran /\ view = "picker" /\ cur = NewState
  /\ next = [ayah |-> 0, line |-> 0, layout |-> FALSE]
  /\ history = <<>> /\ status = ""
  /\ stale = FALSE /\ pending = 0 /\ drawing = FALSE
  /\ progress = [id |-> NoQuran, surah |-> 0, ayah |-> 0, screen |-> 0]
  /\ seen = NowhereYet

(* A place that still exists in this package is resumed.                   *)
Resumable(q, p) ==
  /\ p.id = q
  /\ p.surah \in 1..SurahCount(q) /\ p.ayah < AyahCount(q)
  /\ SurahOf(q, p.ayah) = p.surah

OpenQuran ==
  /\ quran = NoQuran /\ ~drawing
  /\ CalmPicking => pending = 0
  /\ \E q \in Qurans :
       /\ quran' = q
       /\ IF Resumable(q, progress)
          THEN /\ view' = "pages"
               /\ cur' = [SeekToAyah(q, LoadSurah(q, NewState, progress.surah), progress.ayah)
                           EXCEPT !.screen = IF progress.screen > 0 THEN progress.screen ELSE 1]
          ELSE view' = "picker" /\ cur' = NewState
  /\ history' = <<>> /\ stale' = TRUE /\ drawing' = TRUE
  /\ seen' = NowhereYet
  /\ UNCHANGED <<next, status, pending, progress>>

(* Mutant: the screens of the surah left are still remembered.             *)
OpenSelectedKeepsHistory ==
  /\ quran # NoQuran /\ view = "picker" /\ ~drawing
  /\ CalmPicking => pending = 0
  /\ \E s \in 1..SurahCount(quran) :
       cur' = SeekToAyah(quran, LoadSurah(quran, cur, s), FirstAyah(quran, s))
  /\ status' = "" /\ view' = "pages"
  /\ stale' = TRUE /\ drawing' = TRUE /\ seen' = NowhereYet
  /\ UNCHANGED <<quran, history, next, pending, progress>>

OpenSelectedSurah ==
  /\ quran # NoQuran /\ view = "picker" /\ ~drawing
  /\ CalmPicking => pending = 0
  /\ \E s \in 1..SurahCount(quran) :
       cur' = SeekToAyah(quran, LoadSurah(quran, cur, s), FirstAyah(quran, s))
  /\ history' = <<>> /\ status' = "" /\ view' = "pages"
  /\ stale' = TRUE /\ drawing' = TRUE /\ seen' = NowhereYet
  /\ UNCHANGED <<quran, next, pending, progress>>

SaveQuranProgress ==
  progress' = [id |-> quran, surah |-> cur.surah, ayah |-> cur.ayah, screen |-> cur.screen]

(* EXIT: back to the picker, which is drawn at once.                       *)
LeavePages ==
  /\ quran # NoQuran /\ view = "pages" /\ ~drawing
  /\ SaveQuranProgress
  /\ view' = "picker" /\ stale' = FALSE
  /\ UNCHANGED <<quran, cur, next, history, status, pending, drawing, seen>>

CloseQuran ==
  /\ quran' = NoQuran /\ view' = "picker" /\ history' = <<>> /\ cur' = NewState
  /\ stale' = FALSE /\ seen' = NowhereYet

(* EXIT in the picker, MENU in either.                                     *)
LeaveQuran ==
  /\ quran # NoQuran /\ ~drawing
  /\ IF view = "pages" THEN SaveQuranProgress ELSE UNCHANGED progress
  /\ CloseQuran
  /\ UNCHANGED <<next, status, pending, drawing>>

(* Idle sleep saves from either screen; what comes after is a fresh start. *)
QuranSleeps ==
  /\ quran # NoQuran /\ ~drawing /\ pending = 0
  /\ SaveQuranProgress /\ CloseQuran
  /\ next' = [ayah |-> 0, line |-> 0, layout |-> FALSE] /\ status' = ""
  /\ UNCHANGED <<pending, drawing>>

-----------------------------------------------------------------------------
(* Paging                                                                  *)

AtEdge(which) ==
  /\ status' = which /\ stale' = TRUE
  /\ seen' = [seen EXCEPT !.by = "edge"]
  /\ UNCHANGED <<cur, history>>

Push(start) == IF Len(history) < HistoryDepth THEN Append(history, start) ELSE history

Moved(c, by) ==
  /\ cur' = c /\ status' = "" /\ stale' = TRUE
  /\ seen' = [seen EXCEPT !.by = by]

ForwardByLine ==
  IF (HasLayout(quran) /\ next.line >= LineCount(quran)) \/ next.line = cur.line
  THEN AtEdge("end")
  ELSE /\ history' = Push(cur.line)
       /\ Moved(QuranSyncAyahToLine(quran, [cur EXCEPT !.line = next.line,
                                                      !.screen = @ + 1]), "forward")

ForwardByAyah ==
  IF next.ayah >= AyahCount(quran) \/ next.ayah = cur.ayah
  THEN AtEdge("end")
  ELSE /\ history' = Push(cur.ayah)
       /\ Moved([cur EXCEPT !.ayah = next.ayah, !.screen = @ + 1,
                             !.surah = SurahOf(quran, next.ayah)], "forward")

QuranPageForward == IF next.layout THEN ForwardByLine ELSE ForwardByAyah

OneLess(n) == IF n > 1 THEN n - 1 ELSE n

(* Where no start is remembered, one line back is always a place to be.    *)
BackByLine ==
  IF history = <<>> /\ cur.line = 0 THEN AtEdge("start")
  ELSE /\ history' = IF history = <<>> THEN <<>> ELSE Front(history)
       /\ Moved(QuranSyncAyahToLine(quran,
                  [cur EXCEPT !.line = IF history = <<>> THEN @ - 1 ELSE Last(history),
                              !.screen = OneLess(@)]), "back")

BackByAyah ==
  IF history = <<>> THEN AtEdge("start")
  ELSE /\ history' = Front(history)
       /\ Moved([cur EXCEPT !.ayah = Last(history), !.screen = OneLess(@),
                             !.surah = SurahOf(quran, Last(history))], "back")

QuranPageBack == IF next.layout THEN BackByLine ELSE BackByAyah

-----------------------------------------------------------------------------
(* loop()                                                                  *)

(* A step against the others drops them.                                   *)
WheelSteps ==
  /\ quran # NoQuran /\ ~drawing
  /\ \E d \in {-1, 1} : (d > 0 => cur.screen < MaxScreen) /\ pending' = d
  /\ pending' # pending
  /\ UNCHANGED <<quran, view, cur, next, history, status, stale, drawing, progress, seen>>

WheelRests ==
  /\ pending # 0 /\ ~drawing
  /\ pending' = 0
  /\ IF quran # NoQuran /\ view = "pages"
     THEN drawing' = TRUE /\ IF pending > 0 THEN QuranPageForward ELSE QuranPageBack
     ELSE UNCHANGED <<drawing, cur, history, status, stale, seen>>
  /\ UNCHANGED <<quran, view, next, progress>>

(* The end of the pass: Repaint(), unless steps are still gathering.  On   *)
(* a package with lines the surah in the header follows the screen.        *)
Draw ==
  /\ drawing \/ (stale /\ pending = 0 /\ quran # NoQuran)
  /\ drawing' = FALSE
  /\ IF stale /\ pending = 0 /\ view = "pages"
     THEN LET r == Rendered(quran, cur)
          IN /\ next' = [ayah |-> r.ayah, line |-> r.line, layout |-> r.layout]
             /\ cur' = IF r.layout
                       THEN [cur EXCEPT !.surah =
                               SurahOf(quran, AyahOfWord(quran, MushafLines[quran][cur.line + 1]))]
                       ELSE cur
             /\ seen' = [seen EXCEPT !.words = r.drawn]
     ELSE UNCHANGED <<next, cur, seen>>
  /\ stale' = IF pending = 0 THEN FALSE ELSE stale
  /\ UNCHANGED <<quran, view, history, status, pending, progress>>

QuranNext ==
  \/ OpenQuran \/ OpenSelectedSurah \/ LeavePages \/ LeaveQuran \/ QuranSleeps
  \/ WheelSteps \/ WheelRests \/ Draw

QuranSpec == QuranInit /\ [][QuranNext]_quranVars /\ WF_quranVars(Draw) /\ WF_quranVars(WheelRests)

-----------------------------------------------------------------------------
(* Where a screen may start, at a line or at an ayah, and that screen.     *)
Starts(q)        == 0..((IF HasLayout(q) THEN LineCount(q) ELSE AyahCount(q)) - 1)
ScreenFrom(q, n) == Rendered(q, IF HasLayout(q) THEN [NewState EXCEPT !.line = n]
                                ELSE [NewState EXCEPT !.ayah = n, !.surah = SurahOf(q, n)])

(* What fits: a line of the mushaf goes on an empty screen; where there    *)
(* are no lines no word is wider than a row, and an ayah goes on a screen. *)
LinesFit(q) == \A l \in 0..(LineCount(q) - 1) : PlaceLine(q, 1, {}, l).row <= Rows
WordsFit(q) == \A i \in 1..WordCount(q) : Words[q][i] <= Width
Fits(q)     == IF HasLayout(q) THEN LinesFit(q) ELSE WordsFit(q)
AyahsFit(q) == ~HasLayout(q) => \A a \in Starts(q) : ScreenFrom(q, a).ayah > a

Drawn == quran # NoQuran /\ view = "pages" /\ ~stale

(* Paging forward shows every word: a screen starts no later than the word *)
(* after the last one of the screen before it, and ends later; the reader  *)
(* is told "End of the Quran" only on a screen that shows the last word.   *)
NothingSkipped ==
  /\ [][Draw /\ seen.by = "forward" /\ seen'.words # {} =>
           /\ \E w \in seen'.words : \A v \in seen.words : v < w
           /\ \A w \in seen'.words : w - 1 \in seen.words \cup seen'.words]_quranVars
  /\ [][WheelRests /\ view = "pages" /\ status' = "end" =>
           WordCount(quran) - 1 \in seen.words]_quranVars

(* The starts remembered are those of consecutive screens, up to the one   *)
(* on display, unless there was no room for the last of them: going back   *)
(* and forward again shows the same screens.                               *)
HistoryChains ==
  Drawn =>
    \A i \in 1..Len(history) : i < HistoryDepth =>
      LET start(n) == IF n > Len(history)
                      THEN IF HasLayout(quran) THEN cur.line ELSE cur.ayah
                      ELSE history[n]
          r == ScreenFrom(quran, start(i))
      IN start(i + 1) = IF HasLayout(quran) THEN r.line ELSE r.ayah

(* The ayah the reader counts as its place is on the screen, and the place *)
(* saved is one the package will be opened at again.                       *)
PlaceHonest ==
  /\ Drawn => \E w \in seen.words : AyahOfWord(quran, w) = cur.ayah
  /\ progress.id # NoQuran => Resumable(progress.id, progress)

(* Resuming at the place on the screen would show some of the words that   *)
(* are on it (main.cpp: what is derived from the line "keeps the stored    *)
(* position honest", also in an ayah that runs for pages).                 *)
ResumesThere ==
  Drawn => Rendered(quran, SeekToAyah(quran, cur, cur.ayah)).drawn \cap seen.words # {}
================================================================================
