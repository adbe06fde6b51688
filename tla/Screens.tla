-------------------------------- MODULE Screens --------------------------------
(***************************************************************************)
(* The screens and the buttons that move between them (main.cpp:           *)
(* HandleEvent() and what it calls), with the pool of SdStorage's file     *)
(* handles the readers draw from.                                          *)
(*                                                                         *)
(* ui is the set of globals the handlers share, as one record; a handler   *)
(* is an operator from the record before to the record after, made of the  *)
(* operators for the functions it calls, in their order.  loop() runs the  *)
(* waiting events one after the other, then what HTTP asks for, then       *)
(* repaints if g_dirty asks for it and no wheel step is pending; since a   *)
(* step may be pending at any time, the actions below interleave freely.   *)
(* What a reader does inside its screen is PageBook, TextReader and        *)
(* QuranPaging; here it is a page number.                                  *)
(***************************************************************************)
EXTENDS Integers, Sequences, FiniteSets

CONSTANTS
  Packages,     (* the packages that may be on the card                    *)
  TypeOf,       (* TypeOf[id]: "quran", "book", "translation" or "tafsir"  *)
  Pictured,     (* the books with page pictures                            *)
  Aligned,      (* Aligned[id]: the Quran a translation goes with          *)
  Surahs,       (* surahs of a Quran                                       *)
  Pages,        (* pages of a book or of a surah                           *)
  Deltas,       (* how far one wheel event may go                          *)
  MaxEntries,   (* net::kMaxLibraryEntries                                 *)
  MaxMarks,     (* net::kMaxBookmarks                                      *)
  VisibleRows,  (* ui::kLibraryMaxVisibleRows                              *)
  PickerRows,   (* ui::kSurahPickerMaxVisibleRows                          *)
  MaxOpenFiles, (* SdStorage::kMaxOpenFiles                                *)
  None

ASSUME ScreensAssumption ==
  /\ None \notin Packages
  /\ {Surahs, Pages, VisibleRows, PickerRows, MaxOpenFiles, MaxMarks} \subseteq Nat \ {0}
  /\ MaxEntries \in Nat /\ Deltas \subseteq Int

VARIABLES
  index,   (* g_library_index: the packages in row order                   *)
  ui,      (* the globals below                                            *)
  fresh    (* history: what would be drawn now is what was drawn last      *)

screenVars == <<index, ui, fresh>>

Modes == {"home", "library", "bookmarks", "reader", "pages", "quran", "picker", "selftest"}
Types == <<"quran", "book", "translation", "tafsir">>
Tiles == <<"transfer", "clock", "device", "bookmarks">>
Slots == 1..MaxOpenFiles
Limit(n, lo, hi) == IF n > hi THEN hi ELSE IF n < lo THEN lo ELSE n

(* pool: which file each handle has open; quran, pages, trans: the handle  *)
(* g_quran_file, g_page_file and g_trans_file point to, 0 for none.        *)
ScreensInit ==
  /\ index \in {s \in UNION {[1..n -> Packages] : n \in 0..MaxEntries} :
                  \A i, j \in DOMAIN s : s[i] = s[j] => i = j}
  /\ ui = [mode |-> "home", dirty |-> TRUE, homePending |-> TRUE,
           pool |-> [i \in Slots |-> None], quran |-> 0, pages |-> 0, trans |-> 0,
           translating |-> FALSE, listed |-> 0, pickTrans |-> FALSE, pick |-> 0, pickTop |-> 0,
           book |-> None, surah |-> 1, page |-> 1, jump |-> FALSE, target |-> 1,
           view |-> "categories", category |-> "quran", selected |-> 0, top |-> 0,
           state |-> <<"categories", "quran">>, said |-> "",
           marks |-> <<>>, markRow |-> 0, last |-> None, markSaid |-> ""]
  /\ fresh = FALSE

-----------------------------------------------------------------------------
(* File handles                                                            *)

(* The first slot not in use, or 0: "no free file handle".                 *)
FreeHandle(s) == LET free == {i \in Slots : s.pool[i] = None}
                 IN  IF free = {} THEN 0 ELSE CHOOSE i \in free : \A j \in free : i <= j

Opened(s, id)  == [s EXCEPT !.pool[FreeHandle(s)] = id]
Released(s, h) == [s EXCEPT !.pool = [i \in Slots |-> IF i = h THEN None ELSE s.pool[i]]]

LeavesQuranOpen(s)  == [s EXCEPT !.quran = 0]

CloseQuran(s)       == [Released(s, s.quran) EXCEPT !.quran = 0]

ClosePageBook(s)    == [Released(s, s.pages) EXCEPT !.pages = 0]
CloseTranslation(s) == [Released(s, s.trans) EXCEPT !.trans = 0, !.translating = FALSE]

-----------------------------------------------------------------------------
(* The rows of a list                                                      *)

OfType(type)         == {i \in DOMAIN index : TypeOf[index[i]] = type}
CountOfType(type)    == Cardinality(OfType(type))
EntryOfType(type, n) ==
  index[CHOOSE i \in OfType(type) : Cardinality({j \in OfType(type) : j <= i}) = n]

RowCount(view, type) ==
  IF view = "categories" THEN Len(Types) + Len(Tiles) ELSE CountOfType(type) + 1

RowKind(view, type, row) ==
  IF row >= RowCount(view, type) THEN "none"
  ELSE IF view = "items" THEN IF row = 0 THEN "back" ELSE "item"
  ELSE IF row < Len(Types) THEN "category" ELSE Tiles[row - Len(Types) + 1]

(* Bookmarks: the place last read, when there is one, before the marks.    *)
MarkRows(s) == Len(s.marks) + (IF s.last = None THEN 0 ELSE 1)
MarkAt(s, row) == IF s.last # None /\ row = 0 THEN [id |-> s.last, page |-> 1]
                  ELSE s.marks[IF s.last = None THEN row + 1 ELSE row]

(* A list scrolls no further than it must to keep its selection in view.   *)
Scroll(top, row, visible) ==
  IF row < top THEN row ELSE IF row >= top + visible THEN row - visible + 1 ELSE top

SurahPickerTotal(s) == IF s.pickTrans THEN s.listed ELSE Surahs

-----------------------------------------------------------------------------
(* Going to a screen                                                       *)

(* What nobody reads again before it is set (the place in a reader that    *)
(* was left, the row of a list that was left) is put back to its start.    *)
Tidy(s) == [s EXCEPT !.book = None, !.surah = 1, !.page = 1, !.jump = FALSE, !.target = 1,
                     !.listed = 0, !.pick = 0, !.pickTop = 0,
                     !.markRow = 0, !.last = None, !.markSaid = ""]
Show(s, mode)  == [(IF mode \in {"library", "home", "selftest"} THEN Tidy(s) ELSE s) EXCEPT
                     !.mode = mode, !.dirty = TRUE]
Say(s)         == [s EXCEPT !.said = "why", !.dirty = TRUE]

RefreshLibraryState(s) == [s EXCEPT !.state = <<s.view, s.category>>]

EntersSilently(s, type) ==
  [s EXCEPT !.view = "items", !.category = type, !.selected = 0, !.top = 0, !.said = ""]

EnterLibraryCategory(s, type) ==
  [s EXCEPT !.view = "items", !.category = type, !.selected = 0, !.top = 0,
            !.said = "", !.dirty = TRUE]

LeaveLibraryCategory(s) ==
  IF s.view = "categories" THEN s
  ELSE [s EXCEPT !.view = "categories", !.category = "quran", !.selected = 0, !.top = 0, !.said = "", !.dirty = TRUE]

Indexed == {index[i] : i \in DOMAIN index}

(* The place last read, in pages.bin or progress.bin, if its book is still *)
(* in the index.                                                           *)
LastRead == {None} \cup {id \in Indexed : id \in Pictured \/ TypeOf[id] = "quran"}
EnterBookmarks(s, last) ==
  [Show(s, "bookmarks") EXCEPT !.last = last, !.markRow = 0, !.markSaid = ""]

PickFrom(s, row) == [Show(s, "picker") EXCEPT !.pick = row, !.pickTop = Scroll(0, row, PickerRows)]
KeepsThePicker(s, row) == PickFrom(s, IF row >= Surahs THEN 0 ELSE row)

EnterSurahPicker(s, row) ==
  [PickFrom(s, IF row >= Surahs THEN 0 ELSE row) EXCEPT !.pickTrans = FALSE]

EnterTranslationSurahPicker(s) ==
  IF s.listed = 0 THEN [s EXCEPT !.dirty = TRUE]
  ELSE [PickFrom(s, IF s.surah <= s.listed THEN s.surah - 1 ELSE 0) EXCEPT !.pickTrans = TRUE]

ShowTranslationSurah(s, surah, page) ==
  [s EXCEPT !.surah = surah, !.page = page, !.translating = TRUE, !.dirty = TRUE]

(* LoadAlignedSurahs() needs the aligned Quran on the card and one more    *)
(* handle, which it gives back; whole: that package opens.                 *)
LoadAlignedSurahs(s, id, whole) ==
  [s EXCEPT !.listed = IF whole /\ Aligned[id] \in Indexed /\ FreeHandle(s) # 0
                       THEN Surahs ELSE 0]

-----------------------------------------------------------------------------
(* Opening a package; how it goes: "missing" (no such file, or no handle), *)
(* "refused" (OpenPackage() finds a fault), "unreadable" (it opens but     *)
(* holds nothing to show, or memory runs out) or "opens".                  *)

Outcomes == {"missing", "refused", "unreadable", "opens"}

OpenBook(s, id, how) ==
  LET h    == FreeHandle(s)
      held == ClosePageBook(CloseTranslation(Opened(s, id)))
  IN  IF how = "missing" \/ h = 0 THEN Say(s)
      ELSE IF how # "opens" THEN Say(Released(held, h))
      ELSE IF id \in Pictured
           THEN [Show(Tidy(held), "pages") EXCEPT !.pages = h, !.book = id, !.page = 1, !.jump = FALSE,
                                            !.said = ""]
           ELSE [Show(Tidy(Released(held, h)), "reader") EXCEPT !.book = id, !.page = 1, !.said = ""]

OpenTranslation(s, id, place, how, whole) ==
  LET clear == ClosePageBook(CloseTranslation(s))
      h     == FreeHandle(clear)
      held  == [Opened(clear, id) EXCEPT !.trans = h]
      ready == LoadAlignedSurahs(Tidy(held), id, whole)
      surah == IF place.surah <= ready.listed THEN place.surah ELSE 1
  IN  IF how = "missing" \/ h = 0 THEN Say(clear)
      ELSE IF how # "opens" THEN CloseTranslation(Say(held))
      ELSE [Show(ShowTranslationSurah(ready, surah, place.page), "reader") EXCEPT
              !.book = id, !.said = ""]

(* resumes: progress.bin is about this package and its place still exists. *)
OpenQuran(s, id, place, how, resumes) ==
  LET clear == CloseQuran(s)
      h     == FreeHandle(clear)
      held  == [Opened(clear, id) EXCEPT !.quran = h]
  IN  IF how = "missing" \/ h = 0 THEN Say(clear)
      ELSE IF how # "opens" THEN CloseQuran(Say(held))
      ELSE IF resumes
           THEN [Show(Tidy(held), "quran") EXCEPT !.book = id, !.surah = place.surah, !.page = place.page]
           ELSE [EnterSurahPicker(Tidy(held), 0) EXCEPT !.book = id]

OpenEntry(s, id, how, luck) ==
  LET start == [surah |-> 1, page |-> 1]
  IN  CASE TypeOf[id] = "book"  -> OpenBook(s, id, how)
        [] TypeOf[id] = "quran" -> OpenQuran(s, id, start, how, luck)
        [] OTHER                -> OpenTranslation(s, id, start, how, luck)

(* Every kind of mark opens through its reader's own way of resuming; if   *)
(* the Bookmarks screen is still up afterwards, it says why.               *)
OpenBookmark(s, mark, how, luck) ==
  LET place   == [surah |-> 1, page |-> mark.page]
      cleared == [s EXCEPT !.said = ""]
      after   == CASE TypeOf[mark.id] = "quran" -> OpenQuran(cleared, mark.id, place, how, luck)
                   [] TypeOf[mark.id] = "book"  ->
                        LET opened == OpenBook(cleared, mark.id, how)
                        IN  IF opened.mode = "bookmarks" THEN opened
                            ELSE [opened EXCEPT !.page = mark.page]
                   [] OTHER -> OpenTranslation(cleared, mark.id, place, how, luck)
  IN  IF mark.id \notin Indexed
      THEN [s EXCEPT !.markSaid = "gone", !.dirty = TRUE]
      ELSE IF after.mode = "bookmarks" THEN [after EXCEPT !.markSaid = "why", !.dirty = TRUE]
      ELSE after

Without(marks, k) == SubSeq(marks, 1, k - 1) \o SubSeq(marks, k + 1, Len(marks))

(* The same mark moves to the front; the oldest goes when there is no room. *)
AddBookmarkHere(s) ==
  LET mark == [id |-> s.book, page |-> s.page]
      same == {k \in DOMAIN s.marks : s.marks[k] = mark}
      slot == IF same # {} THEN CHOOSE k \in same : \A j \in same : k <= j
              ELSE IF Len(s.marks) < MaxMarks THEN Len(s.marks) + 1 ELSE Len(s.marks)
  IN  [s EXCEPT !.marks = <<mark>> \o Without(@, slot), !.dirty = TRUE]

DeletesUnderTheRow(s) ==
  LET k == IF s.last = None THEN s.markRow + 1 ELSE s.markRow
  IN  IF k \notin 1..Len(s.marks) THEN s
      ELSE [s EXCEPT !.marks = Without(@, k),
                     !.markSaid = "deleted", !.dirty = TRUE]

DeleteSelectedBookmark(s) ==
  LET k     == IF s.last = None THEN s.markRow + 1 ELSE s.markRow
      fewer == [s EXCEPT !.marks = Without(@, k)]
      total == MarkRows(fewer)
  IN  IF k \notin 1..Len(s.marks) THEN s
      ELSE [fewer EXCEPT !.markRow = IF total > 0 /\ @ >= total THEN total - 1 ELSE @,
                         !.markSaid = "deleted", !.dirty = TRUE]

-----------------------------------------------------------------------------
(* The buttons                                                             *)

(* What a repaint would draw, of what the buttons change.                  *)
Frame(s) ==
  CASE s.mode = "library"   -> <<"library", s.view, s.category, s.selected, s.top, s.said>>
    [] s.mode = "bookmarks" -> <<"bookmarks", s.markRow, Len(s.marks), s.last, s.markSaid>>
    [] s.mode = "picker"    -> <<"picker", s.pickTrans, s.pick, s.pickTop>>
    [] s.mode = "reader"    -> <<"reader", s.book, s.page, s.translating, s.surah>>
    [] s.mode = "pages"     -> <<"pages", s.book, s.page, s.jump, IF s.jump THEN s.target ELSE 0>>
    [] s.mode = "quran"     -> <<"quran", s.book, s.page, s.surah>>
    [] OTHER                -> <<s.mode>>

(* Repaint() leaves the home screen to PollHomeScreen().                   *)
Repainted(s) ==
  IF s.mode = "home" THEN [s EXCEPT !.homePending = TRUE, !.dirty = FALSE]
  ELSE [(IF s.mode = "library" THEN RefreshLibraryState(s) ELSE s) EXCEPT !.dirty = FALSE]

Leaves(s) ==
  /\ ui' = s
  /\ fresh' = (fresh /\ Frame(s) = Frame(ui))
  /\ UNCHANGED index
Draws(s) ==
  /\ ui' = Repainted(s)
  /\ fresh' = (s.mode # "home" \/ (fresh /\ Frame(s) = Frame(ui)))
  /\ UNCHANGED index

On(mode) == ui.mode = mode

(* MENU: a chapter on in "Go to page", a bookmark in a translation, the    *)
(* library from a reader or a list, else round home, library, self-test.   *)
NextChapter == On("pages") /\ ui.jump
               /\ \E t \in 1..Pages : Leaves([ui EXCEPT !.target = t, !.dirty = TRUE])
MenuMarks   == On("reader") /\ ui.translating /\ Leaves(AddBookmarkHere(ui))
MenuMoves ==
  /\ ~(On("pages") /\ ui.jump) /\ ~(On("reader") /\ ui.translating)
  /\ LET Library(s) == Show(s, "library")
         next == CASE On("reader")                  -> Library(CloseTranslation(ui))
                   [] On("bookmarks")               -> Library(ui)
                   [] On("pages")                   -> Library(ClosePageBook(ui))
                   [] On("picker") /\ ui.pickTrans  -> Library(CloseTranslation(ui))
                   [] On("quran") \/ (On("picker") /\ ~ui.pickTrans) -> Library(CloseQuran(ui))
                   [] On("home")                    -> Library(ui)
                   [] On("library")                 -> Show(ui, "selftest")
                   [] OTHER                         -> Show(ui, "home")
     IN  Leaves([next EXCEPT !.said = "", !.dirty = TRUE])
Menu == NextChapter \/ MenuMarks \/ MenuMoves

(* EXIT: one level back, and drawn at once.                                *)
Back(s) ==
  CASE s.mode = "bookmarks" -> Show(s, "library")
    [] s.mode = "pages" /\ s.jump -> [s EXCEPT !.jump = FALSE, !.target = 1, !.dirty = TRUE]
    [] s.mode = "pages" /\ ~s.jump -> Show(ClosePageBook(s), "library")
    [] s.mode = "reader" -> Show(CloseTranslation(s), "library")
    [] s.mode = "quran" -> [EnterSurahPicker(s, s.surah - 1) EXCEPT !.page = 1, !.surah = 1]
    [] s.mode = "picker" /\ s.pickTrans -> Show(s, "reader")
    [] s.mode = "picker" /\ ~s.pickTrans -> Show(CloseQuran(s), "library")
    [] s.mode = "library" /\ s.view = "items" -> LeaveLibraryCategory(s)
    [] OTHER -> Show(s, "home")
Exit == Draws(Back(ui))

(* OK                                                                      *)
LibraryOk ==
  /\ On("library")
  /\ LET s    == RefreshLibraryState(ui)
         row  == s.selected
         kind == RowKind(s.view, s.category, row)
     IN \/ kind = "transfer" /\ \E said \in {"", "why"} : Leaves([s EXCEPT !.said = said, !.dirty = TRUE])
        \/ kind = "category" /\ Leaves(IF CountOfType(Types[row + 1]) = 0 THEN Say(s)
                                       ELSE EnterLibraryCategory(s, Types[row + 1]))
        \/ kind = "back" /\ Leaves(LeaveLibraryCategory(s))
        \/ kind = "clock" /\ Leaves([s EXCEPT !.mode = "home", !.said = "", !.homePending = TRUE])
        \/ kind = "bookmarks" /\ \E last \in LastRead : Leaves(EnterBookmarks(s, last))
        \/ kind = "device" /\ Leaves([Show(s, "selftest") EXCEPT !.said = ""])
        \/ kind = "item" /\ \E how \in Outcomes, luck \in BOOLEAN :
             Leaves(OpenEntry(s, EntryOfType(s.category, row), how, luck))
        \/ kind = "none" /\ Leaves(s)

BookmarksOk ==
  /\ On("bookmarks")
  /\ IF ui.markRow >= MarkRows(ui) THEN Leaves(ui)
     ELSE \E how \in Outcomes, luck \in BOOLEAN :
            Leaves(OpenBookmark(ui, MarkAt(ui, ui.markRow), how, luck))

(* In a text, another size: it repaginates, and the page with it.          *)
ReaderOk ==
  /\ On("reader")
  /\ IF ui.translating THEN Leaves(EnterTranslationSurahPicker(ui))
     ELSE \E p \in 1..Pages : Leaves([ui EXCEPT !.page = p, !.dirty = TRUE])

PagesOk ==
  /\ On("pages")
  /\ Leaves(IF ui.jump THEN [ui EXCEPT !.jump = FALSE, !.page = ui.target, !.target = 1, !.dirty = TRUE]
            ELSE [ui EXCEPT !.jump = TRUE, !.target = ui.page, !.dirty = TRUE])

OpenSelectedSurah ==
  /\ On("picker")
  /\ LET surah == ui.pick + 1
     IN  IF ui.pick >= SurahPickerTotal(ui) THEN Leaves(ui)
         ELSE IF ui.pickTrans
              THEN Leaves([ShowTranslationSurah(ui, surah, 1) EXCEPT !.mode = "reader"])
              ELSE \/ Leaves([Show(ui, "quran") EXCEPT !.surah = surah, !.page = 1])
                   \/ Leaves(ui)  (* loadSurah() cannot read it *)

OtherOk == ui.mode \in {"quran", "selftest"} /\ Leaves([ui EXCEPT !.dirty = TRUE])

Ok == LibraryOk \/ BookmarksOk \/ ReaderOk \/ PagesOk \/ OpenSelectedSurah \/ OtherOk

(* OK held: keep this place, delete a mark, another text size, or the      *)
(* transfer mode, which may have to say that no network is saved.          *)
OkHeld ==
  LET s == [ui EXCEPT !.dirty = TRUE]
  IN  \/ On("reader") /\ ui.translating /\ \E p \in 1..Pages : Leaves([s EXCEPT !.page = p])
      \/ (ui.mode \in {"pages", "quran"} \/ (On("reader") /\ ~ui.translating)) /\ Leaves(AddBookmarkHere(s))
      \/ On("bookmarks") /\ Leaves(DeleteSelectedBookmark(s))
      \/ ui.mode \in {"home", "library", "picker", "selftest"}
         /\ \E said \in {ui.said, "why"} : Leaves([s EXCEPT !.said = said])

(* EXIT held is FactoryReset(), drawn at once.                             *)
ExitHeld == Draws([ui EXCEPT !.dirty = TRUE])

-----------------------------------------------------------------------------
(* The wheel                                                               *)

(* The rows counted are those of g_library_state, as of the last refresh.  *)
MoveLibrarySelection(delta) ==
  LET row == Limit(ui.selected + delta, 0, RowCount(ui.state[1], ui.state[2]) - 1)
  IN  Leaves(IF row = ui.selected THEN ui
             ELSE [ui EXCEPT !.selected = row, !.top = Scroll(@, row, VisibleRows),
                             !.said = "", !.dirty = TRUE])

MoveMark(delta) ==
  LET total == MarkRows(ui)
      row   == IF total = 0 THEN 0 ELSE Limit(ui.markRow + delta, 0, total - 1)
  IN  Leaves(IF row = ui.markRow THEN ui
             ELSE [ui EXCEPT !.markRow = row, !.markSaid = "", !.dirty = TRUE])

MoveSurahPickerSelection(delta) ==
  LET row == Limit(ui.pick + delta, 0, SurahPickerTotal(ui) - 1)
  IN  Leaves(IF SurahPickerTotal(ui) = 0 \/ row = ui.pick THEN ui
             ELSE [ui EXCEPT !.pick = row, !.pickTop = Scroll(@, row, PickerRows), !.dirty = TRUE])

(* A translation goes on into the next surah, and back into the one        *)
(* before; a book stops at its ends.                                       *)
TurnReader(delta) ==
  LET next == ui.page + delta
  IN  Leaves(IF ui.translating /\ next > Pages /\ ui.surah < ui.listed
             THEN ShowTranslationSurah(ui, ui.surah + 1, 1)
             ELSE IF ui.translating /\ next < 1 /\ ui.surah > 1 /\ ui.listed > 0
             THEN ShowTranslationSurah(ui, ui.surah - 1, Pages)
             ELSE IF Limit(next, 1, Pages) = ui.page THEN ui
             ELSE [ui EXCEPT !.page = Limit(next, 1, Pages), !.dirty = TRUE])

TurnPages(delta) ==
  LET to == Limit((IF ui.jump THEN ui.target ELSE ui.page) + delta, 1, Pages)
  IN  Leaves(IF to = (IF ui.jump THEN ui.target ELSE ui.page) THEN ui
             ELSE IF ui.jump THEN [ui EXCEPT !.target = to, !.dirty = TRUE]
             ELSE [ui EXCEPT !.page = to, !.dirty = TRUE])

(* A screen on or back may cross into another surah.                       *)
TurnQuran == \E p \in 1..Pages, n \in 1..Surahs : Leaves([ui EXCEPT !.page = p, !.surah = n, !.dirty = TRUE])

Wheel(delta) ==
  \/ On("library") /\ MoveLibrarySelection(delta)
  \/ On("bookmarks") /\ MoveMark(delta)
  \/ On("pages") /\ TurnPages(delta)
  \/ On("reader") /\ TurnReader(delta)
  \/ On("quran") /\ TurnQuran
  \/ On("picker") /\ MoveSurahPickerSelection(delta)
  \/ On("selftest") /\ Leaves([ui EXCEPT !.dirty = TRUE])

-----------------------------------------------------------------------------
(* The rest of loop()                                                      *)

(* HTTP installs a package at the end of the index, or deletes one; it     *)
(* asks for no repaint and closes no reader.                               *)
Installed ==
  /\ Len(index) < MaxEntries
  /\ \E id \in Packages \ Indexed : index' = Append(index, id)
  /\ UNCHANGED <<ui, fresh>>
Deleted ==
  /\ \E i \in DOMAIN index : index' = Without(index, i)
  /\ UNCHANGED <<ui, fresh>>

Repaint == ui.dirty /\ Draws(ui)

PollHomeScreen ==
  /\ On("home") /\ ui.homePending
  /\ ui' = [ui EXCEPT !.homePending = FALSE] /\ fresh' = TRUE
  /\ UNCHANGED index

ScreensNext ==
  \/ Menu \/ Exit \/ Ok \/ OkHeld \/ ExitHeld
  \/ \E d \in Deltas : Wheel(d)
  \/ Installed \/ Deleted \/ Repaint \/ PollHomeScreen

ScreensSpec == ScreensInit /\ [][ScreensNext]_screenVars

-----------------------------------------------------------------------------
(* A file is held open exactly while a screen needs it: the Quran's for    *)
(* its pages and its surah list, a translation's for its pages and its     *)
(* list, a picture book's for its pages, and none otherwise, whichever way *)
(* the screen was reached or left and whatever failed to open on the way.  *)
(* So the four handles never run out, and an open fails only for a reason  *)
(* on the card (SdStorage::open(); MENU used to leak the Quran's handle).  *)
HandlesMatchScreen ==
  /\ {i \in Slots : ui.pool[i] # None} = {ui.quran, ui.pages, ui.trans} \ {0}
  /\ ui.quran # 0 <=> ui.mode = "quran" \/ (ui.mode = "picker" /\ ~ui.pickTrans)
  /\ ui.trans # 0 <=> (ui.mode = "reader" /\ ui.translating) \/ (ui.mode = "picker" /\ ui.pickTrans)
  /\ ui.pages # 0 <=> ui.mode = "pages"

(* What is on the glass is what the globals say, unless a repaint is       *)
(* already asked for: no handler changes a screen, a selection, a page or  *)
(* a message and leaves the old picture up (g_dirty, g_home_full_pending). *)
GlassIsCurrent ==
  ui.dirty \/ (ui.mode = "home" /\ ui.homePending) \/ fresh

(* EXIT always leads out: each press is one level nearer to the clock, so  *)
(* no chain of screens, however it was entered, keeps the user.            *)
Depth(s) ==
  CASE s.mode = "home" -> 0
    [] s.mode = "selftest" \/ (s.mode = "library" /\ s.view = "categories") -> 1
    [] s.mode = "library" /\ s.view = "items" -> 2
    [] s.mode \in {"quran", "pages"} -> IF s.mode = "pages" /\ ~s.jump THEN 3 ELSE 4
    [] s.mode = "picker" /\ s.pickTrans -> 4
    [] OTHER -> 3
ExitLeadsOut == [][Exit => ui'.mode = "home" \/ Depth(ui') < Depth(ui)]_screenVars

(* The selection is on a row of its list and the row is in view: after a   *)
(* bookmark is deleted, a surah list is entered at any surah, or the list  *)
(* under the selection is exchanged.                                       *)
SelectionInView ==
  /\ ui.mode = "bookmarks" /\ MarkRows(ui) > 0 => ui.markRow < MarkRows(ui)
  /\ ui.mode = "picker" => ui.pick < SurahPickerTotal(ui) /\ ui.pick \in ui.pickTop..(ui.pickTop + PickerRows - 1)
  /\ ui.selected \in ui.top..(ui.top + VisibleRows - 1)
================================================================================
