-------------------------------- MODULE Panel --------------------------------
(***************************************************************************)
(* What gets onto the e-ink glass: the display driver                      *)
(* (drivers/epd/epd750_display.cpp), the repaint of loop(), the shelf of   *)
(* books whose covers are grey, and the home screen, a clock with photos   *)
(* that draws itself (main.cpp).                                           *)
(*                                                                         *)
(* A black and white frame is a record of what it shows; the greys are a   *)
(* sequence of pictures, those of the tiles of the shelf or the photo.     *)
(* The greys are on the glass only: framebuffer_ and pushed_ do not hold   *)
(* them.  Screens without greys are one screen, "other", with something on *)
(* it that changes.                                                        *)
(*                                                                         *)
(* Time goes in ticks while home is on the screen.  The other screens read *)
(* no clock, so the time spent there passes at once when home comes back.  *)
(***************************************************************************)
EXTENDS Integers, Sequences, FiniteSets

CONSTANTS
  Books,        (* the books that may be in the index                      *)
  Covered,      (* those with a cover                                      *)
  Columns,      (* ui::kLibraryShelfColumns                                *)
  ShelfRows,    (* ui::kLibraryShelfRows                                   *)
  MaxPartials,  (* app::kPartialsBeforeFullRefresh                         *)
  Photos,       (* the photos that may be on the card: numbers, as by name *)
  Interval,     (* app::kPhotoIntervalMinutes                              *)
  Day,          (* minutes in an hour, and of a day: loop() never stands   *)
                (* still for long enough to miss a whole hour              *)
  TicksAMinute, (* how time is cut up here                                 *)
  Gap           (* kHomeMinGreyGapMs, in ticks                             *)

ASSUME PanelAssumption ==
  /\ Covered \subseteq Books
  /\ {Columns, ShelfRows, Interval, Day, TicksAMinute} \subseteq Nat \ {0}
  /\ Photos \subseteq Nat \ {0}
  /\ IsFiniteSet(Photos)
  /\ {MaxPartials, Gap} \subseteq Nat
  /\ Gap <= Interval * TicksAMinute

VARIABLES
  mode, dirty, force,    (* g_screen_mode, g_dirty, g_force_full_refresh   *)
  books, selected,       (* the books of the index in order, the row chosen*)
  said,                  (* the status lines, and what "other" shows       *)
  fb, pushed, greyOn,    (* framebuffer_, pushed_, grey_on_glass_          *)
  partials,              (* partials_since_full_                           *)
  shelf,                 (* g_shelf_grey_page, g_shelf_grey_selected       *)
  home,                  (* the g_home_* and g_photo_* globals             *)
  time,                  (* the clock, whether it is set, and millis() as  *)
                         (* the age of the last grey frame                 *)
  photos,                (* the photos on the card                         *)
  glass,                 (* what can be seen                               *)
  past                   (* history, see below                             *)

panelVars == <<mode, dirty, force, books, selected, said, fb, pushed, greyOn, partials,
               shelf, home, time, photos, glass, past>>
driver    == <<fb, pushed, greyOn, partials>>

Tiles   == Columns * ShelfRows
Limit(n, lo, hi) == IF n > hi THEN hi ELSE IF n < lo THEN lo ELSE n
NoTime  == [day |-> -1, minute |-> -1]
OldAge  == Interval * TicksAMinute
NoShelf == [page |-> -1, selected |-> 0]
BookLists == {s \in UNION {[1..n -> Books] : n \in 0..Cardinality(Books)} :
                \A i, j \in DOMAIN s : s[i] = s[j] => i = j}

(* Time as localtime_r() has it; two days stand for all of them.           *)
Now     == [day    |-> time.clock \div (Day * TicksAMinute),
            minute |-> (time.clock \div TicksAMinute) % Day]
LocalTime == IF time.valid THEN Now ELSE NoTime

------------------------------------------------------------------------------
(* Frames                                                                  *)

Frame(screen, tiles, text, t) == [screen |-> screen, tiles |-> tiles, text |-> text, time |-> t]
Blank == Frame("none", <<>>, <<>>, NoTime)

RowCount       == Len(books) + 1
ShelfPageStart == selected - (selected % Tiles)
Visible        == Limit(RowCount - ShelfPageStart, 0, Tiles)

(* What DrawShelf() puts in tile i of the page: a picture, none for Back,  *)
(* in a box; its title; and whether that is inverted.                      *)
ShelfTile(i) ==
  LET row  == ShelfPageStart + i - 1
      item == row < Len(books)
      b    == IF item THEN <<books[row + 1]>> ELSE <<>>
  IN [title |-> b, marked |-> row = selected,
      box   |-> IF item THEN (IF books[row + 1] \in Covered THEN "cover" ELSE "icon") ELSE "back"]
ShelfFrame == Frame("shelf", [i \in 1..Visible |-> ShelfTile(i)],
                    <<said.status, Len(books), IF RowCount > Tiles THEN ShelfPageStart ELSE 0>>,
                    NoTime)
ShelfGreys == [i \in 1..Visible |->
                 IF ShelfTile(i).box = "cover" THEN ShelfTile(i).title ELSE <<>>]

(* The title strip of a row of tiles.                                      *)
ShelfRow(row)   == (row % Tiles) \div Columns
InBand(i, r)    == (i - 1) \div Columns = r
WithBand(frame, from, r) ==
  [frame EXCEPT !.tiles =
     [i \in DOMAIN frame.tiles |->
        IF InBand(i, r) /\ i \in DOMAIN from.tiles
        THEN [frame.tiles[i] EXCEPT !.title = from.tiles[i].title,
                                    !.marked = from.tiles[i].marked]
        ELSE frame.tiles[i]]]
OnlyShelfTitlesChanged(now, r1, r2) == WithBand(WithBand(pushed, now, r1), now, r2) = now

OtherFrame == Frame("other", <<>>, <<said.status, said.turn>>, NoTime)

HomeFrame(h) == Frame("home", <<>>, <<said.status, h.shown, h.count>>, LocalTime)
HomeGreys(h) == IF h.shown # 0 THEN <<<<h.photo>>>> ELSE <<>>

------------------------------------------------------------------------------
(* Epd750Display.  ok: panelFinished(); after a refresh that did not       *)
(* finish nobody knows what the glass shows until one redraws all of it.   *)

Flushed(ok, whole) ==
  [past EXCEPT !.lost = IF ok THEN @ /\ ~whole ELSE TRUE, !.polled = mode = "home"]

(* History: may the glass hold something else, has a book come or gone     *)
(* since the greys on it were drawn, has PollHomeScreen() run since        *)
(* anything happened?                                                      *)
Stirred == past' = [past EXCEPT !.polled = FALSE]

Flush(frame, partial, ok) ==
  LET real == partial /\ ~greyOn /\ partials < MaxPartials
  IN /\ fb' = frame /\ pushed' = frame /\ greyOn' = FALSE
     /\ partials' = IF real THEN partials + 1 ELSE 0
     /\ glass' = [bw |-> frame, grey |-> <<>>]
     /\ past' = Flushed(ok, ~real)

FlushGrey(frame, greys, ok) ==
  /\ fb' = frame /\ pushed' = frame /\ greyOn' = TRUE
  /\ partials' = 0
  /\ glass' = [bw |-> frame, grey |-> greys]
  /\ past' = [Flushed(ok, TRUE) EXCEPT !.moved = FALSE]

(* flushWindow() of title strips or of the clock: sent and shown are what  *)
(* they make of pushed and of what the glass shows.                        *)
FlushWindow(frame, sent, shown, ok) ==
  /\ fb' = frame /\ pushed' = sent
  /\ glass' = [glass EXCEPT !.bw = shown]
  /\ past' = Flushed(ok, FALSE)
  /\ UNCHANGED <<greyOn, partials>>

------------------------------------------------------------------------------
(* Repaint()                                                               *)

(* FlushShelfGrey(): the title strips alone if the greys on the glass can  *)
(* stay, else all of it.                                                   *)
TitlesOnly(frame) ==
  /\ ~force /\ greyOn
  /\ shelf.page = ShelfPageStart
  /\ OnlyShelfTitlesChanged(frame, ShelfRow(shelf.selected), ShelfRow(selected))

(* A plausible slip: the strip of the row left is forgotten.             *)
FlushNewTitle(frame, ok) ==
  /\ LET strip(f) == WithBand(f, frame, ShelfRow(selected))
     IN FlushWindow(frame, strip(pushed), strip(glass.bw), ok)
  /\ shelf' = [shelf EXCEPT !.selected = selected]

FlushShelfTitles(frame, ok) ==
  /\ LET strips(f) == WithBand(WithBand(f, frame, ShelfRow(shelf.selected)),
                               frame, ShelfRow(selected))
     IN FlushWindow(frame, strips(pushed), strips(glass.bw), ok)
  /\ shelf' = [shelf EXCEPT !.selected = selected]

FlushShelfPage(frame, ok) ==
  /\ FlushGrey(frame, ShelfGreys, ok)
  /\ shelf' = [page |-> IF ok THEN ShelfPageStart ELSE -1, selected |-> selected]

(* Nothing changed: no window is flushed, and no failure to see.           *)
FlushShelfGrey(ok) ==
  LET frame == ShelfFrame
  IN IF TitlesOnly(frame)
     THEN FlushShelfTitles(frame, ok \/ frame = pushed)
     ELSE FlushShelfPage(frame, ok)

Repaint ==
  /\ dirty
  /\ dirty' = FALSE
  /\ \/ /\ mode = "home"
        /\ home' = [home EXCEPT !.pending = TRUE]
        /\ Stirred
        /\ UNCHANGED <<driver, glass, shelf, force>>
     \/ /\ mode = "shelf"
        /\ \E ok \in BOOLEAN : FlushShelfGrey(ok)
        /\ force' = FALSE
        /\ UNCHANGED home
     \/ /\ mode = "other"
        /\ \E ok \in BOOLEAN : Flush(OtherFrame, ~force, ok)
        /\ force' = FALSE
        /\ UNCHANGED <<home, shelf>>
  /\ UNCHANGED <<mode, books, selected, said, time, photos>>

------------------------------------------------------------------------------
(* The home screen                                                         *)

(* The photo list is read afresh each time, in the order of the names.     *)
Nth(list, n) == CHOOSE p \in list : Cardinality({q \in list : q < p}) = n

AdvancePhoto(h, list, read) ==
  LET n == IF h.next >= Cardinality(list) THEN 0 ELSE h.next
  IN IF list = {}
     THEN [h EXCEPT !.count = 0, !.shown = 0, !.photo = 0]
     ELSE [h EXCEPT !.count = Cardinality(list),
                    !.shown = IF read THEN n + 1 ELSE 0,
                    !.photo = IF read THEN Nth(list, n) ELSE 0,
                    !.next  = (n + 1) % Cardinality(list)]

HomeGreyFrame(h, ok) ==
  /\ FlushGrey(HomeFrame(h), HomeGreys(h), ok)
  /\ home' = [h EXCEPT !.time = LocalTime, !.pending = FALSE, !.drawn = TRUE]
  /\ time' = [time EXCEPT !.age = 0]

(* renderClock() and a window around it; the day is not in the window.     *)
HomeClockTick(ok) ==
  LET tick(f) == [f EXCEPT !.time.minute = Now.minute]
  IN /\ FlushWindow(tick(fb), tick(pushed), tick(glass.bw), ok)
     /\ home' = [home EXCEPT !.time.minute = Now.minute]
     /\ UNCHANGED time

(* A plausible slip: only the minute is looked at.                         *)
DayIsStaleNever == time.valid /\ home.time = NoTime

DayIsStale == time.valid /\ (home.time = NoTime \/ Now.day # home.time.day)

NextMinute == time.valid /\ ~DayIsStale /\ Now.minute # home.time.minute
PhotoIsDue == IF time.valid THEN NextMinute /\ Now.minute % Interval = 0 ELSE time.age >= OldAge

(* PollHomeScreen()                                                        *)
PollHomeScreen ==
  LET full  == home.reload \/ home.pending \/ DayIsStale \/ PhotoIsDue
      early == home.drawn /\ time.age < Gap
      moves == home.reload \/ (~home.pending /\ ~DayIsStale)
  IN /\ mode = "home" /\ ~dirty
     /\ \/ /\ ~full /\ NextMinute
           /\ \E ok \in BOOLEAN : HomeClockTick(ok)
        \/ /\ full
           /\ \E read, ok \in BOOLEAN :
                LET h == IF moves THEN AdvancePhoto([home EXCEPT !.reload = FALSE], photos, read) ELSE home
                IN \/ /\ early
                      /\ home' = [h EXCEPT !.pending = TRUE]
                      /\ past' = [past EXCEPT !.polled = TRUE]
                      /\ UNCHANGED <<driver, glass, time>>
                   \/ ~early /\ HomeGreyFrame(h, ok)
        \/ /\ ~full /\ ~NextMinute
           /\ past' = [past EXCEPT !.polled = TRUE]
           /\ UNCHANGED <<driver, glass, time, home>>
     /\ UNCHANGED <<mode, dirty, force, books, selected, said, shelf, photos>>

------------------------------------------------------------------------------
(* What else happens to these: time, the other handlers of main.cpp, HTTP  *)

Tick ==
  /\ mode = "home"
  /\ time' = [time EXCEPT !.clock = (@ + 1) % (2 * Day * TicksAMinute),
                          !.age = Limit(@ + 1, 0, OldAge)]
  /\ Stirred
  /\ UNCHANGED <<mode, dirty, force, books, selected, said, driver, shelf, home, photos, glass>>

(* NTP answers, or the desktop sets the time.                              *)
TimeIsSet ==
  /\ ~time.valid /\ time' = [time EXCEPT !.valid = TRUE]
  /\ Stirred
  /\ UNCHANGED <<mode, dirty, force, books, selected, said, driver, shelf, home, photos, glass>>

(* Another time zone: takeTimeZoneChanged() in the same pass.              *)
TimeZoneIsSet ==
  /\ mode = "home"
  /\ \E clock \in 0..(2 * Day * TicksAMinute - 1) : time' = [time EXCEPT !.clock = clock]
  /\ home' = [home EXCEPT !.pending = TRUE]
  /\ Stirred
  /\ UNCHANGED <<mode, dirty, force, books, selected, said, driver, shelf, photos, glass>>

(* Wi-Fi comes and goes, with g_dirty.                                     *)
StatusChanges ==
  /\ said' = [said EXCEPT !.status = ~@]
  /\ dirty' = TRUE
  /\ Stirred
  /\ UNCHANGED <<mode, force, books, selected, driver, shelf, home, time, photos, glass>>

PhotosChange ==
  /\ photos' \in SUBSET Photos
  /\ home' = [home EXCEPT !.reload = TRUE]
  /\ Stirred
  /\ UNCHANGED <<mode, dirty, force, books, selected, said, driver, shelf, time, glass>>

(* HTTP installs or deletes a book, or replaces it: nobody asks for a      *)
(* repaint.  Not told apart while home is on the screen.                   *)
BooksChange ==
  /\ mode # "home"
  /\ \/ \E b \in Books : b \notin {books[i] : i \in DOMAIN books} /\ books' = Append(books, b)
     \/ \E i \in DOMAIN books : books' = SubSeq(books, 1, i - 1) \o SubSeq(books, i + 1, Len(books))
  /\ past' = [past EXCEPT !.moved = TRUE, !.polled = FALSE]
  /\ UNCHANGED <<mode, dirty, force, selected, said, driver, shelf, home, time, photos, glass>>

(* A handler puts another screen on: MENU with force, EXIT and the Books   *)
(* tile without, the Clock tile without even g_dirty.                      *)
Goes(to, asks, fully) ==
  /\ mode' = to
  /\ dirty' = (dirty \/ asks) /\ force' = (force \/ fully)
  /\ Stirred
  /\ UNCHANGED <<driver, glass>>

(* Home reads nothing of the library and draws all of the glass, and MENU  *)
(* leaves it with g_force_full_refresh; the library reads no clock.  So    *)
(* what a screen leaves alone has one value while it is on, and any it may *)
(* have got meanwhile when it is read again.                               *)
GoHome ==
  /\ mode = "other"
  /\ \/ Goes("home", TRUE, TRUE) /\ UNCHANGED home
     \/ Goes("home", FALSE, TRUE) /\ home' = [home EXCEPT !.pending = TRUE]
  /\ \E clock \in 0..(2 * Day * TicksAMinute - 1), age \in 0..OldAge :
       time' = [time EXCEPT !.clock = clock, !.age = age]
  /\ books' = <<>> /\ selected' = 0
  /\ said' = [said EXCEPT !.turn = FALSE]
  /\ shelf' = NoShelf
  /\ UNCHANGED photos

LeaveHome ==
  /\ mode = "home"
  /\ \E to \in {"other", "shelf"} : Goes(to, TRUE, TRUE)
  /\ books' \in BookLists /\ selected' \in 0..Len(books')
  /\ time' = [time EXCEPT !.clock = 0, !.age = 0]
  /\ home' = [home EXCEPT !.time = NoTime]
  /\ UNCHANGED <<said, shelf, photos>>

EnterShelf == /\ mode = "other" /\ Goes("shelf", TRUE, FALSE)
              /\ selected' = 0
              /\ UNCHANGED <<books, said, shelf, home, time, photos>>
(* Back to the shelf from a book, where it was.                            *)
ReturnToShelf == /\ mode = "other" /\ Goes("shelf", TRUE, TRUE)
                 /\ UNCHANGED <<books, selected, said, shelf, home, time, photos>>
LeaveShelf == /\ mode = "shelf" /\ \E fully \in BOOLEAN : Goes("other", TRUE, fully)
              /\ UNCHANGED <<books, selected, said, shelf, home, time, photos>>

MoveLibrarySelection ==
  /\ mode = "shelf"
  /\ \E delta \in {-Columns, -1, 1, Columns} : selected' = Limit(selected + delta, 0, RowCount - 1)
  /\ dirty' = TRUE
  /\ Stirred
  /\ UNCHANGED <<mode, force, books, said, driver, shelf, home, time, photos, glass>>

(* A page turned, a row chosen, a size changed: some ask for a full refresh.*)
OtherChanges ==
  /\ mode = "other"
  /\ said' = [said EXCEPT !.turn = ~@]
  /\ dirty' = TRUE /\ force' \in {force, TRUE}
  /\ Stirred
  /\ UNCHANGED <<mode, books, selected, driver, shelf, home, time, photos, glass>>

PanelInit ==
  /\ mode = "home" /\ dirty = TRUE /\ force = TRUE
  /\ books = <<>> /\ selected = 0
  /\ said = [status |-> FALSE, turn |-> FALSE]
  /\ fb = Blank /\ pushed = Blank /\ greyOn = FALSE /\ partials = 0
  /\ shelf = NoShelf
  /\ home = [pending |-> TRUE, reload |-> TRUE, drawn |-> FALSE, time |-> NoTime,
             next |-> 0, count |-> 0, shown |-> 0, photo |-> 0]
  /\ time = [clock |-> 0, valid |-> FALSE, age |-> 0]
  /\ photos \in SUBSET Photos
  /\ glass = [bw |-> Blank, grey |-> <<>>]
  /\ past = [lost |-> FALSE, moved |-> FALSE, polled |-> FALSE]

Refreshes   == Repaint \/ PollHomeScreen \/ GoHome \/ LeaveHome
HomeNext    == Tick \/ TimeIsSet \/ TimeZoneIsSet \/ PhotosChange
LibraryNext == \/ StatusChanges \/ BooksChange \/ EnterShelf \/ ReturnToShelf \/ LeaveShelf
               \/ MoveLibrarySelection \/ OtherChanges
PanelNext   == Refreshes \/ HomeNext \/ LibraryNext

PanelSpec == PanelInit /\ [][PanelNext]_panelVars

------------------------------------------------------------------------------
(* Properties                                                              *)

(* Updating strips of the glass leaves nothing old on it: unless a refresh *)
(* has failed since the last whole one, the glass shows what was drawn     *)
(* last, and once nobody asks for a repaint that is what the screen would  *)
(* draw now, greys included.  The covers on the shelf may be those of      *)
(* books that have gone, since nobody asks for a repaint then.             *)
GlassIsTheFrame ==
  ~past.lost =>
    /\ glass.bw = fb
    /\ mode = "shelf" /\ ~dirty /\ ~past.moved => glass = [bw |-> ShelfFrame, grey |-> ShelfGreys]
    /\ mode = "other" /\ ~dirty => glass = [bw |-> OtherFrame, grey |-> <<>>]

(* After PollHomeScreen() has run, home shows the present minute of the    *)
(* present day and a photo that is on the card, whatever was clock window  *)
(* and what was grey frame, or a whole frame waits for the gap to pass.    *)
HomeOnTime ==
  mode = "home" /\ past.polled /\ ~past.lost =>
    \/ home.pending /\ home.drawn /\ time.age < Gap
    \/ /\ glass = [bw |-> HomeFrame(home), grey |-> HomeGreys(home)]
       /\ home.shown # 0 => home.photo \in photos
==============================================================================
