----------------------------- MODULE Device_proofs -----------------------------
(***************************************************************************)
(* Proofs about Panel and Input, for any books and photos, any shelf, any  *)
(* length of days and gaps, and any passes of the loop on a clock of any   *)
(* size: what the glass shows, when home is redrawn, and that every press  *)
(* is answered.                                                            *)
(***************************************************************************)
EXTENDS Panel, Input, SequenceTheorems, FiniteSetTheorems, TLAPS

-----------------------------------------------------------------------------
(* Panel: the inductive invariant.  The greys on the glass are those of    *)
(* the page the shelf remembers, until a book moves or a refresh fails;    *)
(* home forgets that page.  On home, what was drawn last is known by what  *)
(* home remembers of it, unless a whole frame is still to come.            *)

Times == [day : Int, minute : Int]

PanelTyped ==
  /\ mode \in {"home", "shelf", "other"}
  /\ dirty \in BOOLEAN /\ force \in BOOLEAN /\ greyOn \in BOOLEAN
  /\ books \in Seq(Books) /\ selected \in Nat
  /\ said \in [status : BOOLEAN, turn : BOOLEAN]
  /\ shelf \in [page : Int, selected : Nat]
  /\ home \in [pending : BOOLEAN, reload : BOOLEAN, drawn : BOOLEAN, time : Times,
               next : Nat, count : Nat, shown : Nat, photo : Nat]
  /\ time \in [clock : Nat, valid : BOOLEAN, age : Int]
  /\ photos \in SUBSET Photos
  /\ past \in [lost : BOOLEAN, moved : BOOLEAN, polled : BOOLEAN]
  /\ glass = [bw |-> glass.bw, grey |-> glass.grey]

(* The greys of a page of these books.                                     *)
GreysOf(bs, start) ==
  [i \in 1..Limit(Len(bs) + 1 - start, 0, Tiles) |->
     IF start + i - 1 < Len(bs) /\ bs[start + i - 1 + 1] \in Covered
     THEN <<bs[start + i - 1 + 1]>> ELSE <<>>]

LastHomeFrame == Frame("home", <<>>, <<said.status, home.shown, home.count>>, home.time)

FramePushed == fb = pushed /\ (~ past.lost => glass.bw = pushed)
GreysHeld   == ~ past.lost /\ ~ past.moved /\ greyOn /\ shelf.page # -1 =>
                 glass.grey = GreysOf(books, shelf.page)
HomeForgets == mode = "home" => shelf.page = -1
ShelfDrawn  == ~ past.lost /\ ~ past.moved /\ mode = "shelf" /\ ~ dirty =>
                 glass = [bw |-> ShelfFrame, grey |-> ShelfGreys]
OtherDrawn  == ~ past.lost /\ mode = "other" /\ ~ dirty => glass = [bw |-> OtherFrame, grey |-> <<>>]
HomeDrawn   == ~ past.lost /\ mode = "home" /\ ~ dirty /\ ~ home.pending =>
                 glass = [bw |-> LastHomeFrame, grey |-> HomeGreys(home)]
PhotoThere  == ~ home.reload /\ home.shown # 0 => home.photo \in photos
NoTimeYet   == ~ time.valid => home.time = NoTime

LibraryInv == FramePushed /\ GreysHeld /\ HomeForgets /\ ShelfDrawn /\ OtherDrawn
HomeInv    == HomeDrawn /\ PhotoThere /\ NoTimeYet /\ HomeOnTime
PanelInv   == PanelTyped /\ LibraryInv /\ HomeInv


-----------------------------------------------------------------------------
(* What the operators return                                               *)

(* There is room on the shelf, and a day has minutes.                      *)
LEMMA SizesPositive ==
  /\ Tiles \in Nat \ {0} /\ Day * TicksAMinute \in Nat \ {0}
  /\ {Columns, Interval, Day, TicksAMinute} \subseteq Nat \ {0} /\ Gap \in Nat
<1>1. \A m, n \in Nat \ {0} : m * n \in Nat \ {0}
  OBVIOUS
<1>. QED
  BY <1>1, PanelAssumption DEF Tiles

(* The clock can be read.                                                  *)
LEMMA NowTyped ==
  ASSUME NEW clock \in Nat
  PROVE  clock \div (Day * TicksAMinute) \in Int /\ (clock \div TicksAMinute) % Day \in Int
<1>1. \A n \in Nat, d \in Nat \ {0} : n \div d \in Int
  OBVIOUS
<1>2. \A n \in Int, d \in Nat \ {0} : n % d \in Int
  OBVIOUS
<1>. QED
  BY <1>1, <1>2, SizesPositive

LEMMA LocalTimeTyped == ASSUME PanelTyped PROVE LocalTime \in Times /\ Now \in Times
BY NowTyped DEF PanelTyped, LocalTime, Now, NoTime, Times

(* A page of the shelf begins at a row.                                    *)
LEMMA PageStartTyped == ASSUME PanelTyped PROVE ShelfPageStart \in Nat
<1>1. \A n \in Nat, d \in Nat \ {0} : n % d \in 0..n
  OBVIOUS
<1>2. selected % Tiles \in 0..selected
  BY <1>1, SizesPositive DEF PanelTyped
<1>. QED
  BY <1>2 DEF PanelTyped, ShelfPageStart

(* The greys of the shelf are those of its page.                           *)
LEMMA GreysOfPage ==
  ASSUME PanelTyped
  PROVE  ShelfGreys = GreysOf(books, ShelfPageStart)
<1>1. ASSUME NEW i \in 1..Visible
      PROVE (IF ShelfTile(i).box = "cover" THEN ShelfTile(i).title ELSE <<>>) =
              IF ShelfPageStart + i - 1 < Len(books) /\ books[ShelfPageStart + i - 1 + 1] \in Covered
              THEN <<books[ShelfPageStart + i - 1 + 1]>> ELSE <<>>
  BY DEF ShelfTile
<1>2. Visible = Limit(Len(books) + 1 - ShelfPageStart, 0, Tiles)
  <2>1. Len(books) \in Nat /\ ShelfPageStart \in Nat /\ Tiles \in Nat
    BY PageStartTyped, SizesPositive, LenProperties DEF PanelTyped
  <2>. QED
    BY <2>1 DEF Visible, RowCount, Limit
<1>3. GreysOf(books, ShelfPageStart) =
        [i \in 1..Visible |->
           IF ShelfPageStart + i - 1 < Len(books) /\ books[ShelfPageStart + i - 1 + 1] \in Covered
           THEN <<books[ShelfPageStart + i - 1 + 1]>> ELSE <<>>]
  BY <1>2 DEF GreysOf
<1>. QED
  BY <1>1, <1>3 DEF ShelfGreys

(* The shelf reads its list, the row chosen and the status.                *)
LEMMA ShelfFrameKept ==
  ASSUME UNCHANGED <<books, selected, said>>
  PROVE  ShelfFrame' = ShelfFrame /\ ShelfGreys' = ShelfGreys
BY DEF ShelfFrame, ShelfGreys, Visible, ShelfTile, ShelfPageStart, RowCount


-----------------------------------------------------------------------------
(* Steps that leave the glass and the driver alone                         *)

(* Such a step asks for a repaint, or changes nothing that would be drawn. *)
LEMMA GlassLeft ==
  ASSUME PanelInv, PanelTyped', Stirred, UNCHANGED <<driver, glass>>,
         UNCHANGED <<shelf, books>> \/ shelf'.page = -1,
         mode' = "home" => shelf'.page = -1,
         mode' # "home" /\ ~ dirty' => ~ dirty /\ UNCHANGED <<mode, books, selected, said>>,
         mode' = "home" /\ ~ dirty' /\ ~ home'.pending =>
           ~ dirty /\ ~ home.pending /\ UNCHANGED <<mode, said>>
             /\ home.time = home'.time /\ home.shown = home'.shown
             /\ home.count = home'.count /\ home.photo = home'.photo,
         PhotoThere', NoTimeYet'
  PROVE  PanelInv'
<1>1. past'.lost = past.lost /\ past'.moved = past.moved /\ past'.polled = FALSE
  BY DEF Stirred, PanelInv, PanelTyped
<1>2. UNCHANGED <<fb, pushed, greyOn, glass>>
  BY DEF driver
<1>3. FramePushed'
  BY <1>1, <1>2 DEF PanelInv, LibraryInv, FramePushed
<1>4. GreysHeld'
  BY <1>1, <1>2 DEF PanelInv, LibraryInv, GreysHeld
<1>5. HomeForgets'
  BY DEF HomeForgets
<1>6. ShelfDrawn'
  BY <1>1, <1>2, ShelfFrameKept DEF PanelInv, LibraryInv, ShelfDrawn
<1>7. OtherDrawn'
  BY <1>1, <1>2 DEF PanelInv, LibraryInv, OtherDrawn, OtherFrame
<1>8. HomeDrawn'
  <2>. SUFFICES ASSUME ~ past'.lost, mode' = "home", ~ dirty', ~ home'.pending
                PROVE  glass' = [bw |-> LastHomeFrame', grey |-> HomeGreys(home')]
    BY DEF HomeDrawn
  <2>1. LastHomeFrame' = LastHomeFrame
    BY DEF LastHomeFrame
  <2>2. HomeGreys(home') = HomeGreys(home)
    BY DEF HomeGreys
  <2>. QED
    BY <1>1, <1>2, <2>1, <2>2 DEF PanelInv, HomeInv, HomeDrawn
<1>9. HomeOnTime'
  BY <1>1 DEF HomeOnTime
<1>. QED
  BY <1>3, <1>4, <1>5, <1>6, <1>7, <1>8, <1>9 DEF PanelInv, LibraryInv, HomeInv

(* What is told of it, the driver and the glass keep their types.          *)
LEMMA RestTyped ==
  ASSUME PanelTyped, Stirred, UNCHANGED <<driver, glass>>
  PROVE  /\ greyOn' \in BOOLEAN /\ glass' = [bw |-> glass'.bw, grey |-> glass'.grey]
         /\ past' \in [lost : BOOLEAN, moved : BOOLEAN, polled : BOOLEAN]
BY DEF PanelTyped, Stirred, driver

(* Home, a clock with photos: time goes by, is set, is set elsewhere, and  *)
(* photos come and go.                                                     *)
LEMMA HomeStep == ASSUME PanelInv, HomeNext PROVE PanelInv'
<1>1. CASE Tick
  <2>1. PanelTyped'
    <3>1. \A n \in Nat, d \in Nat \ {0} : n % d \in Nat
      OBVIOUS
    <3>2. 2 * (Day * TicksAMinute) \in Nat \ {0} /\ OldAge \in Int
      BY SizesPositive DEF OldAge
    <3>3. 2 * Day * TicksAMinute = 2 * (Day * TicksAMinute)
      BY SizesPositive
    <3>4. (time.clock + 1) % (2 * Day * TicksAMinute) \in Nat
      BY <3>1, <3>2, <3>3 DEF PanelInv, PanelTyped
    <3>5. Limit(time.age + 1, 0, OldAge) \in Int
      BY <3>2 DEF Limit, PanelInv, PanelTyped
    <3>. QED
      BY <1>1, <3>4, <3>5 DEF Tick, Stirred, driver, PanelInv, PanelTyped
  <2>2. time'.valid = time.valid
    BY <1>1 DEF Tick, PanelInv, PanelTyped
  <2>3. PhotoThere' /\ NoTimeYet'
    BY <1>1, <2>2 DEF Tick, PanelInv, HomeInv, PhotoThere, NoTimeYet
  <2>. QED
    BY <1>1, <2>1, <2>3, GlassLeft DEF Tick, PanelInv, LibraryInv, HomeForgets
<1>2. CASE TimeIsSet
  <2>1. PanelTyped' /\ time'.valid
    BY <1>2 DEF TimeIsSet, Stirred, driver, PanelInv, PanelTyped
  <2>2. PhotoThere' /\ NoTimeYet'
    BY <1>2, <2>1 DEF TimeIsSet, PanelInv, HomeInv, PhotoThere, NoTimeYet
  <2>. QED
    BY <1>2, <2>1, <2>2, GlassLeft DEF TimeIsSet, PanelInv, LibraryInv, HomeForgets
<1>3. CASE TimeZoneIsSet
  <2>1. 0..(2 * Day * TicksAMinute - 1) \subseteq Nat
    BY SizesPositive
  <2>2. PanelTyped' /\ time'.valid = time.valid
    BY <1>3, <2>1 DEF TimeZoneIsSet, Stirred, driver, PanelInv, PanelTyped
  <2>3. home'.pending /\ home'.time = home.time /\ home'.shown = home.shown
          /\ home'.photo = home.photo /\ home'.reload = home.reload
    BY <1>3 DEF TimeZoneIsSet, PanelInv, PanelTyped
  <2>4. PhotoThere' /\ NoTimeYet'
    BY <1>3, <2>2, <2>3 DEF TimeZoneIsSet, PanelInv, HomeInv, PhotoThere, NoTimeYet
  <2>. QED
    BY <1>3, <2>2, <2>3, <2>4, GlassLeft DEF TimeZoneIsSet, PanelInv, LibraryInv, HomeForgets
<1>4. CASE PhotosChange
  <2>1. home' = [home EXCEPT !.reload = TRUE]
    BY <1>4 DEF PhotosChange
  <2>2. home'.reload /\ home'.time = home.time /\ home'.shown = home.shown
          /\ home'.photo = home.photo /\ home'.count = home.count /\ home'.pending = home.pending
    BY <2>1 DEF PanelInv, PanelTyped
  <2>3. PanelTyped'
    BY <1>4, <2>1 DEF PhotosChange, Stirred, driver, PanelInv, PanelTyped
  <2>4. PhotoThere' /\ NoTimeYet'
    BY <1>4, <2>2 DEF PhotosChange, PanelInv, HomeInv, PhotoThere, NoTimeYet
  <2>. QED
    BY <1>4, <2>2, <2>3, <2>4, GlassLeft DEF PhotosChange, PanelInv, LibraryInv, HomeForgets
<1>. QED
  BY <1>1, <1>2, <1>3, <1>4 DEF HomeNext


(* A book comes or goes: the greys on the glass are of before.             *)
LEMMA BooksStep == ASSUME PanelInv, BooksChange PROVE PanelInv'
<1>1. books' \in Seq(Books)
  <2>1. books \in Seq(Books)
    BY DEF PanelInv, PanelTyped
  <2>2. ASSUME NEW b \in Books PROVE Append(books, b) \in Seq(Books)
    BY <2>1, AppendProperties
  <2>3. ASSUME NEW i \in DOMAIN books
        PROVE  SubSeq(books, 1, i - 1) \o SubSeq(books, i + 1, Len(books)) \in Seq(Books)
    <3>1. i \in 1..Len(books) /\ Len(books) \in Nat
      BY <2>1, LenProperties
    <3>2. SubSeq(books, 1, i - 1) \in Seq(Books) /\ SubSeq(books, i + 1, Len(books)) \in Seq(Books)
      BY <2>1, <3>1, SubSeqProperties
    <3>. QED
      BY <3>2, ConcatProperties
  <2>. QED
    BY <2>2, <2>3 DEF BooksChange
<1>2. past' = [past EXCEPT !.moved = TRUE, !.polled = FALSE]
        /\ mode # "home" /\ mode' = mode /\ dirty' = dirty /\ said' = said /\ home' = home
        /\ UNCHANGED <<force, selected, fb, pushed, greyOn, shelf, time, photos, glass>>
  BY DEF BooksChange, driver
<1>3. past'.moved /\ past'.lost = past.lost
  BY <1>2 DEF PanelInv, PanelTyped
<1>4. PanelTyped'
  BY <1>1, <1>2 DEF PanelInv, PanelTyped
<1>5. LibraryInv'
  BY <1>2, <1>3 DEF PanelInv, LibraryInv, FramePushed, GreysHeld, HomeForgets, ShelfDrawn,
                    OtherDrawn, OtherFrame
<1>6. HomeInv'
  BY <1>2, <1>3 DEF PanelInv, HomeInv, HomeDrawn, PhotoThere, NoTimeYet, HomeOnTime
<1>. QED
  BY <1>4, <1>5, <1>6 DEF PanelInv

(* The wheel, the buttons and Wi-Fi ask for a repaint.                     *)
LEMMA LibraryStep == ASSUME PanelInv, LibraryNext PROVE PanelInv'
<1>1. CASE StatusChanges
  <2>1. PanelTyped'
    BY <1>1 DEF StatusChanges, Stirred, driver, PanelInv, PanelTyped
  <2>2. PhotoThere' /\ NoTimeYet'
    BY <1>1 DEF StatusChanges, PanelInv, HomeInv, PhotoThere, NoTimeYet
  <2>. QED
    BY <1>1, <2>1, <2>2, GlassLeft DEF StatusChanges, PanelInv, LibraryInv, HomeForgets
<1>2. CASE EnterShelf \/ ReturnToShelf \/ LeaveShelf
  <2>2. dirty' /\ dirty' \in BOOLEAN /\ force' \in BOOLEAN /\ mode' \in {"shelf", "other"}
          /\ selected' \in Nat /\ Stirred
          /\ UNCHANGED <<driver, glass, said, shelf, books, home, time, photos>>
    <3>1. dirty \in BOOLEAN /\ force \in BOOLEAN /\ selected \in Nat
      BY DEF PanelInv, PanelTyped
    <3>2. CASE EnterShelf
      BY <3>1, <3>2 DEF EnterShelf, Goes
    <3>3. CASE ReturnToShelf
      BY <3>1, <3>3 DEF ReturnToShelf, Goes
    <3>4. CASE LeaveShelf
      BY <3>1, <3>4 DEF LeaveShelf, Goes
    <3>. QED
      BY <1>2, <3>2, <3>3, <3>4
  <2>1. PanelTyped'
    BY <2>2, RestTyped DEF driver, PanelInv, PanelTyped
  <2>3. PhotoThere' /\ NoTimeYet'
    BY <2>2 DEF PanelInv, HomeInv, PhotoThere, NoTimeYet
  <2>. QED
    BY <2>1, <2>2, <2>3, GlassLeft
<1>3. CASE MoveLibrarySelection
  <2>1. selected' \in Nat
    <3>1. Len(books) \in Nat /\ selected \in Nat /\ Columns \in Nat
      BY SizesPositive, LenProperties DEF PanelInv, PanelTyped
    <3>2. PICK delta \in {-Columns, -1, 1, Columns} : selected' = Limit(selected + delta, 0, RowCount - 1)
      BY <1>3 DEF MoveLibrarySelection
    <3>. QED
      BY <3>1, <3>2 DEF Limit, RowCount
  <2>2. PanelTyped'
    BY <1>3, <2>1 DEF MoveLibrarySelection, Stirred, driver, PanelInv, PanelTyped
  <2>3. PhotoThere' /\ NoTimeYet'
    BY <1>3 DEF MoveLibrarySelection, PanelInv, HomeInv, PhotoThere, NoTimeYet
  <2>. QED
    BY <1>3, <2>2, <2>3, GlassLeft DEF MoveLibrarySelection, PanelInv, LibraryInv, HomeForgets
<1>4. CASE OtherChanges
  <2>1. PanelTyped'
    BY <1>4 DEF OtherChanges, Stirred, driver, PanelInv, PanelTyped
  <2>2. PhotoThere' /\ NoTimeYet'
    BY <1>4 DEF OtherChanges, PanelInv, HomeInv, PhotoThere, NoTimeYet
  <2>. QED
    BY <1>4, <2>1, <2>2, GlassLeft DEF OtherChanges, PanelInv, LibraryInv, HomeForgets
<1>. QED
  BY <1>1, <1>2, <1>3, <1>4, BooksStep DEF LibraryNext

(* To home and back: what waits there is drawn whole, what was on the      *)
(* shelf is forgotten.                                                     *)
LEMMA HomeAndBack == ASSUME PanelInv, GoHome \/ LeaveHome PROVE PanelInv'
<1>. 0..(2 * Day * TicksAMinute - 1) \subseteq Nat /\ 0..OldAge \subseteq Int
  BY SizesPositive DEF OldAge
<1>1. CASE GoHome
  <2>1. mode' = "home" /\ Stirred /\ UNCHANGED <<driver, glass, photos>> /\ shelf' = NoShelf
          /\ force' = TRUE /\ dirty' \in BOOLEAN /\ books' = <<>> /\ selected' = 0
          /\ said' = [said EXCEPT !.turn = FALSE]
    BY <1>1 DEF GoHome, Goes, PanelInv, PanelTyped
  <2>2. (dirty' /\ home' = home) \/ home' = [home EXCEPT !.pending = TRUE]
    BY <1>1 DEF GoHome, Goes
  <2>3. home'.time = home.time /\ home'.shown = home.shown /\ home'.photo = home.photo
          /\ home'.reload = home.reload /\ (dirty' \/ home'.pending)
    BY <2>2 DEF PanelInv, PanelTyped
  <2>4. time'.valid = time.valid /\ time' \in [clock : Nat, valid : BOOLEAN, age : Int]
    BY <1>1 DEF GoHome, PanelInv, PanelTyped
  <2>5. PanelTyped'
    <3>1. home' \in [pending : BOOLEAN, reload : BOOLEAN, drawn : BOOLEAN, time : Times,
                     next : Nat, count : Nat, shown : Nat, photo : Nat]
      BY <2>2 DEF PanelInv, PanelTyped
    <3>2. said' \in [status : BOOLEAN, turn : BOOLEAN] /\ shelf' \in [page : Int, selected : Nat]
      <4>1. shelf' \in [page : Int, selected : Nat]
        BY <2>1 DEF NoShelf
      <4>2. said' \in [status : BOOLEAN, turn : BOOLEAN]
        BY <2>1 DEF PanelInv, PanelTyped
      <4>. QED
        BY <4>1, <4>2
    <3>3. books' \in Seq(Books) /\ selected' \in Nat
      BY <2>1
    <3>. QED
      BY <2>1, <2>4, <3>1, <3>2, <3>3, RestTyped DEF driver, PanelInv, PanelTyped
  <2>6. PhotoThere' /\ NoTimeYet'
    BY <2>1, <2>3, <2>4 DEF PanelInv, HomeInv, PhotoThere, NoTimeYet
  <2>7. shelf'.page = -1
    BY <2>1 DEF NoShelf
  <2>. QED
    BY <2>1, <2>3, <2>5, <2>6, <2>7, GlassLeft
<1>2. CASE LeaveHome
  <2>1. books' \in Seq(Books) /\ selected' \in Nat
    <3>1. books' \in UNION {[1..n -> Books] : n \in 0..Cardinality(Books)}
      BY <1>2 DEF LeaveHome, BookLists
    <3>2. PICK n \in 0..Cardinality(Books) : books' \in [1..n -> Books]
      BY <3>1
    <3>3. books' \in Seq(Books)
      BY <3>2, IsASeq
    <3>. QED
      BY <1>2, <3>3, LenProperties DEF LeaveHome
  <2>2. mode' \in {"other", "shelf"} /\ dirty' /\ force' /\ dirty' \in BOOLEAN /\ force' \in BOOLEAN
          /\ Stirred /\ UNCHANGED <<driver, glass, said, shelf, photos>>
    BY <1>2 DEF LeaveHome, Goes, PanelInv, PanelTyped
  <2>3. time' = [time EXCEPT !.clock = 0, !.age = 0] /\ home' = [home EXCEPT !.time = NoTime]
    BY <1>2 DEF LeaveHome
  <2>4. PanelTyped'
    <3>1. NoTime \in Times /\ 0 \in Nat /\ 0 \in Int
      BY DEF NoTime, Times
    <3>2. home' \in [pending : BOOLEAN, reload : BOOLEAN, drawn : BOOLEAN, time : Times,
                     next : Nat, count : Nat, shown : Nat, photo : Nat]
      BY <2>3, <3>1 DEF PanelInv, PanelTyped
    <3>3. time' \in [clock : Nat, valid : BOOLEAN, age : Int]
      BY <2>3, <3>1 DEF PanelInv, PanelTyped
    <3>. QED
      BY <2>1, <2>2, <3>2, <3>3, RestTyped DEF driver, PanelInv, PanelTyped
  <2>5. home'.time = NoTime /\ home'.shown = home.shown /\ home'.photo = home.photo
          /\ home'.reload = home.reload /\ shelf'.page = -1
    BY <1>2, <2>2, <2>3 DEF LeaveHome, PanelInv, PanelTyped, LibraryInv, HomeForgets
  <2>6. PhotoThere' /\ NoTimeYet'
    BY <2>2, <2>5 DEF PanelInv, HomeInv, PhotoThere, NoTimeYet
  <2>. QED
    BY <2>2, <2>4, <2>5, <2>6, GlassLeft
<1>. QED
  BY <1>1, <1>2


-----------------------------------------------------------------------------
(* Repaint()                                                               *)

(* What a refresh leaves to be said of the glass.                          *)
LEMMA FlushedKnown ==
  ASSUME PanelTyped, NEW ok \in BOOLEAN, NEW whole \in BOOLEAN
  PROVE  /\ Flushed(ok, whole) \in [lost : BOOLEAN, moved : BOOLEAN, polled : BOOLEAN]
         /\ Flushed(ok, whole).moved = past.moved
         /\ Flushed(ok, whole).polled = (mode = "home")
         /\ ok => Flushed(ok, whole).lost = (past.lost /\ ~ whole)
         /\ ~ ok => Flushed(ok, whole).lost
<1>. DEFINE lost == IF ok THEN past.lost /\ ~ whole ELSE TRUE
            home_on == mode = "home"
<1>1. past \in [lost : BOOLEAN, moved : BOOLEAN, polled : BOOLEAN] /\ past.lost \in BOOLEAN
  BY DEF PanelTyped
<1>2. lost \in BOOLEAN /\ home_on \in BOOLEAN
  BY <1>1
<1>3. (ok => lost = (past.lost /\ ~ whole)) /\ (~ ok => lost) /\ home_on = (mode = "home")
  BY Zenon
<1>4. Flushed(ok, whole) = [past EXCEPT !.lost = lost, !.polled = home_on]
  BY Zenon DEF Flushed
<1>. HIDE DEF lost, home_on
<1>5. /\ Flushed(ok, whole) \in [lost : BOOLEAN, moved : BOOLEAN, polled : BOOLEAN]
      /\ Flushed(ok, whole).lost = lost /\ Flushed(ok, whole).moved = past.moved
      /\ Flushed(ok, whole).polled = home_on
  BY <1>1, <1>2, <1>4
<1>. QED
  BY <1>3, <1>5, Zenon

(* The shelf is drawn whole, or its titles alone over greys that can stay. *)
LEMMA ShelfRepainted ==
  ASSUME PanelInv, mode = "shelf", NEW ok \in BOOLEAN, FlushShelfGrey(ok),
         dirty' = FALSE, force' = FALSE,
         UNCHANGED <<mode, books, selected, said, time, photos, home>>
  PROVE  PanelInv'
<1>1. ShelfPageStart \in Nat /\ ShelfPageStart # -1 /\ selected \in Nat
  BY PageStartTyped DEF PanelInv, PanelTyped
<1>2. ShelfGreys = GreysOf(books, ShelfPageStart)
  BY GreysOfPage DEF PanelInv
<1>3. ShelfFrame' = ShelfFrame /\ ShelfGreys' = ShelfGreys
  BY ShelfFrameKept
<1>. DEFINE Done ==
              /\ pushed' = ShelfFrame /\ fb' = ShelfFrame
              /\ glass' = [bw |-> glass'.bw, grey |-> glass'.grey]
              /\ greyOn' = TRUE
              /\ shelf' \in [page : Int, selected : Nat]
              /\ past' \in [lost : BOOLEAN, moved : BOOLEAN, polled : BOOLEAN]
              /\ past'.polled = FALSE
              /\ ~ past'.lost => /\ glass'.bw = ShelfFrame /\ shelf'.page = ShelfPageStart
                                 /\ ~ past'.moved => glass'.grey = ShelfGreys
<1>4. Done
  <2>1. CASE TitlesOnly(ShelfFrame)
    <3>. DEFINE strips(f) == WithBand(WithBand(f, ShelfFrame, ShelfRow(shelf.selected)),
                                      ShelfFrame, ShelfRow(selected))
    <3>1. PICK done \in BOOLEAN : FlushShelfTitles(ShelfFrame, done)
      BY <2>1 DEF FlushShelfGrey
    <3>2. FlushWindow(ShelfFrame, strips(pushed), strips(glass.bw), done)
            /\ shelf' = [shelf EXCEPT !.selected = selected]
      BY <3>1 DEF FlushShelfTitles
    <3>3. strips(pushed) = ShelfFrame
      BY <2>1 DEF TitlesOnly, OnlyShelfTitlesChanged
    <3>4. greyOn /\ shelf.page = ShelfPageStart
      BY <2>1 DEF TitlesOnly
    <3>. HIDE DEF strips
    <3>5. fb' = ShelfFrame /\ pushed' = ShelfFrame /\ greyOn' = greyOn
            /\ glass' = [glass EXCEPT !.bw = strips(glass.bw)] /\ past' = Flushed(done, FALSE)
      BY <3>2, <3>3 DEF FlushWindow
    <3>6. shelf' \in [page : Int, selected : Nat] /\ shelf'.page = ShelfPageStart
      BY <1>1, <3>2, <3>4 DEF PanelInv, PanelTyped
    <3>7. glass'.bw = strips(glass.bw) /\ glass'.grey = glass.grey
            /\ glass' = [bw |-> glass'.bw, grey |-> glass'.grey]
      BY <3>5 DEF PanelInv, PanelTyped
    <3>8. past' \in [lost : BOOLEAN, moved : BOOLEAN, polled : BOOLEAN] /\ past'.polled = FALSE
            /\ past'.moved = past.moved /\ (~ past'.lost => ~ past.lost)
      BY <3>5, FlushedKnown DEF PanelInv
    <3>9. ~ past'.lost => glass'.bw = ShelfFrame
      BY <3>3, <3>7, <3>8 DEF PanelInv, LibraryInv, FramePushed
    <3>10. ~ past'.lost /\ ~ past'.moved => glass'.grey = ShelfGreys
      BY <1>1, <1>2, <3>4, <3>7, <3>8 DEF PanelInv, LibraryInv, GreysHeld
    <3>11. greyOn' = TRUE
      BY <3>4, <3>5 DEF PanelInv, PanelTyped
    <3>. QED
      BY <3>5, <3>6, <3>7, <3>8, <3>9, <3>10, <3>11
  <2>2. CASE ~ TitlesOnly(ShelfFrame)
    <3>1. FlushGrey(ShelfFrame, ShelfGreys, ok)
            /\ shelf' = [page |-> IF ok THEN ShelfPageStart ELSE -1, selected |-> selected]
      BY <2>2 DEF FlushShelfGrey, FlushShelfPage
    <3>2. fb' = ShelfFrame /\ pushed' = ShelfFrame /\ greyOn' = TRUE
            /\ glass' = [bw |-> ShelfFrame, grey |-> ShelfGreys]
            /\ past' = [Flushed(ok, TRUE) EXCEPT !.moved = FALSE]
      BY <3>1 DEF FlushGrey
    <3>3. past' \in [lost : BOOLEAN, moved : BOOLEAN, polled : BOOLEAN] /\ past'.polled = FALSE
            /\ (~ past'.lost => ok)
      BY <3>2, FlushedKnown DEF PanelInv
    <3>4. -1 \in Int /\ ShelfPageStart \in Int
      BY <1>1
    <3>5. shelf' \in [page : Int, selected : Nat] /\ (ok => shelf'.page = ShelfPageStart)
      BY <1>1, <3>1, <3>4
    <3>. QED
      BY <3>2, <3>3, <3>5
  <2>. QED
    BY <2>1, <2>2
<1>5. PanelTyped'
  BY <1>4 DEF PanelInv, PanelTyped
<1>6. LibraryInv'
  <2>1. FramePushed' /\ HomeForgets' /\ OtherDrawn'
    BY <1>4 DEF FramePushed, HomeForgets, OtherDrawn
  <2>2. GreysHeld'
    BY <1>2, <1>4 DEF GreysHeld
  <2>3. ShelfDrawn'
    BY <1>3, <1>4 DEF ShelfDrawn
  <2>. QED
    BY <2>1, <2>2, <2>3 DEF LibraryInv
<1>7. HomeInv'
  BY <1>4 DEF PanelInv, HomeInv, HomeDrawn, PhotoThere, NoTimeYet, HomeOnTime
<1>. QED
  BY <1>5, <1>6, <1>7 DEF PanelInv

(* The other screens are drawn whole.                                      *)
LEMMA OtherRepainted ==
  ASSUME PanelInv, mode = "other", NEW ok \in BOOLEAN, Flush(OtherFrame, ~ force, ok),
         dirty' = FALSE, force' = FALSE,
         UNCHANGED <<mode, books, selected, said, time, photos, home, shelf>>
  PROVE  PanelInv'
<1>1. fb' = OtherFrame /\ pushed' = OtherFrame /\ greyOn' = FALSE
        /\ glass' = [bw |-> OtherFrame, grey |-> <<>>]
  BY DEF Flush
<1>2. PICK whole \in BOOLEAN : past' = Flushed(ok, whole)
  BY Zenon DEF Flush
<1>3. past' \in [lost : BOOLEAN, moved : BOOLEAN, polled : BOOLEAN] /\ past'.polled = FALSE
  BY <1>2, FlushedKnown DEF PanelInv
<1>4. OtherFrame' = OtherFrame
  BY DEF OtherFrame
<1>5. PanelTyped'
  BY <1>1, <1>3 DEF PanelInv, PanelTyped
<1>6. LibraryInv'
  BY <1>1, <1>4 DEF LibraryInv, FramePushed, GreysHeld, HomeForgets, ShelfDrawn, OtherDrawn
<1>7. HomeInv'
  BY <1>3 DEF PanelInv, HomeInv, HomeDrawn, PhotoThere, NoTimeYet, HomeOnTime
<1>. QED
  BY <1>5, <1>6, <1>7 DEF PanelInv

(* Home is only told that a whole frame is asked for.                      *)
LEMMA RepaintStep == ASSUME PanelInv, Repaint PROVE PanelInv'
<1>1. dirty' = FALSE /\ UNCHANGED <<mode, books, selected, said, time, photos>>
  BY DEF Repaint
<1>2. CASE mode = "home"
  <2>1. home' = [home EXCEPT !.pending = TRUE] /\ Stirred /\ UNCHANGED <<driver, glass, shelf, force>>
    BY <1>2 DEF Repaint
  <2>2. home'.pending /\ home'.time = home.time /\ home'.shown = home.shown
          /\ home'.photo = home.photo /\ home'.reload = home.reload
          /\ home' \in [pending : BOOLEAN, reload : BOOLEAN, drawn : BOOLEAN, time : Times,
                        next : Nat, count : Nat, shown : Nat, photo : Nat]
    BY <2>1 DEF PanelInv, PanelTyped
  <2>3. PanelTyped'
    BY <1>1, <2>1, <2>2, RestTyped DEF driver, PanelInv, PanelTyped
  <2>4. PhotoThere' /\ NoTimeYet'
    BY <1>1, <2>2 DEF PanelInv, HomeInv, PhotoThere, NoTimeYet
  <2>5. mode' = "home" /\ shelf'.page = -1
    BY <1>1, <1>2, <2>1 DEF PanelInv, LibraryInv, HomeForgets
  <2>. QED
    BY <2>1, <2>2, <2>3, <2>4, <2>5, GlassLeft
<1>3. CASE mode = "shelf"
  BY <1>1, <1>3, ShelfRepainted DEF Repaint
<1>4. CASE mode = "other"
  BY <1>1, <1>4, OtherRepainted DEF Repaint
<1>. QED
  BY <1>2, <1>3, <1>4 DEF PanelInv, PanelTyped


-----------------------------------------------------------------------------
(* The photos of the card                                                  *)

(* A nonempty finite set of numbers has a greatest one.                    *)
LEMMA GreatestPhoto ==
  ASSUME NEW S \in SUBSET Nat, IsFiniteSet(S), S # {}
  PROVE  \E m \in S : \A q \in S : q <= m
<1>. DEFINE above(p) == {q \in S : p < q}
            tails == {above(p) : p \in S}
<1>1. ASSUME NEW p \in S PROVE above(p) \in FiniteSubsetsOf(Nat)
  <2>1. above(p) \subseteq S /\ above(p) \subseteq Nat
    OBVIOUS
  <2>2. IsFiniteSet(above(p))
    BY <2>1, FS_Subset
  <2>. QED
    BY <2>1, <2>2 DEF FiniteSubsetsOf
<1>2. tails \subseteq FiniteSubsetsOf(Nat) /\ tails # {}
  BY <1>1
<1>3. PICK t \in tails : \A u \in tails : <<u, t>> \notin StrictSubsetOrdering(Nat)
  <2>. HIDE DEF tails
  <2>. QED
    BY <1>2, WFMin, FS_StrictSubsetOrderingWellFounded
<1>4. PICK m \in S : t = above(m)
  OBVIOUS
<1>5. ASSUME NEW q \in S, ~ q <= m PROVE FALSE
  <2>1. m \in Nat /\ q \in Nat /\ m < q
    BY <1>5
  <2>2. above(q) \subseteq above(m) /\ above(m) \subseteq Nat
    <3>1. \A r \in S : r \in Nat
      OBVIOUS
    <3>2. \A r \in S : q < r => m < r
      BY <2>1, <3>1
    <3>. QED
      BY <3>1, <3>2
  <2>3. q \in above(m) /\ q \notin above(q)
    BY <2>1
  <2>4. <<above(q), above(m)>> \in StrictSubsetOrdering(Nat)
    <3>. HIDE DEF above
    <3>. QED
      BY <2>2, <2>3 DEF StrictSubsetOrdering
  <2>. QED
    BY <1>3, <1>4, <2>4
<1>. QED
  BY <1>5

(* A nonempty set of numbers has a least one.                              *)
LEMMA LeastPhoto ==
  ASSUME NEW S \in SUBSET Nat, S # {}
  PROVE  \E m \in S : \A k \in S : m <= k
<1>. DEFINE R == OpToRel(<, Nat)
<1>1. IsWellFoundedOn(R, Nat)
  BY NatLessThanWellFounded
<1>2. \A m, k \in Nat : m < k => <<m, k>> \in R
  BY DEF OpToRel
<1>. HIDE DEF R
<1>3. PICK m \in S : \A k \in S : ~ (<<k, m>> \in R)
  BY <1>1, WFMin
<1>4. ASSUME NEW k \in S PROVE m <= k
  <2>1. ~ (k < m)
    BY <1>2, <1>3
  <2>. QED
    BY <2>1
<1>. QED
  BY <1>4

(* Of some numbers there is one with n below it.                           *)
LEMMA NthBelow ==
  ASSUME NEW S \in SUBSET Nat, IsFiniteSet(S), NEW n \in Nat, n < Cardinality(S)
  PROVE  \E p \in S : Cardinality({q \in S : q < p}) = n
<1>. DEFINE below(p) == {q \in S : q < p}
            few      == {p \in S : Cardinality(below(p)) <= n}
<1>1. ASSUME NEW p \in S PROVE IsFiniteSet(below(p)) /\ Cardinality(below(p)) \in Nat
  <2>1. below(p) \subseteq S
    OBVIOUS
  <2>. QED
    BY <2>1, FS_Subset, FS_CardinalityType
<1>2. S # {} /\ Cardinality(S) \in Nat
  BY FS_EmptySet, FS_CardinalityType
<1>3. few # {}
  <2>1. PICK p \in S : \A q \in S : p <= q
    BY <1>2, LeastPhoto
  <2>2. below(p) = {}
    <3>1. \A q \in S : q \in Nat /\ p \in Nat
      OBVIOUS
    <3>2. \A q \in S : ~ q < p
      BY <2>1, <3>1
    <3>. QED
      BY <3>2
  <2>3. Cardinality(below(p)) = 0
    BY <2>2, FS_EmptySet
  <2>. QED
    BY <2>3
<1>4. few \subseteq S /\ few \subseteq Nat /\ IsFiniteSet(few)
  BY FS_Subset
<1>5. PICK p \in few : \A q \in few : q <= p
  <2>. HIDE DEF few
  <2>. QED
    BY <1>3, <1>4, GreatestPhoto
<1>6. p \in S /\ p \in Nat /\ Cardinality(below(p)) <= n
  BY <1>4
<1>7. CASE Cardinality(below(p)) = n
  BY <1>6, <1>7
<1>8. CASE Cardinality(below(p)) # n
  <2>. DEFINE more == {q \in S : p < q}
  <2>1. below(p) \cup {p} \subseteq S /\ p \notin below(p)
    BY <1>6
  <2>2. Cardinality(below(p) \cup {p}) = Cardinality(below(p)) + 1 /\ Cardinality(below(p)) < n
    BY <1>1, <1>6, <1>8, <2>1, FS_AddElement
  <2>3. more # {}
    <3>1. below(p) \cup {p} # S
      BY <1>1, <1>2, <1>6, <2>2
    <3>2. PICK q \in S : q \notin below(p) \cup {p}
      BY <2>1, <3>1
    <3>. QED
      BY <1>6, <3>2
  <2>4. PICK q \in more : \A r \in more : q <= r
    <3>1. more \subseteq Nat
      OBVIOUS
    <3>. HIDE DEF more
    <3>. QED
      BY <2>3, <3>1, LeastPhoto
  <2>5. below(q) = below(p) \cup {p}
    <3>1. q \in S /\ p < q /\ q \in Nat
      OBVIOUS
    <3>2. ASSUME NEW r \in S, r < q PROVE r <= p
      BY <1>6, <2>4, <3>1, <3>2
    <3>3. \A r \in S : r < q <=> r < p \/ r = p
      <4>1. \A r \in S : r \in Nat
        OBVIOUS
      <4>. QED
        BY <1>6, <3>1, <3>2, <4>1
    <3>. QED
      BY <1>6, <3>3
  <2>6. Cardinality(below(q)) <= n /\ q \in S
    BY <1>1, <1>6, <2>2, <2>5
  <2>7. q \in few /\ p < q
    BY <2>6
  <2>. QED
    BY <1>5, <1>6, <2>7
<1>. QED
  BY <1>7, <1>8


(* It is the one that is taken.                                            *)
LEMMA NthOfPhotos ==
  ASSUME NEW S \in SUBSET Nat, IsFiniteSet(S), NEW n \in Nat, n < Cardinality(S)
  PROVE  Nth(S, n) \in S
BY NthBelow DEF Nth

-----------------------------------------------------------------------------
(* PollHomeScreen()                                                        *)

HomeRecords == [pending : BOOLEAN, reload : BOOLEAN, drawn : BOOLEAN, time : Times,
                next : Nat, count : Nat, shown : Nat, photo : Nat]

(* The photo that is next is one on the card.                              *)
LEMMA PhotoAdvanced ==
  ASSUME NEW h \in HomeRecords, NEW read \in BOOLEAN, NEW list \in SUBSET Photos
  PROVE  /\ AdvancePhoto(h, list, read) \in HomeRecords
         /\ AdvancePhoto(h, list, read).reload = h.reload
         /\ AdvancePhoto(h, list, read).drawn = h.drawn
         /\ AdvancePhoto(h, list, read).shown # 0 => AdvancePhoto(h, list, read).photo \in list
<1>1. list \in SUBSET Nat /\ IsFiniteSet(list) /\ Cardinality(list) \in Nat
  BY PanelAssumption, FS_Subset, FS_CardinalityType
<1>2. CASE list = {}
  <2>1. AdvancePhoto(h, list, read) = [h EXCEPT !.count = 0, !.shown = 0, !.photo = 0]
    BY <1>2 DEF AdvancePhoto
  <2>2. AdvancePhoto(h, list, read) = [h EXCEPT !.count = 0, !.shown = 0, !.photo = 0, !.next = h.next]
    BY <2>1 DEF HomeRecords
  <2>3. h.next \in Nat /\ 0 \in Nat
    BY DEF HomeRecords
  <2>4. PICK r : r = AdvancePhoto(h, list, read)
    OBVIOUS
  <2>5. r \in HomeRecords /\ r.reload = h.reload /\ r.drawn = h.drawn /\ r.shown = 0
    BY <2>2, <2>3, <2>4 DEF HomeRecords
  <2>. QED
    BY <2>4, <2>5
<1>3. CASE list # {}
  <2>. DEFINE n == IF h.next >= Cardinality(list) THEN 0 ELSE h.next
  <2>1. Cardinality(list) # 0
    BY <1>1, <1>3, FS_EmptySet
  <2>2. n \in Nat /\ n < Cardinality(list)
    BY <1>1, <2>1 DEF HomeRecords
  <2>3. Nth(list, n) \in list /\ Nth(list, n) \in Nat
    <3>. HIDE DEF n
    <3>. QED
      BY <1>1, <2>2, NthOfPhotos
  <2>4. (n + 1) % Cardinality(list) \in Nat
    <3>1. \A m \in Nat, d \in Nat \ {0} : m % d \in Nat
      OBVIOUS
    <3>. HIDE DEF n
    <3>2. n + 1 \in Nat
      BY <2>2
    <3>. QED
      BY <1>1, <2>1, <3>1, <3>2
  <2>5. AdvancePhoto(h, list, read) =
          [h EXCEPT !.count = Cardinality(list),
                    !.shown = IF read THEN n + 1 ELSE 0,
                    !.photo = IF read THEN Nth(list, n) ELSE 0,
                    !.next  = (n + 1) % Cardinality(list)]
    BY <1>3 DEF AdvancePhoto
  <2>. DEFINE s == IF read THEN n + 1 ELSE 0
              p == IF read THEN Nth(list, n) ELSE 0
  <2>6. s \in Nat /\ p \in Nat /\ (s # 0 => p \in list)
    BY <2>2, <2>3
  <2>. HIDE DEF n, s, p
  <2>7. AdvancePhoto(h, list, read) =
          [h EXCEPT !.count = Cardinality(list), !.shown = s, !.photo = p,
                    !.next = (n + 1) % Cardinality(list)]
    BY <2>5 DEF s, p
  <2>8. PICK c \in Nat, x \in Nat : c = Cardinality(list) /\ x = (n + 1) % Cardinality(list)
    BY <1>1, <2>4
  <2>9. PICK r : r = AdvancePhoto(h, list, read)
    OBVIOUS
  <2>10. r = [h EXCEPT !.count = c, !.shown = s, !.photo = p, !.next = x]
    BY <2>7, <2>8, <2>9
  <2>11. r \in HomeRecords /\ r.reload = h.reload /\ r.drawn = h.drawn /\ r.shown = s /\ r.photo = p
    BY <2>6, <2>10 DEF HomeRecords
  <2>. QED
    BY <2>6, <2>9, <2>11
<1>. QED
  BY <1>2, <1>3

(* A whole frame is drawn: home remembers what it shows.                   *)
LEMMA HomeDrawnWhole ==
  ASSUME PanelInv, mode = "home", ~ dirty, NEW ok \in BOOLEAN, NEW h \in HomeRecords,
         ~ h.reload /\ h.shown # 0 => h.photo \in photos, ~ h.reload,
         HomeGreyFrame(h, ok),
         UNCHANGED <<mode, dirty, force, books, selected, said, shelf, photos>>
  PROVE  PanelInv'
<1>1. fb' = HomeFrame(h) /\ pushed' = HomeFrame(h) /\ greyOn' = TRUE
        /\ glass' = [bw |-> HomeFrame(h), grey |-> HomeGreys(h)]
        /\ past' = [Flushed(ok, TRUE) EXCEPT !.moved = FALSE]
        /\ home' = [h EXCEPT !.time = LocalTime, !.pending = FALSE, !.drawn = TRUE]
        /\ time' = [time EXCEPT !.age = 0]
  BY DEF HomeGreyFrame, FlushGrey
<1>2. past' \in [lost : BOOLEAN, moved : BOOLEAN, polled : BOOLEAN]
  BY <1>1, FlushedKnown DEF PanelInv
<1>3. LocalTime \in Times
  BY LocalTimeTyped DEF PanelInv
<1>4. home' \in HomeRecords /\ home'.time = LocalTime /\ home'.shown = h.shown
        /\ home'.count = h.count /\ home'.photo = h.photo /\ home'.reload = h.reload
  BY <1>1, <1>3 DEF HomeRecords
<1>5. time'.valid = time.valid /\ time'.clock = time.clock
        /\ time' \in [clock : Nat, valid : BOOLEAN, age : Int]
  <2>1. 0 \in Int
    OBVIOUS
  <2>. QED
    BY <1>1, <2>1 DEF PanelInv, PanelTyped
<1>6. PanelTyped'
  BY <1>1, <1>2, <1>4, <1>5 DEF PanelInv, PanelTyped, HomeRecords
<1>7. LocalTime' = LocalTime
  BY <1>5 DEF LocalTime, Now
<1>8. shelf'.page = -1
  BY DEF PanelInv, LibraryInv, HomeForgets
<1>9. LibraryInv'
  BY <1>1, <1>8 DEF LibraryInv, FramePushed, GreysHeld, HomeForgets, ShelfDrawn, OtherDrawn
<1>10. HomeGreys(home') = HomeGreys(h)
  BY <1>4 DEF HomeGreys
<1>11. HomeDrawn'
  <2>1. LastHomeFrame' = HomeFrame(h)
    BY <1>4 DEF LastHomeFrame, HomeFrame
  <2>. QED
    BY <1>1, <1>10, <2>1 DEF HomeDrawn
<1>12. PhotoThere'
  BY <1>4 DEF PhotoThere
<1>13. NoTimeYet'
  BY <1>4, <1>5 DEF NoTimeYet, LocalTime
<1>14. HomeOnTime'
  <2>1. HomeFrame(home)' = HomeFrame(h)
    BY <1>4, <1>7 DEF HomeFrame
  <2>2. HomeGreys(home)' = HomeGreys(h)
    BY <1>10 DEF HomeGreys
  <2>3. home'.shown # 0 => home'.photo \in photos'
    BY <1>4
  <2>. QED
    BY <1>1, <2>1, <2>2, <2>3 DEF HomeOnTime
<1>. QED
  BY <1>6, <1>9, <1>11, <1>12, <1>13, <1>14 DEF PanelInv, HomeInv


(* Only the minute is drawn: the rest of what home remembers is on the     *)
(* glass.                                                                  *)
LEMMA MinuteDrawn ==
  ASSUME PanelInv, mode = "home", ~ dirty, ~ home.pending, ~ home.reload, NextMinute,
         NEW ok \in BOOLEAN, HomeClockTick(ok),
         UNCHANGED <<mode, dirty, force, books, selected, said, shelf, photos>>
  PROVE  PanelInv'
<1>. DEFINE tick(f) == [f EXCEPT !.time.minute = Now.minute]
<1>1. fb' = tick(fb) /\ pushed' = tick(pushed) /\ glass' = [glass EXCEPT !.bw = tick(glass.bw)]
        /\ past' = Flushed(ok, FALSE) /\ greyOn' = greyOn
        /\ home' = [home EXCEPT !.time.minute = Now.minute] /\ time' = time
  BY DEF HomeClockTick, FlushWindow
<1>2. past' \in [lost : BOOLEAN, moved : BOOLEAN, polled : BOOLEAN]
        /\ (~ past'.lost => ~ past.lost) /\ past'.moved = past.moved
  BY <1>1, FlushedKnown DEF PanelInv
<1>3. time.valid /\ home.time # NoTime /\ Now.day = home.time.day /\ LocalTime = Now
        /\ Now \in Times /\ home.time \in Times /\ home \in HomeRecords
  BY LocalTimeTyped DEF NextMinute, DayIsStale, LocalTime, PanelInv, PanelTyped, HomeRecords
<1>4. Now = [home.time EXCEPT !.minute = Now.minute]
  BY <1>3 DEF Times
<1>5. home' \in HomeRecords /\ home'.time = Now /\ home'.shown = home.shown
        /\ home'.count = home.count /\ home'.photo = home.photo /\ home'.reload = home.reload
        /\ home'.pending = home.pending
  BY <1>1, <1>3, <1>4 DEF HomeRecords, Times
<1>6. glass' = [bw |-> tick(glass.bw), grey |-> glass.grey]
  BY <1>1 DEF PanelInv, PanelTyped
<1>7. PanelTyped'
  BY <1>1, <1>2, <1>5, <1>6 DEF PanelInv, PanelTyped, HomeRecords
<1>8. shelf'.page = -1
  BY DEF PanelInv, LibraryInv, HomeForgets
<1>9. LibraryInv'
  <2>1. FramePushed'
    BY <1>1, <1>2, <1>6 DEF PanelInv, LibraryInv, FramePushed
  <2>. QED
    BY <1>8, <2>1 DEF LibraryInv, GreysHeld, HomeForgets, ShelfDrawn, OtherDrawn
<1>10. LocalTime' = LocalTime
  BY <1>1 DEF LocalTime, Now
<1>11. tick(LastHomeFrame) = Frame("home", <<>>, <<said.status, home.shown, home.count>>, Now)
  BY <1>4 DEF LastHomeFrame, Frame
<1>12. HomeGreys(home') = HomeGreys(home)
  BY <1>5 DEF HomeGreys
<1>13. ~ past'.lost =>
         glass' = [bw |-> Frame("home", <<>>, <<said.status, home.shown, home.count>>, Now),
                   grey |-> HomeGreys(home)]
  <2>1. ~ past'.lost => glass.bw = LastHomeFrame /\ glass.grey = HomeGreys(home)
    BY <1>2 DEF PanelInv, HomeInv, HomeDrawn
  <2>. QED
    BY <1>6, <1>11, <2>1
<1>14. HomeDrawn'
  <2>1. LastHomeFrame' = Frame("home", <<>>, <<said.status, home.shown, home.count>>, Now)
    BY <1>5 DEF LastHomeFrame
  <2>. QED
    BY <1>12, <1>13, <2>1 DEF HomeDrawn
<1>15. PhotoThere' /\ NoTimeYet'
  BY <1>1, <1>3, <1>5 DEF PanelInv, HomeInv, PhotoThere, NoTimeYet
<1>16. HomeOnTime'
  <2>1. HomeFrame(home)' = Frame("home", <<>>, <<said.status, home.shown, home.count>>, Now)
    BY <1>3, <1>5, <1>10 DEF HomeFrame
  <2>2. HomeGreys(home)' = HomeGreys(home)
    BY <1>12 DEF HomeGreys
  <2>3. home'.shown # 0 => home'.photo \in photos'
    BY <1>5 DEF PanelInv, HomeInv, PhotoThere
  <2>. QED
    BY <1>13, <2>1, <2>2, <2>3 DEF HomeOnTime
<1>. QED
  BY <1>7, <1>9, <1>14, <1>15, <1>16 DEF PanelInv, HomeInv

(* Nothing is drawn: a whole frame waits for the gap, or all is shown.     *)
LEMMA NothingDrawn ==
  ASSUME PanelInv, mode = "home", ~ dirty,
         home' \in HomeRecords, home'.reload => home.reload,
         past' = [past EXCEPT !.polled = TRUE],
         UNCHANGED <<driver, glass, time>>,
         UNCHANGED <<mode, dirty, force, books, selected, said, shelf, photos>>,
         \/ /\ home'.pending /\ home'.drawn /\ time.age < Gap
            /\ PhotoThere' /\ (~ time.valid => home'.time = NoTime)
         \/ /\ home' = home /\ ~ home.pending /\ ~ home.reload /\ ~ DayIsStale /\ ~ NextMinute
  PROVE  PanelInv'
<1>1. past'.lost = past.lost /\ past'.moved = past.moved
        /\ past' \in [lost : BOOLEAN, moved : BOOLEAN, polled : BOOLEAN]
  BY DEF PanelInv, PanelTyped
<1>2. UNCHANGED <<fb, pushed, greyOn>>
  BY DEF driver
<1>3. PanelTyped'
  BY <1>1, <1>2 DEF PanelInv, PanelTyped, HomeRecords
<1>4. LibraryInv'
  BY <1>1, <1>2 DEF PanelInv, LibraryInv, FramePushed, GreysHeld, HomeForgets, ShelfDrawn, OtherDrawn
<1>5. HomeDrawn' /\ PhotoThere' /\ NoTimeYet'
  BY <1>1 DEF PanelInv, HomeInv, HomeDrawn, PhotoThere, NoTimeYet, LastHomeFrame
<1>6. HomeOnTime'
  <2>1. CASE home'.pending /\ home'.drawn /\ time.age < Gap
    BY <2>1 DEF HomeOnTime
  <2>2. CASE home' = home /\ ~ home.pending /\ ~ home.reload /\ ~ DayIsStale /\ ~ NextMinute
    <3>1. home.time = LocalTime
      <4>1. CASE ~ time.valid
        BY <4>1 DEF LocalTime, PanelInv, HomeInv, NoTimeYet
      <4>2. CASE time.valid
        <5>1. Now.day = home.time.day /\ Now.minute = home.time.minute
          BY <2>2, <4>2 DEF DayIsStale, NextMinute
        <5>2. Now \in Times /\ home.time \in Times
          BY LocalTimeTyped DEF PanelInv, PanelTyped
        <5>. QED
          BY <4>2, <5>1, <5>2 DEF LocalTime, Times
      <4>. QED
        BY <4>1, <4>2
    <3>2. LocalTime' = LocalTime
      BY DEF LocalTime, Now
    <3>3. HomeFrame(home)' = LastHomeFrame
      BY <2>2, <3>1, <3>2 DEF HomeFrame, LastHomeFrame
    <3>4. HomeGreys(home)' = HomeGreys(home)
      BY <2>2 DEF HomeGreys
    <3>5. ~ past.lost => glass = [bw |-> LastHomeFrame, grey |-> HomeGreys(home)]
      BY <2>2 DEF PanelInv, HomeInv, HomeDrawn
    <3>6. home'.shown # 0 => home'.photo \in photos'
      BY <2>2 DEF PanelInv, HomeInv, PhotoThere
    <3>. QED
      BY <1>1, <3>3, <3>4, <3>5, <3>6 DEF HomeOnTime
  <2>. QED
    BY <2>1, <2>2
<1>. QED
  BY <1>3, <1>4, <1>5, <1>6 DEF PanelInv, HomeInv

(* PollHomeScreen() as a whole.                                            *)
LEMMA PollStep == ASSUME PanelInv, PollHomeScreen PROVE PanelInv'
<1>. DEFINE full  == home.reload \/ home.pending \/ DayIsStale \/ PhotoIsDue
            early == home.drawn /\ time.age < Gap
            moves == home.reload \/ (~ home.pending /\ ~ DayIsStale)
            next(read) == IF moves THEN AdvancePhoto([home EXCEPT !.reload = FALSE], photos, read) ELSE home
<1>1. mode = "home" /\ ~ dirty
        /\ UNCHANGED <<mode, dirty, force, books, selected, said, shelf, photos>>
        /\ home \in HomeRecords
  BY DEF PollHomeScreen, PanelInv, PanelTyped, HomeRecords
<1>2. CASE ~ full /\ NextMinute /\ \E ok \in BOOLEAN : HomeClockTick(ok)
  BY <1>1, <1>2, MinuteDrawn
<1>3. CASE ~ full /\ ~ NextMinute /\ past' = [past EXCEPT !.polled = TRUE]
             /\ UNCHANGED <<driver, glass, time, home>>
  BY <1>1, <1>3, NothingDrawn
<1>4. ASSUME NEW read \in BOOLEAN, NEW ok \in BOOLEAN,
             \/ /\ early
                /\ home' = [next(read) EXCEPT !.pending = TRUE]
                /\ past' = [past EXCEPT !.polled = TRUE]
                /\ UNCHANGED <<driver, glass, time>>
             \/ ~ early /\ HomeGreyFrame(next(read), ok)
      PROVE  PanelInv'
  <2>1. PICK h : h = next(read)
    OBVIOUS
  <2>2. /\ h \in HomeRecords /\ ~ h.reload /\ h.drawn = home.drawn
        /\ h.shown # 0 => h.photo \in photos
    <3>1. CASE moves
      <4>1. PICK g : g = [home EXCEPT !.reload = FALSE]
        OBVIOUS
      <4>2. g \in HomeRecords /\ g.reload = FALSE /\ g.drawn = home.drawn
        BY <1>1, <4>1 DEF HomeRecords
      <4>3. h = AdvancePhoto(g, photos, read) /\ photos \in SUBSET Photos
        BY <2>1, <3>1, <4>1 DEF PanelInv, PanelTyped
      <4>. QED
        BY <4>2, <4>3, PhotoAdvanced
    <3>2. CASE ~ moves
      BY <1>1, <2>1, <3>2 DEF PanelInv, HomeInv, PhotoThere
    <3>. QED
      BY <3>1, <3>2
  <2>3. ~ time.valid => h.time = NoTime
    <3>1. h.time = home.time
      <4>1. CASE moves
        <5>1. h.time = [home EXCEPT !.reload = FALSE].time
          BY <1>1, <2>1, <4>1 DEF AdvancePhoto, HomeRecords
        <5>. QED
          BY <1>1, <5>1 DEF HomeRecords
      <4>2. CASE ~ moves
        BY <2>1, <4>2
      <4>. QED
        BY <4>1, <4>2
    <3>. QED
      BY <3>1 DEF PanelInv, HomeInv, NoTimeYet
  <2>4. CASE ~ early /\ HomeGreyFrame(h, ok)
    BY <1>1, <2>2, <2>4, HomeDrawnWhole
  <2>5. CASE /\ early /\ home' = [h EXCEPT !.pending = TRUE]
             /\ past' = [past EXCEPT !.polled = TRUE] /\ UNCHANGED <<driver, glass, time>>
    <3>1. home' \in HomeRecords /\ home'.pending /\ home'.drawn /\ ~ home'.reload
            /\ home'.shown = h.shown /\ home'.photo = h.photo /\ home'.time = h.time
      BY <2>2, <2>5 DEF HomeRecords
    <3>2. PhotoThere'
      BY <1>1, <2>2, <3>1 DEF PhotoThere
    <3>. QED
      BY <1>1, <2>3, <2>5, <3>1, <3>2, NothingDrawn
  <2>. QED
    BY <1>4, <2>1, <2>4, <2>5
<1>5. \/ ~ full /\ NextMinute /\ \E ok \in BOOLEAN : HomeClockTick(ok)
      \/ ~ full /\ ~ NextMinute /\ past' = [past EXCEPT !.polled = TRUE]
           /\ UNCHANGED <<driver, glass, time, home>>
      \/ \E read, ok \in BOOLEAN :
           \/ /\ early
              /\ home' = [next(read) EXCEPT !.pending = TRUE]
              /\ past' = [past EXCEPT !.polled = TRUE]
              /\ UNCHANGED <<driver, glass, time>>
           \/ ~ early /\ HomeGreyFrame(next(read), ok)
  BY Zenon DEF PollHomeScreen
<1>. HIDE DEF full, early, next
<1>. QED
  BY <1>2, <1>3, <1>4, <1>5


-----------------------------------------------------------------------------
(* Panel: the theorems                                                     *)

(* The device starts at home, which is to be drawn.                        *)
LEMMA InitPanelInv == PanelInit => PanelInv
<1>. SUFFICES ASSUME PanelInit PROVE PanelInv
  OBVIOUS
<1>1. NoTime \in Times /\ 0 \in Nat /\ -1 \in Int
  BY DEF NoTime, Times
<1>2. home \in HomeRecords /\ home.pending /\ home.reload /\ home.time = NoTime
  BY <1>1 DEF PanelInit, HomeRecords
<1>3. time \in [clock : Nat, valid : BOOLEAN, age : Int]
        /\ past = [lost |-> FALSE, moved |-> FALSE, polled |-> FALSE]
        /\ shelf \in [page : Int, selected : Nat] /\ shelf.page = -1
        /\ said \in [status : BOOLEAN, turn : BOOLEAN]
  BY <1>1 DEF PanelInit, NoShelf
<1>4. PanelTyped
  <2>1. books = <<>> /\ <<>> \in Seq(Books) /\ selected \in Nat /\ glass = [bw |-> Blank, grey |-> <<>>]
          /\ mode = "home" /\ dirty = TRUE /\ force = TRUE /\ greyOn = FALSE /\ photos \in SUBSET Photos
    BY DEF PanelInit
  <2>2. past \in [lost : BOOLEAN, moved : BOOLEAN, polled : BOOLEAN]
          /\ glass = [bw |-> glass.bw, grey |-> glass.grey]
    BY <1>3, <2>1
  <2>. QED
    BY <1>2, <1>3, <2>1, <2>2 DEF PanelTyped, HomeRecords
<1>5. LibraryInv
  BY <1>3 DEF PanelInit, LibraryInv, FramePushed, GreysHeld, HomeForgets, ShelfDrawn, OtherDrawn
<1>6. HomeInv
  BY <1>2, <1>3 DEF HomeInv, HomeDrawn, PhotoThere, NoTimeYet, HomeOnTime
<1>. QED
  BY <1>4, <1>5, <1>6 DEF PanelInv

LEMMA NextPanelInv == ASSUME PanelInv, [PanelNext]_panelVars PROVE PanelInv'
<1>1. CASE UNCHANGED panelVars
  <2>1. UNCHANGED <<mode, dirty, force, books, selected, said, fb, pushed, greyOn,
                    shelf, home, time, photos, glass, past>>
    BY <1>1 DEF panelVars
  <2>2. PanelTyped'
    BY <2>1 DEF PanelInv, PanelTyped
  <2>3. LibraryInv'
    BY <2>1, ShelfFrameKept DEF PanelInv, LibraryInv, FramePushed, GreysHeld, HomeForgets,
                                ShelfDrawn, OtherDrawn, OtherFrame
  <2>4. LocalTime' = LocalTime
    BY <2>1 DEF LocalTime, Now
  <2>5. HomeDrawn' /\ PhotoThere' /\ NoTimeYet'
    BY <2>1 DEF PanelInv, HomeInv, HomeDrawn, PhotoThere, NoTimeYet, LastHomeFrame
  <2>6. HomeOnTime'
    BY <2>1, <2>4 DEF PanelInv, HomeInv, HomeOnTime, HomeFrame
  <2>. QED
    BY <2>2, <2>3, <2>5, <2>6 DEF PanelInv, HomeInv
<1>2. CASE PanelNext
  BY <1>2, RepaintStep, PollStep, HomeAndBack, HomeStep, LibraryStep DEF PanelNext, Refreshes
<1>. QED
  BY <1>1, <1>2

(* The invariant holds in every reachable state.                           *)
THEOREM PanelInvariance == PanelSpec => []PanelInv
BY InitPanelInv, NextPanelInv, PTL DEF PanelSpec

(* Unless a refresh has failed since the last whole one, the glass shows   *)
(* what was drawn last, and once nobody asks for a repaint what the screen *)
(* would draw now: updates of strips of titles leave nothing old on it,    *)
(* the greys of an earlier page included.                                  *)
THEOREM GlassAlwaysTheFrame == PanelSpec => []GlassIsTheFrame
<1>1. PanelInv => GlassIsTheFrame
  <2>. SUFFICES ASSUME PanelInv, ~ past.lost
                PROVE  /\ glass.bw = fb
                       /\ mode = "shelf" /\ ~ dirty /\ ~ past.moved =>
                            glass = [bw |-> ShelfFrame, grey |-> ShelfGreys]
                       /\ mode = "other" /\ ~ dirty => glass = [bw |-> OtherFrame, grey |-> <<>>]
    BY Zenon DEF GlassIsTheFrame
  <2>. QED
    BY DEF PanelInv, LibraryInv, FramePushed, ShelfDrawn, OtherDrawn
<1>. QED
  BY PanelInvariance, <1>1, PTL

(* After each poll home shows the present minute of the present day and a  *)
(* photo that is on the card, or a whole frame waits for the gap to pass.  *)
THEOREM HomeAlwaysOnTime == PanelSpec => []HomeOnTime
<1>1. PanelInv => HomeOnTime
  BY DEF PanelInv, HomeInv
<1>. QED
  BY PanelInvariance, <1>1, PTL


-----------------------------------------------------------------------------
(* Input: the inductive invariant.  What a button remembers and what the   *)
(* user was told of it agree, apart from the one event of it that may be   *)
(* waiting in the queue; as long as a press is shorter than a long one,    *)
(* its true age is the one millis() gives.                                 *)

Keys     == DOMAIN Buttons
Clocks   == 0..(Clock - 1)
Lines    == [stable : BOOLEAN, candidate : BOOLEAN, since : Clocks]
ButtonRecords == [line : Lines, pressed : BOOLEAN, reported : BOOLEAN, from : Clocks]
Actions  == {"none", "down", "click", "long", "up", "rotate"}
Events   == [source : {0} \cup Keys, action : Actions, delta : Int]

InputTyped ==
  /\ now \in Clocks
  /\ buttons \in [Keys -> ButtonRecords]
  /\ wheel \in [a : Lines, b : Lines, pending : Int, last : Clocks]
  /\ queue \in Seq(Events)
  /\ seen \in [told : [Keys -> {"none", "down", "long", "boot"}],
               held : [Keys -> 0..LongPress], still : 0..Quiet]

(* Nothing of the button waits to be told.                                 *)
Settled(b, told, held, t) ==
  \/ ~ b.pressed /\ told = "none"
  \/ b.pressed /\ ~ b.reported /\ told = "down" /\ held < LongPress /\ (t - b.from) % Clock = held
  \/ b.pressed /\ b.reported /\ told \in {"long", "boot"}

(* An event of it waits in the queue.                                      *)
Waiting(b, action, told, held, t) ==
  \/ action = "down" /\ told = "none" /\ b.pressed /\ ~ b.reported /\ b.from = t
  \/ action = "click" /\ told = "down" /\ ~ b.pressed
  \/ action = "long" /\ told = "down" /\ held = LongPress /\ b.pressed /\ b.reported
  \/ action = "up" /\ told \in {"long", "boot"} /\ ~ b.pressed

OneEach == \A j, k \in DOMAIN queue : queue[j].source = queue[k].source => j = k
ButtonAgrees(i) ==
  /\ buttons[i].pressed = buttons[i].line.stable
  /\ \/ /\ \A j \in DOMAIN queue : queue[j].source # i
        /\ Settled(buttons[i], seen.told[i], seen.held[i], now)
     \/ \E j \in DOMAIN queue :
          /\ queue[j].source = i
          /\ Waiting(buttons[i], queue[j].action, seen.told[i], seen.held[i], now)
WheelWaits ==
  \/ wheel.pending = 0
  \/ /\ wheel.pending \in (1 - MaxPending)..(MaxPending - 1)
     /\ seen.still < Quiet /\ (now - wheel.last) % Clock = seen.still

InputInv == InputTyped /\ OneEach /\ (\A i \in Keys : ButtonAgrees(i)) /\ WheelWaits


-----------------------------------------------------------------------------
(* The clock and the debouncers                                            *)

(* Once around the clock, either way.                                      *)
LEMMA Around ==
  ASSUME NEW x \in Int
  PROVE  /\ x \in 0..(Clock - 1) => x % Clock = x
         /\ x \in Clock..(2 * Clock - 1) => x % Clock = x - Clock
         /\ x \in (-Clock)..(-1) => x % Clock = x + Clock
<1>1. Clock \in Nat \ {0}
  BY InputAssumption
<1>2. x \in 0..(Clock - 1) => x % Clock = x
  BY <1>1, Z3
<1>3. x \in Clock..(2 * Clock - 1) => x % Clock = x - Clock
  BY <1>1, Z3
<1>4. x \in (-Clock)..(-1) => x % Clock = x + Clock
  BY <1>1, Z3
<1>. QED
  BY <1>2, <1>3, <1>4

(* A difference of millis() is the time that went by, while it is less     *)
(* than what the clock can tell.                                           *)
LEMMA AgeGrows ==
  ASSUME NEW t \in Clocks, NEW since \in Clocks, NEW ms \in Passes, NEW age \in Nat,
         (t - since) % Clock = age, age + ms < Clock
  PROVE  (((t + ms) % Clock) - since) % Clock = age + ms
<1>1. Clock \in Nat \ {0} /\ ms \in Nat /\ ms < Clock
  BY InputAssumption
<1>2. t \in Int /\ 0 <= t /\ t < Clock /\ since \in Int /\ 0 <= since /\ since < Clock
  BY <1>1 DEF Clocks
<1>3. (t - since >= 0 => age = t - since) /\ (t - since < 0 => age = t - since + Clock)
  BY <1>1, <1>2, Around
<1>4. (t + ms < Clock => (t + ms) % Clock = t + ms) /\ (t + ms >= Clock => (t + ms) % Clock = t + ms - Clock)
  BY <1>1, <1>2, Around
<1>. DEFINE u == (t + ms) % Clock
<1>. HIDE DEF u
<1>5. (t + ms < Clock => u = t + ms) /\ (t + ms >= Clock => u = t + ms - Clock)
  BY <1>4 DEF u
<1>6. /\ u - since \in Int
      /\ (u - since \in 0..(Clock - 1) /\ u - since = age + ms)
           \/ (u - since \in (-Clock)..(-1) /\ u - since + Clock = age + ms)
  BY <1>1, <1>2, <1>3, <1>5
<1>7. (u - since) % Clock = age + ms
  BY <1>6, Around
<1>. QED
  BY <1>7 DEF u

(* The clock is read, and no time has passed since.                        *)
LEMMA ClockRead ==
  ASSUME NEW t \in Clocks, NEW ms \in Passes
  PROVE  (t + ms) % Clock \in Clocks /\ (t - t) % Clock = 0 /\ Clock \in Nat \ {0} /\ ms \in Nat \ {0}
<1>1. Clock \in Nat \ {0} /\ ms \in Nat \ {0} /\ ms < Clock
  BY InputAssumption
<1>2. \A x \in Int : x % Clock \in 0..(Clock - 1)
  BY <1>1
<1>3. t + ms \in Int /\ t - t = 0
  BY <1>1 DEF Clocks
<1>4. 0 % Clock = 0
  BY <1>1, Around
<1>. QED
  BY <1>1, <1>2, <1>3, <1>4 DEF Clocks

(* A line stays a line.                                                    *)
LEMMA DebouncedLine ==
  ASSUME NEW d \in Lines, NEW raw \in BOOLEAN, NEW t \in Clocks, NEW ms
  PROVE  Debounced(d, raw, t, ms) \in Lines
BY DEF Debounced, Lines


-----------------------------------------------------------------------------
(* The queue                                                               *)

(* Of two places the later one has more below it.                          *)
LEMMA MoreBelow ==
  ASSUME NEW S \in SUBSET Nat, IsFiniteSet(S), NEW p \in S, NEW q \in S, p < q
  PROVE  Cardinality({r \in S : r < p}) < Cardinality({r \in S : r < q})
<1>. DEFINE below(x) == {r \in S : r < x}
<1>1. p \in Nat /\ q \in Nat /\ \A r \in S : r \in Nat
  OBVIOUS
<1>2. ASSUME NEW x PROVE IsFiniteSet(below(x)) /\ Cardinality(below(x)) \in Nat
  <2>1. below(x) \subseteq S
    OBVIOUS
  <2>. QED
    BY <2>1, FS_Subset, FS_CardinalityType
<1>3. below(p) \cup {p} \subseteq below(q) /\ p \notin below(p)
  <2>1. \A r \in S : r < p => r < q
    BY <1>1
  <2>2. ~ p < p
    BY <1>1
  <2>3. p \notin below(p)
    BY <2>2
  <2>4. below(p) \subseteq below(q) /\ p \in below(q)
    BY <2>1
  <2>. QED
    BY <2>3, <2>4
<1>. HIDE DEF below
<1>4. Cardinality(below(p) \cup {p}) = Cardinality(below(p)) + 1
  BY <1>2, <1>3, FS_AddElement
<1>5. Cardinality(below(p) \cup {p}) <= Cardinality(below(q))
  BY <1>2, <1>3, FS_Subset
<1>6. Cardinality(below(p)) < Cardinality(below(q))
  BY <1>2, <1>4, <1>5
<1>. QED
  BY <1>6 DEF below

(* Each place has its number, and each number its place.                   *)
LEMMA PlacesNumbered ==
  ASSUME NEW S \in SUBSET Nat, IsFiniteSet(S)
  PROVE  /\ \A n \in 1..Cardinality(S) : NthOf(S, n - 1) \in S
         /\ \A n, m \in 1..Cardinality(S) : NthOf(S, n - 1) = NthOf(S, m - 1) => n = m
         /\ \A i \in S : \E n \in 1..Cardinality(S) : NthOf(S, n - 1) = i
<1>. DEFINE below(x) == {r \in S : r < x}
<1>1. Cardinality(S) \in Nat /\ \A r \in S : r \in Nat
  BY FS_CardinalityType
<1>2. ASSUME NEW n \in Nat, n < Cardinality(S)
      PROVE  NthOf(S, n) \in S /\ Cardinality(below(NthOf(S, n))) = n
  <2>2. \E p \in S : Cardinality({r \in S : r < p}) = n
    BY <1>2, NthBelow
  <2>3. NthOf(S, n) \in S /\ Cardinality({r \in S : r < NthOf(S, n)}) = n
    BY <2>2 DEF NthOf
  <2>. QED
    BY <2>3
<1>3. ASSUME NEW i \in S, NEW j \in S, Cardinality(below(i)) = Cardinality(below(j)) PROVE i = j
  <2>1. Cardinality(below(i)) \in Nat
    <3>1. below(i) \subseteq S
      OBVIOUS
    <3>. QED
      BY <3>1, FS_Subset, FS_CardinalityType
  <2>2. ~ i < j /\ ~ j < i
    BY <1>3, <2>1, MoreBelow
  <2>. QED
    BY <1>1, <2>2
<1>4. ASSUME NEW i \in S PROVE Cardinality(below(i)) \in Nat /\ Cardinality(below(i)) < Cardinality(S)
  <2>1. below(i) \subseteq S /\ below(i) # S
    BY <1>1
  <2>2. Cardinality(below(i)) <= Cardinality(S) /\ Cardinality(below(i)) \in Nat
          /\ Cardinality(below(i)) # Cardinality(S)
    <3>. HIDE DEF below
    <3>. QED
      BY <2>1, FS_Subset, FS_CardinalityType
  <2>. QED
    BY <1>1, <2>2
<1>. HIDE DEF below
<1>5. \A n \in 1..Cardinality(S) : n - 1 \in Nat /\ n - 1 < Cardinality(S)
  BY <1>1
<1>6. \A n, m \in 1..Cardinality(S) : NthOf(S, n - 1) = NthOf(S, m - 1) => n = m
  <2>. SUFFICES ASSUME NEW n \in 1..Cardinality(S), NEW m \in 1..Cardinality(S),
                       NthOf(S, n - 1) = NthOf(S, m - 1)
                PROVE  n = m
    OBVIOUS
  <2>1. n - 1 = m - 1
    BY <1>2, <1>5
  <2>. QED
    BY <1>1, <2>1
<1>7. ASSUME NEW i \in S PROVE \E n \in 1..Cardinality(S) : NthOf(S, n - 1) = i
  <2>. DEFINE n == Cardinality(below(i)) + 1
  <2>1. n \in 1..Cardinality(S) /\ n - 1 = Cardinality(below(i))
    BY <1>1, <1>4
  <2>2. NthOf(S, n - 1) \in S /\ Cardinality(below(NthOf(S, n - 1))) = Cardinality(below(i))
    BY <1>2, <1>4, <2>1
  <2>. QED
    BY <1>3, <2>1, <2>2
<1>. QED
  BY <1>2, <1>5, <1>6, <1>7


(* The queue after a poll: an event of each button that has one, and no    *)
(* other.                                                                  *)
LEMMA QueueFilled ==
  ASSUME NEW presses \in [Keys -> [source : Keys, action : Actions \cup {"none"}, delta : {0}]],
         \A i \in Keys : presses[i].source = i,
         NEW turned \in [source : {0}, action : {"rotate", "none"}, delta : Int],
         NEW q, q = Push(<<>>, Happened(Append(presses, turned)))
  PROVE  /\ q \in Seq(Events)
         /\ \A j, k \in DOMAIN q : q[j].source = q[k].source => j = k
         /\ \A i \in Keys : presses[i].action # "none" =>
              \E j \in DOMAIN q : q[j].source = i /\ q[j].action = presses[i].action
         /\ \A i \in Keys : presses[i].action = "none" => \A j \in DOMAIN q : q[j].source # i
<1>1. PICK N \in Nat : N = Len(Buttons) /\ Keys = 1..N /\ N < QueueSize /\ QueueSize \in Nat
  <2>1. QueueSize \in Nat /\ Len(Buttons) \in 0..(QueueSize - 1) /\ DOMAIN Buttons = 1..Len(Buttons)
    BY InputAssumption
  <2>2. PICK N : N = Len(Buttons)
    OBVIOUS
  <2>3. N \in Nat /\ N < QueueSize /\ Keys = 1..N
    BY <2>1, <2>2 DEF Keys
  <2>. QED
    BY <2>1, <2>2, <2>3
<1>. DEFINE all     == Append(presses, turned)
            All     == [source : {0} \cup Keys, action : Actions \cup {"none"}, delta : Int]
            places  == {i \in DOMAIN all : all[i].action # "none"}
<1>2. presses \in Seq(All) /\ Len(presses) = N
  <2>1. \A i \in Keys : presses[i] \in All
    OBVIOUS
  <2>2. presses \in [1..N -> All]
    BY <1>1, <2>1
  <2>. HIDE DEF All
  <2>3. presses \in Seq(All)
    BY <2>2, IsASeq
  <2>. QED
    BY <1>1, <2>2, <2>3, LenProperties
<1>3. turned \in All
  BY DEF Actions
<1>4. /\ all \in Seq(All) /\ DOMAIN all = 1..(N + 1)
      /\ \A i \in 1..N : all[i] = presses[i]
      /\ all[N + 1] = turned
  <2>. HIDE DEF All
  <2>. QED
    BY <1>1, <1>2, <1>3, AppendProperties, LenProperties
<1>5. \A i \in 1..N : all[i].source = i /\ all[i].action = presses[i].action /\ i # 0
  BY <1>1, <1>4
<1>6. all[N + 1].source = 0 /\ all[N + 1].action = turned.action
  BY <1>4
<1>7. ASSUME NEW i \in DOMAIN all PROVE all[i] \in All /\ (all[i].source = i \/ (i = N + 1 /\ all[i].source = 0))
  <2>1. all[i] \in All
    <3>. HIDE DEF all, All
    <3>. QED
      BY <1>4, <1>7, ElementOfSeq, LenProperties
  <2>2. i \in 1..N \/ i = N + 1
    BY <1>4
  <2>. QED
    BY <1>5, <1>6, <2>1, <2>2
<1>8. \A i, j \in DOMAIN all : all[i].source = all[j].source => i = j
  <2>. SUFFICES ASSUME NEW i \in 1..(N + 1), NEW j \in 1..(N + 1), all[i].source = all[j].source PROVE i = j
    BY <1>4
  <2>1. i \in 1..N \/ i = N + 1
    OBVIOUS
  <2>2. j \in 1..N \/ j = N + 1
    OBVIOUS
  <2>. HIDE DEF all
  <2>3. CASE i \in 1..N /\ j \in 1..N
    BY <1>5, <2>3
  <2>4. CASE i = N + 1 /\ j \in 1..N
    BY <1>5, <1>6, <2>4
  <2>5. CASE i \in 1..N /\ j = N + 1
    BY <1>5, <1>6, <2>5
  <2>. QED
    BY <2>1, <2>2, <2>3, <2>4, <2>5
<1>9. places \in SUBSET Nat /\ places \subseteq 1..(N + 1) /\ IsFiniteSet(places)
        /\ Cardinality(places) \in Nat /\ Cardinality(places) <= N + 1
  <2>1. places \subseteq 1..(N + 1) /\ IsFiniteSet(1..(N + 1)) /\ Cardinality(1..(N + 1)) = N + 1
    <3>1. N + 1 \in Nat /\ 1 <= N + 1
      BY <1>1
    <3>2. IsFiniteSet(1..(N + 1)) /\ Cardinality(1..(N + 1)) = N + 1
      BY <3>1, FS_Interval
    <3>. QED
      BY <1>4, <3>2
  <2>. HIDE DEF places
  <2>2. IsFiniteSet(places) /\ Cardinality(places) <= Cardinality(1..(N + 1))
    BY <2>1, FS_Subset
  <2>3. Cardinality(places) \in Nat
    BY <2>2, FS_CardinalityType
  <2>4. 1..(N + 1) \subseteq Nat
    OBVIOUS
  <2>. QED
    BY <2>1, <2>2, <2>3, <2>4
<1>10. PICK M \in Nat : M = Cardinality(places) /\ M <= N + 1
  BY <1>9
<1>11. Happened(all) = [n \in 1..M |-> all[NthOf(places, n - 1)]]
  BY <1>10 DEF Happened
<1>12. /\ \A n \in 1..M : NthOf(places, n - 1) \in places
       /\ \A n, m \in 1..M : NthOf(places, n - 1) = NthOf(places, m - 1) => n = m
       /\ \A i \in places : \E n \in 1..M : NthOf(places, n - 1) = i
  <2>. HIDE DEF places
  <2>. QED
    BY <1>9, <1>10, PlacesNumbered
<1>13. \A i \in places : i \in DOMAIN all /\ all[i].action # "none" /\ all[i] \in Events
  <2>. SUFFICES ASSUME NEW i \in places PROVE i \in DOMAIN all /\ all[i].action # "none" /\ all[i] \in Events
    OBVIOUS
  <2>1. i \in DOMAIN all /\ all[i].action # "none"
    OBVIOUS
  <2>2. all[i] \in All
    BY <1>7, <2>1
  <2>. QED
    BY <2>1, <2>2 DEF Events
<1>14. \A i \in DOMAIN all : all[i].action # "none" => i \in places
  OBVIOUS
<1>. HIDE DEF places, all, All
<1>15. Happened(all) \in Seq(Events) /\ Len(Happened(all)) = M
  <2>1. Happened(all) \in [1..M -> Events]
    BY <1>11, <1>12, <1>13
  <2>2. Happened(all) \in Seq(Events)
    BY <2>1, IsASeq
  <2>. QED
    BY <2>1, <2>2, LenProperties
<1>16. q = Happened(all)
  <2>1. <<>> \o Happened(all) = Happened(all)
    BY <1>15, EmptySeq, ConcatEmptySeq
  <2>2. ~ Len(Happened(all)) > QueueSize
    BY <1>1, <1>10, <1>15
  <2>3. q = Push(<<>>, Happened(all))
    BY DEF all
  <2>. QED
    BY <2>1, <2>2, <2>3 DEF Push
<1>17. DOMAIN q = 1..M /\ \A n \in 1..M : q[n] = all[NthOf(places, n - 1)]
  BY <1>11, <1>16
<1>18. \A j, k \in DOMAIN q : q[j].source = q[k].source => j = k
  <2>. SUFFICES ASSUME NEW j \in 1..M, NEW k \in 1..M, q[j].source = q[k].source PROVE j = k
    BY <1>17
  <2>1. PICK x \in places, y \in places : x = NthOf(places, j - 1) /\ y = NthOf(places, k - 1)
    BY <1>12
  <2>2. q[j] = all[x] /\ q[k] = all[y]
    BY <1>17, <2>1
  <2>3. x = y
    BY <1>8, <1>13, <2>2
  <2>. QED
    BY <1>12, <2>1, <2>3
<1>19. ASSUME NEW i \in Keys, presses[i].action # "none"
       PROVE  \E j \in DOMAIN q : q[j].source = i /\ q[j].action = presses[i].action
  <2>1. i \in DOMAIN all /\ all[i].source = i /\ all[i].action = presses[i].action
    BY <1>1, <1>4, <1>5
  <2>2. PICK n \in 1..M : NthOf(places, n - 1) = i
    BY <1>12, <1>14, <1>19, <2>1
  <2>3. n \in DOMAIN q /\ q[n] = all[i]
    BY <1>17, <2>2
  <2>. QED
    BY <2>1, <2>3
<1>20. ASSUME NEW i \in Keys, presses[i].action = "none", NEW j \in DOMAIN q, q[j].source = i
       PROVE  FALSE
  <2>1. i \in DOMAIN all /\ all[i].source = i /\ all[i].action = presses[i].action
    BY <1>1, <1>4, <1>5
  <2>2. PICK k \in places : q[j] = all[k]
    BY <1>12, <1>17
  <2>3. k = i
    BY <1>8, <1>13, <1>20, <2>1, <2>2
  <2>. QED
    BY <1>13, <1>20, <2>1, <2>2, <2>3
<1>. QED
  BY <1>15, <1>16, <1>18, <1>19, <1>20


-----------------------------------------------------------------------------
(* poll()                                                                  *)

(* A button that has nothing waiting gets at most the event that comes     *)
(* next in its story, and a long one not before its time.                  *)
LEMMA ButtonPolled ==
  ASSUME NEW b \in ButtonRecords, NEW raw \in BOOLEAN, NEW t0 \in Clocks, NEW ms \in Passes,
         NEW told, NEW held \in 0..LongPress, NEW t, t = (t0 + ms) % Clock,
         b.pressed = b.line.stable, Settled(b, told, held, t0),
         NEW r, r = Button(b, raw, t)
  PROVE  /\ r.to \in ButtonRecords /\ r.event \in {"none", "down", "click", "long", "up"}
         /\ r.to.pressed = r.to.line.stable
         /\ r.event = "none" => Settled(r.to, told, Capped(held + ms, LongPress), t)
         /\ r.event # "none" => Waiting(r.to, r.event, told, Capped(held + ms, LongPress), t)
<1>1. t \in Clocks /\ ms \in Nat /\ LongPress \in Nat \ {0} /\ held \in Nat /\ held <= LongPress
  BY ClockRead, InputAssumption
<1>2. PICK d : d = Debounced(b.line, raw, t, Debounce)
  OBVIOUS
<1>3. d \in Lines /\ b.line \in Lines
  BY <1>1, <1>2, DebouncedLine DEF ButtonRecords
<1>4. PICK n : n = [b EXCEPT !.line = d]
  OBVIOUS
<1>5. n \in ButtonRecords /\ n.line = d /\ n.pressed = b.pressed /\ n.reported = b.reported /\ n.from = b.from
  BY <1>3, <1>4 DEF ButtonRecords
<1>6. \A p \in Passes : p + LongPress < Clock
  BY InputAssumption
<1>7. CASE d.stable # b.line.stable /\ d.stable /\ ~ b.pressed
  <2>1. r = [to |-> [n EXCEPT !.pressed = TRUE, !.from = t, !.reported = FALSE], event |-> "down"]
    BY <1>2, <1>4, <1>7 DEF Button
  <2>2. PICK to : to = r.to
    OBVIOUS
  <2>3. to \in ButtonRecords /\ to.line = d /\ to.pressed = TRUE /\ to.reported = FALSE /\ to.from = t
    <3>1. to = [n EXCEPT !.pressed = TRUE, !.from = t, !.reported = FALSE]
      BY <2>1, <2>2
    <3>. QED
      BY <1>1, <1>5, <3>1 DEF ButtonRecords
  <2>4. told = "none"
    BY <1>7 DEF Settled
  <2>5. r.event = "down" /\ d.stable = TRUE
    BY <1>3, <1>7, <2>1 DEF Lines
  <2>. QED
    BY <2>2, <2>3, <2>4, <2>5 DEF Waiting
<1>8. CASE d.stable # b.line.stable /\ ~ d.stable /\ b.pressed
  <2>1. r = [to |-> [n EXCEPT !.pressed = FALSE], event |-> IF b.reported THEN "up" ELSE "click"]
    BY <1>2, <1>4, <1>8 DEF Button
  <2>2. PICK to : to = r.to
    OBVIOUS
  <2>3. to \in ButtonRecords /\ to.line = d /\ to.pressed = FALSE
    <3>1. to = [n EXCEPT !.pressed = FALSE]
      BY <2>1, <2>2
    <3>. QED
      BY <1>1, <1>5, <3>1 DEF ButtonRecords
  <2>4. (b.reported => told \in {"long", "boot"}) /\ (~ b.reported => told = "down")
    BY <1>8 DEF Settled
  <2>5. r.event = (IF b.reported THEN "up" ELSE "click") /\ d.stable = FALSE
    BY <1>3, <1>8, <2>1 DEF Lines
  <2>. QED
    BY <2>2, <2>3, <2>4, <2>5 DEF Waiting
<1>9. ASSUME ~ (d.stable # b.line.stable /\ d.stable /\ ~ b.pressed),
             ~ (d.stable # b.line.stable /\ ~ d.stable /\ b.pressed)
      PROVE  d.stable = b.line.stable
  <2>1. d.stable \in BOOLEAN /\ b.line.stable \in BOOLEAN
    BY <1>3 DEF Lines
  <2>. QED
    BY <1>9, <2>1, Zenon
<1>10. ASSUME ~ (d.stable # b.line.stable /\ d.stable /\ ~ b.pressed),
              ~ (d.stable # b.line.stable /\ ~ d.stable /\ b.pressed),
              b.pressed, ~ b.reported
       PROVE  /\ told = "down" /\ (t - b.from) % Clock = held + ms
              /\ Capped(held + ms, LongPress) = IF held + ms >= LongPress THEN LongPress ELSE held + ms
  <2>1. told = "down" /\ held < LongPress /\ (t0 - b.from) % Clock = held
    BY <1>10 DEF Settled
  <2>2. held + ms < Clock
    <3>1. ms + LongPress < Clock /\ Clock \in Nat
      BY <1>6, InputAssumption
    <3>. QED
      BY <1>1, <2>1, <3>1
  <2>3. (t - b.from) % Clock = held + ms
    <3>1. PICK from \in Clocks : from = b.from
      BY DEF ButtonRecords
    <3>2. (t0 - from) % Clock = held /\ held \in Nat /\ held + ms < Clock
      BY <1>1, <2>1, <2>2, <3>1
    <3>3. (((t0 + ms) % Clock) - from) % Clock = held + ms
      BY <3>2, AgeGrows
    <3>. QED
      BY <3>1, <3>3
  <2>. QED
    BY <1>1, <2>1, <2>3 DEF Capped
<1>11. CASE /\ ~ (d.stable # b.line.stable /\ d.stable /\ ~ b.pressed)
            /\ ~ (d.stable # b.line.stable /\ ~ d.stable /\ b.pressed)
            /\ Holds(b, t)
  <2>1. r = [to |-> [n EXCEPT !.reported = TRUE], event |-> "long"]
    BY <1>2, <1>4, <1>11 DEF Button
  <2>2. PICK to : to = r.to
    OBVIOUS
  <2>3. to \in ButtonRecords /\ to.line = d /\ to.pressed = b.pressed /\ to.reported = TRUE
    <3>1. to = [n EXCEPT !.reported = TRUE]
      BY <2>1, <2>2
    <3>. QED
      BY <1>1, <1>5, <3>1 DEF ButtonRecords
  <2>4. b.pressed /\ ~ b.reported /\ (t - b.from) % Clock >= LongPress
    BY <1>11 DEF Holds, Passed
  <2>5. told = "down" /\ Capped(held + ms, LongPress) = LongPress
    BY <1>1, <1>10, <1>11, <2>4
  <2>. QED
    <3>1. r.event = "long" /\ r.to = to
      <4>1. r.event = "long"
        BY <2>1
      <4>. QED
        BY <2>2, <4>1
    <3>2. to.pressed = to.line.stable
      BY <1>9, <1>11, <2>3
    <3>3. Waiting(to, "long", told, Capped(held + ms, LongPress), t)
      BY <2>3, <2>4, <2>5 DEF Waiting
    <3>. QED
      BY <2>3, <3>1, <3>2, <3>3
<1>12. CASE /\ ~ (d.stable # b.line.stable /\ d.stable /\ ~ b.pressed)
            /\ ~ (d.stable # b.line.stable /\ ~ d.stable /\ b.pressed)
            /\ ~ Holds(b, t)
  <2>1. r = [to |-> n, event |-> "none"]
    BY <1>2, <1>4, <1>12 DEF Button
  <2>2. Settled(n, told, Capped(held + ms, LongPress), t)
    <3>1. CASE b.pressed /\ ~ b.reported
      <4>1. ~ (t - b.from) % Clock >= LongPress
        BY <1>12, <3>1 DEF Holds, Passed
      <4>. QED
        BY <1>1, <1>5, <1>10, <1>12, <3>1, <4>1 DEF Settled
    <3>2. CASE ~ b.pressed \/ b.reported
      BY <1>5, <3>2 DEF Settled
    <3>. QED
      BY <3>1, <3>2
  <2>. QED
    BY <1>5, <1>9, <1>12, <2>1, <2>2
<1>. QED
  BY <1>7, <1>8, <1>11, <1>12

(* Steps of the wheel that wait are few, and the last of them is recent.   *)
LEMMA WheelPolled ==
  ASSUME InputTyped, WheelWaits, NEW ms \in Passes, NEW step \in {-1, 0, 1},
         NEW t, t = (now + ms) % Clock,
         NEW last, last = IF step = 0 THEN wheel.last ELSE t,
         NEW take \in BOOLEAN, take = Ready(Pending(step), last, t),
         NEW kept, kept = IF take THEN 0 ELSE Pending(step),
         NEW still, still = IF step = 0 THEN Capped(seen.still + ms, Quiet) ELSE 0
  PROVE  /\ Pending(step) \in Int /\ kept \in Int /\ last \in Clocks /\ still \in 0..Quiet
         /\ \/ kept = 0
            \/ /\ kept \in (1 - MaxPending)..(MaxPending - 1)
               /\ still < Quiet /\ (t - last) % Clock = still
<1>1. /\ t \in Clocks /\ ms \in Nat /\ Quiet \in Nat \ {0} /\ MaxPending \in Nat \ {0}
      /\ Clock \in Nat /\ ms + Quiet < Clock
  BY ClockRead, InputAssumption DEF InputTyped
<1>2. wheel.pending \in Int /\ wheel.last \in Clocks /\ seen.still \in Nat /\ seen.still <= Quiet /\ now \in Clocks
  BY <1>1 DEF InputTyped
<1>3. last \in Clocks /\ still \in 0..Quiet
  BY <1>1, <1>2 DEF Capped
<1>4. PICK sum : sum = Pending(step)
  OBVIOUS
<1>5. sum \in Int /\ (step = 0 => sum = wheel.pending)
  <2>1. CASE step = 0
    BY <1>2, <1>4, <2>1 DEF Pending
  <2>2. CASE step = 1
    BY <1>2, <1>4, <2>2 DEF Pending
  <2>3. CASE step = -1
    BY <1>2, <1>4, <2>3 DEF Pending
  <2>. QED
    BY <2>1, <2>2, <2>3
<1>6. CASE take \/ sum = 0
  BY <1>3, <1>4, <1>5, <1>6
<1>7. CASE ~ take /\ sum # 0
  <2>1. ~ (sum >= MaxPending) /\ ~ (sum <= -MaxPending) /\ ~ (t - last) % Clock >= Quiet
    BY <1>4, <1>7 DEF Ready, Passed
  <2>2. sum \in (1 - MaxPending)..(MaxPending - 1)
    BY <1>1, <1>5, <2>1
  <2>3. still < Quiet /\ (t - last) % Clock = still
    <3>1. CASE step = 0
      <4>1. seen.still < Quiet /\ (now - wheel.last) % Clock = seen.still
        BY <1>5, <1>7, <3>1 DEF WheelWaits
      <4>2. (t - wheel.last) % Clock = seen.still + ms
        <5>1. seen.still + ms < Clock
          BY <1>1, <1>2
        <5>2. (((now + ms) % Clock) - wheel.last) % Clock = seen.still + ms
          BY <1>2, <4>1, <5>1, AgeGrows
        <5>. QED
          BY <5>2
      <4>. QED
        BY <1>1, <1>2, <2>1, <3>1, <4>2 DEF Capped
    <3>2. CASE step # 0
      <4>1. (t - t) % Clock = 0
        BY <1>1, ClockRead
      <4>. QED
        BY <1>1, <3>2, <4>1
    <3>. QED
      BY <3>1, <3>2
  <2>. QED
    BY <1>3, <1>4, <1>5, <1>7, <2>2, <2>3
<1>. QED
  BY <1>6, <1>7


(* A poll finds the queue handled: every button has been told all.         *)
LEMMA PollInputStep ==
  ASSUME InputInv, NEW ms \in Passes, NEW pins \in [Keys -> BOOLEAN],
         NEW lineA \in BOOLEAN, NEW lineB \in BOOLEAN, Poll(ms, pins, lineA, lineB)
  PROVE  InputInv'
<1>. DEFINE t    == (now + ms) % Clock
            new  == [i \in Keys |-> Button(buttons[i], pins[i], t)]
            a    == Debounced(wheel.a, lineA, t, EncoderDebounce)
            b    == Debounced(wheel.b, lineB, t, EncoderDebounce)
            step == Steps(a, b)
            sum  == Pending(step)
            last == IF step = 0 THEN wheel.last ELSE t
            take == Ready(sum, last, t)
            turn == IF take THEN "rotate" ELSE "none"
            held(i) == Capped(seen.held[i] + ms, LongPress)
            still == IF step = 0 THEN Capped(seen.still + ms, Quiet) ELSE 0
<1>1. /\ queue = <<>> /\ now' = t
      /\ buttons' = [i \in Keys |-> new[i].to]
      /\ wheel' = [a |-> a, b |-> b, pending |-> IF take THEN 0 ELSE sum, last |-> last]
      /\ queue' = Push(queue, Happened(Append(
                    [i \in Keys |-> [source |-> i, action |-> new[i].event, delta |-> 0]],
                    [source |-> 0, action |-> turn, delta |-> sum])))
      /\ seen' = [held |-> [i \in Keys |-> held(i)], told |-> seen.told, still |-> still]
  BY Zenon DEF Poll, Keys
<1>2. InputTyped /\ WheelWaits /\ now \in Clocks /\ t \in Clocks
  BY ClockRead DEF InputInv, InputTyped
<1>3. wheel.a \in Lines /\ wheel.b \in Lines /\ wheel.last \in Clocks
  BY <1>2 DEF InputTyped
<1>4. a \in Lines /\ b \in Lines
  <2>. HIDE DEF t
  <2>. QED
    BY <1>2, <1>3, DebouncedLine
<1>5. ASSUME NEW i \in Keys
      PROVE  /\ buttons[i] \in ButtonRecords /\ buttons[i].pressed = buttons[i].line.stable
             /\ seen.held[i] \in 0..LongPress
             /\ Settled(buttons[i], seen.told[i], seen.held[i], now)
  <2>1. ButtonAgrees(i) /\ buttons[i] \in ButtonRecords /\ seen.held[i] \in 0..LongPress
    BY DEF InputInv, InputTyped
  <2>2. DOMAIN queue = {}
    BY <1>1
  <2>. QED
    BY <2>1, <2>2 DEF ButtonAgrees
<1>6. ASSUME NEW i \in Keys
      PROVE  /\ new[i].to \in ButtonRecords /\ new[i].event \in {"none", "down", "click", "long", "up"}
             /\ new[i].to.pressed = new[i].to.line.stable
             /\ new[i].event = "none" => Settled(new[i].to, seen.told[i], held(i), t)
             /\ new[i].event # "none" => Waiting(new[i].to, new[i].event, seen.told[i], held(i), t)
  <2>1. PICK r : r = Button(buttons[i], pins[i], t)
    OBVIOUS
  <2>2. pins[i] \in BOOLEAN /\ new[i] = r
    BY <2>1
  <2>3. PICK u : u = t
    OBVIOUS
  <2>4. /\ r.to \in ButtonRecords /\ r.event \in {"none", "down", "click", "long", "up"}
        /\ r.to.pressed = r.to.line.stable
        /\ r.event = "none" => Settled(r.to, seen.told[i], Capped(seen.held[i] + ms, LongPress), u)
        /\ r.event # "none" => Waiting(r.to, r.event, seen.told[i], Capped(seen.held[i] + ms, LongPress), u)
    <3>1. u = (now + ms) % Clock /\ r = Button(buttons[i], pins[i], u)
      BY <2>1, <2>3
    <3>. HIDE DEF t, new
    <3>. QED
      BY <1>2, <1>5, <2>2, <3>1, ButtonPolled
  <2>. HIDE DEF new, t
  <2>. QED
    BY <2>2, <2>3, <2>4
<1>7. step \in {-1, 0, 1}
  <2>. HIDE DEF a, b
  <2>. QED
    BY DEF Steps
<1>8. take \in BOOLEAN
  BY DEF Ready
<1>9. /\ sum \in Int /\ wheel'.pending \in Int /\ last \in Clocks /\ still \in 0..Quiet
      /\ \/ wheel'.pending = 0
         \/ /\ wheel'.pending \in (1 - MaxPending)..(MaxPending - 1)
            /\ still < Quiet /\ (t - last) % Clock = still
  <2>. PICK u : u = t
    OBVIOUS
  <2>. PICK st : st = step
    OBVIOUS
  <2>. PICK l : l = last
    OBVIOUS
  <2>0. PICK tk \in BOOLEAN : tk = take
    BY <1>8
  <2>1. u = t /\ st = step /\ l = last /\ tk = take
    BY <2>0
  <2>2. PICK k, q : k = (IF tk THEN 0 ELSE Pending(st)) /\ q = still
    OBVIOUS
  <2>3. /\ u = (now + ms) % Clock /\ st \in {-1, 0, 1}
        /\ l = (IF st = 0 THEN wheel.last ELSE u)
        /\ tk = Ready(Pending(st), l, u)
        /\ q = (IF st = 0 THEN Capped(seen.still + ms, Quiet) ELSE 0)
    BY <1>7, <2>1, <2>2
  <2>4. /\ Pending(st) \in Int /\ k \in Int /\ l \in Clocks /\ q \in 0..Quiet
        /\ \/ k = 0
           \/ k \in (1 - MaxPending)..(MaxPending - 1) /\ q < Quiet /\ (u - l) % Clock = q
    <3>. HIDE DEF t, step, last, take, still
    <3>. QED
      BY <1>2, <2>2, <2>3, WheelPolled
  <2>5. wheel'.pending = k /\ wheel'.last = l
    BY <1>1, <2>1, <2>2
  <2>. QED
    BY <2>1, <2>2, <2>4, <2>5
<1>. HIDE DEF new, a, b, step, last, take, still, t, sum
<1>10. /\ queue' \in Seq(Events)
       /\ \A j, k \in DOMAIN queue' : queue'[j].source = queue'[k].source => j = k
       /\ \A i \in Keys : new[i].event # "none" =>
            \E j \in DOMAIN queue' : queue'[j].source = i /\ queue'[j].action = new[i].event
       /\ \A i \in Keys : new[i].event = "none" => \A j \in DOMAIN queue' : queue'[j].source # i
  <2>1. PICK presses : presses = [i \in Keys |-> [source |-> i, action |-> new[i].event, delta |-> 0]]
    OBVIOUS
  <2>2. PICK turned : turned = [source |-> 0, action |-> turn, delta |-> sum]
    OBVIOUS
  <2>3. \A i \in Keys : presses[i] = [source |-> i, action |-> new[i].event, delta |-> 0]
    BY <2>1
  <2>4. \A i \in Keys : presses[i].source = i /\ presses[i].action = new[i].event
          /\ presses[i] \in [source : Keys, action : Actions \cup {"none"}, delta : {0}]
    <3>. SUFFICES ASSUME NEW i \in Keys
                  PROVE  presses[i].source = i /\ presses[i].action = new[i].event
                    /\ presses[i] \in [source : Keys, action : Actions \cup {"none"}, delta : {0}]
      OBVIOUS
    <3>1. PICK e : e = new[i].event
      OBVIOUS
    <3>2. e \in Actions \cup {"none"}
      BY <1>6, <3>1 DEF Actions
    <3>3. presses[i] = [source |-> i, action |-> e, delta |-> 0]
      BY <2>3, <3>1
    <3>. QED
      BY <3>1, <3>2, <3>3
  <2>5. presses \in [Keys -> [source : Keys, action : Actions \cup {"none"}, delta : {0}]]
    BY <2>1, <2>4
  <2>6. turned \in [source : {0}, action : {"rotate", "none"}, delta : Int]
    BY <1>9, <2>2
  <2>7. PICK q : q = queue'
    OBVIOUS
  <2>8. q = Push(<<>>, Happened(Append(presses, turned)))
    BY <1>1, <2>1, <2>2, <2>7
  <2>9. /\ q \in Seq(Events)
        /\ \A j, k \in DOMAIN q : q[j].source = q[k].source => j = k
        /\ \A i \in Keys : presses[i].action # "none" =>
             \E j \in DOMAIN q : q[j].source = i /\ q[j].action = presses[i].action
        /\ \A i \in Keys : presses[i].action = "none" => \A j \in DOMAIN q : q[j].source # i
    BY <2>4, <2>5, <2>6, <2>8, QueueFilled
  <2>. QED
    BY <2>4, <2>7, <2>9
<1>11. InputTyped'
  <2>1. \A i \in Keys : held(i) \in 0..LongPress
    <3>1. ASSUME NEW i \in Keys PROVE held(i) \in 0..LongPress
      <4>1. seen.held[i] \in Nat /\ seen.held[i] <= LongPress /\ ms \in Nat /\ LongPress \in Nat
        BY <1>5, ClockRead, InputAssumption, <1>2
      <4>. QED
        BY <4>1 DEF Capped
    <3>. QED
      BY <3>1
  <2>2. buttons' \in [Keys -> ButtonRecords]
    BY <1>1, <1>6
  <2>3. wheel' \in [a : Lines, b : Lines, pending : Int, last : Clocks]
    BY <1>1, <1>4, <1>9
  <2>4. seen' \in [told : [Keys -> {"none", "down", "long", "boot"}],
                   held : [Keys -> 0..LongPress], still : 0..Quiet]
    <3>1. seen.told \in [Keys -> {"none", "down", "long", "boot"}]
      BY <1>2 DEF InputTyped
    <3>2. PICK h : h = [i \in Keys |-> held(i)]
      OBVIOUS
    <3>3. h \in [Keys -> 0..LongPress]
      BY <2>1, <3>2
    <3>4. seen' = [held |-> h, told |-> seen.told, still |-> still]
      BY <1>1, <3>2
    <3>. QED
      BY <1>9, <3>1, <3>3, <3>4
  <2>. QED
    BY <1>1, <1>2, <1>10, <2>2, <2>3, <2>4 DEF InputTyped
<1>12. OneEach'
  BY <1>10 DEF OneEach
<1>13. ASSUME NEW i \in Keys PROVE ButtonAgrees(i)'
  <2>1. buttons'[i] = new[i].to /\ seen'.told[i] = seen.told[i] /\ seen'.held[i] = held(i) /\ now' = t
    BY <1>1
  <2>2. CASE new[i].event = "none"
    BY <1>6, <1>10, <2>1, <2>2 DEF ButtonAgrees
  <2>3. CASE new[i].event # "none"
    <3>1. PICK j \in DOMAIN queue' : queue'[j].source = i /\ queue'[j].action = new[i].event
      BY <1>10, <2>3
    <3>2. Waiting(buttons'[i], queue'[j].action, seen'.told[i], seen'.held[i], now')
      BY <1>6, <2>1, <2>3, <3>1
    <3>3. buttons'[i].pressed = buttons'[i].line.stable
      BY <1>6, <2>1
    <3>. QED
      BY <3>1, <3>2, <3>3 DEF ButtonAgrees
  <2>. QED
    BY <2>2, <2>3
<1>14. WheelWaits'
  <2>1. seen'.still = still /\ now' = t /\ wheel'.last = last
    BY <1>1
  <2>. QED
    BY <1>9, <2>1 DEF WheelWaits
<1>. QED
  BY <1>11, <1>12, <1>13, <1>14 DEF InputInv


-----------------------------------------------------------------------------
(* The events are handled, one by one                                      *)

(* What was waiting is told, in its turn and as what may come next.        *)
LEMMA Told ==
  ASSUME NEW b \in ButtonRecords, NEW action, NEW told, NEW held \in 0..LongPress, NEW t \in Clocks,
         Waiting(b, action, told, held, t), b.pressed = b.line.stable
  PROVE  /\ Answers(told, action, held) \in {"none", "down", "long", "boot"}
         /\ Settled(b, Answers(told, action, held), IF action = "down" THEN 0 ELSE held, t)
<1>1. LongPress \in Nat \ {0} /\ (t - t) % Clock = 0
  <2>1. Clock \in Nat \ {0}
    BY InputAssumption
  <2>2. t - t = 0 /\ 0 % Clock = 0
    BY <2>1, Around DEF Clocks
  <2>. QED
    BY <2>2, InputAssumption
<1>2. CASE action = "down" /\ told = "none" /\ b.pressed /\ ~ b.reported /\ b.from = t
  <2>1. Answers(told, action, held) = "down"
    BY <1>2 DEF Answers
  <2>. QED
    BY <1>1, <1>2, <2>1 DEF Settled
<1>3. CASE action = "click" /\ told = "down" /\ ~ b.pressed
  <2>1. Answers(told, action, held) = "none"
    BY <1>3 DEF Answers
  <2>. QED
    BY <1>3, <2>1 DEF Settled
<1>4. CASE action = "long" /\ told = "down" /\ held = LongPress /\ b.pressed /\ b.reported
  <2>1. Answers(told, action, held) = "long"
    BY <1>4 DEF Answers
  <2>. QED
    BY <1>4, <2>1 DEF Settled
<1>5. CASE action = "up" /\ told \in {"long", "boot"} /\ ~ b.pressed
  <2>1. Answers(told, action, held) = "none"
    BY <1>5 DEF Answers
  <2>. QED
    BY <1>5, <2>1 DEF Settled
<1>. QED
  BY <1>2, <1>3, <1>4, <1>5 DEF Waiting

LEMMA EventStep == ASSUME InputInv, NextEvent PROVE InputInv'
<1>. DEFINE e == Head(queue)
<1>1. queue \in Seq(Events) /\ queue # <<>> /\ queue' = Tail(queue) /\ UNCHANGED <<now, buttons, wheel>>
        /\ seen' = IF e.source = 0 THEN seen
                   ELSE [seen EXCEPT !.told[e.source] = Answers(@, e.action, seen.held[e.source]),
                                     !.held[e.source] = IF e.action = "down" THEN 0 ELSE @]
  BY DEF NextEvent, InputInv, InputTyped
<1>2. PICK L \in Nat \ {0} : L = Len(queue) /\ DOMAIN queue = 1..L
  BY <1>1, LenProperties, EmptySeq
<1>3. /\ queue' \in Seq(Events) /\ DOMAIN queue' = 1..(L - 1)
      /\ \A j \in 1..(L - 1) : queue'[j] = queue[j + 1]
      /\ e = queue[1] /\ e \in Events
  BY <1>1, <1>2, HeadTailProperties, LenProperties, ElementOfSeq
<1>4. 1 \in DOMAIN queue /\ \A j \in 1..(L - 1) : j + 1 \in DOMAIN queue /\ j + 1 # 1
  BY <1>2
<1>. HIDE DEF e
<1>5. OneEach'
  <2>. SUFFICES ASSUME NEW j \in 1..(L - 1), NEW k \in 1..(L - 1), queue'[j].source = queue'[k].source
                PROVE  j = k
    BY <1>3 DEF OneEach
  <2>1. j + 1 = k + 1
    BY <1>3, <1>4 DEF InputInv, OneEach
  <2>. QED
    BY <2>1
<1>6. \A i \in Keys : i # 0
  BY InputAssumption DEF Keys
<1>7. InputTyped /\ seen.still \in 0..Quiet /\ seen.told \in [Keys -> {"none", "down", "long", "boot"}]
        /\ seen.held \in [Keys -> 0..LongPress] /\ seen = [told |-> seen.told, held |-> seen.held, still |-> seen.still]
        /\ now \in Clocks /\ buttons \in [Keys -> ButtonRecords]
  BY DEF InputInv, InputTyped
  (* The others wait where they were. *)
<1>8. ASSUME NEW i \in Keys, i # e.source,
             seen'.told[i] = seen.told[i], seen'.held[i] = seen.held[i]
      PROVE  ButtonAgrees(i)'
  <2>1. ButtonAgrees(i)
    BY DEF InputInv
  <2>2. CASE \A j \in DOMAIN queue : queue[j].source # i
    <3>1. \A j \in DOMAIN queue' : queue'[j].source # i
      BY <1>3, <1>4, <2>2
    <3>2. Settled(buttons[i], seen.told[i], seen.held[i], now)
      BY <2>1, <2>2 DEF ButtonAgrees
    <3>. QED
      BY <1>1, <1>8, <2>1, <3>1, <3>2 DEF ButtonAgrees
  <2>3. ASSUME NEW j \in DOMAIN queue, queue[j].source = i,
               Waiting(buttons[i], queue[j].action, seen.told[i], seen.held[i], now)
        PROVE  ButtonAgrees(i)'
    <3>1. j # 1
      BY <1>3, <1>8, <2>3
    <3>2. PICK k \in 1..(L - 1) : j = k + 1
      <4>1. j - 1 \in 1..(L - 1) /\ j = (j - 1) + 1
        BY <1>2, <3>1
      <4>. QED
        BY <4>1
    <3>3. k \in DOMAIN queue' /\ queue'[k] = queue[j]
      BY <1>3, <3>2
    <3>4. buttons' = buttons /\ now' = now
      BY <1>1
    <3>. QED
      BY <1>8, <2>1, <2>3, <3>3, <3>4 DEF ButtonAgrees
  <2>. QED
    BY <2>1, <2>2, <2>3 DEF ButtonAgrees
<1>9. WheelWaits' \/ seen'.still # seen.still
  BY <1>1 DEF InputInv, WheelWaits
<1>10. CASE e.source = 0
  <2>1. seen' = seen
    BY <1>1, <1>10
  <2>2. InputTyped'
    BY <1>1, <1>3, <1>7, <2>1 DEF InputTyped
  <2>3. \A i \in Keys : ButtonAgrees(i)'
    BY <1>6, <1>8, <1>10, <2>1
  <2>. QED
    BY <1>5, <1>9, <2>1, <2>2, <2>3 DEF InputInv
<1>11. CASE e.source # 0
  <2>1. PICK s \in Keys : s = e.source
    BY <1>3, <1>11 DEF Events
  <2>2. PICK new, age : new = Answers(seen.told[s], e.action, seen.held[s])
                          /\ age = IF e.action = "down" THEN 0 ELSE seen.held[s]
    OBVIOUS
  <2>3. seen' = [told |-> [seen.told EXCEPT ![s] = new], held |-> [seen.held EXCEPT ![s] = age],
                 still |-> seen.still]
    BY <1>1, <1>7, <1>11, <2>1, <2>2
  <2>4. Waiting(buttons[s], e.action, seen.told[s], seen.held[s], now)
          /\ buttons[s].pressed = buttons[s].line.stable
    <3>1. ButtonAgrees(s) /\ OneEach
      BY DEF InputInv
    <3>2. PICK j \in DOMAIN queue :
            /\ queue[j].source = s
            /\ Waiting(buttons[s], queue[j].action, seen.told[s], seen.held[s], now)
      BY <1>3, <1>4, <2>1, <3>1 DEF ButtonAgrees
    <3>3. j = 1
      BY <1>3, <1>4, <2>1, <3>1, <3>2 DEF OneEach
    <3>. QED
      BY <1>3, <3>1, <3>2, <3>3 DEF ButtonAgrees
  <2>5. new \in {"none", "down", "long", "boot"} /\ Settled(buttons[s], new, age, now)
    <3>1. buttons[s] \in ButtonRecords /\ seen.held[s] \in 0..LongPress
      BY <1>7
    <3>2. PICK ac, to, he : ac = e.action /\ to = seen.told[s] /\ he = seen.held[s]
      OBVIOUS
    <3>3. Waiting(buttons[s], ac, to, he, now) /\ he \in 0..LongPress
            /\ buttons[s].pressed = buttons[s].line.stable
      BY <2>4, <3>1, <3>2
    <3>4. Answers(to, ac, he) \in {"none", "down", "long", "boot"}
            /\ Settled(buttons[s], Answers(to, ac, he), IF ac = "down" THEN 0 ELSE he, now)
      BY <1>7, <3>1, <3>3, Told
    <3>. QED
      BY <2>2, <3>2, <3>4
  <2>6. age \in 0..LongPress
    <3>1. 0 \in 0..LongPress
      BY InputAssumption
    <3>. QED
      BY <1>7, <2>2, <3>1
  <2>7. seen'.told[s] = new /\ seen'.held[s] = age /\ seen'.still = seen.still
          /\ \A i \in Keys : i # s => seen'.told[i] = seen.told[i] /\ seen'.held[i] = seen.held[i]
    BY <1>7, <2>3
  <2>8. InputTyped'
    <3>1. seen' \in [told : [Keys -> {"none", "down", "long", "boot"}],
                     held : [Keys -> 0..LongPress], still : 0..Quiet]
      BY <1>7, <2>3, <2>5, <2>6
    <3>. QED
      BY <1>1, <1>3, <1>7, <3>1 DEF InputTyped
  <2>9. ButtonAgrees(s)'
    <3>1. \A j \in DOMAIN queue' : queue'[j].source # s
      BY <1>3, <1>4, <2>1 DEF InputInv, OneEach
    <3>2. buttons' = buttons /\ now' = now
      BY <1>1
    <3>. QED
      BY <2>4, <2>5, <2>7, <3>1, <3>2 DEF ButtonAgrees
  <2>10. \A i \in Keys : ButtonAgrees(i)'
    BY <1>8, <2>1, <2>7, <2>9
  <2>. QED
    BY <1>5, <1>9, <2>7, <2>8, <2>10 DEF InputInv
<1>. QED
  BY <1>10, <1>11

(* begin(): what is down already has only its release to come.             *)
LEMMA InitInputInv == InputInit => InputInv
<1>. SUFFICES ASSUME InputInit PROVE InputInv
  OBVIOUS
<1>1. PICK pins \in [Keys -> BOOLEAN] :
        /\ now \in 0..(Clock - 1)
        /\ buttons = [i \in Keys |->
                        [line |-> Line(pins[i]), pressed |-> pins[i], reported |-> pins[i], from |-> 0]]
        /\ wheel = [a |-> Line(FALSE), b |-> Line(FALSE), pending |-> 0, last |-> 0]
        /\ queue = <<>>
        /\ seen = [told |-> [i \in Keys |-> IF pins[i] THEN "boot" ELSE "none"],
                   held |-> [i \in Keys |-> 0], still |-> 0]
  BY Zenon DEF InputInit, Keys
<1>2. 0 \in Clocks /\ 0 \in 0..LongPress /\ 0 \in 0..Quiet /\ 0 \in Int
  BY InputAssumption DEF Clocks
<1>3. \A raw \in BOOLEAN : Line(raw) \in Lines /\ Line(raw).stable = raw
  BY <1>2 DEF Line, Lines
<1>4. ASSUME NEW i \in Keys
      PROVE  /\ buttons[i] \in ButtonRecords /\ buttons[i].pressed = buttons[i].line.stable
             /\ seen.told[i] \in {"none", "boot"} /\ Settled(buttons[i], seen.told[i], seen.held[i], now)
  <2>1. PICK p \in BOOLEAN : p = pins[i]
    OBVIOUS
  <2>2. PICK l \in Lines : l = Line(p) /\ l.stable = p
    BY <1>3
  <2>3. buttons[i] = [line |-> l, pressed |-> p, reported |-> p, from |-> 0]
    BY <1>1, <2>1, <2>2
  <2>4. seen.told[i] = IF p THEN "boot" ELSE "none"
    BY <1>1, <2>1
  <2>. QED
    BY <1>2, <2>2, <2>3, <2>4 DEF ButtonRecords, Settled
<1>5. InputTyped
  <2>1. buttons \in [Keys -> ButtonRecords]
    BY <1>1, <1>4
  <2>2. wheel \in [a : Lines, b : Lines, pending : Int, last : Clocks]
    BY <1>1, <1>2, <1>3
  <2>3. seen.told \in [Keys -> {"none", "down", "long", "boot"}] /\ seen.held \in [Keys -> 0..LongPress]
    BY <1>1, <1>2
  <2>4. seen \in [told : [Keys -> {"none", "down", "long", "boot"}],
                  held : [Keys -> 0..LongPress], still : 0..Quiet]
    BY <1>1, <1>2, <2>3
  <2>5. queue \in Seq(Events)
    BY <1>1
  <2>. QED
    BY <1>1, <2>1, <2>2, <2>4, <2>5 DEF InputTyped, Clocks
<1>6. DOMAIN queue = {}
  BY <1>1
<1>. QED
  BY <1>1, <1>4, <1>5, <1>6 DEF InputInv, OneEach, ButtonAgrees, WheelWaits

LEMMA NextInputInv == ASSUME InputInv, [InputNext]_inputVars PROVE InputInv'
<1>1. CASE UNCHANGED inputVars
  BY <1>1 DEF inputVars, InputInv, InputTyped, OneEach, ButtonAgrees, WheelWaits
<1>2. CASE NextEvent
  BY <1>2, EventStep
<1>3. CASE \E ms \in Passes, pins \in [DOMAIN Buttons -> BOOLEAN], lineA, lineB \in BOOLEAN :
             Poll(ms, pins, lineA, lineB)
  BY <1>3, PollInputStep DEF Keys
<1>. QED
  BY <1>1, <1>2, <1>3 DEF InputNext

(* The invariant holds in every reachable state.                           *)
THEOREM InputInvariance == InputSpec => []InputInv
BY InitInputInv, NextInputInv, PTL DEF InputSpec

(* Whatever the pins do, however late a poll comes and wherever millis()   *)
(* stands: once the events are handled each press has been told once and   *)
(* in order, "long" not before its time and not a poll later, and steps of *)
(* the wheel wait only for more of them, and not for long.                 *)
THEOREM InputAlwaysAnswered == InputSpec => []InputAnswered
<1>1. InputInv => InputAnswered
  <2>. SUFFICES ASSUME InputInv, queue = <<>>
                PROVE  /\ \A i \in Keys :
                            /\ seen.told[i] # "wrong"
                            /\ seen.told[i] = "none" <=> ~ buttons[i].line.stable
                            /\ seen.told[i] = "down" => seen.held[i] < LongPress
                       /\ \/ wheel.pending = 0
                          \/ wheel.pending \in (1 - MaxPending)..(MaxPending - 1) /\ seen.still < Quiet
    BY Zenon DEF InputAnswered, Keys
  <2>1. ASSUME NEW i \in Keys
        PROVE  /\ seen.told[i] # "wrong"
               /\ seen.told[i] = "none" <=> ~ buttons[i].line.stable
               /\ seen.told[i] = "down" => seen.held[i] < LongPress
    <3>1. ButtonAgrees(i) /\ DOMAIN queue = {}
      BY DEF InputInv
    <3>2. buttons[i].pressed = buttons[i].line.stable
            /\ Settled(buttons[i], seen.told[i], seen.held[i], now)
      BY <3>1 DEF ButtonAgrees
    <3>. QED
      BY <3>2 DEF Settled
  <2>. QED
    BY <2>1 DEF InputInv, WheelWaits
<1>. QED
  BY InputInvariance, <1>1, PTL
=============================================================================
