----------------------------- MODULE Screens_proofs -----------------------------
(***************************************************************************)
(* Proofs about Screens, for any packages, surahs, pages, lists and number *)
(* of file handles: a file is open exactly while its screen is up, every   *)
(* change is drawn or about to be, selections stay in view and EXIT leads  *)
(* out.                                                                    *)
(***************************************************************************)
EXTENDS Screens, SequenceTheorems, FiniteSetTheorems, TLAPS

-----------------------------------------------------------------------------
(* The inductive invariant                                                 *)

Fields == {"mode", "dirty", "homePending", "pool", "quran", "pages", "trans",
           "translating", "listed", "pickTrans", "pick", "pickTop", "book", "surah",
           "page", "jump", "target", "view", "category", "selected", "top", "state",
           "said", "marks", "markRow", "last", "markSaid"}

Marks == [id : Packages \cup {None}, page : 1..Pages]

(* The handles, and the screens that need them.  A translation's surah     *)
(* list is only entered from the translation.                              *)
FilesTyped(s) ==
  /\ DOMAIN s = Fields
  /\ s.mode \in Modes
  /\ DOMAIN s.pool = Slots
  /\ s.quran \in 0..MaxOpenFiles /\ s.pages \in 0..MaxOpenFiles /\ s.trans \in 0..MaxOpenFiles
  /\ s.translating \in BOOLEAN /\ s.pickTrans \in BOOLEAN

InUse(s)  == {i \in Slots : s.pool[i] # None}
Held(s)   == {s.quran, s.pages, s.trans} \ {0}
NeedsQuran(s) == s.mode = "quran" \/ (s.mode = "picker" /\ ~ s.pickTrans)
NeedsTrans(s) == (s.mode = "reader" /\ s.translating) \/ (s.mode = "picker" /\ s.pickTrans)

FilesMatch(s) ==
  /\ FilesTyped(s)
  /\ InUse(s) = Held(s)
  /\ s.quran # 0 <=> NeedsQuran(s)
  /\ s.trans # 0 <=> NeedsTrans(s)
  /\ s.pages # 0 <=> s.mode = "pages"
  /\ s.mode = "picker" /\ s.pickTrans => s.translating

(* The rows of the lists.                                                  *)
RowsTyped(s) ==
  /\ s.surah \in 1..Surahs /\ s.page \in 1..Pages /\ s.target \in 1..Pages
  /\ s.book \in Packages \cup {None} /\ s.last \in Packages \cup {None}
  /\ s.listed \in 0..Surahs /\ s.jump \in BOOLEAN
  /\ s.view \in {"categories", "items"}
  /\ s.marks \in Seq(Marks)
  /\ s.markRow \in Nat /\ s.pick \in Nat /\ s.pickTop \in Nat
  /\ s.selected \in Nat /\ s.top \in Nat

InView(s) ==
  /\ s.mode = "bookmarks" /\ MarkRows(s) > 0 => s.markRow < MarkRows(s)
  /\ s.mode = "picker" => /\ s.pick < SurahPickerTotal(s)
                          /\ s.pickTop <= s.pick /\ s.pick < s.pickTop + PickerRows
  /\ s.top <= s.selected /\ s.selected < s.top + VisibleRows

UiInv(s) == FilesMatch(s) /\ RowsTyped(s) /\ InView(s)
SInv     == index \in Seq(Packages) /\ UiInv(ui)

-----------------------------------------------------------------------------
(* What the operators change                                               *)

(* r differs from s in no field but those.                                 *)
Same(r, s, those) == DOMAIN r = Fields /\ \A f \in Fields \ those : r[f] = s[f]

(* What nobody reads again goes back to its start.                         *)
LEMMA TidyChanges ==
  ASSUME NEW s, DOMAIN s = Fields
  PROVE  /\ Same(Tidy(s), s, {"book", "surah", "page", "jump", "target", "listed", "pick",
                              "pickTop", "markRow", "last", "markSaid"})
         /\ Tidy(s).book = None /\ Tidy(s).surah = 1 /\ Tidy(s).page = 1 /\ Tidy(s).jump = FALSE
         /\ Tidy(s).target = 1 /\ Tidy(s).listed = 0 /\ Tidy(s).pick = 0 /\ Tidy(s).pickTop = 0
         /\ Tidy(s).markRow = 0 /\ Tidy(s).last = None
  BY DEF Tidy, Same, Fields

(* Closing a reader gives up its handle.                                   *)
LEMMA ClosesChange ==
  ASSUME NEW s, DOMAIN s = Fields, DOMAIN s.pool = Slots
  PROVE  /\ Same(CloseQuran(s), s, {"pool", "quran"})
         /\ CloseQuran(s).quran = 0
         /\ Same(ClosePageBook(s), s, {"pool", "pages"})
         /\ ClosePageBook(s).pages = 0
         /\ Same(CloseTranslation(s), s, {"pool", "trans", "translating"})
         /\ CloseTranslation(s).trans = 0 /\ CloseTranslation(s).translating = FALSE
<1>1. \A h : Same(Released(s, h), s, {"pool"})
  BY DEF Released, Same, Fields
<1>2. Same(CloseQuran(s), s, {"pool", "quran"}) /\ CloseQuran(s).quran = 0
  BY <1>1 DEF CloseQuran, Same, Fields
<1>3. Same(ClosePageBook(s), s, {"pool", "pages"}) /\ ClosePageBook(s).pages = 0
  BY <1>1 DEF ClosePageBook, Same, Fields
<1>4. /\ Same(CloseTranslation(s), s, {"pool", "trans", "translating"})
      /\ CloseTranslation(s).trans = 0 /\ CloseTranslation(s).translating = FALSE
  BY <1>1 DEF CloseTranslation, Same, Fields
<1>. QED
  BY <1>2, <1>3, <1>4

-----------------------------------------------------------------------------
(* The least of some numbers                                               *)

(* Of the initial segments that end in T, one is within all others.        *)
LEMMA LeastNat ==
  ASSUME NEW T, T \subseteq Nat, T # {}
  PROVE  \E x \in T : \A y \in T : x <= y
<1>. DEFINE segments == {0..x : x \in T}
<1>1. segments \subseteq FiniteSubsetsOf(Nat)
  <2>. SUFFICES ASSUME NEW x \in T PROVE 0..x \in FiniteSubsetsOf(Nat)
    OBVIOUS
  <2>1. IsFiniteSet(0..x)
    BY FS_Interval
  <2>. QED
    BY <2>1 DEF FiniteSubsetsOf
<1>2. segments # {}
  OBVIOUS
<1>3. PICK m \in segments : \A y \in segments : <<y, m>> \notin StrictSubsetOrdering(Nat)
  <2>. HIDE DEF segments
  <2>. QED
    BY <1>1, <1>2, WFMin, FS_StrictSubsetOrderingWellFounded
<1>4. PICK x \in T : m = 0..x
  OBVIOUS
<1>5. ASSUME NEW y \in T, ~ x <= y PROVE FALSE
  <2>1. y \in Nat /\ x \in Nat /\ y < x
    BY <1>5
  <2>2. 0..y \subseteq 0..x /\ 0..y # 0..x /\ 0..x \subseteq Nat
    BY <2>1
  <2>3. <<0..y, m>> \in StrictSubsetOrdering(Nat)
    BY <1>4, <2>2 DEF StrictSubsetOrdering
  <2>4. 0..y \in segments
    OBVIOUS
  <2>. QED
    BY <1>3, <2>3, <2>4
<1>. QED
  BY <1>5

(* A free handle is found when there is one.                               *)
LEMMA FreeHandleFree ==
  ASSUME NEW s, DOMAIN s.pool = Slots, FreeHandle(s) # 0
  PROVE  FreeHandle(s) \in Slots /\ s.pool[FreeHandle(s)] = None
<1>. DEFINE free == {i \in Slots : s.pool[i] = None}
<1>1. free # {} /\ free \subseteq Nat
  BY ScreensAssumption DEF FreeHandle, Slots
<1>2. PICK i \in free : \A j \in free : i <= j
  BY <1>1, LeastNat
<1>3. FreeHandle(s) = CHOOSE k \in free : \A j \in free : k <= j
  BY <1>1 DEF FreeHandle
<1>4. FreeHandle(s) \in free
  BY <1>2, <1>3
<1>. QED
  BY <1>4

(* Some numbers up to a bound have an n-th.                                *)
LEMMA NthOfSet ==
  ASSUME NEW m \in Nat, NEW S \in SUBSET (1..m), NEW n \in 1..Cardinality(S)
  PROVE  \E i \in S : Cardinality({j \in S : j <= i}) = n
<1>1. IsFiniteSet(S) /\ Cardinality(S) \in Nat
  <2>1. IsFiniteSet(1..m)
    BY FS_Interval
  <2>. QED
    BY <2>1, FS_Subset, FS_CardinalityType
<1>2. \A j \in S : j \in Nat /\ 1 <= j /\ j <= m
  OBVIOUS
<1>. DEFINE upTo(k) == {j \in S : j <= k}
<1>3. ASSUME NEW k PROVE IsFiniteSet(upTo(k)) /\ Cardinality(upTo(k)) \in Nat
  <2>1. upTo(k) \in SUBSET S
    OBVIOUS
  <2>. QED
    BY <1>1, <2>1, FS_Subset, FS_CardinalityType
<1>. DEFINE enough == {k \in Nat : Cardinality(upTo(k)) >= n}
<1>4. m \in enough
  <2>1. upTo(m) = S
    BY <1>2
  <2>2. Cardinality(S) >= n
    BY <1>1
  <2>. QED
    BY <2>1, <2>2
<1>5. PICK k \in enough : \A l \in enough : k <= l
  <2>1. enough \subseteq Nat
    OBVIOUS
  <2>. HIDE DEF enough
  <2>. QED
    BY <1>4, <2>1, LeastNat
<1>6. k \in Nat /\ Cardinality(upTo(k)) >= n
  BY <1>5
<1>7. \A l \in Nat : Cardinality(upTo(l)) >= n => k <= l
  BY <1>5
<1>8. upTo(0) = {} /\ Cardinality(upTo(0)) = 0
  <2>1. \A j \in S : ~ j <= 0
    BY <1>2
  <2>2. upTo(0) = {}
    BY <2>1
  <2>. QED
    BY <2>2, FS_EmptySet
<1>9. /\ k # 0 => upTo(k) = IF k \in S THEN upTo(k - 1) \cup {k} ELSE upTo(k - 1)
      /\ k # 0 => k \notin upTo(k - 1)
  <2>1. \A j \in S : j <= k <=> j <= k - 1 \/ j = k
    BY <1>2, <1>6
  <2>2. ~ k <= k - 1
    BY <1>6
  <2>. QED
    BY <2>1, <2>2
<1>. HIDE DEF upTo, enough
<1>10. k # 0
  BY <1>1, <1>6, <1>8
<1>11. k - 1 \in Nat /\ Cardinality(upTo(k - 1)) \in Nat /\ Cardinality(upTo(k - 1)) < n
  <2>1. k - 1 \in Nat /\ ~ k <= k - 1
    BY <1>6, <1>10
  <2>2. Cardinality(upTo(k - 1)) \in Nat
    BY <1>3
  <2>3. ~ Cardinality(upTo(k - 1)) >= n
    BY <1>7, <2>1
  <2>. QED
    BY <1>1, <2>1, <2>2, <2>3
<1>12. k \in S
  BY <1>1, <1>6, <1>9, <1>10, <1>11
<1>13. Cardinality(upTo(k)) = Cardinality(upTo(k - 1)) + 1
  <2>1. upTo(k) = upTo(k - 1) \cup {k} /\ k \notin upTo(k - 1)
    BY <1>9, <1>10, <1>12
  <2>2. IsFiniteSet(upTo(k - 1))
    BY <1>3
  <2>. QED
    BY <2>1, <2>2, FS_AddElement
<1>14. Cardinality(upTo(k)) = n
  BY <1>1, <1>6, <1>11, <1>13
<1>. QED
  BY <1>12, <1>14 DEF upTo

(* The n-th entry of a type is an entry.                                   *)
LEMMA EntryInIndex ==
  ASSUME index \in Seq(Packages), NEW type
  PROVE  /\ CountOfType(type) \in Nat
         /\ \A n \in 1..CountOfType(type) : EntryOfType(type, n) \in Packages
<1>1. Len(index) \in Nat /\ OfType(type) \in SUBSET (1..Len(index))
      /\ \A i \in OfType(type) : index[i] \in Packages
  BY LenProperties, ElementOfSeq DEF OfType
<1>2. CountOfType(type) \in Nat
  <2>1. IsFiniteSet(1..Len(index))
    BY <1>1, FS_Interval
  <2>2. IsFiniteSet(OfType(type))
    BY <1>1, <2>1, FS_Subset
  <2>. QED
    BY <2>2, FS_CardinalityType DEF CountOfType
<1>3. ASSUME NEW n \in 1..CountOfType(type) PROVE EntryOfType(type, n) \in Packages
  <2>1. \E i \in OfType(type) : Cardinality({j \in OfType(type) : j <= i}) = n
    BY <1>1, NthOfSet DEF CountOfType
  <2>2. (CHOOSE i \in OfType(type) : Cardinality({j \in OfType(type) : j <= i}) = n) \in OfType(type)
    BY <2>1
  <2>. QED
    BY <1>1, <2>2 DEF EntryOfType
<1>. QED
  BY <1>2, <1>3

-----------------------------------------------------------------------------
(* Frames                                                                  *)

Messages == {"dirty", "homePending", "said", "markSaid", "state", "category"}
Placing  == {"book", "surah", "page", "jump", "target"}
Tidied   == Placing \cup {"listed", "pick", "pickTop", "markRow", "last", "markSaid"}

(* Messages and the place in a book disturb neither handles nor lists.     *)
LEMMA FilesFrame ==
  ASSUME NEW s, NEW r, FilesMatch(s), Same(r, s, Messages \cup Tidied \cup
           {"view", "selected", "top", "marks"})
  PROVE  FilesMatch(r)
<1>1. /\ DOMAIN r = Fields /\ r.mode = s.mode /\ r.pool = s.pool /\ r.quran = s.quran
      /\ r.pages = s.pages /\ r.trans = s.trans
      /\ r.translating = s.translating /\ r.pickTrans = s.pickTrans
  BY DEF Same, Fields, Messages, Tidied, Placing
<1>. QED
  BY <1>1 DEF FilesMatch, FilesTyped, InUse, Held, NeedsQuran, NeedsTrans

(* Nor does another place or another file disturb the lists.               *)
LEMMA PlaceFrame ==
  ASSUME NEW s, NEW r, RowsTyped(s), InView(s), Same(r, s, Messages \cup Placing \cup
           {"pool", "quran", "pages", "trans", "translating"}),
         r.surah \in 1..Surahs, r.page \in 1..Pages, r.target \in 1..Pages,
         r.book \in Packages \cup {None}, r.jump \in BOOLEAN
  PROVE  RowsTyped(r) /\ InView(r)
<1>1. /\ r.last = s.last /\ r.listed = s.listed /\ r.view = s.view /\ r.marks = s.marks
      /\ r.markRow = s.markRow /\ r.pick = s.pick /\ r.pickTop = s.pickTop
      /\ r.selected = s.selected /\ r.top = s.top /\ r.mode = s.mode /\ r.pickTrans = s.pickTrans
  BY DEF Same, Fields, Messages, Placing
<1>. QED
  BY <1>1 DEF RowsTyped, InView, MarkRows, SurahPickerTotal

(* So the invariant only needs the new place to be one.                    *)
LEMMA UiFrame ==
  ASSUME NEW s, NEW r, UiInv(s), Same(r, s, Messages \cup Placing),
         r.surah \in 1..Surahs, r.page \in 1..Pages, r.target \in 1..Pages,
         r.book \in Packages \cup {None}, r.jump \in BOOLEAN
  PROVE  UiInv(r)
<1>1. FilesMatch(r)
  BY FilesFrame DEF UiInv, Same, Tidied
<1>2. RowsTyped(r) /\ InView(r)
  BY PlaceFrame DEF UiInv, Same
<1>. QED
  BY <1>1, <1>2 DEF UiInv

(* A message leaves it alone.                                              *)
LEMMA MessageFrame ==
  ASSUME NEW s, NEW r, UiInv(s), Same(r, s, Messages)
  PROVE  UiInv(r)
<1>1. /\ r.surah = s.surah /\ r.page = s.page /\ r.target = s.target
      /\ r.book = s.book /\ r.jump = s.jump
  BY DEF Same, Fields, Messages
<1>. QED
  BY <1>1, UiFrame DEF UiInv, RowsTyped, Same

(* Where Show() leads.                                                     *)
LEMMA ShowChanges ==
  ASSUME NEW s, DOMAIN s = Fields, NEW mode
  PROVE  /\ Show(s, mode).mode = mode /\ Show(s, mode).dirty = TRUE
         /\ Same(Show(s, mode), s, {"mode", "dirty"} \cup Tidied)
         /\ mode \notin {"library", "home", "selftest"} => Same(Show(s, mode), s, {"mode", "dirty"})
         /\ RowsTyped(s) => RowsTyped(Show(s, mode))
<1>1. CASE mode \notin {"library", "home", "selftest"}
  <2>1. Show(s, mode) = [s EXCEPT !.mode = mode, !.dirty = TRUE]
    BY <1>1 DEF Show
  <2>2. /\ Show(s, mode).mode = mode /\ Show(s, mode).dirty = TRUE
        /\ Same(Show(s, mode), s, {"mode", "dirty"})
    BY <2>1 DEF Same, Fields
  <2>3. Same(Show(s, mode), s, {"mode", "dirty"} \cup Tidied)
    BY <2>2 DEF Same
  <2>4. RowsTyped(s) => RowsTyped(Show(s, mode))
    BY <2>2 DEF Same, Fields, RowsTyped
  <2>. QED
    BY <1>1, <2>2, <2>3, <2>4
<1>2. CASE mode \in {"library", "home", "selftest"}
  <2>1. PICK t : t = Tidy(s)
    OBVIOUS
  <2>2. Show(s, mode) = [t EXCEPT !.mode = mode, !.dirty = TRUE]
    BY <1>2, <2>1 DEF Show
  <2>3. /\ Same(t, s, Tidied) /\ t.book = None /\ t.surah = 1 /\ t.page = 1 /\ t.jump = FALSE
        /\ t.target = 1 /\ t.listed = 0 /\ t.pick = 0 /\ t.pickTop = 0
        /\ t.markRow = 0 /\ t.last = None
    BY <2>1, TidyChanges DEF Tidied, Placing, Same
  <2>4. PICK u : u = Show(s, mode)
    OBVIOUS
  <2>5. u.mode = mode /\ u.dirty = TRUE /\ Same(u, t, {"mode", "dirty"})
    BY <2>2, <2>3, <2>4 DEF Same, Fields
  <2>6. Same(u, s, {"mode", "dirty"} \cup Tidied)
    BY <2>3, <2>5 DEF Same
  <2>7. RowsTyped(s) => RowsTyped(t)
    <3>1. /\ Surahs \in Nat \ {0} /\ Pages \in Nat \ {0}
      BY ScreensAssumption
    <3>2. t.view = s.view /\ t.marks = s.marks /\ t.selected = s.selected /\ t.top = s.top
      BY <2>3 DEF Same, Fields, Tidied, Placing
    <3>3. /\ t.surah \in 1..Surahs /\ t.page \in 1..Pages /\ t.target \in 1..Pages
          /\ t.listed \in 0..Surahs /\ t.markRow \in Nat /\ t.pick \in Nat /\ t.pickTop \in Nat
      BY <2>3, <3>1
    <3>4. t.book \in Packages \cup {None} /\ t.last \in Packages \cup {None} /\ t.jump \in BOOLEAN
      BY <2>3
    <3>. QED
      BY <3>2, <3>3, <3>4 DEF RowsTyped
  <2>8. RowsTyped(t) => RowsTyped(u)
    BY <2>5 DEF Same, Fields, RowsTyped
  <2>. QED
    BY <1>2, <2>4, <2>5, <2>6, <2>7, <2>8
<1>. QED
  BY <1>1, <1>2

(* No file open, and no screen with one.                                   *)
Closed(s) == FilesTyped(s) /\ InUse(s) = {} /\ s.quran = 0 /\ s.pages = 0 /\ s.trans = 0

(* With no file open, a screen that needs none may be shown.               *)
LEMMA ShowClosed ==
  ASSUME NEW s, Closed(s), RowsTyped(s), s.top <= s.selected, s.selected < s.top + VisibleRows,
         NEW mode \in {"library", "home", "selftest"}
  PROVE  UiInv(Show(s, mode)) /\ Show(s, mode).mode = mode /\ Show(s, mode).dirty = TRUE
         /\ Show(s, mode).view = s.view
<1>1. PICK r : r = Show(s, mode)
  OBVIOUS
<1>2. /\ r.mode = mode /\ r.dirty = TRUE /\ RowsTyped(r)
      /\ Same(r, s, {"mode", "dirty"} \cup Tidied)
  BY <1>1, ShowChanges DEF Closed, FilesTyped
<1>3. /\ DOMAIN r = Fields /\ r.pool = s.pool /\ r.quran = 0
      /\ r.pages = 0 /\ r.trans = 0 /\ r.translating = s.translating /\ r.pickTrans = s.pickTrans
      /\ r.selected = s.selected /\ r.top = s.top /\ r.view = s.view
  BY <1>2 DEF Same, Fields, Tidied, Placing, Closed
<1>4. FilesMatch(r)
  BY <1>2, <1>3 DEF FilesMatch, FilesTyped, Closed, InUse, Held, NeedsQuran, NeedsTrans, Modes
<1>5. InView(r)
  BY <1>2, <1>3 DEF InView
<1>. QED
  BY <1>1, <1>2, <1>3, <1>4, <1>5 DEF UiInv

-----------------------------------------------------------------------------
(* Opening and closing files                                               *)

(* Closing a reader frees its slot of the pool and no other.               *)
LEMMA CloseEffects ==
  ASSUME NEW s, FilesTyped(s)
  PROVE  /\ FilesTyped(CloseQuran(s)) /\ InUse(CloseQuran(s)) = InUse(s) \ {s.quran}
         /\ FilesTyped(ClosePageBook(s)) /\ InUse(ClosePageBook(s)) = InUse(s) \ {s.pages}
         /\ FilesTyped(CloseTranslation(s)) /\ InUse(CloseTranslation(s)) = InUse(s) \ {s.trans}
<1>1. DOMAIN s = Fields /\ DOMAIN s.pool = Slots
  BY DEF FilesTyped
<1>2. \A h : Released(s, h).pool = [i \in Slots |-> IF i = h THEN None ELSE s.pool[i]]
  BY <1>1 DEF Released, Fields
<1>3. /\ CloseQuran(s).pool = Released(s, s.quran).pool
      /\ ClosePageBook(s).pool = Released(s, s.pages).pool
      /\ CloseTranslation(s).pool = Released(s, s.trans).pool
  BY <1>1 DEF CloseQuran, ClosePageBook, CloseTranslation, Released, Fields
<1>4. 0 \in 0..MaxOpenFiles
  BY ScreensAssumption
<1>5. FilesTyped(CloseQuran(s)) /\ InUse(CloseQuran(s)) = InUse(s) \ {s.quran}
  <2>1. PICK r : r = CloseQuran(s)
    OBVIOUS
  <2>2. r.pool = [i \in Slots |-> IF i = s.quran THEN None ELSE s.pool[i]]
    BY <1>2, <1>3, <2>1
  <2>3. Same(r, s, {"pool", "quran"}) /\ r.quran = 0
    BY <1>1, <2>1, ClosesChange
  <2>4. /\ r.mode = s.mode /\ r.pages = s.pages /\ r.trans = s.trans
        /\ r.translating = s.translating /\ r.pickTrans = s.pickTrans /\ DOMAIN r = Fields
    BY <2>3 DEF Same, Fields
  <2>5. FilesTyped(r)
    BY <1>4, <2>2, <2>3, <2>4 DEF FilesTyped
  <2>6. InUse(r) = InUse(s) \ {s.quran}
    BY <2>2 DEF InUse
  <2>. QED
    BY <2>1, <2>5, <2>6
<1>6. FilesTyped(ClosePageBook(s)) /\ InUse(ClosePageBook(s)) = InUse(s) \ {s.pages}
  <2>1. PICK r : r = ClosePageBook(s)
    OBVIOUS
  <2>2. r.pool = [i \in Slots |-> IF i = s.pages THEN None ELSE s.pool[i]]
    BY <1>2, <1>3, <2>1
  <2>3. Same(r, s, {"pool", "pages"}) /\ r.pages = 0
    BY <1>1, <2>1, ClosesChange
  <2>4. /\ r.mode = s.mode /\ r.quran = s.quran /\ r.trans = s.trans
        /\ r.translating = s.translating /\ r.pickTrans = s.pickTrans /\ DOMAIN r = Fields
    BY <2>3 DEF Same, Fields
  <2>5. FilesTyped(r)
    BY <1>4, <2>2, <2>3, <2>4 DEF FilesTyped
  <2>6. InUse(r) = InUse(s) \ {s.pages}
    BY <2>2 DEF InUse
  <2>. QED
    BY <2>1, <2>5, <2>6
<1>7. FilesTyped(CloseTranslation(s)) /\ InUse(CloseTranslation(s)) = InUse(s) \ {s.trans}
  <2>1. PICK r : r = CloseTranslation(s)
    OBVIOUS
  <2>2. r.pool = [i \in Slots |-> IF i = s.trans THEN None ELSE s.pool[i]]
    BY <1>2, <1>3, <2>1
  <2>3. Same(r, s, {"pool", "trans", "translating"}) /\ r.trans = 0 /\ r.translating = FALSE
    BY <1>1, <2>1, ClosesChange
  <2>4. /\ r.mode = s.mode /\ r.quran = s.quran /\ r.pages = s.pages
        /\ r.pickTrans = s.pickTrans /\ DOMAIN r = Fields
    BY <2>3 DEF Same, Fields
  <2>5. FilesTyped(r)
    BY <1>4, <2>2, <2>3, <2>4 DEF FilesTyped
  <2>6. InUse(r) = InUse(s) \ {s.trans}
    BY <2>2 DEF InUse
  <2>. QED
    BY <2>1, <2>5, <2>6
<1>. QED
  BY <1>5, <1>6, <1>7

(* A reader that is left leaves no file open.                              *)
LEMMA LeftClosed ==
  ASSUME NEW s, FilesMatch(s)
  PROVE  /\ NeedsQuran(s) => Closed(CloseQuran(s))
         /\ s.mode = "pages" => Closed(ClosePageBook(s))
         /\ s.mode = "reader" \/ (s.mode = "picker" /\ s.pickTrans) => Closed(CloseTranslation(s))
         /\ s.mode \in {"home", "library", "bookmarks", "selftest"} =>
              /\ Closed(s) /\ Closed(CloseQuran(s)) /\ Closed(CloseTranslation(s))
              /\ Closed(ClosePageBook(CloseTranslation(s)))
<1>1. /\ FilesTyped(s) /\ DOMAIN s = Fields /\ DOMAIN s.pool = Slots
      /\ InUse(s) = {s.quran, s.pages, s.trans} \ {0}
  BY DEF FilesMatch, FilesTyped, Held
<1>2. /\ CloseQuran(s).quran = 0 /\ CloseQuran(s).pages = s.pages /\ CloseQuran(s).trans = s.trans
      /\ ClosePageBook(s).pages = 0 /\ ClosePageBook(s).quran = s.quran /\ ClosePageBook(s).trans = s.trans
      /\ CloseTranslation(s).trans = 0 /\ CloseTranslation(s).quran = s.quran
      /\ CloseTranslation(s).pages = s.pages
  <2>1. PICK q, p, t : q = CloseQuran(s) /\ p = ClosePageBook(s) /\ t = CloseTranslation(s)
    OBVIOUS
  <2>2. Same(q, s, {"pool", "quran"}) /\ q.quran = 0
    BY <1>1, <2>1, ClosesChange
  <2>3. Same(p, s, {"pool", "pages"}) /\ p.pages = 0
    BY <1>1, <2>1, ClosesChange
  <2>4. Same(t, s, {"pool", "trans", "translating"}) /\ t.trans = 0
    BY <1>1, <2>1, ClosesChange
  <2>5. q.pages = s.pages /\ q.trans = s.trans
    BY <2>2 DEF Same, Fields
  <2>6. p.quran = s.quran /\ p.trans = s.trans
    BY <2>3 DEF Same, Fields
  <2>7. t.quran = s.quran /\ t.pages = s.pages
    BY <2>4 DEF Same, Fields
  <2>. QED
    BY <2>1, <2>2, <2>3, <2>4, <2>5, <2>6, <2>7
<1>3. /\ NeedsQuran(s) => s.pages = 0 /\ s.trans = 0
      /\ s.mode = "pages" => s.quran = 0 /\ s.trans = 0
      /\ s.mode = "reader" \/ (s.mode = "picker" /\ s.pickTrans) => s.quran = 0 /\ s.pages = 0
      /\ s.mode \in {"home", "library", "bookmarks", "selftest"} => s.quran = 0 /\ s.pages = 0 /\ s.trans = 0
  BY DEF FilesMatch, NeedsQuran, NeedsTrans
<1>4. NeedsQuran(s) => Closed(CloseQuran(s))
  BY <1>1, <1>2, <1>3, CloseEffects DEF Closed
<1>5. s.mode = "pages" => Closed(ClosePageBook(s))
  BY <1>1, <1>2, <1>3, CloseEffects DEF Closed
<1>6. s.mode = "reader" \/ (s.mode = "picker" /\ s.pickTrans) => Closed(CloseTranslation(s))
  BY <1>1, <1>2, <1>3, CloseEffects DEF Closed
<1>7. ASSUME s.mode \in {"home", "library", "bookmarks", "selftest"}
      PROVE  /\ Closed(s) /\ Closed(CloseQuran(s)) /\ Closed(CloseTranslation(s))
             /\ Closed(ClosePageBook(CloseTranslation(s)))
  <2>1. Closed(s)
    BY <1>1, <1>3, <1>7 DEF Closed
  <2>2. Closed(CloseQuran(s)) /\ Closed(CloseTranslation(s))
    BY <1>2, <1>3, <1>7, <2>1, CloseEffects DEF Closed
  <2>3. PICK t : t = CloseTranslation(s)
    OBVIOUS
  <2>4. Closed(ClosePageBook(t))
    <3>1. Closed(t) /\ DOMAIN t = Fields /\ DOMAIN t.pool = Slots
      BY <2>2, <2>3 DEF Closed, FilesTyped
    <3>2. /\ ClosePageBook(t).pages = 0 /\ ClosePageBook(t).quran = t.quran
          /\ ClosePageBook(t).trans = t.trans
      BY <3>1, ClosesChange DEF Same, Fields
    <3>. QED
      BY <3>1, <3>2, CloseEffects DEF Closed
  <2>. QED
    BY <2>1, <2>2, <2>3, <2>4
<1>. QED
  BY <1>4, <1>5, <1>6, <1>7

(* Opening a package in a free handle.                                     *)
LEMMA OpenedEffects ==
  ASSUME NEW s, FilesTyped(s), NEW id \in Packages, FreeHandle(s) # 0
  PROVE  /\ Same(Opened(s, id), s, {"pool"}) /\ FilesTyped(Opened(s, id))
         /\ InUse(Opened(s, id)) = InUse(s) \cup {FreeHandle(s)}
         /\ FreeHandle(s) \in 1..MaxOpenFiles /\ FreeHandle(s) \notin InUse(s)
<1>. DEFINE h == FreeHandle(s)
<1>1. h \in Slots /\ s.pool[h] = None /\ id # None
  BY FreeHandleFree, ScreensAssumption DEF FilesTyped
<1>2. DOMAIN s = Fields /\ DOMAIN s.pool = Slots
  BY DEF FilesTyped
<1>. HIDE DEF h
<1>3. PICK r : r = Opened(s, id)
  OBVIOUS
<1>4. Same(r, s, {"pool"}) /\ r.pool = [s.pool EXCEPT ![h] = id]
  BY <1>2, <1>3 DEF Opened, Same, Fields, h
<1>5. /\ r.mode = s.mode /\ r.quran = s.quran /\ r.pages = s.pages /\ r.trans = s.trans
      /\ r.translating = s.translating /\ r.pickTrans = s.pickTrans /\ DOMAIN r = Fields
  BY <1>4 DEF Same, Fields
<1>6. DOMAIN r.pool = Slots /\ \A i \in Slots : r.pool[i] = IF i = h THEN id ELSE s.pool[i]
  BY <1>2, <1>4
<1>7. FilesTyped(r)
  BY <1>5, <1>6 DEF FilesTyped
<1>8. InUse(r) = InUse(s) \cup {h}
  BY <1>1, <1>6 DEF InUse
<1>. QED
  BY <1>1, <1>3, <1>4, <1>7, <1>8 DEF h, Slots, InUse


-----------------------------------------------------------------------------
(* Rows                                                                    *)

(* Limit() stays between its bounds.                                       *)
LEMMA LimitBetween ==
  ASSUME NEW n \in Int, NEW lo \in Int, NEW hi \in Int, lo <= hi
  PROVE  Limit(n, lo, hi) \in lo..hi
BY DEF Limit

(* A list that scrolls keeps the row in view.                              *)
LEMMA ScrollKeepsRow ==
  ASSUME NEW top \in Nat, NEW row \in Nat, NEW visible \in Nat \ {0}
  PROVE  /\ Scroll(top, row, visible) \in Nat /\ Scroll(top, row, visible) <= row
         /\ row < Scroll(top, row, visible) + visible
BY DEF Scroll

(* A list of bookmarks has a number of rows, and each row a mark.          *)
LEMMA MarkRowsNumber ==
  ASSUME NEW s, RowsTyped(s)
  PROVE  /\ MarkRows(s) \in Nat
         /\ s.markRow < MarkRows(s) => MarkAt(s, s.markRow) \in Marks
<1>1. Len(s.marks) \in Nat /\ s.markRow \in Nat /\ s.last \in Packages \cup {None}
      /\ \A k \in 1..Len(s.marks) : s.marks[k] \in Marks
  BY LenProperties, ElementOfSeq DEF RowsTyped
<1>2. 1 \in 1..Pages
  BY ScreensAssumption
<1>3. CASE s.last = None
  <2>1. MarkRows(s) = Len(s.marks) /\ MarkAt(s, s.markRow) = s.marks[s.markRow + 1]
    BY <1>1, <1>3 DEF MarkRows, MarkAt
  <2>. QED
    BY <1>1, <2>1
<1>4. CASE s.last # None
  <2>1. MarkRows(s) = Len(s.marks) + 1
    BY <1>1, <1>4 DEF MarkRows
  <2>2. CASE s.markRow = 0
    <3>1. MarkAt(s, s.markRow) = [id |-> s.last, page |-> 1]
      BY <1>4, <2>2 DEF MarkAt
    <3>. QED
      BY <1>1, <1>2, <2>1, <3>1 DEF Marks
  <2>3. CASE s.markRow # 0
    <3>1. MarkAt(s, s.markRow) = s.marks[s.markRow]
      BY <1>4, <2>3 DEF MarkAt
    <3>. QED
      BY <1>1, <2>1, <2>3, <3>1
  <2>. QED
    BY <2>2, <2>3
<1>. QED
  BY <1>3, <1>4

(* A list without one of its elements.                                     *)
LEMMA WithoutOne ==
  ASSUME NEW S, NEW q \in Seq(S), NEW k \in 1..(Len(q) + 1)
  PROVE  /\ Without(q, k) \in Seq(S)
         /\ k <= Len(q) => Len(Without(q, k)) = Len(q) - 1
<1>1. Len(q) \in Nat /\ \A i \in 1..Len(q) : q[i] \in S
  BY LenProperties, ElementOfSeq
<1>2. SubSeq(q, 1, k - 1) \in Seq(S) /\ Len(SubSeq(q, 1, k - 1)) = k - 1
  <2>1. \A i \in 1..(k - 1) : q[i] \in S
    BY <1>1
  <2>. QED
    BY <1>1, <2>1, SubSeqProperties
<1>3. /\ SubSeq(q, k + 1, Len(q)) \in Seq(S)
      /\ k <= Len(q) => Len(SubSeq(q, k + 1, Len(q))) = Len(q) - k
  <2>1. \A i \in (k + 1)..Len(q) : q[i] \in S
    BY <1>1
  <2>. QED
    BY <1>1, <2>1, SubSeqProperties
<1>4. PICK f, g : f = SubSeq(q, 1, k - 1) /\ g = SubSeq(q, k + 1, Len(q))
  OBVIOUS
<1>5. Without(q, k) = f \o g
  BY <1>4 DEF Without
<1>6. f \o g \in Seq(S) /\ Len(f \o g) = Len(f) + Len(g)
  BY <1>2, <1>3, <1>4, ConcatProperties
<1>7. k \in Nat /\ Len(f) = k - 1 /\ (k <= Len(q) => Len(g) = Len(q) - k)
  BY <1>1, <1>2, <1>3, <1>4
<1>. QED
  BY <1>1, <1>5, <1>6, <1>7

(* Rows that move leave the files alone.                                   *)
LEMMA RowFrame ==
  ASSUME NEW s, NEW r, UiInv(s), RowsTyped(r), InView(r),
         Same(r, s, Messages \cup Tidied \cup {"view", "selected", "top", "marks"})
  PROVE  UiInv(r)
BY FilesFrame DEF UiInv


-----------------------------------------------------------------------------
(* Going to a list                                                         *)

(* A message, or a refresh of the library's rows, leaves all else alone.   *)
LEMMA MessagesKeep ==
  ASSUME NEW s, UiInv(s)
  PROVE  /\ UiInv(Say(s)) /\ Say(s).dirty = TRUE /\ Say(s).mode = s.mode
         /\ Same(Say(s), s, Messages)
         /\ UiInv(RefreshLibraryState(s)) /\ Same(RefreshLibraryState(s), s, {"state"})
<1>1. DOMAIN s = Fields
  BY DEF UiInv, FilesMatch, FilesTyped
<1>2. Same(Say(s), s, Messages) /\ Say(s).dirty = TRUE /\ Say(s).mode = s.mode
  BY <1>1 DEF Say, Same, Fields, Messages
<1>3. Same(RefreshLibraryState(s), s, {"state"})
  BY <1>1 DEF RefreshLibraryState, Same, Fields
<1>4. Same(RefreshLibraryState(s), s, Messages)
  BY <1>3 DEF Same, Messages
<1>. QED
  BY <1>2, <1>3, <1>4, MessageFrame

(* A category of the library is entered, and left, at its first row.       *)
LEMMA CategoriesKeep ==
  ASSUME NEW s, UiInv(s), NEW type
  PROVE  /\ UiInv(EnterLibraryCategory(s, type)) /\ EnterLibraryCategory(s, type).dirty = TRUE
         /\ UiInv(LeaveLibraryCategory(s)) /\ LeaveLibraryCategory(s).mode = s.mode
         /\ s.view # "categories" => /\ LeaveLibraryCategory(s).dirty = TRUE
                                     /\ LeaveLibraryCategory(s).view = "categories"
<1>1. DOMAIN s = Fields /\ RowsTyped(s) /\ InView(s)
  BY DEF UiInv, FilesMatch, FilesTyped
<1>2. ASSUME NEW r, Same(r, s, Messages \cup {"view", "selected", "top"}),
             r.view \in {"categories", "items"}, r.selected = 0, r.top = 0
      PROVE  UiInv(r)
  <2>1. /\ r.mode = s.mode /\ r.pickTrans = s.pickTrans /\ r.surah = s.surah /\ r.page = s.page
        /\ r.target = s.target /\ r.book = s.book /\ r.last = s.last /\ r.listed = s.listed
        /\ r.jump = s.jump /\ r.marks = s.marks /\ r.markRow = s.markRow
        /\ r.pick = s.pick /\ r.pickTop = s.pickTop
    BY <1>2 DEF Same, Fields, Messages
  <2>2. RowsTyped(r)
    BY <1>1, <1>2, <2>1 DEF RowsTyped
  <2>3. VisibleRows \in Nat \ {0}
    BY ScreensAssumption
  <2>4. 0 <= 0 /\ 0 < 0 + VisibleRows
    BY <2>3
  <2>5. InView(r)
    BY <1>1, <1>2, <2>1, <2>4 DEF InView, MarkRows, SurahPickerTotal
  <2>6. Same(r, s, Messages \cup Tidied \cup {"view", "selected", "top", "marks"})
    BY <1>2 DEF Same
  <2>. QED
    BY <2>2, <2>5, <2>6, RowFrame
<1>3. /\ UiInv(EnterLibraryCategory(s, type)) /\ EnterLibraryCategory(s, type).dirty = TRUE
  <2>1. PICK r : r = EnterLibraryCategory(s, type)
    OBVIOUS
  <2>2. /\ Same(r, s, Messages \cup {"view", "selected", "top"})
        /\ r.view = "items" /\ r.selected = 0 /\ r.top = 0 /\ r.dirty = TRUE
    BY <1>1, <2>1 DEF EnterLibraryCategory, Same, Fields, Messages
  <2>. QED
    BY <1>2, <2>1, <2>2
<1>4. CASE s.view = "categories"
  <2>1. LeaveLibraryCategory(s) = s
    BY <1>4 DEF LeaveLibraryCategory
  <2>. QED
    BY <1>3, <1>4, <2>1
<1>5. CASE s.view # "categories"
  <2>1. PICK r : r = LeaveLibraryCategory(s)
    OBVIOUS
  <2>2. /\ Same(r, s, Messages \cup {"view", "selected", "top"}) /\ r.mode = s.mode
        /\ r.view = "categories" /\ r.selected = 0 /\ r.top = 0 /\ r.dirty = TRUE
    BY <1>1, <1>5, <2>1 DEF LeaveLibraryCategory, Same, Fields, Messages
  <2>. QED
    BY <1>2, <1>3, <1>5, <2>1, <2>2
<1>. QED
  BY <1>4, <1>5

(* The bookmarks are entered at their first row.                           *)
LEMMA BookmarksShown ==
  ASSUME NEW s, UiInv(s), s.mode = "library", NEW last \in Packages \cup {None}
  PROVE  UiInv(EnterBookmarks(s, last)) /\ EnterBookmarks(s, last).dirty = TRUE
<1>1. DOMAIN s = Fields /\ RowsTyped(s) /\ InView(s) /\ FilesMatch(s)
  BY DEF UiInv, FilesMatch, FilesTyped
<1>2. PICK r : r = EnterBookmarks(s, last)
  OBVIOUS
<1>3. /\ Same(r, s, {"mode", "dirty", "last", "markRow", "markSaid"})
      /\ r.mode = "bookmarks" /\ r.dirty = TRUE /\ r.last = last /\ r.markRow = 0
  <2>1. PICK t : t = Show(s, "bookmarks")
    OBVIOUS
  <2>2. Same(t, s, {"mode", "dirty"}) /\ t.mode = "bookmarks" /\ t.dirty = TRUE
    BY <1>1, <2>1, ShowChanges
  <2>3. r = [t EXCEPT !.last = last, !.markRow = 0, !.markSaid = ""]
    BY <1>2, <2>1 DEF EnterBookmarks
  <2>. QED
    BY <2>2, <2>3 DEF Same, Fields
<1>4. /\ r.pool = s.pool /\ r.quran = s.quran /\ r.pages = s.pages /\ r.trans = s.trans
      /\ r.translating = s.translating /\ r.pickTrans = s.pickTrans /\ DOMAIN r = Fields
      /\ r.surah = s.surah /\ r.page = s.page /\ r.target = s.target /\ r.book = s.book
      /\ r.listed = s.listed /\ r.jump = s.jump /\ r.view = s.view /\ r.marks = s.marks
      /\ r.pick = s.pick /\ r.pickTop = s.pickTop /\ r.selected = s.selected /\ r.top = s.top
  BY <1>3 DEF Same, Fields
<1>5. FilesMatch(r)
  BY <1>1, <1>3, <1>4 DEF FilesMatch, FilesTyped, InUse, Held, NeedsQuran, NeedsTrans, Modes
<1>6. RowsTyped(r)
  BY <1>1, <1>3, <1>4 DEF RowsTyped
<1>7. InView(r)
  BY <1>1, <1>3, <1>4, <1>6, MarkRowsNumber DEF InView
<1>. QED
  BY <1>2, <1>3, <1>5, <1>6, <1>7 DEF UiInv

(* A surah list is entered with its row in view.                           *)
LEMMA PickerShown ==
  ASSUME NEW s, DOMAIN s = Fields, RowsTyped(s), NEW row \in Nat
  PROVE  /\ Same(PickFrom(s, row), s, {"mode", "dirty", "pick", "pickTop"})
         /\ PickFrom(s, row).mode = "picker" /\ PickFrom(s, row).dirty = TRUE
         /\ PickFrom(s, row).pick = row /\ RowsTyped(PickFrom(s, row))
         /\ PickFrom(s, row).pickTop <= row /\ row < PickFrom(s, row).pickTop + PickerRows
<1>1. PICK t, r : t = Show(s, "picker") /\ r = PickFrom(s, row)
  OBVIOUS
<1>2. Same(t, s, {"mode", "dirty"}) /\ t.mode = "picker" /\ t.dirty = TRUE /\ RowsTyped(t)
  BY <1>1, ShowChanges
<1>3. r = [t EXCEPT !.pick = row, !.pickTop = Scroll(0, row, PickerRows)]
  BY <1>1 DEF PickFrom
<1>4. /\ Same(r, t, {"pick", "pickTop"}) /\ r.mode = "picker" /\ r.dirty = TRUE
      /\ r.pick = row /\ r.pickTop = Scroll(0, row, PickerRows)
  BY <1>2, <1>3 DEF Same, Fields
<1>5. r.pickTop \in Nat /\ r.pickTop <= row /\ row < r.pickTop + PickerRows
  <2>1. PickerRows \in Nat \ {0} /\ 0 \in Nat
    BY ScreensAssumption
  <2>. QED
    BY <1>4, <2>1, ScrollKeepsRow
<1>6. RowsTyped(r)
  <2>1. /\ r.surah = t.surah /\ r.page = t.page
        /\ r.target = t.target /\ r.book = t.book /\ r.last = t.last /\ r.listed = t.listed
        /\ r.jump = t.jump /\ r.marks = t.marks /\ r.markRow = t.markRow
        /\ r.view = t.view /\ r.selected = t.selected /\ r.top = t.top
    BY <1>4 DEF Same, Fields
  <2>. QED
    BY <1>2, <1>4, <1>5, <2>1 DEF RowsTyped
<1>7. Same(r, s, {"mode", "dirty", "pick", "pickTop"})
  BY <1>2, <1>4 DEF Same
<1>. QED
  BY <1>1, <1>4, <1>5, <1>6, <1>7


(* Only a Quran open, or only a translation.                               *)
QuranOpen(s) == FilesTyped(s) /\ s.quran # 0 /\ InUse(s) = {s.quran} /\ s.pages = 0 /\ s.trans = 0
TransOpen(s) == FilesTyped(s) /\ s.trans # 0 /\ InUse(s) = {s.trans} /\ s.pages = 0 /\ s.quran = 0

(* The surah list of an open Quran.                                        *)
LEMMA QuranListShown ==
  ASSUME NEW s, QuranOpen(s), RowsTyped(s), s.top <= s.selected, s.selected < s.top + VisibleRows,
         NEW row \in Nat
  PROVE  /\ UiInv(EnterSurahPicker(s, row)) /\ EnterSurahPicker(s, row).dirty = TRUE
         /\ EnterSurahPicker(s, row).mode = "picker" /\ EnterSurahPicker(s, row).pickTrans = FALSE
<1>. DEFINE to == IF row >= Surahs THEN 0 ELSE row
<1>1. to \in Nat /\ to < Surahs
  BY ScreensAssumption
<1>2. PICK t, r : t = PickFrom(s, to) /\ r = EnterSurahPicker(s, row)
  OBVIOUS
<1>3. r = [t EXCEPT !.pickTrans = FALSE]
  BY <1>2 DEF EnterSurahPicker
<1>. HIDE DEF to
<1>4. DOMAIN s = Fields
  BY DEF QuranOpen, FilesTyped
<1>5. /\ Same(t, s, {"mode", "dirty", "pick", "pickTop"})
      /\ t.mode = "picker" /\ t.dirty = TRUE /\ t.pick = to /\ RowsTyped(t)
      /\ t.pickTop <= to /\ to < t.pickTop + PickerRows
  BY <1>1, <1>2, <1>4, PickerShown
<1>6. /\ Same(r, t, {"pickTrans"}) /\ r.pickTrans = FALSE /\ r.mode = "picker" /\ r.dirty = TRUE
      /\ r.pick = to /\ r.pickTop = t.pickTop /\ RowsTyped(r)
  <2>1. Same(r, t, {"pickTrans"}) /\ r.pickTrans = FALSE
    BY <1>3, <1>5 DEF Same, Fields
  <2>. QED
    BY <1>5, <2>1 DEF Same, Fields, RowsTyped
<1>7. Same(r, s, {"mode", "dirty", "pick", "pickTop", "pickTrans"})
  BY <1>5, <1>6 DEF Same
<1>8. /\ r.pool = s.pool /\ r.quran = s.quran /\ r.pages = s.pages /\ r.trans = s.trans
      /\ r.translating = s.translating /\ DOMAIN r = Fields /\ r.selected = s.selected /\ r.top = s.top
  BY <1>7 DEF Same, Fields
<1>9. FilesMatch(r)
  <2>1. FilesTyped(r)
    BY <1>6, <1>8 DEF QuranOpen, FilesTyped, Modes
  <2>2. r.quran # 0 /\ r.pages = 0 /\ r.trans = 0 /\ InUse(r) = {r.quran}
    BY <1>8 DEF QuranOpen, InUse
  <2>3. InUse(r) = Held(r)
    BY <2>2 DEF Held
  <2>4. NeedsQuran(r) /\ ~ NeedsTrans(r)
    BY <1>6 DEF NeedsQuran, NeedsTrans
  <2>. QED
    BY <1>6, <2>1, <2>2, <2>3, <2>4 DEF FilesMatch
<1>10. InView(r)
  BY <1>1, <1>5, <1>6, <1>8 DEF InView, SurahPickerTotal
<1>. QED
  BY <1>2, <1>6, <1>9, <1>10 DEF UiInv

(* The surah list of an open translation.                                  *)
LEMMA TranslationListShown ==
  ASSUME NEW s, UiInv(s), s.mode = "reader", s.translating = TRUE
  PROVE  UiInv(EnterTranslationSurahPicker(s)) /\ EnterTranslationSurahPicker(s).dirty = TRUE
<1>1. DOMAIN s = Fields /\ RowsTyped(s) /\ InView(s) /\ FilesMatch(s)
  BY DEF UiInv, FilesMatch, FilesTyped
<1>2. CASE s.listed = 0
  <2>1. PICK r : r = EnterTranslationSurahPicker(s)
    OBVIOUS
  <2>2. Same(r, s, Messages) /\ r.dirty = TRUE
    BY <1>1, <1>2, <2>1 DEF EnterTranslationSurahPicker, Same, Fields, Messages
  <2>. QED
    BY <2>1, <2>2, MessageFrame
<1>3. CASE s.listed # 0
  <2>. DEFINE to == IF s.surah <= s.listed THEN s.surah - 1 ELSE 0
  <2>1. to \in Nat /\ to < s.listed
    <3>1. s.listed \in Nat /\ s.surah \in Nat /\ s.surah >= 1 /\ s.listed >= 1
      <4>1. Surahs \in Nat
        BY ScreensAssumption
      <4>2. s.surah \in 1..Surahs /\ s.listed \in 0..Surahs
        BY <1>1 DEF RowsTyped
      <4>. QED
        BY <1>3, <4>1, <4>2
    <3>. QED
      BY <3>1
  <2>2. PICK t, r : t = PickFrom(s, to) /\ r = EnterTranslationSurahPicker(s)
    OBVIOUS
  <2>3. r = [t EXCEPT !.pickTrans = TRUE]
    BY <1>3, <2>2 DEF EnterTranslationSurahPicker
  <2>. HIDE DEF to
  <2>5. /\ Same(t, s, {"mode", "dirty", "pick", "pickTop"})
        /\ t.mode = "picker" /\ t.dirty = TRUE /\ t.pick = to /\ RowsTyped(t)
        /\ t.pickTop <= to /\ to < t.pickTop + PickerRows
    BY <1>1, <2>1, <2>2, PickerShown
  <2>6. /\ Same(r, t, {"pickTrans"}) /\ r.pickTrans = TRUE /\ r.mode = "picker" /\ r.dirty = TRUE
        /\ r.pick = to /\ r.pickTop = t.pickTop /\ RowsTyped(r)
    <3>1. Same(r, t, {"pickTrans"}) /\ r.pickTrans = TRUE
      BY <2>3, <2>5 DEF Same, Fields
    <3>. QED
      BY <2>5, <3>1 DEF Same, Fields, RowsTyped
  <2>7. Same(r, s, {"mode", "dirty", "pick", "pickTop", "pickTrans"})
    BY <2>5, <2>6 DEF Same
  <2>8. /\ r.pool = s.pool /\ r.quran = s.quran /\ r.pages = s.pages /\ r.trans = s.trans
        /\ r.translating = s.translating /\ DOMAIN r = Fields
        /\ r.selected = s.selected /\ r.top = s.top /\ r.listed = s.listed
    BY <2>7 DEF Same, Fields
  <2>9. FilesMatch(r)
    <3>1. FilesTyped(r)
      BY <1>1, <2>6, <2>8 DEF FilesMatch, FilesTyped, Modes
    <3>2. InUse(r) = Held(r)
      BY <1>1, <2>8 DEF FilesMatch, InUse, Held
    <3>3. /\ NeedsTrans(s) /\ ~ NeedsQuran(s) /\ s.mode # "pages"
          /\ NeedsTrans(r) /\ ~ NeedsQuran(r) /\ r.mode # "pages"
      BY <2>6 DEF NeedsTrans, NeedsQuran
    <3>. QED
      BY <1>1, <2>6, <2>8, <3>1, <3>2, <3>3 DEF FilesMatch
  <2>10. InView(r)
    BY <1>1, <2>1, <2>5, <2>6, <2>8 DEF InView, SurahPickerTotal
  <2>. QED
    BY <2>2, <2>6, <2>9, <2>10 DEF UiInv
<1>. QED
  BY <1>2, <1>3

(* A translation's text is shown over its own file.                        *)
LEMMA TranslationShown ==
  ASSUME NEW s, FilesTyped(s), RowsTyped(s), NEW surah \in 1..Surahs, NEW page \in 1..Pages
  PROVE  /\ Same(ShowTranslationSurah(s, surah, page), s, {"surah", "page", "translating", "dirty"})
         /\ ShowTranslationSurah(s, surah, page).translating = TRUE
         /\ ShowTranslationSurah(s, surah, page).dirty = TRUE
         /\ RowsTyped(ShowTranslationSurah(s, surah, page))
<1>1. PICK r : r = ShowTranslationSurah(s, surah, page)
  OBVIOUS
<1>2. DOMAIN s = Fields
  BY DEF FilesTyped
<1>3. /\ Same(r, s, {"surah", "page", "translating", "dirty"})
      /\ r.translating = TRUE /\ r.dirty = TRUE /\ r.surah = surah /\ r.page = page
  BY <1>1, <1>2 DEF ShowTranslationSurah, Same, Fields
<1>4. /\ r.target = s.target /\ r.book = s.book /\ r.last = s.last /\ r.listed = s.listed
      /\ r.jump = s.jump /\ r.marks = s.marks /\ r.markRow = s.markRow /\ r.pick = s.pick
      /\ r.pickTop = s.pickTop /\ r.view = s.view /\ r.selected = s.selected /\ r.top = s.top
  BY <1>3 DEF Same, Fields
<1>5. RowsTyped(r)
  BY <1>3, <1>4 DEF RowsTyped
<1>. QED
  BY <1>1, <1>3, <1>5

(* With only a translation open and its text up, the invariant holds.      *)
LEMMA TranslationUp ==
  ASSUME NEW s, TransOpen(s), RowsTyped(s), s.mode = "reader", s.translating = TRUE,
         s.top <= s.selected, s.selected < s.top + VisibleRows
  PROVE  UiInv(s)
<1>1. FilesMatch(s)
  BY DEF FilesMatch, FilesTyped, InUse, Held, NeedsQuran, NeedsTrans, TransOpen
<1>2. InView(s)
  BY DEF InView
<1>. QED
  BY <1>1, <1>2 DEF UiInv


-----------------------------------------------------------------------------
(* Opening a package                                                       *)

(* Tidying leaves files alone and rows in their ranges.                    *)
LEMMA TidyKeeps ==
  ASSUME NEW s, FilesTyped(s), RowsTyped(s)
  PROVE  /\ FilesTyped(Tidy(s)) /\ RowsTyped(Tidy(s)) /\ InUse(Tidy(s)) = InUse(s)
         /\ Same(Tidy(s), s, Tidied)
<1>1. PICK t : t = Tidy(s)
  OBVIOUS
<1>2. DOMAIN s = Fields
  BY DEF FilesTyped
<1>3. /\ Same(t, s, Tidied) /\ t.book = None /\ t.surah = 1 /\ t.page = 1 /\ t.jump = FALSE
      /\ t.target = 1 /\ t.listed = 0 /\ t.pick = 0 /\ t.pickTop = 0
      /\ t.markRow = 0 /\ t.last = None
  BY <1>1, <1>2, TidyChanges DEF Tidied, Placing, Same
<1>4. /\ t.pool = s.pool /\ t.quran = s.quran /\ t.pages = s.pages /\ t.trans = s.trans
      /\ t.translating = s.translating /\ t.pickTrans = s.pickTrans /\ t.mode = s.mode
      /\ t.view = s.view /\ t.marks = s.marks /\ t.selected = s.selected /\ t.top = s.top
      /\ DOMAIN t = Fields
  BY <1>3 DEF Same, Fields, Tidied, Placing
<1>5. FilesTyped(t) /\ InUse(t) = InUse(s)
  BY <1>4 DEF FilesTyped, InUse
<1>6. RowsTyped(t)
  <2>1. Surahs \in Nat \ {0} /\ Pages \in Nat \ {0}
    BY ScreensAssumption
  <2>2. /\ t.surah \in 1..Surahs /\ t.page \in 1..Pages /\ t.target \in 1..Pages
        /\ t.listed \in 0..Surahs /\ t.markRow \in Nat /\ t.pick \in Nat /\ t.pickTop \in Nat
    BY <1>3, <2>1
  <2>. QED
    BY <1>3, <1>4, <2>2 DEF RowsTyped
<1>. QED
  BY <1>1, <1>3, <1>5, <1>6

(* Giving up one slot of the pool.                                         *)
LEMMA ReleasedEffects ==
  ASSUME NEW s, FilesTyped(s), NEW h
  PROVE  /\ Same(Released(s, h), s, {"pool"}) /\ FilesTyped(Released(s, h))
         /\ InUse(Released(s, h)) = InUse(s) \ {h}
<1>1. PICK r : r = Released(s, h)
  OBVIOUS
<1>2. DOMAIN s = Fields
  BY DEF FilesTyped
<1>3. Same(r, s, {"pool"}) /\ r.pool = [i \in Slots |-> IF i = h THEN None ELSE s.pool[i]]
  BY <1>1, <1>2 DEF Released, Same, Fields
<1>4. /\ r.mode = s.mode /\ r.quran = s.quran /\ r.pages = s.pages /\ r.trans = s.trans
      /\ r.translating = s.translating /\ r.pickTrans = s.pickTrans /\ DOMAIN r = Fields
  BY <1>3 DEF Same, Fields
<1>5. FilesTyped(r) /\ InUse(r) = InUse(s) \ {h}
  BY <1>3, <1>4 DEF FilesTyped, InUse
<1>. QED
  BY <1>1, <1>3, <1>5

Handling == {"pool", "quran", "pages", "trans", "translating"}
Lists    == {"home", "library", "bookmarks", "selftest"}

(* What changes no row leaves the rows in their ranges.                    *)
LEMMA SameRows ==
  ASSUME NEW s, NEW r, RowsTyped(s), Same(r, s, Messages \cup Handling)
  PROVE  RowsTyped(r) /\ r.mode = s.mode /\ r.top = s.top /\ r.selected = s.selected
         /\ (InView(s) => InView(r)) /\ r.book = s.book
<1>1. /\ r.surah = s.surah /\ r.page = s.page /\ r.target = s.target /\ r.book = s.book
      /\ r.last = s.last /\ r.listed = s.listed /\ r.jump = s.jump /\ r.marks = s.marks
      /\ r.markRow = s.markRow /\ r.pick = s.pick /\ r.pickTop = s.pickTop /\ r.view = s.view
      /\ r.selected = s.selected /\ r.top = s.top /\ r.mode = s.mode /\ r.pickTrans = s.pickTrans
  BY DEF Same, Fields, Messages, Handling
<1>. QED
  BY <1>1 DEF RowsTyped, InView, MarkRows, SurahPickerTotal

(* A list whose files are all closed again is as it was.                   *)
LEMMA StillClosed ==
  ASSUME NEW s, UiInv(s), s.mode \in Lists, NEW r, Closed(r), Same(r, s, Messages \cup Handling)
  PROVE  UiInv(r) /\ r.mode = s.mode
<1>1. RowsTyped(r) /\ r.mode = s.mode /\ InView(r)
  BY SameRows DEF UiInv
<1>2. FilesMatch(r)
  BY <1>1 DEF Closed, FilesMatch, Held, NeedsQuran, NeedsTrans, Lists
<1>. QED
  BY <1>1, <1>2 DEF UiInv

(* A picture book's or a text's file, before it is known to be good.       *)
LEMMA BookHeld ==
  ASSUME NEW s, Closed(s), NEW id \in Packages, FreeHandle(s) # 0, NEW held,
         held = ClosePageBook(CloseTranslation(Opened(s, id)))
  PROVE  /\ Same(held, s, Handling) /\ FilesTyped(held) /\ InUse(held) = {FreeHandle(s)}
         /\ held.quran = 0 /\ held.pages = 0 /\ held.trans = 0 /\ held.translating = FALSE
         /\ FreeHandle(s) \in 1..MaxOpenFiles
<1>. DEFINE h == FreeHandle(s)
<1>1. PICK o, c : o = Opened(s, id) /\ c = CloseTranslation(o)
  OBVIOUS
<1>2. /\ Same(o, s, {"pool"}) /\ FilesTyped(o) /\ InUse(o) = {h} /\ h \in 1..MaxOpenFiles
  BY <1>1, OpenedEffects DEF Closed
<1>3. 0 \notin {h}
  BY <1>2
<1>. HIDE DEF h
<1>4. o.quran = 0 /\ o.pages = 0 /\ o.trans = 0 /\ DOMAIN o = Fields /\ DOMAIN o.pool = Slots
  BY <1>2 DEF Same, Fields, Closed, FilesTyped
<1>5. /\ Same(c, o, {"pool", "trans", "translating"}) /\ c.trans = 0 /\ c.translating = FALSE
      /\ FilesTyped(c) /\ InUse(c) = {h}
  BY <1>1, <1>2, <1>3, <1>4, ClosesChange, CloseEffects
<1>6. c.quran = 0 /\ c.pages = 0 /\ DOMAIN c = Fields /\ DOMAIN c.pool = Slots
  BY <1>4, <1>5 DEF Same, Fields, FilesTyped
<1>7. /\ Same(held, c, {"pool", "pages"}) /\ held.pages = 0
      /\ FilesTyped(held) /\ InUse(held) = {h}
  BY <1>1, <1>3, <1>5, <1>6, ClosesChange, CloseEffects
<1>8. held.quran = 0 /\ held.trans = 0 /\ held.translating = FALSE
  BY <1>5, <1>6, <1>7 DEF Same, Fields
<1>9. Same(held, s, Handling)
  BY <1>2, <1>5, <1>7 DEF Same, Handling
<1>. QED
  BY <1>2, <1>7, <1>8, <1>9 DEF h


(* From a list, a book opens with its file and its page, or the list says  *)
(* why not and keeps no file.                                              *)
LEMMA BookOpens ==
  ASSUME NEW s, UiInv(s), s.mode \in {"library", "bookmarks"}, NEW id \in Packages, NEW how
  PROVE  UiInv(OpenBook(s, id, how)) /\ OpenBook(s, id, how).dirty = TRUE
<1>. DEFINE h == FreeHandle(s)
<1>1. PICK held, r : /\ held = ClosePageBook(CloseTranslation(Opened(s, id)))
                     /\ r = OpenBook(s, id, how)
  OBVIOUS
<1>2. /\ DOMAIN s = Fields /\ Closed(s) /\ FilesTyped(s) /\ RowsTyped(s)
      /\ s.top <= s.selected /\ s.selected < s.top + VisibleRows /\ s.mode \in Lists
  BY LeftClosed DEF UiInv, FilesMatch, FilesTyped, InView, Lists
<1>. HIDE DEF h
<1>3. CASE how = "missing" \/ h = 0
  <2>1. r = Say(s)
    BY <1>1, <1>3 DEF OpenBook, h
  <2>. QED
    BY <1>1, <2>1, MessagesKeep
<1>4. CASE ~ (how = "missing" \/ h = 0)
  <2>1. /\ Same(held, s, Handling) /\ FilesTyped(held) /\ InUse(held) = {h}
        /\ held.quran = 0 /\ held.pages = 0 /\ held.trans = 0 /\ held.translating = FALSE
        /\ h \in 1..MaxOpenFiles
    BY <1>1, <1>2, <1>4, BookHeld DEF h
  <2>2. PICK f : f = Released(held, h)
    OBVIOUS
  <2>3. Same(f, held, {"pool"}) /\ FilesTyped(f) /\ InUse(f) = {}
    BY <2>1, <2>2, ReleasedEffects
  <2>4. f.quran = 0 /\ f.pages = 0 /\ f.trans = 0 /\ f.translating = FALSE /\ DOMAIN f = Fields
    BY <2>1, <2>3 DEF Same, Fields
  <2>5. Closed(f) /\ Same(f, s, Handling)
    BY <2>1, <2>3, <2>4 DEF Closed, Same, Handling
  <2>6. RowsTyped(held) /\ RowsTyped(f)
    BY <1>2, <2>1, <2>5, SameRows DEF Same
  <2>7. CASE how # "opens"
    <3>1. r = Say(f)
      BY <1>1, <1>4, <2>2, <2>7 DEF OpenBook, h
    <3>2. Same(f, s, Messages \cup Handling)
      BY <2>5 DEF Same
    <3>3. UiInv(f)
      BY <1>2, <2>5, <3>2, StillClosed
    <3>. QED
      BY <1>1, <3>1, <3>3, MessagesKeep
  <2>8. CASE how = "opens" /\ id \in Pictured
    <3>1. PICK t, u : t = Tidy(held) /\ u = Show(t, "pages")
      OBVIOUS
    <3>2. r = [u EXCEPT !.pages = h, !.book = id, !.page = 1, !.jump = FALSE, !.said = ""]
      BY <1>1, <1>4, <2>8, <3>1 DEF OpenBook, h
    <3>3. FilesTyped(t) /\ RowsTyped(t) /\ InUse(t) = {h} /\ Same(t, held, Tidied)
      BY <2>1, <2>6, <3>1, TidyKeeps
    <3>4. /\ Same(u, t, {"mode", "dirty"}) /\ u.mode = "pages" /\ u.dirty = TRUE /\ RowsTyped(u)
      BY <3>1, <3>3, ShowChanges DEF FilesTyped
    <3>5. Same(u, s, Handling \cup {"mode", "dirty"} \cup Tidied)
      BY <2>1, <3>3, <3>4 DEF Same
    <3>6. /\ u.top = s.top /\ u.selected = s.selected
          /\ u.quran = 0 /\ u.trans = 0 /\ u.pool = t.pool
          /\ u.translating \in BOOLEAN /\ u.pickTrans \in BOOLEAN /\ DOMAIN u = Fields
      <4>1. u.top = s.top /\ u.selected = s.selected
        BY <3>5 DEF Same, Fields, Handling, Tidied, Placing
      <4>2. Same(u, held, Tidied \cup {"mode", "dirty"})
        BY <3>3, <3>4 DEF Same
      <4>3. u.quran = 0 /\ u.trans = 0
        BY <2>1, <4>2 DEF Same, Fields, Tidied, Placing
      <4>4. /\ u.pool = t.pool /\ u.translating \in BOOLEAN /\ u.pickTrans \in BOOLEAN
            /\ DOMAIN u = Fields
        BY <3>3, <3>4 DEF Same, Fields, FilesTyped
      <4>. QED
        BY <4>1, <4>3, <4>4
    <3>7. /\ Same(r, u, {"pages", "book", "page", "jump", "said"}) /\ r.pages = h
          /\ r.book = id /\ r.page = 1 /\ r.jump = FALSE
      BY <3>2, <3>6 DEF Same, Fields
    <3>8. /\ r.mode = "pages" /\ r.dirty = TRUE /\ r.pool = t.pool /\ r.quran = 0 /\ r.trans = 0
          /\ r.translating \in BOOLEAN /\ r.pickTrans \in BOOLEAN /\ DOMAIN r = Fields
          /\ r.top = s.top /\ r.selected = s.selected
      BY <3>4, <3>6, <3>7 DEF Same, Fields
    <3>9. FilesMatch(r)
      <4>1. FilesTyped(r)
        BY <2>1, <3>3, <3>7, <3>8 DEF FilesTyped, Modes
      <4>2. InUse(r) = {h} /\ Held(r) = {h} /\ h # 0
        BY <2>1, <3>3, <3>7, <3>8 DEF InUse, Held
      <4>3. ~ NeedsQuran(r) /\ ~ NeedsTrans(r)
        BY <3>8 DEF NeedsQuran, NeedsTrans
      <4>. QED
        BY <3>7, <3>8, <4>1, <4>2, <4>3 DEF FilesMatch
    <3>10. RowsTyped(r)
      <4>1. /\ r.surah = u.surah /\ r.target = u.target /\ r.last = u.last /\ r.listed = u.listed
            /\ r.marks = u.marks /\ r.markRow = u.markRow /\ r.pick = u.pick
            /\ r.pickTop = u.pickTop /\ r.view = u.view /\ r.selected = u.selected /\ r.top = u.top
        BY <3>7 DEF Same, Fields
      <4>2. 1 \in 1..Pages
        BY ScreensAssumption
      <4>. QED
        BY <3>4, <3>7, <4>1, <4>2 DEF RowsTyped
    <3>11. InView(r)
      BY <1>2, <3>8 DEF InView
    <3>. QED
      BY <1>1, <3>8, <3>9, <3>10, <3>11 DEF UiInv
  <2>9. CASE how = "opens" /\ id \notin Pictured
    <3>1. PICK t, u : t = Tidy(f) /\ u = Show(t, "reader")
      OBVIOUS
    <3>2. r = [u EXCEPT !.book = id, !.page = 1, !.said = ""]
      BY <1>1, <1>4, <2>2, <2>9, <3>1 DEF OpenBook, h
    <3>3. FilesTyped(t) /\ RowsTyped(t) /\ InUse(t) = {} /\ Same(t, f, Tidied)
      BY <2>3, <2>6, <3>1, TidyKeeps
    <3>4. /\ Same(u, t, {"mode", "dirty"}) /\ u.mode = "reader" /\ u.dirty = TRUE /\ RowsTyped(u)
      BY <3>1, <3>3, ShowChanges DEF FilesTyped
    <3>5. Same(r, u, {"book", "page", "said"}) /\ r.book = id /\ r.page = 1
      BY <3>2, <3>4 DEF Same, Fields
    <3>6. Same(r, f, Tidied \cup {"mode", "dirty", "said"}) /\ r.mode = "reader" /\ r.dirty = TRUE
      <4>1. Same(r, f, Tidied \cup {"mode", "dirty", "said"})
        BY <3>3, <3>4, <3>5 DEF Same, Tidied, Placing
      <4>. QED
        BY <3>4, <3>5, <4>1 DEF Same, Fields
    <3>7. /\ r.quran = 0 /\ r.pages = 0 /\ r.trans = 0 /\ r.translating = FALSE
          /\ r.pool = f.pool /\ r.pickTrans = f.pickTrans /\ DOMAIN r = Fields
          /\ r.top = s.top /\ r.selected = s.selected
      <4>1. f.top = s.top /\ f.selected = s.selected
        BY <2>5 DEF Same, Fields, Handling
      <4>. QED
        BY <2>4, <3>6, <4>1 DEF Same, Fields, Tidied, Placing
    <3>8. FilesMatch(r)
      <4>1. FilesTyped(r)
        BY <2>3, <2>4, <3>6, <3>7 DEF FilesTyped, Modes
      <4>2. InUse(r) = {} /\ Held(r) = {}
        BY <2>3, <3>7 DEF InUse, Held
      <4>3. ~ NeedsQuran(r) /\ ~ NeedsTrans(r)
        BY <3>6, <3>7 DEF NeedsQuran, NeedsTrans
      <4>. QED
        BY <3>6, <3>7, <4>1, <4>2, <4>3 DEF FilesMatch
    <3>9. RowsTyped(r)
      <4>1. /\ r.surah = u.surah /\ r.target = u.target /\ r.last = u.last /\ r.listed = u.listed
            /\ r.marks = u.marks /\ r.markRow = u.markRow /\ r.pick = u.pick /\ r.jump = u.jump
            /\ r.pickTop = u.pickTop /\ r.view = u.view /\ r.selected = u.selected /\ r.top = u.top
        BY <3>5 DEF Same, Fields
      <4>2. 1 \in 1..Pages
        BY ScreensAssumption
      <4>. QED
        BY <3>4, <3>5, <4>1, <4>2 DEF RowsTyped
    <3>10. InView(r)
      BY <1>2, <3>6, <3>7 DEF InView
    <3>. QED
      BY <1>1, <3>6, <3>8, <3>9, <3>10 DEF UiInv
  <2>. QED
    BY <2>7, <2>8, <2>9
<1>. QED
  BY <1>3, <1>4


Places == [surah : 1..Surahs, page : 1..Pages]

(* From a list, a translation opens with its file, its surahs and its      *)
(* place, or the list says why not and keeps no file.                      *)
LEMMA TranslationOpens ==
  ASSUME NEW s, UiInv(s), s.mode \in {"library", "bookmarks"}, NEW id \in Packages,
         NEW place \in Places, NEW how, NEW whole
  PROVE  /\ UiInv(OpenTranslation(s, id, place, how, whole))
         /\ OpenTranslation(s, id, place, how, whole).dirty = TRUE
<1>1. PICK clear : clear = ClosePageBook(CloseTranslation(s))
  OBVIOUS
<1>. DEFINE h == FreeHandle(clear)
<1>2. PICK o, r : o = Opened(clear, id) /\ r = OpenTranslation(s, id, place, how, whole)
  OBVIOUS
<1>3. /\ DOMAIN s = Fields /\ DOMAIN s.pool = Slots /\ Closed(clear) /\ RowsTyped(s)
      /\ s.top <= s.selected /\ s.selected < s.top + VisibleRows /\ s.mode \in Lists
  BY <1>1, LeftClosed DEF UiInv, FilesMatch, FilesTyped, InView, Lists
<1>4. Same(clear, s, Handling) /\ UiInv(clear) /\ clear.mode = s.mode
  <2>1. PICK c : c = CloseTranslation(s)
    OBVIOUS
  <2>2. Same(c, s, {"pool", "trans", "translating"}) /\ FilesTyped(c)
    BY <1>3, <2>1, ClosesChange, CloseEffects DEF UiInv, FilesMatch
  <2>3. Same(clear, c, {"pool", "pages"})
    BY <1>1, <2>1, <2>2, ClosesChange DEF FilesTyped
  <2>4. Same(clear, s, Handling)
    BY <2>2, <2>3 DEF Same, Handling
  <2>5. Same(clear, s, Messages \cup Handling)
    BY <2>4 DEF Same
  <2>. QED
    BY <1>3, <2>4, <2>5, StillClosed
<1>5. /\ RowsTyped(clear) /\ FilesTyped(clear) /\ DOMAIN clear = Fields
      /\ clear.top <= clear.selected /\ clear.selected < clear.top + VisibleRows
  BY <1>4 DEF UiInv, FilesMatch, FilesTyped, InView
<1>. HIDE DEF h
<1>6. CASE how = "missing" \/ h = 0
  <2>1. r = Say(clear)
    BY <1>1, <1>2, <1>6 DEF OpenTranslation, h
  <2>. QED
    BY <1>2, <1>4, <2>1, MessagesKeep
<1>7. CASE ~ (how = "missing" \/ h = 0)
  <2>1. PICK held : held = [o EXCEPT !.trans = h]
    OBVIOUS
  <2>2. /\ Same(o, clear, {"pool"}) /\ FilesTyped(o) /\ InUse(o) = {h} /\ h \in 1..MaxOpenFiles
    BY <1>2, <1>3, <1>5, <1>7, OpenedEffects DEF h, Closed
  <2>3. /\ Same(held, clear, Handling) /\ held.trans = h /\ held.pool = o.pool
        /\ held.quran = 0 /\ held.pages = 0
    <3>1. Same(held, o, {"trans"}) /\ held.trans = h
      BY <1>5, <2>1, <2>2 DEF Same, Fields
    <3>2. Same(held, clear, Handling)
      BY <2>2, <3>1 DEF Same, Handling
    <3>3. held.pool = o.pool /\ held.quran = o.quran /\ held.pages = o.pages
      BY <3>1 DEF Same, Fields
    <3>4. o.quran = clear.quran /\ o.pages = clear.pages
      BY <2>2 DEF Same, Fields
    <3>. QED
      BY <1>3, <3>1, <3>2, <3>3, <3>4 DEF Closed
  <2>4. TransOpen(held)
    <3>1. /\ held.mode = o.mode /\ held.translating = o.translating /\ held.pickTrans = o.pickTrans
          /\ DOMAIN held = Fields
      BY <2>1, <2>2 DEF FilesTyped, Fields
    <3>2. FilesTyped(held)
      BY <2>2, <2>3, <3>1, ScreensAssumption DEF FilesTyped
    <3>. QED
      BY <2>2, <2>3, <3>2 DEF TransOpen, InUse
  <2>5. /\ RowsTyped(held) /\ held.mode = clear.mode
        /\ held.top <= held.selected /\ held.selected < held.top + VisibleRows
    BY <1>5, <2>3, SameRows DEF Same
  <2>6. CASE how # "opens"
    <3>1. r = CloseTranslation(Say(held))
      BY <1>1, <1>2, <1>7, <2>1, <2>6 DEF OpenTranslation, h
    <3>2. PICK m : m = Say(held)
      OBVIOUS
    <3>3. /\ Same(m, held, {"said", "dirty"}) /\ m.dirty = TRUE
      BY <2>4, <3>2 DEF Say, Same, TransOpen, FilesTyped, Fields
    <3>4. /\ m.pool = held.pool /\ m.quran = 0 /\ m.pages = 0 /\ m.trans = h
          /\ m.mode = held.mode /\ m.translating = held.translating
          /\ m.pickTrans = held.pickTrans /\ DOMAIN m = Fields
      BY <2>3, <3>3 DEF Same, Fields
    <3>5. FilesTyped(m) /\ InUse(m) = {h} /\ DOMAIN m.pool = Slots
      BY <2>3, <2>4, <3>4 DEF TransOpen, FilesTyped, InUse
    <3>6. /\ Same(r, m, {"pool", "trans", "translating"}) /\ r.trans = 0
          /\ FilesTyped(r) /\ InUse(r) = {h} \ {h}
      BY <3>1, <3>2, <3>4, <3>5, ClosesChange, CloseEffects
    <3>7. Closed(r) /\ r.dirty = TRUE
      BY <3>3, <3>4, <3>6 DEF Closed, Same, Fields
    <3>8. Same(r, clear, Messages \cup Handling)
      BY <2>3, <3>3, <3>6 DEF Same, Handling, Messages
    <3>9. clear.mode \in Lists
      BY <1>3, <1>4
    <3>. QED
      BY <1>2, <1>4, <3>7, <3>8, <3>9, StillClosed
  <2>7. CASE how = "opens"
    <3>1. PICK t, ready : t = Tidy(held) /\ ready = LoadAlignedSurahs(t, id, whole)
      OBVIOUS
    <3>2. PICK surah : surah = IF place.surah <= ready.listed THEN place.surah ELSE 1
      OBVIOUS
    <3>3. PICK v, u : /\ v = ShowTranslationSurah(ready, surah, place.page)
                      /\ u = Show(v, "reader")
      OBVIOUS
    <3>4. r = [u EXCEPT !.book = id, !.said = ""]
      BY <1>1, <1>2, <1>7, <2>1, <2>7, <3>1, <3>2, <3>3 DEF OpenTranslation, h
    <3>5. /\ FilesTyped(t) /\ RowsTyped(t) /\ InUse(t) = InUse(held) /\ Same(t, held, Tidied)
      BY <2>4, <2>5, <3>1, TidyKeeps DEF TransOpen
    <3>6. Same(ready, t, {"listed"}) /\ ready.listed \in 0..Surahs
      <4>1. ready = [t EXCEPT !.listed = IF whole /\ Aligned[id] \in Indexed /\ FreeHandle(t) # 0
                                         THEN Surahs ELSE 0]
        BY <3>1 DEF LoadAlignedSurahs
      <4>2. Surahs \in 0..Surahs /\ 0 \in 0..Surahs
        BY ScreensAssumption
      <4>. QED
        BY <3>5, <4>1, <4>2 DEF Same, FilesTyped, Fields
    <3>7. FilesTyped(ready) /\ RowsTyped(ready)
      <4>1. /\ ready.pool = t.pool /\ ready.quran = t.quran /\ ready.pages = t.pages
            /\ ready.trans = t.trans /\ ready.translating = t.translating
            /\ ready.pickTrans = t.pickTrans /\ ready.mode = t.mode /\ DOMAIN ready = Fields
        BY <3>6 DEF Same, Fields
      <4>2. /\ ready.surah = t.surah /\ ready.page = t.page /\ ready.target = t.target
            /\ ready.book = t.book /\ ready.last = t.last /\ ready.jump = t.jump
            /\ ready.marks = t.marks /\ ready.markRow = t.markRow /\ ready.pick = t.pick
            /\ ready.pickTop = t.pickTop /\ ready.view = t.view
            /\ ready.selected = t.selected /\ ready.top = t.top
        BY <3>6 DEF Same, Fields
      <4>3. FilesTyped(ready)
        BY <3>5, <4>1 DEF FilesTyped
      <4>4. RowsTyped(ready)
        BY <3>5, <3>6, <4>2 DEF RowsTyped
      <4>. QED
        BY <4>3, <4>4
    <3>8. surah \in 1..Surahs /\ place.page \in 1..Pages
      BY <3>2, ScreensAssumption DEF Places
    <3>9. /\ Same(v, ready, {"surah", "page", "translating", "dirty"}) /\ v.translating = TRUE
          /\ RowsTyped(v)
      BY <3>3, <3>7, <3>8, TranslationShown
    <3>10. /\ Same(u, v, {"mode", "dirty"}) /\ u.mode = "reader" /\ u.dirty = TRUE /\ RowsTyped(u)
      <4>1. DOMAIN v = Fields
        BY <3>9 DEF Same
      <4>. QED
        BY <3>3, <3>9, <4>1, ShowChanges
    <3>11. Same(r, u, {"book", "said"}) /\ r.book = id
      BY <3>4, <3>10 DEF Same, Fields
    <3>12. Same(r, held, Tidied \cup {"mode", "dirty", "said", "translating"})
      BY <3>5, <3>6, <3>9, <3>10, <3>11 DEF Same, Tidied, Placing
    <3>13. r.mode = "reader" /\ r.dirty = TRUE /\ r.translating = TRUE
      <4>1. r.mode = u.mode /\ r.dirty = u.dirty /\ r.translating = u.translating
        BY <3>11 DEF Same, Fields
      <4>2. u.translating = v.translating
        BY <3>10 DEF Same, Fields
      <4>. QED
        BY <3>9, <3>10, <4>1, <4>2
    <3>14. /\ r.pool = held.pool /\ r.quran = 0 /\ r.pages = 0 /\ r.trans = h
           /\ r.pickTrans = held.pickTrans /\ DOMAIN r = Fields
           /\ r.top = held.top /\ r.selected = held.selected
      BY <2>3, <3>12 DEF Same, Fields, Tidied, Placing
    <3>15. TransOpen(r)
      <4>1. FilesTyped(r)
        BY <2>3, <2>4, <3>13, <3>14 DEF TransOpen, FilesTyped, Modes
      <4>2. InUse(r) = {r.trans} /\ r.trans # 0
        BY <2>3, <2>4, <3>14 DEF TransOpen, InUse
      <4>. QED
        BY <3>14, <4>1, <4>2 DEF TransOpen
    <3>16. RowsTyped(r)
      <4>1. /\ r.surah = u.surah /\ r.page = u.page /\ r.target = u.target /\ r.last = u.last
            /\ r.listed = u.listed /\ r.jump = u.jump /\ r.marks = u.marks
            /\ r.markRow = u.markRow /\ r.pick = u.pick /\ r.pickTop = u.pickTop
            /\ r.view = u.view /\ r.selected = u.selected /\ r.top = u.top
        BY <3>11 DEF Same, Fields
      <4>. QED
        BY <3>10, <3>11, <4>1 DEF RowsTyped
    <3>. QED
      BY <1>2, <2>5, <3>13, <3>14, <3>15, <3>16, TranslationUp
  <2>. QED
    BY <2>6, <2>7
<1>. QED
  BY <1>6, <1>7


(* With only a Quran open and its text up, the invariant holds.            *)
LEMMA QuranUp ==
  ASSUME NEW s, QuranOpen(s), RowsTyped(s), s.mode = "quran",
         s.top <= s.selected, s.selected < s.top + VisibleRows
  PROVE  UiInv(s)
<1>1. FilesMatch(s)
  BY DEF FilesMatch, FilesTyped, InUse, Held, NeedsQuran, NeedsTrans, QuranOpen
<1>2. InView(s)
  BY DEF InView
<1>. QED
  BY <1>1, <1>2 DEF UiInv

(* From a list, a Quran opens with its file, at the place kept or at its   *)
(* surah list, or the list says why not and keeps no file.                 *)
LEMMA QuranOpens ==
  ASSUME NEW s, UiInv(s), s.mode \in {"library", "bookmarks"}, NEW id \in Packages,
         NEW place \in Places, NEW how, NEW resumes \in BOOLEAN
  PROVE  /\ UiInv(OpenQuran(s, id, place, how, resumes))
         /\ OpenQuran(s, id, place, how, resumes).dirty = TRUE
<1>1. PICK clear : clear = CloseQuran(s)
  OBVIOUS
<1>. DEFINE h == FreeHandle(clear)
<1>2. PICK o, r : o = Opened(clear, id) /\ r = OpenQuran(s, id, place, how, resumes)
  OBVIOUS
<1>3. /\ DOMAIN s = Fields /\ DOMAIN s.pool = Slots /\ Closed(clear) /\ RowsTyped(s)
      /\ s.top <= s.selected /\ s.selected < s.top + VisibleRows /\ s.mode \in Lists
  BY <1>1, LeftClosed DEF UiInv, FilesMatch, FilesTyped, InView, Lists
<1>4. Same(clear, s, Handling) /\ UiInv(clear) /\ clear.mode = s.mode
  <2>1. Same(clear, s, {"pool", "quran"})
    BY <1>1, <1>3, ClosesChange
  <2>2. Same(clear, s, Handling) /\ Same(clear, s, Messages \cup Handling)
    BY <2>1 DEF Same, Handling
  <2>. QED
    BY <1>3, <2>2, StillClosed
<1>5. /\ RowsTyped(clear) /\ FilesTyped(clear) /\ DOMAIN clear = Fields
      /\ clear.top <= clear.selected /\ clear.selected < clear.top + VisibleRows
  BY <1>4 DEF UiInv, FilesMatch, FilesTyped, InView
<1>. HIDE DEF h
<1>6. CASE how = "missing" \/ h = 0
  <2>1. r = Say(clear)
    BY <1>1, <1>2, <1>6 DEF OpenQuran, h
  <2>. QED
    BY <1>2, <1>4, <2>1, MessagesKeep
<1>7. CASE ~ (how = "missing" \/ h = 0)
  <2>1. PICK held : held = [o EXCEPT !.quran = h]
    OBVIOUS
  <2>2. /\ Same(o, clear, {"pool"}) /\ FilesTyped(o) /\ InUse(o) = {h} /\ h \in 1..MaxOpenFiles
    BY <1>2, <1>3, <1>5, <1>7, OpenedEffects DEF h, Closed
  <2>3. /\ Same(held, clear, Handling) /\ held.quran = h /\ held.pool = o.pool
        /\ held.trans = 0 /\ held.pages = 0
    <3>1. Same(held, o, {"quran"}) /\ held.quran = h
      BY <1>5, <2>1, <2>2 DEF Same, Fields
    <3>2. Same(held, clear, Handling)
      BY <2>2, <3>1 DEF Same, Handling
    <3>3. held.pool = o.pool /\ held.trans = o.trans /\ held.pages = o.pages
      BY <3>1 DEF Same, Fields
    <3>4. o.trans = clear.trans /\ o.pages = clear.pages
      BY <2>2 DEF Same, Fields
    <3>. QED
      BY <1>3, <3>1, <3>2, <3>3, <3>4 DEF Closed
  <2>4. QuranOpen(held)
    <3>1. /\ held.mode = o.mode /\ held.translating = o.translating /\ held.pickTrans = o.pickTrans
          /\ DOMAIN held = Fields
      BY <2>1, <2>2 DEF FilesTyped, Fields
    <3>2. FilesTyped(held)
      BY <2>2, <2>3, <3>1, ScreensAssumption DEF FilesTyped
    <3>. QED
      BY <2>2, <2>3, <3>2 DEF QuranOpen, InUse
  <2>5. /\ RowsTyped(held) /\ held.mode = clear.mode
        /\ held.top <= held.selected /\ held.selected < held.top + VisibleRows
    BY <1>5, <2>3, SameRows DEF Same
  <2>6. CASE how # "opens"
    <3>1. r = CloseQuran(Say(held))
      BY <1>1, <1>2, <1>7, <2>1, <2>6 DEF OpenQuran, h
    <3>2. PICK m : m = Say(held)
      OBVIOUS
    <3>3. /\ Same(m, held, {"said", "dirty"}) /\ m.dirty = TRUE
      BY <2>4, <3>2 DEF Say, Same, QuranOpen, FilesTyped, Fields
    <3>4. /\ m.pool = held.pool /\ m.trans = 0 /\ m.pages = 0 /\ m.quran = h
          /\ m.mode = held.mode /\ m.translating = held.translating
          /\ m.pickTrans = held.pickTrans /\ DOMAIN m = Fields
      BY <2>3, <3>3 DEF Same, Fields
    <3>5. FilesTyped(m) /\ InUse(m) = {h} /\ DOMAIN m.pool = Slots
      BY <2>3, <2>4, <3>4 DEF QuranOpen, FilesTyped, InUse
    <3>6. /\ Same(r, m, {"pool", "quran"}) /\ r.quran = 0
          /\ FilesTyped(r) /\ InUse(r) = {h} \ {h}
      BY <3>1, <3>2, <3>4, <3>5, ClosesChange, CloseEffects
    <3>7. Closed(r) /\ r.dirty = TRUE
      BY <3>3, <3>4, <3>6 DEF Closed, Same, Fields
    <3>8. Same(r, clear, Messages \cup Handling)
      BY <2>3, <3>3, <3>6 DEF Same, Handling, Messages
    <3>9. clear.mode \in Lists
      BY <1>3, <1>4
    <3>. QED
      BY <1>2, <1>4, <3>7, <3>8, <3>9, StillClosed
  <2>7. CASE how = "opens"
    <3>1. PICK t : t = Tidy(held)
      OBVIOUS
    <3>2. /\ FilesTyped(t) /\ RowsTyped(t) /\ InUse(t) = InUse(held) /\ Same(t, held, Tidied)
          /\ DOMAIN t = Fields
      BY <2>4, <2>5, <3>1, TidyKeeps DEF QuranOpen, FilesTyped
    <3>3. /\ t.pool = held.pool /\ t.trans = 0 /\ t.pages = 0 /\ t.quran = h
          /\ t.top = held.top /\ t.selected = held.selected
      BY <2>3, <3>2 DEF Same, Fields, Tidied, Placing
    <3>4. /\ QuranOpen(t) /\ t.top <= t.selected /\ t.selected < t.top + VisibleRows
      BY <2>3, <2>4, <2>5, <3>2, <3>3 DEF QuranOpen
    <3>5. CASE resumes
      <4>1. PICK u : u = Show(t, "quran")
        OBVIOUS
      <4>2. r = [u EXCEPT !.book = id, !.surah = place.surah, !.page = place.page]
        BY <1>1, <1>2, <1>7, <2>1, <2>7, <3>1, <3>5, <4>1 DEF OpenQuran, h
      <4>3. Same(u, t, {"mode", "dirty"}) /\ u.mode = "quran" /\ u.dirty = TRUE /\ RowsTyped(u)
        BY <3>2, <4>1, ShowChanges
      <4>4. /\ Same(r, u, {"book", "surah", "page"}) /\ r.book = id
            /\ r.surah = place.surah /\ r.page = place.page
        BY <4>2, <4>3 DEF Same, Fields
      <4>5. r.mode = "quran" /\ r.dirty = TRUE
        BY <4>3, <4>4 DEF Same, Fields
      <4>6. Same(r, t, {"mode", "dirty", "book", "surah", "page"})
        BY <4>3, <4>4 DEF Same
      <4>7. /\ r.pool = t.pool /\ r.quran = t.quran /\ r.pages = t.pages /\ r.trans = t.trans
            /\ r.translating = t.translating /\ r.pickTrans = t.pickTrans /\ DOMAIN r = Fields
            /\ r.top = t.top /\ r.selected = t.selected
        BY <4>6 DEF Same, Fields
      <4>8. QuranOpen(r)
        BY <3>4, <4>5, <4>7 DEF QuranOpen, FilesTyped, InUse, Modes
      <4>9. RowsTyped(r)
        <5>1. /\ r.target = u.target /\ r.last = u.last
              /\ r.listed = u.listed /\ r.jump = u.jump /\ r.marks = u.marks
              /\ r.markRow = u.markRow /\ r.pick = u.pick /\ r.pickTop = u.pickTop
              /\ r.view = u.view /\ r.selected = u.selected /\ r.top = u.top
          BY <4>4 DEF Same, Fields
        <5>2. place.surah \in 1..Surahs /\ place.page \in 1..Pages
          BY DEF Places
        <5>. QED
          BY <4>3, <4>4, <5>1, <5>2 DEF RowsTyped
      <4>. QED
        BY <1>2, <3>4, <4>5, <4>7, <4>8, <4>9, QuranUp
    <3>6. CASE ~ resumes
      <4>1. PICK u : u = EnterSurahPicker(t, 0)
        OBVIOUS
      <4>2. r = [u EXCEPT !.book = id]
        BY <1>1, <1>2, <1>7, <2>1, <2>7, <3>1, <3>6, <4>1 DEF OpenQuran, h
      <4>3. UiInv(u) /\ u.dirty = TRUE /\ u.mode = "picker"
        BY <3>2, <3>4, <4>1, QuranListShown
      <4>4. /\ Same(r, u, {"book"}) /\ r.book = id /\ r.dirty = TRUE
        BY <4>2, <4>3 DEF Same, UiInv, FilesMatch, FilesTyped, Fields
      <4>5. /\ r.surah \in 1..Surahs /\ r.page \in 1..Pages /\ r.target \in 1..Pages
            /\ r.jump \in BOOLEAN
        BY <4>3, <4>4 DEF Same, Fields, UiInv, RowsTyped
      <4>6. Same(r, u, Messages \cup Placing)
        BY <4>4 DEF Same, Placing
      <4>. QED
        BY <1>2, <4>3, <4>4, <4>5, <4>6, UiFrame
    <3>. QED
      BY <3>5, <3>6
  <2>. QED
    BY <2>6, <2>7
<1>. QED
  BY <1>6, <1>7

(* So any package opens, or the library says why not.                      *)
LEMMA EntryOpens ==
  ASSUME NEW s, UiInv(s), s.mode \in {"library", "bookmarks"}, NEW id \in Packages,
         NEW how, NEW luck \in BOOLEAN
  PROVE  UiInv(OpenEntry(s, id, how, luck)) /\ OpenEntry(s, id, how, luck).dirty = TRUE
<1>. DEFINE start == [surah |-> 1, page |-> 1]
<1>1. start \in Places
  BY ScreensAssumption DEF Places
<1>. HIDE DEF start
<1>2. CASE TypeOf[id] = "book"
  <2>1. OpenEntry(s, id, how, luck) = OpenBook(s, id, how)
    BY <1>2 DEF OpenEntry
  <2>. QED
    BY <2>1, BookOpens
<1>3. CASE TypeOf[id] = "quran"
  <2>1. OpenEntry(s, id, how, luck) = OpenQuran(s, id, start, how, luck)
    BY <1>3 DEF OpenEntry, start
  <2>. QED
    BY <1>1, <2>1, QuranOpens
<1>4. CASE TypeOf[id] \notin {"book", "quran"}
  <2>1. OpenEntry(s, id, how, luck) = OpenTranslation(s, id, start, how, luck)
    BY <1>4 DEF OpenEntry, start
  <2>. QED
    BY <1>1, <2>1, TranslationOpens
<1>. QED
  BY <1>2, <1>3, <1>4

(* And so does a bookmark.                                                 *)
LEMMA BookmarkOpens ==
  ASSUME NEW s, UiInv(s), s.mode = "bookmarks", index \in Seq(Packages), NEW mark \in Marks,
         NEW how, NEW luck \in BOOLEAN
  PROVE  UiInv(OpenBookmark(s, mark, how, luck)) /\ OpenBookmark(s, mark, how, luck).dirty = TRUE
<1>. DEFINE place == [surah |-> 1, page |-> mark.page]
<1>1. PICK cleared, r : cleared = [s EXCEPT !.said = ""] /\ r = OpenBookmark(s, mark, how, luck)
  OBVIOUS
<1>2. DOMAIN s = Fields
  BY DEF UiInv, FilesMatch, FilesTyped
<1>3. UiInv(cleared) /\ cleared.mode = "bookmarks"
  <2>1. Same(cleared, s, Messages) /\ cleared.mode = s.mode
    BY <1>1, <1>2 DEF Same, Messages, Fields
  <2>. QED
    BY <2>1, MessageFrame
<1>4. CASE mark.id \notin Indexed
  <2>1. r = [s EXCEPT !.markSaid = "gone", !.dirty = TRUE]
    BY <1>1, <1>4 DEF OpenBookmark
  <2>2. Same(r, s, Messages) /\ r.dirty = TRUE
    BY <1>2, <2>1 DEF Same, Messages, Fields
  <2>. QED
    BY <1>1, <2>2, MessageFrame
<1>5. CASE mark.id \in Indexed
  <2>1. mark.id \in Packages /\ place \in Places
    <3>1. \A i \in DOMAIN index : index[i] \in Packages
      BY ElementOfSeq, LenProperties
    <3>2. mark.page \in 1..Pages /\ 1 \in 1..Surahs
      BY ScreensAssumption DEF Marks
    <3>. QED
      BY <1>5, <3>1, <3>2 DEF Indexed, Places
  <2>. HIDE DEF place
  <2>2. PICK after : after =
          CASE TypeOf[mark.id] = "quran" -> OpenQuran(cleared, mark.id, place, how, luck)
            [] TypeOf[mark.id] = "book"  ->
                 (LET opened == OpenBook(cleared, mark.id, how)
                  IN  IF opened.mode = "bookmarks" THEN opened
                      ELSE [opened EXCEPT !.page = mark.page])
            [] OTHER -> OpenTranslation(cleared, mark.id, place, how, luck)
    OBVIOUS
  <2>3. UiInv(after) /\ after.dirty = TRUE
    <3>1. CASE TypeOf[mark.id] = "quran"
      <4>1. after = OpenQuran(cleared, mark.id, place, how, luck)
        BY <2>2, <3>1
      <4>. QED
        BY <1>3, <2>1, <4>1, QuranOpens
    <3>2. CASE TypeOf[mark.id] = "book"
      <4>1. PICK opened : opened = OpenBook(cleared, mark.id, how)
        OBVIOUS
      <4>2. UiInv(opened) /\ opened.dirty = TRUE
        BY <1>3, <2>1, <4>1, BookOpens
      <4>3. after = IF opened.mode = "bookmarks" THEN opened ELSE [opened EXCEPT !.page = mark.page]
        BY <2>2, <3>2, <4>1
      <4>4. CASE opened.mode = "bookmarks"
        BY <4>2, <4>3, <4>4
      <4>5. CASE opened.mode # "bookmarks"
        <5>1. DOMAIN opened = Fields
          BY <4>2 DEF UiInv, FilesMatch, FilesTyped
        <5>2. Same(after, opened, {"page"}) /\ after.page = mark.page /\ after.dirty = TRUE
          BY <4>2, <4>3, <4>5, <5>1 DEF Same, Fields
        <5>3. /\ after.surah \in 1..Surahs /\ after.page \in 1..Pages /\ after.target \in 1..Pages
              /\ after.jump \in BOOLEAN /\ after.book \in Packages \cup {None}
          BY <4>2, <5>2 DEF Same, Fields, UiInv, RowsTyped, Marks
        <5>4. Same(after, opened, Messages \cup Placing)
          BY <5>2 DEF Same, Placing
        <5>. QED
          BY <4>2, <5>2, <5>3, <5>4, UiFrame
      <4>. QED
        BY <4>4, <4>5
    <3>3. CASE TypeOf[mark.id] \notin {"quran", "book"}
      <4>1. after = OpenTranslation(cleared, mark.id, place, how, luck)
        BY <2>2, <3>3
      <4>. QED
        BY <1>3, <2>1, <4>1, TranslationOpens
    <3>. QED
      BY <3>1, <3>2, <3>3
  <2>4. r = IF after.mode = "bookmarks" THEN [after EXCEPT !.markSaid = "why", !.dirty = TRUE]
            ELSE after
    BY <1>1, <1>5, <2>2 DEF OpenBookmark, place
  <2>5. CASE after.mode = "bookmarks"
    <3>1. Same(r, after, Messages) /\ r.dirty = TRUE
      BY <2>3, <2>4, <2>5 DEF Same, Messages, Fields, UiInv, FilesMatch, FilesTyped
    <3>. QED
      BY <1>1, <2>3, <3>1, MessageFrame
  <2>6. CASE after.mode # "bookmarks"
    BY <1>1, <2>3, <2>4, <2>6
  <2>. QED
    BY <2>5, <2>6
<1>. QED
  BY <1>4, <1>5


-----------------------------------------------------------------------------
(* Adding and deleting bookmarks                                           *)

(* A bookmark goes in front, and one may go for it.                        *)
LEMMA MarkAdded ==
  ASSUME NEW s, UiInv(s), s.mode # "bookmarks"
  PROVE  UiInv(AddBookmarkHere(s)) /\ AddBookmarkHere(s).dirty = TRUE
<1>. DEFINE mark == [id |-> s.book, page |-> s.page]
            same == {k \in DOMAIN s.marks : s.marks[k] = mark}
            slot == IF same # {} THEN CHOOSE k \in same : \A j \in same : k <= j
                    ELSE IF Len(s.marks) < MaxMarks THEN Len(s.marks) + 1 ELSE Len(s.marks)
<1>1. PICK r : r = AddBookmarkHere(s)
  OBVIOUS
<1>2. DOMAIN s = Fields /\ RowsTyped(s) /\ InView(s)
  BY DEF UiInv, FilesMatch, FilesTyped
<1>3. /\ mark \in Marks /\ s.marks \in Seq(Marks) /\ Len(s.marks) \in Nat
      /\ DOMAIN s.marks = 1..Len(s.marks)
  BY <1>2, LenProperties DEF RowsTyped, Marks
<1>4. slot \in 1..(Len(s.marks) + 1)
  <2>1. CASE same # {}
    <3>1. same \subseteq Nat
      BY <1>3
    <3>2. \E k \in same : \A j \in same : k <= j
      <4>. HIDE DEF same
      <4>. QED
        BY <2>1, <3>1, LeastNat
    <3>3. (CHOOSE k \in same : \A j \in same : k <= j) \in same
      <4>. HIDE DEF same
      <4>. QED
        BY <3>2
    <3>4. same \subseteq 1..(Len(s.marks) + 1)
      BY <1>3
    <3>5. slot \in same
      <4>. HIDE DEF same
      <4>. QED
        BY <2>1, <3>3
    <3>. QED
      BY <3>4, <3>5
  <2>2. CASE same = {}
    <3>1. MaxMarks \in Nat \ {0}
      BY ScreensAssumption
    <3>2. slot = IF Len(s.marks) < MaxMarks THEN Len(s.marks) + 1 ELSE Len(s.marks)
      <4>. HIDE DEF same
      <4>. QED
        BY <2>2
    <3>. HIDE DEF slot
    <3>. QED
      BY <1>3, <3>1, <3>2
  <2>. QED
    BY <2>1, <2>2
<1>5. r = [s EXCEPT !.marks = <<mark>> \o Without(@, slot), !.dirty = TRUE]
  BY <1>1 DEF AddBookmarkHere
<1>. HIDE DEF mark, same, slot
<1>6. <<mark>> \o Without(s.marks, slot) \in Seq(Marks)
  <2>1. Without(s.marks, slot) \in Seq(Marks)
    BY <1>3, <1>4, WithoutOne
  <2>2. <<mark>> \in Seq(Marks)
    BY <1>3
  <2>. QED
    BY <2>1, <2>2, ConcatProperties
<1>7. Same(r, s, {"marks", "dirty"}) /\ r.marks \in Seq(Marks) /\ r.dirty = TRUE
  BY <1>2, <1>5, <1>6 DEF Same, Fields
<1>8. /\ r.surah = s.surah /\ r.page = s.page /\ r.target = s.target /\ r.book = s.book
      /\ r.last = s.last /\ r.listed = s.listed /\ r.jump = s.jump
      /\ r.markRow = s.markRow /\ r.pick = s.pick /\ r.pickTop = s.pickTop /\ r.view = s.view
      /\ r.selected = s.selected /\ r.top = s.top /\ r.mode = s.mode /\ r.pickTrans = s.pickTrans
  BY <1>7 DEF Same, Fields
<1>9. RowsTyped(r) /\ InView(r)
  BY <1>2, <1>7, <1>8 DEF RowsTyped, InView, SurahPickerTotal
<1>10. Same(r, s, Messages \cup Tidied \cup {"view", "selected", "top", "marks"})
  BY <1>7 DEF Same, Messages
<1>. QED
  BY <1>1, <1>7, <1>9, <1>10, RowFrame

(* The mark under the row goes, and the row stays on the list.             *)
LEMMA MarkDeleted ==
  ASSUME NEW s, UiInv(s), s.mode = "bookmarks"
  PROVE  /\ UiInv(DeleteSelectedBookmark(s))
         /\ DeleteSelectedBookmark(s) = s \/ DeleteSelectedBookmark(s).dirty = TRUE
<1>. DEFINE k == IF s.last = None THEN s.markRow + 1 ELSE s.markRow
<1>1. PICK r : r = DeleteSelectedBookmark(s)
  OBVIOUS
<1>2. DOMAIN s = Fields /\ RowsTyped(s) /\ InView(s)
  BY DEF UiInv, FilesMatch, FilesTyped
<1>3. CASE k \notin 1..Len(s.marks)
  <2>1. r = s
    BY <1>1, <1>3 DEF DeleteSelectedBookmark
  <2>. QED
    BY <1>1, <2>1
<1>4. CASE k \in 1..Len(s.marks)
  <2>1. PICK fewer : fewer = [s EXCEPT !.marks = Without(@, k)]
    OBVIOUS
  <2>2. PICK total : total = MarkRows(fewer)
    OBVIOUS
  <2>3. r = [fewer EXCEPT !.markRow = IF total > 0 /\ @ >= total THEN total - 1 ELSE @,
                          !.markSaid = "deleted", !.dirty = TRUE]
    BY <1>1, <1>4, <2>1, <2>2 DEF DeleteSelectedBookmark
  <2>. HIDE DEF k
  <2>4. s.marks \in Seq(Marks) /\ Len(s.marks) \in Nat
    BY <1>2, LenProperties DEF RowsTyped
  <2>5. Without(s.marks, k) \in Seq(Marks) /\ Len(Without(s.marks, k)) \in Nat
    BY <1>4, <2>4, WithoutOne, LenProperties
  <2>6. Same(fewer, s, {"marks"}) /\ fewer.marks = Without(s.marks, k)
    BY <1>2, <2>1 DEF Same, Fields
  <2>7. fewer.markRow = s.markRow /\ fewer.last = s.last /\ s.markRow \in Nat
    BY <1>2, <2>6 DEF Same, Fields, RowsTyped
  <2>8. total \in Nat
    BY <2>2, <2>5, <2>6 DEF MarkRows
  <2>9. /\ Same(r, fewer, {"markRow", "markSaid", "dirty"}) /\ r.dirty = TRUE
        /\ r.markRow = IF total > 0 /\ s.markRow >= total THEN total - 1 ELSE s.markRow
    BY <2>3, <2>6, <2>7 DEF Same, Fields
  <2>10. r.markRow \in Nat /\ (total > 0 => r.markRow < total)
    BY <2>7, <2>8, <2>9
  <2>11. r.marks = fewer.marks /\ r.last = fewer.last
    BY <2>9 DEF Same, Fields
  <2>12. MarkRows(r) = total
    BY <2>2, <2>11 DEF MarkRows
  <2>13. Same(r, s, {"marks", "markRow", "markSaid", "dirty"})
    BY <2>6, <2>9 DEF Same
  <2>14. /\ r.surah = s.surah /\ r.page = s.page /\ r.target = s.target /\ r.book = s.book
         /\ r.last = s.last /\ r.listed = s.listed /\ r.jump = s.jump
         /\ r.pick = s.pick /\ r.pickTop = s.pickTop /\ r.view = s.view
         /\ r.selected = s.selected /\ r.top = s.top /\ r.mode = s.mode /\ r.pickTrans = s.pickTrans
    BY <2>13 DEF Same, Fields
  <2>15. RowsTyped(r)
    BY <1>2, <2>5, <2>6, <2>10, <2>11, <2>14 DEF RowsTyped
  <2>16. InView(r)
    BY <1>2, <2>10, <2>12, <2>14 DEF InView
  <2>17. Same(r, s, Messages \cup Tidied \cup {"view", "selected", "top", "marks"})
    BY <2>13 DEF Same, Messages, Tidied
  <2>. QED
    BY <1>1, <2>9, <2>15, <2>16, <2>17, RowFrame
<1>. QED
  BY <1>3, <1>4

-----------------------------------------------------------------------------
(* What every step keeps                                                   *)

(* r is drawn, or will be, if s is or will be.                             *)
Seen(r, s) ==
  \/ r.dirty = TRUE
  \/ r.mode = "home" /\ r.homePending = TRUE
  \/ Frame(r) = Frame(s) /\ r.mode = s.mode /\ r.dirty = s.dirty /\ r.homePending = s.homePending

Kept == SInv' /\ (GlassIsCurrent => GlassIsCurrent')

(* A handler that leaves the globals so keeps both.                        *)
LEMMA LeavesKeeps ==
  ASSUME SInv, NEW r, Leaves(r), UiInv(r), Seen(r, ui)
  PROVE  Kept
<1>1. ui' = r /\ index' = index /\ fresh' = (fresh /\ Frame(r) = Frame(ui))
  BY DEF Leaves
<1>2. SInv'
  BY <1>1 DEF SInv
<1>3. ASSUME GlassIsCurrent PROVE GlassIsCurrent'
  <2>1. CASE r.dirty = TRUE
    BY <1>1, <2>1 DEF GlassIsCurrent
  <2>2. CASE r.mode = "home" /\ r.homePending = TRUE
    BY <1>1, <2>2 DEF GlassIsCurrent
  <2>3. CASE Frame(r) = Frame(ui) /\ r.mode = ui.mode /\ r.dirty = ui.dirty
             /\ r.homePending = ui.homePending
    <3>1. fresh => fresh'
      BY <1>1, <2>3
    <3>2. ui'.mode = ui.mode /\ ui'.dirty = ui.dirty /\ ui'.homePending = ui.homePending
      BY <1>1, <2>3
    <3>. QED
      BY <1>3, <3>1, <3>2 DEF GlassIsCurrent
  <2>. QED
    BY <2>1, <2>2, <2>3 DEF Seen
<1>. QED
  BY <1>2, <1>3 DEF Kept

(* A repaint keeps both: the home screen is left to its poll.              *)
LEMMA DrawsKeeps ==
  ASSUME SInv, NEW r, Draws(r), UiInv(r)
  PROVE  Kept /\ Same(ui', r, Messages)
<1>1. ui' = Repainted(r) /\ index' = index
      /\ fresh' = (r.mode # "home" \/ (fresh /\ Frame(r) = Frame(ui)))
  BY DEF Draws
<1>2. DOMAIN r = Fields
  BY DEF UiInv, FilesMatch, FilesTyped
<1>3. Same(ui', r, Messages) /\ (r.mode = "home" => ui'.homePending = TRUE) /\ ui'.mode = r.mode
  <2>1. CASE r.mode = "home"
    <3>1. Repainted(r) = [r EXCEPT !.homePending = TRUE, !.dirty = FALSE]
      BY <2>1 DEF Repainted
    <3>. QED
      BY <1>1, <1>2, <3>1 DEF Same, Fields, Messages
  <2>2. CASE r.mode = "library"
    <3>1. Repainted(r) = [RefreshLibraryState(r) EXCEPT !.dirty = FALSE]
      BY <2>2 DEF Repainted
    <3>2. Same(RefreshLibraryState(r), r, {"state"})
      BY MessagesKeep
    <3>3. PICK f : f = RefreshLibraryState(r)
      OBVIOUS
    <3>4. Same(ui', f, {"dirty"})
      BY <1>1, <3>1, <3>2, <3>3 DEF Same, Fields
    <3>5. Same(ui', r, {"state", "dirty"})
      BY <3>2, <3>3, <3>4 DEF Same
    <3>. QED
      BY <2>2, <3>5 DEF Same, Fields, Messages
  <2>3. CASE r.mode \notin {"home", "library"}
    <3>1. Repainted(r) = [r EXCEPT !.dirty = FALSE]
      BY <2>3 DEF Repainted
    <3>. QED
      BY <1>1, <1>2, <2>3, <3>1 DEF Same, Fields, Messages
  <2>. QED
    BY <2>1, <2>2, <2>3
<1>4. UiInv(ui')
  BY <1>3, MessageFrame
<1>5. GlassIsCurrent'
  BY <1>1, <1>3 DEF GlassIsCurrent
<1>. QED
  BY <1>1, <1>3, <1>4, <1>5 DEF Kept, SInv


-----------------------------------------------------------------------------
(* MENU, EXIT and OK                                                       *)

(* A reader that is closed leaves the rows as they were.                   *)
LEMMA ClosedRows ==
  ASSUME NEW s, UiInv(s), NEW c, c \in {s, CloseQuran(s), ClosePageBook(s), CloseTranslation(s)}
  PROVE  /\ Same(c, s, Handling) /\ RowsTyped(c) /\ c.mode = s.mode /\ c.view = s.view
         /\ c.top <= c.selected /\ c.selected < c.top + VisibleRows
<1>1. DOMAIN s = Fields /\ DOMAIN s.pool = Slots /\ RowsTyped(s)
      /\ s.top <= s.selected /\ s.selected < s.top + VisibleRows
  BY DEF UiInv, FilesMatch, FilesTyped, InView
<1>2. Same(c, s, Handling)
  <2>1. CASE c = s
    BY <1>1, <2>1 DEF Same
  <2>2. CASE c = CloseQuran(s)
    <3>1. Same(c, s, {"pool", "quran"})
      BY <1>1, <2>2, ClosesChange
    <3>. QED
      BY <3>1 DEF Same, Handling
  <2>3. CASE c = ClosePageBook(s)
    <3>1. Same(c, s, {"pool", "pages"})
      BY <1>1, <2>3, ClosesChange
    <3>. QED
      BY <3>1 DEF Same, Handling
  <2>4. CASE c = CloseTranslation(s)
    <3>1. Same(c, s, {"pool", "trans", "translating"})
      BY <1>1, <2>4, ClosesChange
    <3>. QED
      BY <3>1 DEF Same, Handling
  <2>. QED
    BY <2>1, <2>2, <2>3, <2>4
<1>3. RowsTyped(c) /\ c.mode = s.mode /\ c.top = s.top /\ c.selected = s.selected
  <2>1. Same(c, s, Messages \cup Handling)
    BY <1>2 DEF Same
  <2>. QED
    BY <1>1, <2>1, SameRows
<1>4. c.view = s.view
  BY <1>2 DEF Same, Fields, Handling
<1>. QED
  BY <1>1, <1>2, <1>3, <1>4

(* Closing whatever is open, a screen that needs no file may be shown.     *)
LEMMA LeavesFor ==
  ASSUME NEW s, UiInv(s),
         NEW c, c \in {s, CloseQuran(s), ClosePageBook(s), CloseTranslation(s)}, Closed(c)
  PROVE  \A mode \in {"library", "home", "selftest"} :
           /\ UiInv(Show(c, mode)) /\ Show(c, mode).mode = mode /\ Show(c, mode).dirty = TRUE
           /\ Show(c, mode).view = s.view
<1>1. /\ RowsTyped(c) /\ c.view = s.view
      /\ c.top <= c.selected /\ c.selected < c.top + VisibleRows
  BY ClosedRows
<1>. TAKE mode \in {"library", "home", "selftest"}
<1>. QED
  BY <1>1, ShowClosed

(* A place in a book may be any page of it.                                *)
LEMMA PlacesChange ==
  ASSUME NEW s, UiInv(s), NEW r, Same(r, s, Messages \cup {"surah", "page", "jump", "target"}),
         r.surah \in 1..Surahs, r.page \in 1..Pages, r.target \in 1..Pages, r.jump \in BOOLEAN
  PROVE  UiInv(r)
<1>1. Same(r, s, Messages \cup Placing) /\ r.book = s.book
  BY DEF Same, Placing, Fields, Messages
<1>2. s.book \in Packages \cup {None}
  BY DEF UiInv, RowsTyped
<1>. QED
  BY <1>1, <1>2, UiFrame

(* MENU opens and closes what it should.                                   *)
LEMMA MenuKept == ASSUME SInv, Menu PROVE Kept
<1>1. UiInv(ui) /\ DOMAIN ui = Fields /\ RowsTyped(ui) /\ FilesMatch(ui)
  BY DEF SInv, UiInv, FilesMatch, FilesTyped
<1>2. CASE NextChapter
  <2>1. PICK t \in 1..Pages : Leaves([ui EXCEPT !.target = t, !.dirty = TRUE])
    BY <1>2 DEF NextChapter
  <2>2. PICK r : r = [ui EXCEPT !.target = t, !.dirty = TRUE]
    OBVIOUS
  <2>3. Same(r, ui, {"target", "dirty"}) /\ r.target = t /\ r.dirty = TRUE
    BY <1>1, <2>2 DEF Same, Fields
  <2>4. /\ r.surah \in 1..Surahs /\ r.page \in 1..Pages /\ r.target \in 1..Pages
        /\ r.jump \in BOOLEAN
    BY <1>1, <2>3 DEF Same, Fields, RowsTyped
  <2>5. Same(r, ui, Messages \cup {"surah", "page", "jump", "target"})
    BY <2>3 DEF Same, Messages
  <2>6. UiInv(r)
    BY <1>1, <2>4, <2>5, PlacesChange
  <2>. QED
    BY <2>1, <2>2, <2>3, <2>6, LeavesKeeps DEF Seen
<1>3. CASE MenuMarks
  <2>1. Leaves(AddBookmarkHere(ui)) /\ ui.mode # "bookmarks"
    BY <1>3 DEF MenuMarks, On
  <2>2. UiInv(AddBookmarkHere(ui)) /\ AddBookmarkHere(ui).dirty = TRUE
    BY <1>1, <2>1, MarkAdded
  <2>. QED
    BY <2>1, <2>2, LeavesKeeps DEF Seen
<1>4. CASE MenuMoves
  <2>1. PICK next : /\ Leaves([next EXCEPT !.said = "", !.dirty = TRUE])
                    /\ next = CASE On("reader")                  -> Show(CloseTranslation(ui), "library")
                                [] On("bookmarks")               -> Show(ui, "library")
                                [] On("pages")                   -> Show(ClosePageBook(ui), "library")
                                [] On("picker") /\ ui.pickTrans  -> Show(CloseTranslation(ui), "library")
                                [] On("quran") \/ (On("picker") /\ ~ui.pickTrans) ->
                                     Show(CloseQuran(ui), "library")
                                [] On("home")                    -> Show(ui, "library")
                                [] On("library")                 -> Show(ui, "selftest")
                                [] OTHER                         -> Show(ui, "home")
    BY <1>4 DEF MenuMoves
  <2>2. ui.mode \in Modes /\ ui.pickTrans \in BOOLEAN
    BY <1>1 DEF FilesMatch, FilesTyped
  <2>3. UiInv(next)
    <3>1. CASE On("reader") \/ (On("picker") /\ ui.pickTrans)
      <4>1. next = Show(CloseTranslation(ui), "library")
        BY <2>1, <3>1 DEF On
      <4>2. Closed(CloseTranslation(ui))
        BY <1>1, <3>1, LeftClosed DEF On
      <4>. QED
        BY <1>1, <4>1, <4>2, LeavesFor
    <3>2. CASE On("pages")
      <4>1. next = Show(ClosePageBook(ui), "library")
        BY <2>1, <3>2 DEF On
      <4>2. Closed(ClosePageBook(ui))
        BY <1>1, <3>2, LeftClosed DEF On
      <4>. QED
        BY <1>1, <4>1, <4>2, LeavesFor
    <3>3. CASE On("quran") \/ (On("picker") /\ ~ ui.pickTrans)
      <4>1. next = Show(CloseQuran(ui), "library")
        BY <2>1, <3>3 DEF On
      <4>2. Closed(CloseQuran(ui))
        BY <1>1, <3>3, LeftClosed DEF On, NeedsQuran
      <4>. QED
        BY <1>1, <4>1, <4>2, LeavesFor
    <3>4. CASE ui.mode \in {"home", "library", "bookmarks", "selftest"}
      <4>1. \E mode \in {"library", "home", "selftest"} : next = Show(ui, mode)
        BY <2>1, <3>4 DEF On
      <4>2. Closed(ui)
        BY <1>1, <3>4, LeftClosed
      <4>. QED
        BY <1>1, <4>1, <4>2, LeavesFor
    <3>. QED
      BY <2>2, <3>1, <3>2, <3>3, <3>4 DEF On, Modes
  <2>4. PICK r : r = [next EXCEPT !.said = "", !.dirty = TRUE]
    OBVIOUS
  <2>5. Same(r, next, Messages) /\ r.dirty = TRUE
    BY <2>3, <2>4 DEF UiInv, FilesMatch, FilesTyped, Same, Messages, Fields
  <2>6. UiInv(r)
    BY <2>3, <2>5, MessageFrame
  <2>. QED
    BY <2>1, <2>4, <2>5, <2>6, LeavesKeeps DEF Seen
<1>. QED
  BY <1>2, <1>3, <1>4 DEF Menu

(* What EXIT goes back to keeps the invariant, and is nearer to the clock. *)
LEMMA BackLeads ==
  ASSUME NEW s, UiInv(s)
  PROVE  /\ UiInv(Back(s))
         /\ Back(s).mode = "home" \/ Depth(Back(s)) < Depth(s)
<1>1. /\ DOMAIN s = Fields /\ RowsTyped(s) /\ FilesMatch(s) /\ s.mode \in Modes
      /\ s.pickTrans \in BOOLEAN /\ s.jump \in BOOLEAN /\ s.view \in {"categories", "items"}
      /\ s.top <= s.selected /\ s.selected < s.top + VisibleRows
  BY DEF UiInv, FilesMatch, FilesTyped, RowsTyped, InView
<1>2. PICK r : r = Back(s)
  OBVIOUS
<1>3. r.mode = "library" /\ r.view = s.view => Depth(r) \in {1, 2}
  BY <1>1 DEF Depth
<1>4. CASE s.mode = "bookmarks"
  <2>1. r = Show(s, "library") /\ Depth(s) = 3
    BY <1>2, <1>4 DEF Back, Depth
  <2>2. Closed(s)
    BY <1>1, <1>4, LeftClosed
  <2>3. UiInv(r) /\ r.mode = "library" /\ r.view = s.view
    BY <2>1, <2>2, LeavesFor
  <2>. QED
    BY <1>2, <1>3, <2>1, <2>3
<1>5. CASE s.mode = "pages" /\ s.jump
  <2>1. r = [s EXCEPT !.jump = FALSE, !.target = 1, !.dirty = TRUE] /\ Depth(s) = 4
    BY <1>2, <1>5 DEF Back, Depth
  <2>2. Same(r, s, {"jump", "target", "dirty"}) /\ r.jump = FALSE /\ r.target = 1
    BY <1>1, <2>1 DEF Same, Fields
  <2>3. r.mode = "pages" /\ r.surah = s.surah /\ r.page = s.page
    BY <1>5, <2>2 DEF Same, Fields
  <2>4. 1 \in 1..Pages
    BY ScreensAssumption
  <2>5. Same(r, s, Messages \cup {"surah", "page", "jump", "target"})
    BY <2>2 DEF Same, Messages
  <2>6. UiInv(r)
    BY <1>1, <2>2, <2>3, <2>4, <2>5, PlacesChange DEF RowsTyped
  <2>7. Depth(r) = 3
    BY <2>2, <2>3 DEF Depth
  <2>. QED
    BY <1>2, <2>1, <2>6, <2>7
<1>6. CASE s.mode = "pages" /\ ~ s.jump
  <2>1. r = Show(ClosePageBook(s), "library") /\ Depth(s) = 3
    BY <1>2, <1>6 DEF Back, Depth
  <2>2. Closed(ClosePageBook(s))
    BY <1>1, <1>6, LeftClosed
  <2>3. UiInv(r) /\ r.mode = "library" /\ r.view = s.view
    BY <2>1, <2>2, LeavesFor
  <2>. QED
    BY <1>2, <1>3, <2>1, <2>3
<1>7. CASE s.mode = "reader"
  <2>1. r = Show(CloseTranslation(s), "library") /\ Depth(s) = 3
    BY <1>2, <1>7 DEF Back, Depth
  <2>2. Closed(CloseTranslation(s))
    BY <1>1, <1>7, LeftClosed
  <2>3. UiInv(r) /\ r.mode = "library" /\ r.view = s.view
    BY <2>1, <2>2, LeavesFor
  <2>. QED
    BY <1>2, <1>3, <2>1, <2>3
<1>8. CASE s.mode = "quran"
  <2>1. PICK l : l = EnterSurahPicker(s, s.surah - 1)
    OBVIOUS
  <2>2. r = [l EXCEPT !.page = 1, !.surah = 1] /\ Depth(s) = 4
    BY <1>2, <1>8, <2>1 DEF Back, Depth
  <2>3. QuranOpen(s)
    BY <1>1, <1>8 DEF QuranOpen, FilesMatch, NeedsQuran, NeedsTrans, Held
  <2>4. s.surah - 1 \in Nat
    BY <1>1, ScreensAssumption DEF RowsTyped
  <2>5. UiInv(l) /\ l.mode = "picker" /\ l.pickTrans = FALSE
    BY <1>1, <2>1, <2>3, <2>4, QuranListShown
  <2>6. DOMAIN l = Fields /\ RowsTyped(l)
    BY <2>5 DEF UiInv, FilesMatch, FilesTyped
  <2>7. Same(r, l, {"page", "surah"}) /\ r.page = 1 /\ r.surah = 1
    BY <2>2, <2>6 DEF Same, Fields
  <2>8. r.target = l.target /\ r.jump = l.jump /\ r.mode = "picker" /\ r.pickTrans = FALSE
    BY <2>5, <2>7 DEF Same, Fields
  <2>9. 1 \in 1..Pages /\ 1 \in 1..Surahs
    BY ScreensAssumption
  <2>10. Same(r, l, Messages \cup {"surah", "page", "jump", "target"})
    BY <2>7 DEF Same
  <2>11. UiInv(r)
    BY <2>5, <2>6, <2>7, <2>8, <2>9, <2>10, PlacesChange DEF RowsTyped
  <2>12. Depth(r) = 3
    BY <2>8 DEF Depth
  <2>. QED
    BY <1>2, <2>2, <2>11, <2>12
<1>9. CASE s.mode = "picker" /\ s.pickTrans
  <2>1. r = Show(s, "reader") /\ Depth(s) = 4
    BY <1>2, <1>9 DEF Back, Depth
  <2>2. /\ Same(r, s, {"mode", "dirty"}) /\ r.mode = "reader" /\ RowsTyped(r)
    BY <1>1, <2>1, ShowChanges
  <2>3. /\ r.pool = s.pool /\ r.quran = s.quran /\ r.pages = s.pages /\ r.trans = s.trans
        /\ r.translating = s.translating /\ r.pickTrans = s.pickTrans /\ DOMAIN r = Fields
        /\ r.top = s.top /\ r.selected = s.selected
    BY <2>2 DEF Same, Fields
  <2>4. TransOpen(s) /\ s.translating = TRUE
    BY <1>1, <1>9 DEF TransOpen, FilesMatch, FilesTyped, NeedsQuran, NeedsTrans, Held
  <2>5. TransOpen(r)
    BY <2>2, <2>3, <2>4 DEF TransOpen, FilesTyped, InUse, Modes
  <2>6. UiInv(r)
    BY <1>1, <2>2, <2>3, <2>4, <2>5, TranslationUp
  <2>7. Depth(r) = 3
    BY <2>2 DEF Depth
  <2>. QED
    BY <1>2, <2>1, <2>6, <2>7
<1>10. CASE s.mode = "picker" /\ ~ s.pickTrans
  <2>1. r = Show(CloseQuran(s), "library") /\ Depth(s) = 3
    BY <1>2, <1>10 DEF Back, Depth
  <2>2. Closed(CloseQuran(s))
    BY <1>1, <1>10, LeftClosed DEF NeedsQuran
  <2>3. UiInv(r) /\ r.mode = "library" /\ r.view = s.view
    BY <2>1, <2>2, LeavesFor
  <2>. QED
    BY <1>2, <1>3, <2>1, <2>3
<1>11. CASE s.mode = "library" /\ s.view = "items"
  <2>1. r = LeaveLibraryCategory(s) /\ Depth(s) = 2
    BY <1>2, <1>11 DEF Back, Depth
  <2>2. UiInv(r) /\ r.mode = "library" /\ r.view = "categories"
    BY <1>11, <2>1, CategoriesKeep
  <2>3. Depth(r) = 1
    BY <2>2 DEF Depth
  <2>. QED
    BY <1>2, <2>1, <2>2, <2>3
<1>12. CASE s.mode \in {"home", "selftest"} \/ (s.mode = "library" /\ s.view = "categories")
  <2>1. r = Show(s, "home")
    BY <1>2, <1>12 DEF Back
  <2>2. Closed(s)
    BY <1>1, <1>12, LeftClosed
  <2>3. UiInv(r) /\ r.mode = "home"
    BY <2>1, <2>2, LeavesFor
  <2>. QED
    BY <1>2, <2>3
<1>. QED
  BY <1>1, <1>4, <1>5, <1>6, <1>7, <1>8, <1>9, <1>10, <1>11, <1>12 DEF Modes

(* EXIT keeps both, and leads out.                                         *)
LEMMA ExitKept ==
  ASSUME SInv, Exit
  PROVE  Kept /\ (ui'.mode = "home" \/ Depth(ui') < Depth(ui))
<1>1. PICK r : r = Back(ui)
  OBVIOUS
<1>2. Draws(r) /\ UiInv(r) /\ (r.mode = "home" \/ Depth(r) < Depth(ui))
  BY <1>1, BackLeads DEF Exit, SInv
<1>3. Kept /\ Same(ui', r, Messages)
  BY <1>2, DrawsKeeps
<1>4. ui'.mode = r.mode /\ ui'.view = r.view /\ ui'.jump = r.jump /\ ui'.pickTrans = r.pickTrans
  BY <1>3 DEF Same, Fields, Messages
<1>5. Depth(ui') = Depth(r)
  BY <1>4 DEF Depth
<1>. QED
  BY <1>2, <1>3, <1>4, <1>5


(* OK in the library.                                                      *)
LEMMA LibraryOkKept == ASSUME SInv, LibraryOk PROVE Kept
<1>1. PICK s : s = RefreshLibraryState(ui)
  OBVIOUS
<1>2. UiInv(s) /\ Same(s, ui, {"state"}) /\ index \in Seq(Packages)
  BY <1>1, MessagesKeep DEF SInv
<1>3. PICK kind : kind = RowKind(s.view, s.category, s.selected)
  OBVIOUS
<1>4. s.mode = "library" /\ DOMAIN s = Fields /\ s.selected \in Nat
  <2>1. ui.mode = "library"
    BY DEF LibraryOk, On
  <2>. QED
    BY <1>2, <2>1 DEF Same, Fields, UiInv, RowsTyped
<1>5. \/ kind = "transfer" /\ \E said \in {"", "why"} : Leaves([s EXCEPT !.said = said, !.dirty = TRUE])
      \/ kind = "category" /\ Leaves(IF CountOfType(Types[s.selected + 1]) = 0 THEN Say(s)
                                     ELSE EnterLibraryCategory(s, Types[s.selected + 1]))
      \/ kind = "back" /\ Leaves(LeaveLibraryCategory(s))
      \/ kind = "clock" /\ Leaves([s EXCEPT !.mode = "home", !.said = "", !.homePending = TRUE])
      \/ kind = "bookmarks" /\ \E last \in LastRead : Leaves(EnterBookmarks(s, last))
      \/ kind = "device" /\ Leaves([Show(s, "selftest") EXCEPT !.said = ""])
      \/ kind = "item" /\ \E how \in Outcomes, luck \in BOOLEAN :
           Leaves(OpenEntry(s, EntryOfType(s.category, s.selected), how, luck))
      \/ kind = "none" /\ Leaves(s)
  BY <1>1, <1>3 DEF LibraryOk
<1>6. ASSUME NEW r, Leaves(r), UiInv(r), r.dirty = TRUE PROVE Kept
  BY <1>6, LeavesKeeps DEF Seen
<1>7. ASSUME Leaves(s) PROVE Kept
  <2>1. Frame(s) = Frame(ui) /\ s.mode = ui.mode /\ s.dirty = ui.dirty
        /\ s.homePending = ui.homePending
    <3>1. /\ s.mode = ui.mode /\ s.dirty = ui.dirty /\ s.homePending = ui.homePending
          /\ s.view = ui.view /\ s.category = ui.category /\ s.selected = ui.selected
          /\ s.top = ui.top /\ s.said = ui.said
      BY <1>2 DEF Same, Fields
    <3>. QED
      BY <1>4, <3>1 DEF Frame
  <2>. QED
    BY <1>2, <1>7, <2>1, LeavesKeeps DEF Seen
<1>8. CASE kind = "transfer"
  <2>1. PICK said \in {"", "why"} : Leaves([s EXCEPT !.said = said, !.dirty = TRUE])
    BY <1>5, <1>8
  <2>2. PICK r : r = [s EXCEPT !.said = said, !.dirty = TRUE]
    OBVIOUS
  <2>3. Same(r, s, Messages) /\ r.dirty = TRUE
    BY <1>4, <2>2 DEF Same, Fields, Messages
  <2>. QED
    BY <1>2, <1>6, <2>1, <2>2, <2>3, MessageFrame
<1>9. CASE kind = "category"
  <2>1. PICK type : type = Types[s.selected + 1]
    OBVIOUS
  <2>2. Leaves(Say(s)) \/ Leaves(EnterLibraryCategory(s, type))
    BY <1>5, <1>9, <2>1
  <2>. QED
    BY <1>2, <1>6, <2>2, MessagesKeep, CategoriesKeep
<1>10. CASE kind = "back"
  <2>1. Leaves(LeaveLibraryCategory(s))
    BY <1>5, <1>10
  <2>2. s.view = "categories" => LeaveLibraryCategory(s) = s
    BY DEF LeaveLibraryCategory
  <2>. QED
    BY <1>2, <1>6, <1>7, <2>1, <2>2, CategoriesKeep
<1>11. CASE kind = "clock"
  <2>1. PICK r : r = [s EXCEPT !.mode = "home", !.said = "", !.homePending = TRUE]
    OBVIOUS
  <2>2. Leaves(r)
    BY <1>5, <1>11, <2>1
  <2>3. Same(r, s, {"mode", "said", "homePending"}) /\ r.mode = "home" /\ r.homePending = TRUE
    BY <1>4, <2>1 DEF Same, Fields
  <2>4. /\ r.pool = s.pool /\ r.quran = s.quran /\ r.pages = s.pages /\ r.trans = s.trans
        /\ r.translating = s.translating /\ r.pickTrans = s.pickTrans /\ DOMAIN r = Fields
        /\ r.surah = s.surah /\ r.page = s.page /\ r.target = s.target /\ r.book = s.book
        /\ r.listed = s.listed /\ r.jump = s.jump /\ r.view = s.view /\ r.marks = s.marks
        /\ r.pick = s.pick /\ r.pickTop = s.pickTop /\ r.selected = s.selected /\ r.top = s.top
        /\ r.last = s.last /\ r.markRow = s.markRow
    BY <2>3 DEF Same, Fields
  <2>5. FilesMatch(r)
    BY <1>2, <1>4, <2>3, <2>4 DEF UiInv, FilesMatch, FilesTyped, InUse, Held, NeedsQuran, NeedsTrans, Modes
  <2>6. RowsTyped(r)
    BY <1>2, <2>4 DEF UiInv, RowsTyped
  <2>7. InView(r)
    BY <1>2, <2>3, <2>4 DEF UiInv, InView
  <2>8. UiInv(r)
    BY <2>5, <2>6, <2>7 DEF UiInv
  <2>. QED
    BY <2>2, <2>3, <2>8, LeavesKeeps DEF Seen
<1>12. CASE kind = "bookmarks"
  <2>1. PICK last \in LastRead : Leaves(EnterBookmarks(s, last))
    BY <1>5, <1>12
  <2>2. last \in Packages \cup {None}
    <3>1. \A i \in DOMAIN index : index[i] \in Packages
      BY <1>2, ElementOfSeq, LenProperties
    <3>. QED
      BY <3>1 DEF LastRead, Indexed
  <2>. QED
    BY <1>2, <1>4, <1>6, <2>1, <2>2, BookmarksShown
<1>13. CASE kind = "device"
  <2>1. PICK t, r : t = Show(s, "selftest") /\ r = [t EXCEPT !.said = ""]
    OBVIOUS
  <2>2. Leaves(r)
    BY <1>5, <1>13, <2>1
  <2>3. Closed(s)
    BY <1>2, <1>4, LeftClosed DEF UiInv
  <2>4. PICK mode \in {"library", "home", "selftest"} : mode = "selftest"
    OBVIOUS
  <2>5. t = Show(s, mode)
    BY <2>1, <2>4
  <2>6. UiInv(t) /\ t.dirty = TRUE
    BY <1>2, <2>3, <2>5, LeavesFor
  <2>7. Same(r, t, Messages) /\ r.dirty = TRUE
    BY <2>1, <2>6 DEF UiInv, FilesMatch, FilesTyped, Same, Messages, Fields
  <2>. QED
    BY <1>6, <2>2, <2>6, <2>7, MessageFrame
<1>14. CASE kind = "item"
  <2>1. PICK id : id = EntryOfType(s.category, s.selected)
    OBVIOUS
  <2>2. PICK how \in Outcomes, luck \in BOOLEAN : Leaves(OpenEntry(s, id, how, luck))
    BY <1>5, <1>14, <2>1
  <2>3. id \in Packages
    <3>1. /\ CountOfType(s.category) \in Nat
          /\ \A n \in 1..CountOfType(s.category) : EntryOfType(s.category, n) \in Packages
      BY <1>2, EntryInIndex
    <3>2. s.view = "items" /\ s.selected # 0 /\ ~ s.selected >= RowCount(s.view, s.category)
      <4>1. \A n \in 1..4 : Tiles[n] # "item"
        BY DEF Tiles
      <4>2. CASE s.selected >= RowCount(s.view, s.category)
        BY <1>3, <1>14, <4>2 DEF RowKind
      <4>3. CASE s.view # "items" /\ ~ s.selected >= RowCount(s.view, s.category)
        <5>1. s.view = "categories" /\ Len(Types) = 4 /\ Len(Tiles) = 4
          BY <1>2, <4>3 DEF UiInv, RowsTyped, Types, Tiles
        <5>2. s.selected < 8
          BY <1>4, <4>3, <5>1 DEF RowCount
        <5>3. kind = IF s.selected < 4 THEN "category" ELSE Tiles[s.selected - 4 + 1]
          BY <1>3, <4>3, <5>1 DEF RowKind
        <5>4. s.selected >= 4 => s.selected - 4 + 1 \in 1..4
          BY <1>4, <5>2
        <5>. QED
          BY <1>4, <1>14, <4>1, <5>3, <5>4
      <4>4. CASE s.view = "items" /\ ~ s.selected >= RowCount(s.view, s.category)
        <5>1. kind = IF s.selected = 0 THEN "back" ELSE "item"
          BY <1>3, <4>4 DEF RowKind
        <5>. QED
          BY <1>14, <4>4, <5>1
      <4>. QED
        BY <4>2, <4>3, <4>4
    <3>3. RowCount(s.view, s.category) = CountOfType(s.category) + 1
      BY <3>2 DEF RowCount
    <3>4. s.selected \in 1..CountOfType(s.category)
      BY <1>4, <3>1, <3>2, <3>3
    <3>. QED
      BY <2>1, <3>1, <3>4
  <2>4. s.mode \in {"library", "bookmarks"}
    BY <1>4
  <2>5. UiInv(OpenEntry(s, id, how, luck)) /\ OpenEntry(s, id, how, luck).dirty = TRUE
    BY <1>2, <2>3, <2>4, EntryOpens
  <2>. QED
    BY <1>6, <2>2, <2>5
<1>15. CASE kind = "none"
  BY <1>5, <1>7, <1>15
<1>. QED
  BY <1>5, <1>8, <1>9, <1>10, <1>11, <1>12, <1>13, <1>14, <1>15


(* OK on a bookmark, in a text, in a picture book and on a surah.          *)
LEMMA OkKept == ASSUME SInv, Ok PROVE Kept
<1>1. /\ UiInv(ui) /\ DOMAIN ui = Fields /\ RowsTyped(ui) /\ FilesMatch(ui) /\ InView(ui)
      /\ index \in Seq(Packages)
  BY DEF SInv, UiInv, FilesMatch, FilesTyped
<1>2. ASSUME NEW r, Leaves(r), UiInv(r), r.dirty = TRUE PROVE Kept
  BY <1>2, LeavesKeeps DEF Seen
<1>3. ASSUME Leaves(ui) PROVE Kept
  BY <1>1, <1>3, LeavesKeeps DEF Seen
<1>4. CASE BookmarksOk
  <2>1. CASE ui.markRow >= MarkRows(ui)
    BY <1>3, <1>4, <2>1 DEF BookmarksOk
  <2>2. CASE ~ ui.markRow >= MarkRows(ui)
    <3>1. PICK mark : mark = MarkAt(ui, ui.markRow)
      OBVIOUS
    <3>2. PICK how \in Outcomes, luck \in BOOLEAN : Leaves(OpenBookmark(ui, mark, how, luck))
      BY <1>4, <2>2, <3>1 DEF BookmarksOk
    <3>3. MarkRows(ui) \in Nat /\ (ui.markRow < MarkRows(ui) => mark \in Marks)
      BY <1>1, <3>1, MarkRowsNumber
    <3>4. ui.markRow \in Nat
      BY <1>1 DEF RowsTyped
    <3>5. mark \in Marks
      BY <2>2, <3>3, <3>4
    <3>6. ui.mode = "bookmarks"
      BY <1>4 DEF BookmarksOk, On
    <3>7. /\ UiInv(OpenBookmark(ui, mark, how, luck))
          /\ OpenBookmark(ui, mark, how, luck).dirty = TRUE
      BY <1>1, <3>5, <3>6, BookmarkOpens
    <3>. QED
      BY <1>2, <3>2, <3>7
  <2>. QED
    BY <2>1, <2>2
<1>5. CASE ReaderOk
  <2>1. CASE ui.translating
    <3>1. Leaves(EnterTranslationSurahPicker(ui)) /\ ui.mode = "reader" /\ ui.translating = TRUE
      BY <1>1, <1>5, <2>1 DEF ReaderOk, On, FilesMatch, FilesTyped
    <3>. QED
      BY <1>1, <1>2, <3>1, TranslationListShown
  <2>2. CASE ~ ui.translating
    <3>1. PICK p \in 1..Pages : Leaves([ui EXCEPT !.page = p, !.dirty = TRUE])
      BY <1>5, <2>2 DEF ReaderOk
    <3>2. PICK r : r = [ui EXCEPT !.page = p, !.dirty = TRUE]
      OBVIOUS
    <3>3. Same(r, ui, {"page", "dirty"}) /\ r.page = p /\ r.dirty = TRUE
      BY <1>1, <3>2 DEF Same, Fields
    <3>4. r.surah = ui.surah /\ r.target = ui.target /\ r.jump = ui.jump
      BY <3>3 DEF Same, Fields
    <3>5. Same(r, ui, Messages \cup {"surah", "page", "jump", "target"})
      BY <3>3 DEF Same, Messages
    <3>6. UiInv(r)
      BY <1>1, <3>3, <3>4, <3>5, PlacesChange DEF RowsTyped
    <3>. QED
      BY <1>2, <3>1, <3>2, <3>3, <3>6
  <2>. QED
    BY <2>1, <2>2
<1>6. CASE PagesOk
  <2>1. PICK r : r = IF ui.jump
                     THEN [ui EXCEPT !.jump = FALSE, !.page = ui.target, !.target = 1, !.dirty = TRUE]
                     ELSE [ui EXCEPT !.jump = TRUE, !.target = ui.page, !.dirty = TRUE]
    OBVIOUS
  <2>2. Leaves(r)
    BY <1>6, <2>1 DEF PagesOk
  <2>3. /\ Same(r, ui, {"jump", "page", "target", "dirty"}) /\ r.dirty = TRUE
        /\ r.jump \in BOOLEAN /\ r.page \in {ui.page, ui.target} /\ r.target \in {1, ui.page}
    <3>1. CASE ui.jump
      <4>1. r = [ui EXCEPT !.jump = FALSE, !.page = ui.target, !.target = 1, !.dirty = TRUE]
        BY <2>1, <3>1
      <4>. QED
        BY <1>1, <4>1 DEF Same, Fields
    <3>2. CASE ~ ui.jump
      <4>1. r = [ui EXCEPT !.jump = TRUE, !.target = ui.page, !.dirty = TRUE]
        BY <2>1, <3>2
      <4>. QED
        BY <1>1, <4>1 DEF Same, Fields
    <3>. QED
      BY <3>1, <3>2
  <2>4. r.surah = ui.surah
    BY <2>3 DEF Same, Fields
  <2>5. Same(r, ui, Messages \cup {"surah", "page", "jump", "target"})
    BY <2>3 DEF Same, Messages
  <2>6. 1 \in 1..Pages
    BY ScreensAssumption
  <2>7. UiInv(r)
    BY <1>1, <2>3, <2>4, <2>5, <2>6, PlacesChange DEF RowsTyped
  <2>. QED
    BY <1>2, <2>2, <2>3, <2>7
<1>7. CASE OpenSelectedSurah
  <2>. DEFINE surah == ui.pick + 1
  <2>1. CASE ui.pick >= SurahPickerTotal(ui)
    BY <1>3, <1>7, <2>1 DEF OpenSelectedSurah
  <2>2. CASE ~ ui.pick >= SurahPickerTotal(ui)
    <3>1. ui.mode = "picker" /\ surah \in 1..Surahs /\ 1 \in 1..Pages
      <4>1. SurahPickerTotal(ui) \in 0..Surahs /\ ui.pick \in Nat /\ Surahs \in Nat
        BY <1>1, ScreensAssumption DEF SurahPickerTotal, RowsTyped
      <4>2. surah \in 1..Surahs
        BY <2>2, <4>1
      <4>. QED
        BY <1>7, <4>2, ScreensAssumption DEF OpenSelectedSurah, On
    <3>2. CASE ui.pickTrans
      <4>1. PICK v, r : v = ShowTranslationSurah(ui, surah, 1) /\ r = [v EXCEPT !.mode = "reader"]
        OBVIOUS
      <4>2. Leaves(r)
        BY <1>7, <2>2, <3>2, <4>1 DEF OpenSelectedSurah
      <4>3. /\ Same(v, ui, {"surah", "page", "translating", "dirty"}) /\ v.translating = TRUE
            /\ v.dirty = TRUE /\ RowsTyped(v)
        <5>. HIDE DEF surah
        <5>. QED
          BY <1>1, <3>1, <4>1, TranslationShown DEF FilesMatch
      <4>4. Same(r, v, {"mode"}) /\ r.mode = "reader"
        BY <4>1, <4>3 DEF Same, Fields
      <4>5. /\ Same(r, ui, {"surah", "page", "translating", "dirty", "mode"})
            /\ r.translating = TRUE /\ r.dirty = TRUE
        BY <4>3, <4>4 DEF Same, Fields
      <4>6. /\ r.pool = ui.pool /\ r.quran = ui.quran /\ r.pages = ui.pages /\ r.trans = ui.trans
            /\ r.pickTrans = ui.pickTrans /\ DOMAIN r = Fields
            /\ r.top = ui.top /\ r.selected = ui.selected
        BY <4>5 DEF Same, Fields
      <4>7. TransOpen(ui)
        BY <1>1, <3>1, <3>2 DEF TransOpen, FilesMatch, NeedsQuran, NeedsTrans, Held
      <4>8. TransOpen(r)
        BY <4>4, <4>5, <4>6, <4>7 DEF TransOpen, FilesTyped, InUse, Modes
      <4>9. RowsTyped(r)
        <5>1. /\ r.surah = v.surah /\ r.page = v.page /\ r.target = v.target /\ r.book = v.book
              /\ r.last = v.last /\ r.listed = v.listed /\ r.jump = v.jump /\ r.marks = v.marks
              /\ r.markRow = v.markRow /\ r.pick = v.pick /\ r.pickTop = v.pickTop
              /\ r.view = v.view /\ r.selected = v.selected /\ r.top = v.top
          BY <4>4 DEF Same, Fields
        <5>. QED
          BY <4>3, <5>1 DEF RowsTyped
      <4>10. r.top <= r.selected /\ r.selected < r.top + VisibleRows
        BY <1>1, <4>6 DEF InView
      <4>11. UiInv(r)
        BY <4>4, <4>5, <4>8, <4>9, <4>10, TranslationUp
      <4>. QED
        BY <1>2, <4>2, <4>5, <4>11
    <3>3. CASE ~ ui.pickTrans
      <4>1. PICK t, r : t = Show(ui, "quran") /\ r = [t EXCEPT !.surah = surah, !.page = 1]
        OBVIOUS
      <4>2. Leaves(r) \/ Leaves(ui)
        BY <1>7, <2>2, <3>3, <4>1 DEF OpenSelectedSurah
      <4>3. Same(t, ui, {"mode", "dirty"}) /\ t.mode = "quran" /\ t.dirty = TRUE /\ RowsTyped(t)
        BY <1>1, <4>1, ShowChanges
      <4>4. /\ Same(r, t, {"surah", "page"}) /\ r.surah = surah /\ r.page = 1
            /\ r.mode = "quran" /\ r.dirty = TRUE
        BY <4>1, <4>3 DEF Same, Fields
      <4>5. Same(r, ui, {"surah", "page", "mode", "dirty"})
        BY <4>3, <4>4 DEF Same
      <4>6. /\ r.pool = ui.pool /\ r.quran = ui.quran /\ r.pages = ui.pages /\ r.trans = ui.trans
            /\ r.translating = ui.translating /\ r.pickTrans = ui.pickTrans /\ DOMAIN r = Fields
            /\ r.top = ui.top /\ r.selected = ui.selected
        BY <4>5 DEF Same, Fields
      <4>7. QuranOpen(ui)
        BY <1>1, <3>1, <3>3 DEF QuranOpen, FilesMatch, NeedsQuran, NeedsTrans, Held
      <4>8. QuranOpen(r)
        BY <4>4, <4>6, <4>7 DEF QuranOpen, FilesTyped, InUse, Modes
      <4>9. RowsTyped(r)
        <5>1. /\ r.target = t.target /\ r.book = t.book
              /\ r.last = t.last /\ r.listed = t.listed /\ r.jump = t.jump /\ r.marks = t.marks
              /\ r.markRow = t.markRow /\ r.pick = t.pick /\ r.pickTop = t.pickTop
              /\ r.view = t.view /\ r.selected = t.selected /\ r.top = t.top
          BY <4>4 DEF Same, Fields
        <5>. QED
          BY <3>1, <4>3, <4>4, <5>1 DEF RowsTyped
      <4>10. r.top <= r.selected /\ r.selected < r.top + VisibleRows
        BY <1>1, <4>6 DEF InView
      <4>11. UiInv(r)
        BY <4>4, <4>8, <4>9, <4>10, QuranUp
      <4>. QED
        BY <1>2, <1>3, <4>2, <4>4, <4>11
    <3>. QED
      BY <3>2, <3>3
  <2>. QED
    BY <2>1, <2>2
<1>8. CASE OtherOk
  <2>1. PICK r : r = [ui EXCEPT !.dirty = TRUE]
    OBVIOUS
  <2>2. Same(r, ui, Messages) /\ r.dirty = TRUE
    BY <1>1, <2>1 DEF Same, Fields, Messages
  <2>. QED
    BY <1>1, <1>2, <1>8, <2>1, <2>2, MessageFrame DEF OtherOk
<1>. QED
  BY <1>4, <1>5, <1>6, <1>7, <1>8, LibraryOkKept DEF Ok

(* OK held.                                                                *)
LEMMA OkHeldKept == ASSUME SInv, OkHeld PROVE Kept
<1>1. PICK s : s = [ui EXCEPT !.dirty = TRUE]
  OBVIOUS
<1>2. UiInv(ui) /\ DOMAIN ui = Fields
  BY DEF SInv, UiInv, FilesMatch, FilesTyped
<1>3. Same(s, ui, {"dirty"}) /\ s.dirty = TRUE /\ s.mode = ui.mode
  BY <1>1, <1>2 DEF Same, Fields
<1>4. UiInv(s) /\ DOMAIN s = Fields /\ RowsTyped(s)
  <2>1. Same(s, ui, Messages)
    BY <1>3 DEF Same, Messages
  <2>2. UiInv(s)
    BY <1>2, <2>1, MessageFrame
  <2>. QED
    BY <2>2 DEF UiInv, FilesMatch, FilesTyped
<1>5. ASSUME NEW r, Leaves(r), UiInv(r), r.dirty = TRUE PROVE Kept
  BY <1>5, LeavesKeeps DEF Seen
<1>6. \/ \E p \in 1..Pages : Leaves([s EXCEPT !.page = p])
      \/ ui.mode \in {"pages", "quran", "reader"} /\ Leaves(AddBookmarkHere(s))
      \/ On("bookmarks") /\ Leaves(DeleteSelectedBookmark(s))
      \/ \E said \in {ui.said, "why"} : Leaves([s EXCEPT !.said = said])
  BY <1>1 DEF OkHeld, On
<1>7. ASSUME NEW p \in 1..Pages, Leaves([s EXCEPT !.page = p]) PROVE Kept
  <2>1. PICK r : r = [s EXCEPT !.page = p]
    OBVIOUS
  <2>2. Same(r, s, {"page"}) /\ r.page = p /\ r.dirty = TRUE
    BY <1>3, <1>4, <2>1 DEF Same, Fields
  <2>3. r.surah = s.surah /\ r.target = s.target /\ r.jump = s.jump
    BY <2>2 DEF Same, Fields
  <2>4. Same(r, s, Messages \cup {"surah", "page", "jump", "target"})
    BY <2>2 DEF Same
  <2>5. UiInv(r)
    BY <1>4, <2>2, <2>3, <2>4, PlacesChange DEF RowsTyped
  <2>. QED
    BY <1>5, <1>7, <2>1, <2>2, <2>5
<1>8. ASSUME ui.mode \in {"pages", "quran", "reader"}, Leaves(AddBookmarkHere(s)) PROVE Kept
  <2>1. s.mode # "bookmarks"
    BY <1>3, <1>8
  <2>. QED
    BY <1>4, <1>5, <1>8, <2>1, MarkAdded
<1>9. ASSUME On("bookmarks"), Leaves(DeleteSelectedBookmark(s)) PROVE Kept
  <2>1. s.mode = "bookmarks"
    BY <1>3, <1>9 DEF On
  <2>2. /\ UiInv(DeleteSelectedBookmark(s))
        /\ DeleteSelectedBookmark(s) = s \/ DeleteSelectedBookmark(s).dirty = TRUE
    BY <1>4, <2>1, MarkDeleted
  <2>. QED
    BY <1>3, <1>5, <1>9, <2>2
<1>10. ASSUME NEW said \in {ui.said, "why"}, Leaves([s EXCEPT !.said = said]) PROVE Kept
  <2>1. PICK r : r = [s EXCEPT !.said = said]
    OBVIOUS
  <2>2. Same(r, s, Messages) /\ r.dirty = TRUE
    BY <1>3, <1>4, <2>1 DEF Same, Fields, Messages
  <2>. QED
    BY <1>4, <1>5, <1>10, <2>1, <2>2, MessageFrame
<1>. QED
  BY <1>6, <1>7, <1>8, <1>9, <1>10


-----------------------------------------------------------------------------
(* The wheel                                                               *)

(* A wheel event moves a row or a page within its bounds.                  *)
LEMMA WheelKept == ASSUME SInv, NEW delta \in Deltas, Wheel(delta) PROVE Kept
<1>1. /\ UiInv(ui) /\ DOMAIN ui = Fields /\ RowsTyped(ui) /\ FilesMatch(ui) /\ InView(ui)
      /\ index \in Seq(Packages)
  BY DEF SInv, UiInv, FilesMatch, FilesTyped
<1>2. /\ delta \in Int /\ Pages \in Nat \ {0} /\ Surahs \in Nat \ {0}
      /\ VisibleRows \in Nat \ {0} /\ PickerRows \in Nat \ {0}
  BY ScreensAssumption
<1>3. ASSUME NEW r, Leaves(r), UiInv(r), r.dirty = TRUE PROVE Kept
  BY <1>3, LeavesKeeps DEF Seen
<1>4. ASSUME Leaves(ui) PROVE Kept
  BY <1>1, <1>4, LeavesKeeps DEF Seen
<1>5. ASSUME NEW r, Leaves(r), r.dirty = TRUE,
             Same(r, ui, {"surah", "page", "target", "translating", "dirty"}),
             r.surah \in 1..Surahs, r.page \in 1..Pages, r.target \in 1..Pages,
             r.translating = ui.translating
      PROVE  Kept
  <2>1. r.jump = ui.jump /\ Same(r, ui, Messages \cup {"surah", "page", "jump", "target"})
    BY <1>5 DEF Same, Fields, Messages
  <2>2. UiInv(r)
    BY <1>1, <1>5, <2>1, PlacesChange DEF RowsTyped
  <2>. QED
    BY <1>3, <1>5, <2>2
<1>6. ASSUME MoveLibrarySelection(delta) PROVE Kept
  <2>. DEFINE count == RowCount(ui.state[1], ui.state[2])
              row   == Limit(ui.selected + delta, 0, count - 1)
  <2>1. PICK r : r = [ui EXCEPT !.selected = row, !.top = Scroll(@, row, VisibleRows),
                                !.said = "", !.dirty = TRUE]
    OBVIOUS
  <2>2. Leaves(ui) \/ Leaves(r)
    BY <1>6, <2>1 DEF MoveLibrarySelection
  <2>3. count \in Nat /\ count >= 1
    <3>1. CASE ui.state[1] = "categories"
      <4>1. count = Len(Types) + Len(Tiles)
        BY <3>1 DEF RowCount
      <4>. QED
        BY <4>1 DEF Types, Tiles
    <3>2. CASE ui.state[1] # "categories"
      <4>1. count = CountOfType(ui.state[2]) + 1
        BY <3>2 DEF RowCount
      <4>2. CountOfType(ui.state[2]) \in Nat
        BY <1>1, EntryInIndex
      <4>. QED
        BY <4>1, <4>2
    <3>. QED
      BY <3>1, <3>2
  <2>. HIDE DEF count
  <2>4. row \in Nat
    <3>1. ui.selected + delta \in Int /\ 0 \in Int /\ count - 1 \in Int /\ 0 <= count - 1
      BY <1>1, <1>2, <2>3 DEF RowsTyped
    <3>2. row \in 0..(count - 1)
      BY <3>1, LimitBetween
    <3>. HIDE DEF row
    <3>. QED
      BY <2>3, <3>2
  <2>. HIDE DEF row
  <2>5. /\ Same(r, ui, {"selected", "top", "said", "dirty"}) /\ r.dirty = TRUE
        /\ r.selected = row /\ r.top = Scroll(ui.top, row, VisibleRows)
    BY <1>1, <2>1 DEF Same, Fields
  <2>6. r.top \in Nat /\ r.top <= row /\ row < r.top + VisibleRows
    <3>1. ui.top \in Nat
      BY <1>1 DEF RowsTyped
    <3>2. /\ Scroll(ui.top, row, VisibleRows) \in Nat /\ Scroll(ui.top, row, VisibleRows) <= row
          /\ row < Scroll(ui.top, row, VisibleRows) + VisibleRows
      BY <1>2, <2>4, <3>1, ScrollKeepsRow
    <3>. QED
      BY <2>5, <3>2
  <2>7. /\ r.surah = ui.surah /\ r.page = ui.page /\ r.target = ui.target /\ r.book = ui.book
        /\ r.last = ui.last /\ r.listed = ui.listed /\ r.jump = ui.jump /\ r.marks = ui.marks
        /\ r.markRow = ui.markRow /\ r.pick = ui.pick /\ r.pickTop = ui.pickTop
        /\ r.view = ui.view /\ r.mode = ui.mode /\ r.pickTrans = ui.pickTrans
    BY <2>5 DEF Same, Fields
  <2>8. RowsTyped(r)
    BY <1>1, <2>4, <2>5, <2>6, <2>7 DEF RowsTyped
  <2>9. InView(r)
    BY <1>1, <2>5, <2>6, <2>7 DEF InView, MarkRows, SurahPickerTotal
  <2>10. Same(r, ui, Messages \cup Tidied \cup {"view", "selected", "top", "marks"})
    BY <2>5 DEF Same, Messages
  <2>. QED
    BY <1>1, <1>3, <1>4, <2>2, <2>5, <2>8, <2>9, <2>10, RowFrame
<1>7. ASSUME MoveMark(delta) PROVE Kept
  <2>. DEFINE total == MarkRows(ui)
              row   == IF total = 0 THEN 0 ELSE Limit(ui.markRow + delta, 0, total - 1)
  <2>1. PICK r : r = [ui EXCEPT !.markRow = row, !.markSaid = "", !.dirty = TRUE]
    OBVIOUS
  <2>2. Leaves(ui) \/ Leaves(r)
    BY <1>7, <2>1 DEF MoveMark
  <2>3. total \in Nat /\ ui.markRow \in Nat
    BY <1>1, MarkRowsNumber DEF RowsTyped
  <2>. HIDE DEF total
  <2>4. row \in Nat /\ (total > 0 => row < total)
    <3>1. CASE total = 0
      BY <3>1
    <3>2. CASE total # 0
      <4>1. ui.markRow + delta \in Int /\ 0 \in Int /\ total - 1 \in Int /\ 0 <= total - 1
        BY <1>2, <2>3, <3>2
      <4>2. Limit(ui.markRow + delta, 0, total - 1) \in 0..(total - 1)
        BY <4>1, LimitBetween
      <4>. QED
        BY <2>3, <3>2, <4>2
    <3>. QED
      BY <3>1, <3>2
  <2>. HIDE DEF row
  <2>5. Same(r, ui, {"markRow", "markSaid", "dirty"}) /\ r.dirty = TRUE /\ r.markRow = row
    BY <1>1, <2>1 DEF Same, Fields
  <2>6. /\ r.surah = ui.surah /\ r.page = ui.page /\ r.target = ui.target /\ r.book = ui.book
        /\ r.last = ui.last /\ r.listed = ui.listed /\ r.jump = ui.jump /\ r.marks = ui.marks
        /\ r.pick = ui.pick /\ r.pickTop = ui.pickTop /\ r.selected = ui.selected
        /\ r.top = ui.top /\ r.view = ui.view /\ r.mode = ui.mode /\ r.pickTrans = ui.pickTrans
    BY <2>5 DEF Same, Fields
  <2>7. MarkRows(r) = total
    BY <2>6 DEF MarkRows, total
  <2>8. RowsTyped(r)
    BY <1>1, <2>4, <2>5, <2>6 DEF RowsTyped
  <2>9. InView(r)
    BY <1>1, <2>4, <2>5, <2>6, <2>7 DEF InView, SurahPickerTotal
  <2>10. Same(r, ui, Messages \cup Tidied \cup {"view", "selected", "top", "marks"})
    BY <2>5 DEF Same, Messages, Tidied
  <2>. QED
    BY <1>1, <1>3, <1>4, <2>2, <2>5, <2>8, <2>9, <2>10, RowFrame
<1>8. ASSUME MoveSurahPickerSelection(delta) PROVE Kept
  <2>. DEFINE total == SurahPickerTotal(ui)
              row   == Limit(ui.pick + delta, 0, total - 1)
  <2>1. PICK r : r = [ui EXCEPT !.pick = row, !.pickTop = Scroll(@, row, PickerRows), !.dirty = TRUE]
    OBVIOUS
  <2>2. Leaves(ui) \/ (total # 0 /\ Leaves(r))
    <3>1. Leaves(IF total = 0 \/ row = ui.pick THEN ui ELSE r)
      BY <1>8, <2>1 DEF MoveSurahPickerSelection
    <3>. HIDE DEF total, row
    <3>2. CASE total = 0 \/ row = ui.pick
      BY <3>1, <3>2
    <3>3. CASE ~ (total = 0 \/ row = ui.pick)
      BY <3>1, <3>3
    <3>. QED
      BY <3>2, <3>3
  <2>3. total \in Nat /\ ui.pick \in Nat /\ ui.pickTop \in Nat
    BY <1>1, <1>2 DEF SurahPickerTotal, RowsTyped
  <2>. HIDE DEF total
  <2>4. total # 0 => row \in Nat /\ row < total
    <3>1. CASE total # 0
      <4>1. ui.pick + delta \in Int /\ 0 \in Int /\ total - 1 \in Int /\ 0 <= total - 1
        BY <1>2, <2>3, <3>1
      <4>2. Limit(ui.pick + delta, 0, total - 1) \in 0..(total - 1)
        BY <4>1, LimitBetween
      <4>. QED
        BY <2>3, <3>1, <4>2
    <3>. QED
      BY <3>1
  <2>. HIDE DEF row
  <2>5. /\ Same(r, ui, {"pick", "pickTop", "dirty"}) /\ r.dirty = TRUE /\ r.pick = row
        /\ r.pickTop = Scroll(ui.pickTop, row, PickerRows)
    BY <1>1, <2>1 DEF Same, Fields
  <2>6. total # 0 => r.pickTop \in Nat /\ r.pickTop <= row /\ row < r.pickTop + PickerRows
    <3>1. ASSUME total # 0
          PROVE  /\ Scroll(ui.pickTop, row, PickerRows) \in Nat
                 /\ Scroll(ui.pickTop, row, PickerRows) <= row
                 /\ row < Scroll(ui.pickTop, row, PickerRows) + PickerRows
      BY <1>2, <2>3, <2>4, <3>1, ScrollKeepsRow
    <3>. QED
      BY <2>5, <3>1
  <2>7. /\ r.surah = ui.surah /\ r.page = ui.page /\ r.target = ui.target /\ r.book = ui.book
        /\ r.last = ui.last /\ r.listed = ui.listed /\ r.jump = ui.jump /\ r.marks = ui.marks
        /\ r.markRow = ui.markRow /\ r.selected = ui.selected
        /\ r.top = ui.top /\ r.view = ui.view /\ r.mode = ui.mode /\ r.pickTrans = ui.pickTrans
    BY <2>5 DEF Same, Fields
  <2>8. SurahPickerTotal(r) = total
    BY <2>7 DEF SurahPickerTotal, total
  <2>9. total # 0 => RowsTyped(r)
    BY <1>1, <2>4, <2>5, <2>6, <2>7 DEF RowsTyped
  <2>10. total # 0 => InView(r)
    BY <1>1, <2>4, <2>5, <2>6, <2>7, <2>8 DEF InView, MarkRows
  <2>11. Same(r, ui, Messages \cup Tidied \cup {"view", "selected", "top", "marks"})
    BY <2>5 DEF Same, Messages, Tidied
  <2>. QED
    BY <1>1, <1>3, <1>4, <2>2, <2>5, <2>9, <2>10, <2>11, RowFrame
<1>9. ASSUME TurnReader(delta) PROVE Kept
  <2>. DEFINE next == ui.page + delta
              to   == Limit(next, 1, Pages)
  <2>1. to \in 1..Pages
    <3>1. next \in Int /\ 1 \in Int /\ Pages \in Int /\ 1 <= Pages
      BY <1>1, <1>2 DEF RowsTyped
    <3>. HIDE DEF next
    <3>. QED
      BY <3>1, LimitBetween
  <2>2. PICK f, b, r : /\ f = ShowTranslationSurah(ui, ui.surah + 1, 1)
                       /\ b = ShowTranslationSurah(ui, ui.surah - 1, Pages)
                       /\ r = [ui EXCEPT !.page = to, !.dirty = TRUE]
    OBVIOUS
  <2>3. \/ ui.translating /\ ui.surah < ui.listed /\ Leaves(f)
        \/ ui.translating /\ ui.surah > 1 /\ Leaves(b)
        \/ Leaves(ui)
        \/ Leaves(r)
    BY <1>9, <2>2 DEF TurnReader
  <2>. HIDE DEF to
  <2>4. ui.surah \in 1..Surahs /\ ui.listed \in 0..Surahs /\ ui.page \in 1..Pages /\ ui.target \in 1..Pages
    BY <1>1 DEF RowsTyped
  <2>5. CASE ui.translating /\ ui.surah < ui.listed /\ Leaves(f)
    <3>1. ui.surah + 1 \in 1..Surahs /\ 1 \in 1..Pages
      BY <1>2, <2>4, <2>5
    <3>2. /\ Same(f, ui, {"surah", "page", "translating", "dirty"}) /\ f.translating = TRUE
          /\ f.dirty = TRUE /\ RowsTyped(f)
      BY <1>1, <2>2, <3>1, TranslationShown DEF FilesMatch
    <3>3. f.translating = ui.translating
      BY <1>1, <2>5, <3>2 DEF FilesMatch, FilesTyped
    <3>4. Same(f, ui, {"surah", "page", "target", "translating", "dirty"})
      BY <3>2 DEF Same
    <3>. QED
      BY <1>5, <2>5, <3>2, <3>3, <3>4 DEF RowsTyped
  <2>6. CASE ui.translating /\ ui.surah > 1 /\ Leaves(b)
    <3>1. ui.surah - 1 \in 1..Surahs /\ Pages \in 1..Pages
      BY <1>2, <2>4, <2>6
    <3>2. /\ Same(b, ui, {"surah", "page", "translating", "dirty"}) /\ b.translating = TRUE
          /\ b.dirty = TRUE /\ RowsTyped(b)
      BY <1>1, <2>2, <3>1, TranslationShown DEF FilesMatch
    <3>3. b.translating = ui.translating
      BY <1>1, <2>6, <3>2 DEF FilesMatch, FilesTyped
    <3>4. Same(b, ui, {"surah", "page", "target", "translating", "dirty"})
      BY <3>2 DEF Same
    <3>. QED
      BY <1>5, <2>6, <3>2, <3>3, <3>4 DEF RowsTyped
  <2>7. CASE Leaves(r)
    <3>1. Same(r, ui, {"page", "dirty"}) /\ r.page = to /\ r.dirty = TRUE
      BY <1>1, <2>2 DEF Same, Fields
    <3>2. r.surah = ui.surah /\ r.target = ui.target /\ r.translating = ui.translating
      BY <3>1 DEF Same, Fields
    <3>3. Same(r, ui, {"surah", "page", "target", "translating", "dirty"})
      BY <3>1 DEF Same
    <3>. QED
      BY <1>5, <2>1, <2>4, <2>7, <3>1, <3>2, <3>3
  <2>. QED
    BY <1>4, <2>3, <2>5, <2>6, <2>7
<1>10. ASSUME TurnPages(delta) PROVE Kept
  <2>. DEFINE from == IF ui.jump THEN ui.target ELSE ui.page
              to   == Limit(from + delta, 1, Pages)
  <2>1. PICK t, p : /\ t = [ui EXCEPT !.target = to, !.dirty = TRUE]
                    /\ p = [ui EXCEPT !.page = to, !.dirty = TRUE]
    OBVIOUS
  <2>2. Leaves(ui) \/ Leaves(t) \/ Leaves(p)
    BY <1>10, <2>1 DEF TurnPages
  <2>3. ui.surah \in 1..Surahs /\ ui.page \in 1..Pages /\ ui.target \in 1..Pages
    BY <1>1 DEF RowsTyped
  <2>4. to \in 1..Pages
    <3>1. from + delta \in Int /\ 1 \in Int /\ Pages \in Int /\ 1 <= Pages
      BY <1>2, <2>3
    <3>. HIDE DEF from
    <3>. QED
      BY <3>1, LimitBetween
  <2>. HIDE DEF to
  <2>5. Same(t, ui, {"target", "dirty"}) /\ t.target = to /\ t.dirty = TRUE
    BY <1>1, <2>1 DEF Same, Fields
  <2>6. t.surah = ui.surah /\ t.page = ui.page /\ t.translating = ui.translating
    BY <2>5 DEF Same, Fields
  <2>7. Same(p, ui, {"page", "dirty"}) /\ p.page = to /\ p.dirty = TRUE
    BY <1>1, <2>1 DEF Same, Fields
  <2>8. p.surah = ui.surah /\ p.target = ui.target /\ p.translating = ui.translating
    BY <2>7 DEF Same, Fields
  <2>9. /\ Same(t, ui, {"surah", "page", "target", "translating", "dirty"})
        /\ Same(p, ui, {"surah", "page", "target", "translating", "dirty"})
    BY <2>5, <2>7 DEF Same
  <2>10. CASE Leaves(t)
    BY <1>5, <2>3, <2>4, <2>5, <2>6, <2>9, <2>10
  <2>11. CASE Leaves(p)
    BY <1>5, <2>3, <2>4, <2>7, <2>8, <2>9, <2>11
  <2>. QED
    BY <1>4, <2>2, <2>10, <2>11
<1>11. ASSUME TurnQuran PROVE Kept
  <2>1. PICK p \in 1..Pages, n \in 1..Surahs :
          Leaves([ui EXCEPT !.page = p, !.surah = n, !.dirty = TRUE])
    BY <1>11 DEF TurnQuran
  <2>2. PICK r : r = [ui EXCEPT !.page = p, !.surah = n, !.dirty = TRUE]
    OBVIOUS
  <2>3. Same(r, ui, {"page", "surah", "dirty"}) /\ r.page = p /\ r.surah = n /\ r.dirty = TRUE
    BY <1>1, <2>2 DEF Same, Fields
  <2>4. r.target = ui.target /\ r.translating = ui.translating /\ ui.target \in 1..Pages
    BY <1>1, <2>3 DEF Same, Fields, RowsTyped
  <2>5. Same(r, ui, {"surah", "page", "target", "translating", "dirty"})
    BY <2>3 DEF Same
  <2>. QED
    BY <1>5, <2>1, <2>2, <2>3, <2>4, <2>5
<1>12. ASSUME Leaves([ui EXCEPT !.dirty = TRUE]) PROVE Kept
  <2>1. PICK r : r = [ui EXCEPT !.dirty = TRUE]
    OBVIOUS
  <2>2. Same(r, ui, Messages) /\ r.dirty = TRUE
    BY <1>1, <2>1 DEF Same, Fields, Messages
  <2>. QED
    BY <1>1, <1>3, <1>12, <2>1, <2>2, MessageFrame
<1>. QED
  BY <1>6, <1>7, <1>8, <1>9, <1>10, <1>11, <1>12 DEF Wheel


-----------------------------------------------------------------------------
(* The theorems                                                            *)

(* At power-up the clock is to be drawn, and nothing is open.              *)
LEMMA ScreensStart == ScreensInit => SInv /\ GlassIsCurrent
<1>. SUFFICES ASSUME ScreensInit PROVE SInv /\ GlassIsCurrent
  OBVIOUS
<1>1. index \in Seq(Packages)
  <2>1. MaxEntries \in Nat
    BY ScreensAssumption
  <2>2. index \in UNION {[1..n -> Packages] : n \in 0..MaxEntries}
    BY DEF ScreensInit
  <2>3. PICK n \in 0..MaxEntries : index \in [1..n -> Packages]
    BY <2>2
  <2>4. n \in Nat
    BY <2>1
  <2>. QED
    BY <2>3, <2>4
<1>2. /\ DOMAIN ui = Fields /\ ui.mode = "home" /\ ui.pool = [i \in Slots |-> None]
      /\ ui.quran = 0 /\ ui.pages = 0 /\ ui.trans = 0 /\ ui.translating = FALSE
      /\ ui.pickTrans = FALSE /\ ui.homePending = TRUE
  BY DEF ScreensInit, Fields
<1>3. /\ ui.surah = 1 /\ ui.page = 1 /\ ui.target = 1 /\ ui.book = None /\ ui.last = None
      /\ ui.listed = 0 /\ ui.jump = FALSE /\ ui.view = "categories" /\ ui.marks = <<>>
      /\ ui.markRow = 0 /\ ui.pick = 0 /\ ui.pickTop = 0 /\ ui.selected = 0 /\ ui.top = 0
  BY DEF ScreensInit
<1>4. /\ Surahs \in Nat \ {0} /\ Pages \in Nat \ {0} /\ VisibleRows \in Nat \ {0}
      /\ MaxOpenFiles \in Nat \ {0}
  BY ScreensAssumption
<1>5. FilesMatch(ui)
  <2>1. FilesTyped(ui)
    <3>1. 0 \in 0..MaxOpenFiles
      BY <1>4
    <3>2. DOMAIN ui.pool = Slots
      BY <1>2
    <3>3. ui.mode \in Modes
      BY <1>2 DEF Modes
    <3>. QED
      BY <1>2, <3>1, <3>2, <3>3 DEF FilesTyped
  <2>2. InUse(ui) = {} /\ Held(ui) = {}
    BY <1>2 DEF InUse, Held
  <2>3. ~ NeedsQuran(ui) /\ ~ NeedsTrans(ui)
    BY <1>2 DEF NeedsQuran, NeedsTrans
  <2>. QED
    BY <1>2, <2>1, <2>2, <2>3 DEF FilesMatch
<1>6. RowsTyped(ui)
  <2>1. ui.marks \in Seq(Marks)
    BY <1>3
  <2>2. /\ ui.surah \in 1..Surahs /\ ui.page \in 1..Pages /\ ui.target \in 1..Pages
        /\ ui.listed \in 0..Surahs
    BY <1>3, <1>4
  <2>3. /\ ui.markRow \in Nat /\ ui.pick \in Nat /\ ui.pickTop \in Nat
        /\ ui.selected \in Nat /\ ui.top \in Nat
    BY <1>3
  <2>4. /\ ui.book \in Packages \cup {None} /\ ui.last \in Packages \cup {None}
        /\ ui.jump \in BOOLEAN /\ ui.view \in {"categories", "items"}
    BY <1>3
  <2>. QED
    BY <2>1, <2>2, <2>3, <2>4 DEF RowsTyped
<1>7. InView(ui)
  <2>1. 0 <= 0 /\ 0 < 0 + VisibleRows
    BY <1>4
  <2>. QED
    BY <1>2, <1>3, <2>1 DEF InView
<1>. QED
  BY <1>1, <1>2, <1>5, <1>6, <1>7 DEF SInv, UiInv, GlassIsCurrent

(* Every step keeps what a screen needs and what its picture shows.        *)
LEMMA ScreensStep == ASSUME SInv, [ScreensNext]_screenVars PROVE Kept
<1>1. UiInv(ui) /\ DOMAIN ui = Fields /\ index \in Seq(Packages)
  BY DEF SInv, UiInv, FilesMatch, FilesTyped
<1>2. ASSUME ExitHeld PROVE Kept
  <2>1. PICK r : r = [ui EXCEPT !.dirty = TRUE]
    OBVIOUS
  <2>2. Draws(r)
    BY <1>2, <2>1 DEF ExitHeld
  <2>3. Same(r, ui, Messages)
    BY <1>1, <2>1 DEF Same, Fields, Messages
  <2>. QED
    BY <1>1, <2>2, <2>3, MessageFrame, DrawsKeeps
<1>3. ASSUME UNCHANGED <<ui, fresh>>, index' \in Seq(Packages) PROVE Kept
  BY <1>1, <1>3 DEF Kept, SInv, GlassIsCurrent
<1>4. ASSUME Installed PROVE Kept
  <2>1. PICK id \in Packages : index' = Append(index, id)
    BY <1>4 DEF Installed
  <2>2. Append(index, id) \in Seq(Packages)
    BY <1>1, AppendProperties
  <2>. QED
    BY <1>3, <1>4, <2>1, <2>2 DEF Installed
<1>5. ASSUME Deleted PROVE Kept
  <2>1. PICK i \in DOMAIN index : index' = Without(index, i)
    BY <1>5 DEF Deleted
  <2>2. i \in 1..(Len(index) + 1)
    BY <1>1, LenProperties
  <2>3. Without(index, i) \in Seq(Packages)
    BY <1>1, <2>2, WithoutOne
  <2>. QED
    BY <1>3, <1>5, <2>1, <2>3 DEF Deleted
<1>6. ASSUME Repaint PROVE Kept
  BY <1>1, <1>6, DrawsKeeps DEF Repaint
<1>7. ASSUME PollHomeScreen PROVE Kept
  <2>1. ui' = [ui EXCEPT !.homePending = FALSE] /\ fresh' = TRUE /\ index' = index
    BY <1>7 DEF PollHomeScreen
  <2>2. Same(ui', ui, Messages)
    BY <1>1, <2>1 DEF Same, Fields, Messages
  <2>3. UiInv(ui')
    BY <1>1, <2>2, MessageFrame
  <2>. QED
    BY <1>1, <2>1, <2>3 DEF Kept, SInv, GlassIsCurrent
<1>8. ASSUME UNCHANGED screenVars PROVE Kept
  BY <1>1, <1>3, <1>8 DEF screenVars
<1>. QED
  BY <1>2, <1>4, <1>5, <1>6, <1>7, <1>8, MenuKept, ExitKept, OkKept, OkHeldKept, WheelKept
     DEF ScreensNext

(* What handleEvent() leaves behind, whatever was pressed, wherever it was *)
(* and whatever failed to open.                                            *)
THEOREM ScreensInvariance == ScreensSpec => [](SInv /\ GlassIsCurrent)
<1>1. (SInv /\ GlassIsCurrent) /\ [ScreensNext]_screenVars => (SInv /\ GlassIsCurrent)'
  BY ScreensStep DEF Kept
<1>. QED
  BY <1>1, ScreensStart, PTL DEF ScreensSpec

(* A file is open exactly while the screen that reads it is up, so         *)
(* SdStorage's handles never run out, however many there are.              *)
THEOREM HandlesAlwaysMatch == ScreensSpec => []HandlesMatchScreen
<1>1. SInv => HandlesMatchScreen
  BY DEF SInv, UiInv, FilesMatch, InUse, Held, NeedsQuran, NeedsTrans, HandlesMatchScreen
<1>. QED
  BY <1>1, ScreensInvariance, PTL

(* The glass shows what the globals say, or a repaint is asked for: no     *)
(* handler leaves an old picture up.                                       *)
THEOREM GlassAlwaysCurrent == ScreensSpec => []GlassIsCurrent
  BY ScreensInvariance, PTL

(* The selection is a row of its list, and in view.                        *)
THEOREM SelectionAlwaysInView == ScreensSpec => []SelectionInView
<1>1. SInv => SelectionInView
  <2>. SUFFICES ASSUME SInv PROVE SelectionInView
    OBVIOUS
  <2>1. /\ InView(ui) /\ ui.pick \in Nat /\ ui.pickTop \in Nat
        /\ ui.selected \in Nat /\ ui.top \in Nat
    BY DEF SInv, UiInv, RowsTyped
  <2>2. PickerRows \in Nat /\ VisibleRows \in Nat
    BY ScreensAssumption
  <2>3. ui.selected \in ui.top..(ui.top + VisibleRows - 1)
    BY <2>1, <2>2 DEF InView
  <2>4. ASSUME ui.mode = "picker"
        PROVE  /\ ui.pick < SurahPickerTotal(ui)
               /\ ui.pick \in ui.pickTop..(ui.pickTop + PickerRows - 1)
    BY <2>1, <2>2, <2>4 DEF InView
  <2>. QED
    BY <2>1, <2>3, <2>4 DEF SelectionInView, InView
<1>. QED
  BY <1>1, ScreensInvariance, PTL

(* EXIT leads one level nearer to the clock from every screen.             *)
THEOREM ExitAlwaysLeadsOut == ScreensSpec => ExitLeadsOut
<1>1. SInv /\ [ScreensNext]_screenVars =>
        [Exit => ui'.mode = "home" \/ Depth(ui') < Depth(ui)]_screenVars
  BY ExitKept
<1>. QED
  BY <1>1, ScreensInvariance, PTL DEF ScreensSpec, ExitLeadsOut
=============================================================================
