---------------------------- MODULE Readers_proofs ----------------------------
(***************************************************************************)
(* Proofs about the readers.                                               *)
(*                                                                         *)
(* PageBook, for any books, any unreadable pictures and any number of      *)
(* slots: the variables keep their types and the page drawn is the page    *)
(* the reader is on.                                                       *)
(*                                                                         *)
(* TextReader, for any texts, any text sizes and any size of the panel:    *)
(* the lines of its pages hold the whole text, and the wheel goes through  *)
(* all of them.                                                            *)
(*                                                                         *)
(* QuranPaging, for any package that is well made and any panel: the       *)
(* screens remembered follow each other, the place kept is on the screen   *)
(* and will be found again, and no word is passed over.                    *)
(*                                                                         *)
(* Readers: what holds of each holds of the three side by side.            *)
(***************************************************************************)
EXTENDS Readers, WellFoundedInduction, FiniteSetTheorems,
        SequenceTheorems, TLAPS

-----------------------------------------------------------------------------
(* Least and greatest numbers                                              *)

(* A nonempty set of numbers has a least one.                              *)
LEMMA LeastNumber ==
  ASSUME NEW S \in SUBSET Nat, S # {}
  PROVE  \E m \in S : \A k \in S : m <= k
<1>. DEFINE R == OpToRel(<, Nat)
<1>1. IsWellFoundedOn(R, Nat)
  BY NatLessThanWellFounded
<1>2. \A m, k \in Nat : m < k => <<m, k>> \in R
  BY DEF OpToRel
<1>. HIDE DEF R
<1>3. PICK m \in S : \A k \in S : ~ (<<k, m>> \in R)
  BY <1>1, WFMin
<1>4. ASSUME NEW k \in S PROVE m <= k
  <2>1. ~ (k < m)
    BY <1>2, <1>3
  <2>. QED
    BY <2>1
<1>. QED
  BY <1>4

(* A nonempty set of numbers that is bounded has a greatest one.           *)
LEMMA GreatestNumber ==
  ASSUME NEW S \in SUBSET Nat, S # {}, NEW n \in Nat, \A k \in S : k <= n
  PROVE  \E m \in S : \A k \in S : k <= m
<1>. DEFINE T == {j \in Nat : n - j \in S}
<1>1. \A k \in S : n - k \in T
  OBVIOUS
<1>2. PICK l \in T : \A j \in T : l <= j
  BY <1>1, LeastNumber
<1>3. \A k \in S : k <= n - l
  <2>. TAKE k \in S
  <2>1. l <= n - k
    BY <1>1, <1>2
  <2>. QED
    BY <2>1
<1>. QED
  BY <1>2, <1>3

(* A set of numbers that holds 0, and with each of its numbers also the    *)
(* next, holds them all.                                                   *)
LEMMA AllNumbers ==
  ASSUME NEW S, 0 \in S, \A k \in Nat : k \in S => k + 1 \in S
  PROVE  Nat \subseteq S
<1>. SUFFICES ASSUME Nat \ S # {} PROVE FALSE
  OBVIOUS
<1>1. PICK m \in Nat \ S : \A k \in Nat \ S : m <= k
  BY LeastNumber
<1>2. m # 0 /\ m - 1 \in Nat
  BY <1>1
<1>3. m - 1 \in S
  BY <1>1, <1>2
<1>4. (m - 1) + 1 = m
  BY <1>2
<1>. QED
  BY <1>1, <1>2, <1>3, <1>4

-----------------------------------------------------------------------------
(* The inductive invariant.  The slots are cleared when a book closes, so  *)
(* that the pictures in them are the open book's.                          *)

Honest(c) ==
  \A i \in 1..Slots : c[i].page # -1 =>
    Readable(c[i].page) /\ c[i].bits = Picture(book, c[i].page)
CacheTyped(c) ==
  c \in [1..Slots -> [page : {-1} \cup AnyPage,
                      bits : {NoPicture} \cup (PageBooks \X AnyPage)]]
GlassHonest ==
  book # NoBook /\ ~ glass.dirty =>
    glass.bits = IF Readable(at) THEN Picture(book, at) ELSE NoPicture

PageInv ==
  /\ PageTypeOK
  /\ book # NoBook => Honest(cache)
  /\ book = NoBook => cache = Empty /\ jump = [on |-> FALSE, to |-> 0]
  /\ GlassHonest

(* A page of a book is a page, and there is no page -1.                    *)
LEMMA PageOfBook ==
  ASSUME NEW b \in PageBooks, NEW p \in 0..(PageCount[b] - 1)
  PROVE  p \in AnyPage /\ PageCount[b] \in Nat /\ p # -1 /\ b # NoBook
BY PageBookAssumption DEF AnyPage

(* The slots of a closed book hold nothing.                                *)
LEMMA EmptyTyped == CacheTyped(Empty) /\ \A i \in 1..Slots : Empty[i].page = -1
BY DEF CacheTyped, Empty

(* The slot that is reused is one of the slots.                            *)
LEMMA VictimIsSlot ==
  ASSUME PageTypeOK
  PROVE  Victim \in 1..Slots
<1>. DEFINE free == {i \in 1..Slots : cache[i].page = -1}
            far  == {i \in 1..Slots : \A j \in 1..Slots :
                       Distance(cache[j].page) <= Distance(cache[i].page)}
<1>1. Slots \in Nat \ {0} /\ MostPages \in Nat
  BY PageBookAssumption
<1>2. CASE free # {}
  <2>1. \E i \in free : \A j \in free : i <= j
    <3>1. free \in SUBSET Nat
      OBVIOUS
    <3>. HIDE DEF free
    <3>. QED
      BY <1>2, <3>1, LeastNumber
  <2>. QED
    BY <1>2, <2>1 DEF Victim
<1>3. CASE free = {}
  <2>1. \A i \in 1..Slots : Distance(cache[i].page) \in 0..MostPages
    BY <1>1, <1>3 DEF PageTypeOK, AnyPage, Distance
  <2>2. far # {}
    <3>. DEFINE d(i) == Distance(cache[i].page)
                D    == {d(i) : i \in 1..Slots}
    <3>1. 1 \in 1..Slots /\ D \in SUBSET Nat /\ \A k \in D : k <= MostPages
      BY <1>1, <2>1
    <3>2. D # {}
      BY <3>1
    <3>. HIDE DEF d
    <3>3. \E m \in D : \A k \in D : k <= m
      <4>. HIDE DEF D
      <4>. QED
        BY <1>1, <3>1, <3>2, GreatestNumber
    <3>4. \E i \in 1..Slots : \A j \in 1..Slots : d(j) <= d(i)
      BY <3>3
    <3>. QED
      BY <3>4 DEF d
  <2>3. \E i \in far : \A j \in far : j <= i
    <3>1. far \in SUBSET Nat /\ \A k \in far : k <= Slots
      BY <1>1
    <3>. HIDE DEF far
    <3>. QED
      BY <1>1, <2>2, <3>1, GreatestNumber
  <2>. QED
    BY <1>3, <2>3 DEF Victim
<1>. QED
  BY <1>2, <1>3

(* Decoding a page leaves honest slots, and the page's picture, if it can  *)
(* be decoded, in one of them.                                             *)
LEMMA PageBitsHonest ==
  ASSUME PageInv, book # NoBook, NEW p \in 0..(PageCount[book] - 1)
  PROVE  /\ CacheTyped(PageBits(p))
         /\ Honest(PageBits(p))
         /\ Bits(PageBits(p), p) = IF Readable(p) THEN Picture(book, p) ELSE NoPicture
<1>. DEFINE new == IF Readable(p) THEN [page |-> p, bits |-> Picture(book, p)]
                                  ELSE [page |-> -1, bits |-> NoPicture]
<1>1. /\ book \in PageBooks /\ CacheTyped(cache) /\ Honest(cache)
      /\ p \in AnyPage /\ p # -1
  BY PageOfBook DEF PageInv, PageTypeOK, CacheTyped
<1>2. CASE Cached(p)
  <2>1. PageBits(p) = cache
    BY <1>2 DEF PageBits
  <2>. DEFINE k == CHOOSE i \in 1..Slots : cache[i].page = p
  <2>2. k \in 1..Slots /\ cache[k].page = p
    BY <1>2 DEF Cached
  <2>3. Bits(cache, p) = cache[k].bits
    BY <1>2 DEF Bits, Cached
  <2>4. Readable(p) /\ cache[k].bits = Picture(book, p)
    BY <1>1, <2>2 DEF Honest
  <2>. QED
    BY <1>1, <2>1, <2>3, <2>4
<1>3. CASE ~ Cached(p)
  <2>1. Victim \in 1..Slots
    BY VictimIsSlot DEF PageInv
  <2>2. PageBits(p) = [cache EXCEPT ![Victim] = new]
    BY <1>3 DEF PageBits
  <2>3. new \in [page : {-1} \cup AnyPage, bits : {NoPicture} \cup (PageBooks \X AnyPage)]
    BY <1>1 DEF Picture
  <2>4. \A i \in 1..Slots : PageBits(p)[i] = IF i = Victim THEN new ELSE cache[i]
    BY <1>1, <2>1, <2>2 DEF CacheTyped
  <2>. HIDE DEF new
  <2>5. CacheTyped(PageBits(p))
    BY <1>1, <2>1, <2>2, <2>3 DEF CacheTyped
  <2>6. Honest(PageBits(p))
    BY <1>1, <2>4 DEF Honest, new
  <2>7. CASE Readable(p)
    <3>1. new.page = p /\ new.bits = Picture(book, p)
      BY <2>7 DEF new
    <3>2. \A i \in 1..Slots : PageBits(p)[i].page = p => i = Victim
      BY <1>3, <2>4 DEF Cached
    <3>3. \E i \in 1..Slots : PageBits(p)[i].page = p
      BY <2>1, <2>4, <3>1
    <3>4. Bits(PageBits(p), p) = PageBits(p)[Victim].bits
      BY <3>2, <3>3 DEF Bits
    <3>. QED
      BY <2>1, <2>4, <2>5, <2>6, <2>7, <3>1, <3>4
  <2>8. CASE ~ Readable(p)
    <3>1. new.page = -1
      BY <2>8 DEF new
    <3>2. ~ \E i \in 1..Slots : PageBits(p)[i].page = p
      BY <1>1, <1>3, <2>4, <3>1 DEF Cached
    <3>. QED
      BY <2>5, <2>6, <2>8, <3>2 DEF Bits
  <2>. QED
    BY <2>7, <2>8
<1>. QED
  BY <1>2, <1>3

-----------------------------------------------------------------------------
(* The steps                                                               *)

Glasses == [dirty : BOOLEAN, bits : {NoPicture} \cup (PageBooks \X AnyPage)]
Jumps   == [on : BOOLEAN, to : AnyPage]

(* The type invariant of the next state, from its parts.                   *)
LEMMA PageTyped ==
  ASSUME book' \in PageBooks \cup {NoBook}, at' \in AnyPage, CacheTyped(cache'),
         prefetchFailed' \in {-1} \cup AnyPage, resume' \in Place, onCard' \in Place,
         unsaved' \in BOOLEAN, settledTurn' \in BOOLEAN, jump' \in Jumps,
         glass' \in Glasses,
         book' # NoBook => at' < PageCount[book'] /\ jump'.to < PageCount[book']
  PROVE  PageTypeOK'
BY DEF PageTypeOK, CacheTyped, Glasses, Jumps

(* The parts, in the current state.                                        *)
LEMMA PageParts ==
  ASSUME PageTypeOK
  PROVE  /\ book \in PageBooks \cup {NoBook} /\ at \in AnyPage /\ CacheTyped(cache)
         /\ prefetchFailed \in {-1} \cup AnyPage /\ resume \in Place /\ onCard \in Place
         /\ unsaved \in BOOLEAN /\ settledTurn \in BOOLEAN /\ jump \in Jumps
         /\ glass \in Glasses
         /\ book # NoBook => at < PageCount[book] /\ jump.to < PageCount[book]
BY DEF PageTypeOK, CacheTyped, Glasses, Jumps

(* A reader on the same page of the same book, with the same slots and the *)
(* same glass, keeps it; so does one that asks for a repaint.              *)
LEMMA PageFrame ==
  ASSUME PageInv, PageTypeOK', UNCHANGED <<book, cache>>,
         glass'.dirty \/ UNCHANGED <<at, glass>>, book # NoBook \/ UNCHANGED jump
  PROVE  PageInv'
BY DEF PageInv, Honest, GlassHonest, Readable

(* A page turn or a jump keeps within the book.                            *)
LEMMA ClampInBook ==
  ASSUME PageTypeOK, book # NoBook, NEW p \in Int
  PROVE  Clamp(p) \in 0..(PageCount[book] - 1)
BY PageBookAssumption DEF PageTypeOK, Clamp

(* Drawing the page.                                                       *)
LEMMA RepaintStep == ASSUME PageInv, RepaintPage PROVE PageInv'
<1>1. book # NoBook /\ book \in PageBooks /\ at \in 0..(PageCount[book] - 1)
  BY PageBookAssumption DEF RepaintPage, PageInv, PageTypeOK, AnyPage
<1>2. /\ CacheTyped(cache') /\ Honest(cache') /\ glass'.dirty = FALSE
      /\ glass'.bits = IF Readable(at) THEN Picture(book, at) ELSE NoPicture
  BY <1>1, PageBitsHonest DEF RepaintPage
<1>3. glass' \in [dirty : BOOLEAN, bits : {NoPicture} \cup (PageBooks \X AnyPage)]
  BY <1>1, <1>2, PageOfBook DEF RepaintPage, Picture
<1>4. PageTypeOK'
  BY <1>2, <1>3 DEF RepaintPage, PageInv, PageTypeOK, CacheTyped
<1>. QED
  BY <1>1, <1>2, <1>4 DEF RepaintPage, PageInv, Honest, GlassHonest, Readable

(* A pass with nothing to draw.                                            *)
LEMMA PrefetchStep == ASSUME PageInv, PollPagePrefetch PROVE PageInv'
<1>1. book # NoBook /\ book \in PageBooks /\ PageTypeOK /\ UNCHANGED <<book, at, resume, jump, glass>>
  BY DEF PollPagePrefetch, PageInv, PageTypeOK
<1>2. ASSUME NEW p \in 0..(PageCount[book] - 1), Prefetch(p)
      PROVE  PageInv'
  <2>1. CacheTyped(cache') /\ Honest(cache') /\ p \in AnyPage
    BY <1>1, <1>2, PageBitsHonest, PageOfBook DEF Prefetch
  <2>2. PageTypeOK'
    BY <1>1, <1>2, <2>1, PageParts, PageTyped DEF Prefetch
  <2>. QED
    BY <1>1, <2>1, <2>2 DEF PageInv, Honest, GlassHonest, Readable
<1>3. CASE unsaved' = FALSE /\ onCard' = [id |-> resume.id, page |-> at]
           /\ settledTurn' = FALSE /\ UNCHANGED <<cache, prefetchFailed>>
  <2>1. onCard' \in Place
    BY <1>1, <1>3 DEF PageTypeOK, Place
  <2>2. PageTypeOK'
    BY <1>1, <1>3, <2>1, PageParts, PageTyped
  <2>. QED
    BY <1>1, <1>3, <2>2, PageFrame
<1>4. \/ \E p \in 0..(PageCount[book] - 1) : Prefetch(p)
      \/ /\ unsaved' = FALSE /\ onCard' = [id |-> resume.id, page |-> at]
         /\ settledTurn' = FALSE /\ UNCHANGED <<cache, prefetchFailed>>
  BY DEF PollPagePrefetch, Wanted
<1>. QED
  BY <1>2, <1>3, <1>4

(* A book opens: its slots are empty.                                      *)
LEMMA OpenStep ==
  ASSUME PageInv, book = NoBook, NEW b \in PageBooks,
         NEW known \in Place, OpenAt(b, known)
  PROVE  PageInv'
<1>1. PageCount[b] \in 1..MostPages /\ MostPages \in Nat
  BY PageBookAssumption
<1>2. PICK p : /\ p \in 0..(PageCount[b] - 1)
               /\ at' = p /\ resume' = [id |-> b, page |-> p]
  <2>. DEFINE r == IF known.id = b THEN known ELSE IF onCard.id = b THEN onCard ELSE known
  <2>1. r \in Place
    BY DEF PageInv, PageTypeOK
  <2>2. r.page \in Nat
    BY <2>1, <1>1 DEF Place, AnyPage
  <2>. QED
    BY <1>1, <2>2 DEF OpenAt
<1>3. /\ book' = b /\ prefetchFailed' = -1 /\ unsaved' = FALSE
      /\ glass' = [glass EXCEPT !.dirty = TRUE]
      /\ UNCHANGED <<cache, settledTurn, jump, onCard>>
  BY DEF OpenAt, Repaints
<1>4. p \in AnyPage /\ resume' \in Place
  BY <1>1, <1>2 DEF AnyPage, Place
<1>5. glass' \in Glasses /\ glass'.dirty
  BY <1>3, PageParts DEF PageInv, Glasses
<1>6. b # NoBook /\ jump = [on |-> FALSE, to |-> 0]
  BY PageBookAssumption DEF PageInv
<1>7. PageTypeOK'
  <2>1. at' < PageCount[b] /\ jump'.to < PageCount[b]
    BY <1>1, <1>2, <1>3, <1>6
  <2>2. CacheTyped(cache') /\ settledTurn' \in BOOLEAN /\ onCard' \in Place /\ jump' \in Jumps
    BY <1>3, PageParts DEF PageInv
  <2>. QED
    BY <1>2, <1>3, <1>4, <1>5, <2>1, <2>2, PageTyped
<1>8. cache' = Empty
  BY <1>3 DEF PageInv
<1>9. Honest(cache)'
  BY <1>8, EmptyTyped DEF Honest
<1>. QED
  BY <1>3, <1>5, <1>6, <1>7, <1>9 DEF PageInv, GlassHonest

(* A book closes: nothing of it is left in the slots.                      *)
LEMMA CloseStep ==
  ASSUME PageInv, Closed, resume' \in Place, onCard' \in Place, unsaved' \in BOOLEAN
  PROVE  PageInv'
<1>1. MostPages \in Nat
  BY PageBookAssumption
<1>2. CacheTyped(cache') /\ book' = NoBook /\ cache' = Empty
  BY EmptyTyped DEF Closed
<1>3. 0 \in AnyPage /\ jump' = [on |-> FALSE, to |-> 0] /\ jump' \in Jumps /\ glass' \in Glasses
  BY <1>1 DEF Closed, AnyPage, Jumps, Glasses
<1>4. PageTypeOK'
  BY <1>2, <1>3, PageTyped DEF Closed
<1>. QED
  BY <1>2, <1>3, <1>4 DEF PageInv, GlassHonest

(* The wheel and the buttons.                                              *)
LEMMA WheelStep ==
  ASSUME PageInv, TurnPage \/ JumpOpens \/ JumpTurns \/ JumpTargetToNextChapter
                  \/ JumpGoes \/ JumpCancelled
  PROVE  PageInv'
<1>1. /\ PageTypeOK /\ book # NoBook /\ book \in PageBooks
      /\ PageCount[book] \in 1..MostPages /\ MostPages \in Nat /\ JumpStep \in Nat
      /\ at \in 0..(PageCount[book] - 1) /\ jump.to \in 0..(PageCount[book] - 1)
      /\ glass'.dirty
  BY PageBookAssumption DEF PageInv, PageTypeOK, AnyPage, TurnPage, JumpOpens, JumpTurns,
     JumpTargetToNextChapter, JumpTargetTo, JumpGoes, JumpCancelled, Repaints
<1>2. glass' \in Glasses /\ UNCHANGED <<book, cache, prefetchFailed, onCard>>
  BY <1>1 DEF PageTypeOK, Glasses, TurnPage, JumpOpens, JumpTurns,
     JumpTargetToNextChapter, JumpTargetTo, JumpGoes, JumpCancelled, Repaints
<1>3. ASSUME at' \in 0..(PageCount[book] - 1), resume' \in Place,
             unsaved' \in BOOLEAN, settledTurn' \in BOOLEAN,
             jump' \in [on : BOOLEAN, to : 0..(PageCount[book] - 1)]
      PROVE  PageInv'
  <2>1. PageTypeOK'
    <3>1. jump' \in Jumps /\ at' \in AnyPage
      BY <1>1, <1>3 DEF Jumps, AnyPage
    <3>2. at' < PageCount[book'] /\ jump'.to < PageCount[book']
      BY <1>1, <1>2, <1>3
    <3>. QED
      BY <1>1, <1>2, <1>3, <3>1, <3>2, PageParts, PageTyped
  <2>. QED
    BY <1>1, <1>2, <2>1, PageFrame
<1>4. ASSUME NEW p \in 0..(PageCount[book] - 1), GoTo(p)
      PROVE  /\ at' \in 0..(PageCount[book] - 1) /\ resume' \in Place
             /\ unsaved' \in BOOLEAN /\ settledTurn' \in BOOLEAN
  <2>1. resume' = [id |-> resume.id, page |-> p]
    BY <1>1, <1>4, PageParts DEF GoTo, Place
  <2>2. resume' \in Place
    BY <1>1, <2>1, PageParts DEF Place, AnyPage
  <2>. QED
    BY <1>4, <2>2 DEF GoTo
<1>5. ASSUME NEW p \in 0..(PageCount[book] - 1), JumpTargetTo(p)
      PROVE  PageInv'
  <2>1. jump' \in [on : BOOLEAN, to : 0..(PageCount[book] - 1)]
    BY <1>1, <1>5 DEF JumpTargetTo, PageTypeOK
  <2>. QED
    BY <1>1, <1>3, <1>5, <2>1 DEF JumpTargetTo, PageTypeOK
<1>6. CASE TurnPage
  <2>1. PICK d \in {-2, -1, 1, 2} : GoTo(Clamp(at + d))
    BY <1>6 DEF TurnPage
  <2>2. Clamp(at + d) \in 0..(PageCount[book] - 1)
    BY <1>1, ClampInBook
  <2>3. jump' \in [on : BOOLEAN, to : 0..(PageCount[book] - 1)]
    BY <1>1, <1>6 DEF TurnPage, PageTypeOK
  <2>. QED
    BY <1>3, <1>4, <2>1, <2>2, <2>3
<1>7. CASE JumpOpens
  BY <1>1, <1>3, <1>7 DEF JumpOpens, PageTypeOK
<1>8. CASE JumpTurns
  <2>1. PICK d \in {-1, 1} : JumpTargetTo(Clamp(jump.to + d * JumpStep))
    BY <1>8 DEF JumpTurns
  <2>2. jump.to + d * JumpStep \in Int
    BY <1>1
  <2>. QED
    BY <1>1, <1>5, <2>1, <2>2, ClampInBook
<1>9. CASE JumpTargetToNextChapter
  <2>. DEFINE c == Chapters[book]
  <2>1. c \in Seq(Nat) /\ Len(c) \in Nat \ {0}
    BY <1>1, <1>9, PageBookAssumption DEF JumpTargetToNextChapter
  <2>2. PICK chapter \in 0..Len(c) :
          LET first == c[IF chapter >= Len(c) THEN 1 ELSE chapter + 1]
          IN JumpTargetTo(Clamp(IF first > 0 THEN first - 1 ELSE 0))
    BY <1>9 DEF JumpTargetToNextChapter, ChapterForPage
  <2>. DEFINE first == c[IF chapter >= Len(c) THEN 1 ELSE chapter + 1]
  <2>3. first \in Nat
    BY <2>1
  <2>. HIDE DEF c
  <2>4. (IF first > 0 THEN first - 1 ELSE 0) \in Int
    <3>. HIDE DEF first
    <3>. QED
      BY <2>3
  <2>. QED
    BY <1>1, <1>5, <2>2, <2>4, ClampInBook
<1>10. CASE JumpGoes
  <2>1. jump' \in [on : BOOLEAN, to : 0..(PageCount[book] - 1)]
    BY <1>1, <1>10 DEF JumpGoes
  <2>2. GoTo(jump.to) \/ UNCHANGED <<at, resume, unsaved, settledTurn>>
    BY <1>10 DEF JumpGoes
  <2>. QED
    BY <1>1, <1>3, <1>4, <2>1, <2>2 DEF PageTypeOK
<1>11. CASE JumpCancelled
  BY <1>1, <1>3, <1>11 DEF JumpCancelled, PageTypeOK
<1>. QED
  BY <1>6, <1>7, <1>8, <1>9, <1>10, <1>11

(* Every step keeps the invariant.                                         *)
LEMMA PageNextStep == PageInv /\ [PageNext]_pageVars => PageInv'
<1>. SUFFICES ASSUME PageInv, [PageNext]_pageVars PROVE PageInv'
  OBVIOUS
<1>1. CASE OpenPageBook
  BY <1>1, OpenStep DEF OpenPageBook, PageInv, PageTypeOK
<1>2. CASE OpenPageBookmark
  <2>1. PICK b \in PageBooks, p \in AnyPage : OpenAt(b, [id |-> b, page |-> p])
    BY <1>2 DEF OpenPageBookmark
  <2>2. [id |-> b, page |-> p] \in Place
    BY DEF Place
  <2>. QED
    BY <1>2, <2>1, <2>2, OpenStep DEF OpenPageBookmark
<1>3. CASE ClosePageBook \/ PageBookSleeps \/ LosePower
  <2>1. MostPages \in Nat
    BY PageBookAssumption
  <2>2. Closed /\ resume' \in Place /\ unsaved' = FALSE
    BY <1>3, <2>1 DEF ClosePageBook, PageBookSleeps, LosePower, Restarted, SavePageProgress,
       PageInv, PageTypeOK, Place, AnyPage
  <2>3. onCard' \in {onCard, [id |-> resume.id, page |-> at]}
    BY <1>3 DEF ClosePageBook, PageBookSleeps, LosePower, SavePageProgress
  <2>4. onCard' \in Place
    BY <2>3 DEF PageInv, PageTypeOK, Place
  <2>. QED
    BY <2>2, <2>4, CloseStep
<1>4. CASE DelayPasses
  <2>1. PageTypeOK'
    BY <1>4, PageParts, PageTyped DEF DelayPasses, PageInv
  <2>. QED
    BY <1>4, <2>1, PageFrame DEF DelayPasses
<1>5. CASE UNCHANGED pageVars
  <2>1. PageTypeOK'
    BY <1>5 DEF pageVars, PageInv, PageTypeOK
  <2>. QED
    BY <1>5, <2>1, PageFrame DEF pageVars
<1>. QED
  BY <1>1, <1>2, <1>3, <1>4, <1>5, RepaintStep, PrefetchStep, WheelStep DEF PageNext

(* A device that starts has no book open.                                  *)
LEMMA PageInitInv == PageInit => PageInv
<1>. SUFFICES ASSUME PageInit PROVE PageInv
  OBVIOUS
<1>1. MostPages \in Nat
  BY PageBookAssumption
<1>2. CacheTyped(cache)
  BY EmptyTyped DEF PageInit
<1>3. 0 \in AnyPage /\ resume \in Place /\ onCard \in Place
  BY <1>1 DEF PageInit, AnyPage, Place
<1>4. PageTypeOK
  BY <1>2, <1>3 DEF PageInit, PageTypeOK, CacheTyped
<1>. QED
  BY <1>4 DEF PageInit, PageInv, GlassHonest

(* The invariant holds in every reachable state.                           *)
THEOREM PageInvariance == PageSpec => []PageInv
BY PageInitInv, PageNextStep, PTL DEF PageSpec

(* The page on screen and the target of a jump stay within the open book,  *)
(* whatever was bookmarked, turned, jumped to or saved.                    *)
THEOREM PagesInBook == PageSpec => []PageTypeOK
<1>1. PageInv => PageTypeOK
  BY DEF PageInv
<1>. QED
  BY PageInvariance, <1>1, PTL

(* What a slot says it holds is what it holds, and the page drawn is the   *)
(* page the reader is on, through turns, evictions, failed reads and       *)
(* another book.                                                           *)
THEOREM AlwaysRightPage == PageSpec => []NeverWrongPage
<1>1. PageInv => NeverWrongPage
  BY DEF PageInv, Honest, GlassHonest, NeverWrongPage
<1>. QED
  BY PageInvariance, <1>1, PTL

-----------------------------------------------------------------------------
(* Lines of a text                                                         *)

Chars == {Letter, Space, Newline}

(* Whether the character at offset i, from 0, is c.                        *)
CharIs(text, i, c) == i < Len(text) /\ text[i + 1] = c

(* No letter from one offset to before another, and nothing but letters.   *)
BlankIn(text, from, to) == \A i \in from..(to - 1) : text[i + 1] # Letter
WordIn(text, from, to)  == \A i \in from..(to - 1) : text[i + 1] = Letter

(* CHOOSE finds the least and the greatest number there is.                *)
LEMMA LeastIs ==
  ASSUME NEW S \in SUBSET Nat, S # {}
  PROVE  Least(S) \in S /\ \A m \in S : Least(S) <= m
BY LeastNumber DEF Least

LEMMA GreatestIs ==
  ASSUME NEW n \in Nat, NEW S \in SUBSET (0..n), S # {}
  PROVE  Greatest(S) \in S /\ \A m \in S : m <= Greatest(S)
<1>1. S \in SUBSET Nat /\ \A k \in S : k <= n
  OBVIOUS
<1>2. \E m \in S : \A k \in S : k <= m
  BY <1>1, GreatestNumber
<1>. QED
  BY <1>2 DEF Greatest

(* A line starts where it should, ends within the width, passes over blanks *)
(* only, and no newline but its last character.                            *)
LineSound(text, c, width, r) ==
  LET end == c + r.length
  IN /\ r.offset = c /\ r.length \in 0..width
     /\ r.next \in (c + 1)..Len(text) /\ end <= r.next
     /\ BlankIn(text, end, r.next)
     /\ \A i \in c..(r.next - 1) : text[i + 1] = Newline => i = r.next - 1
     /\ text[c + 1] = Newline => r.length = 0

(* Between letters it ends only where one word has filled it.              *)
SplitSound(text, c, r) ==
  LET end == c + r.length
  IN end \in 1..(Len(text) - 1) /\ text[end] = Letter /\ text[end + 1] = Letter =>
       \E first \in c..end : BlankIn(text, c, first) /\ WordIn(text, first, end)

LEMMA LineWorks ==
  ASSUME NEW text \in Seq(Chars), NEW c \in 0..(Len(text) - 1), NEW width \in Nat \ {0}
  PROVE  LineSound(text, c, width, NextLine(text, c, width)) /\ SplitSound(text, c, NextLine(text, c, width))
<1>. DEFINE n   == Len(text)
            r   == NextLine(text, c, width)
            A   == {c + width, n} \cup {i \in c..(n - 1) : CharIs(text, i, Newline)}
            stop  == Least(A)
            B   == {i \in (c + 1)..(stop - 1) : CharIs(text, i, Space)}
            end == IF stop = n \/ CharIs(text, stop, Newline) \/ CharIs(text, stop, Space) \/ B = {}
                   THEN stop ELSE Greatest(B)
            T   == {k \in c..end : \A i \in k..(end - 1) : CharIs(text, i, Space)}
            trimmed == Least(T)
            P   == {k \in end..n : \A i \in end..(k - 1) : CharIs(text, i, Space)}
            past == Greatest(P)
<1>0. /\ n \in Nat /\ c \in Nat /\ c < n
      /\ \A i \in 1..n : text[i] \in Chars
      /\ Letter # Space /\ Letter # Newline /\ Space # Newline
  BY DEF Letter, Space, Newline
<1>1. r = IF CharIs(text, c, Newline)
          THEN [offset |-> c, length |-> 0, next |-> c + 1]
          ELSE [offset |-> c, length |-> trimmed - c,
                next |-> IF CharIs(text, past, Newline) THEN past + 1 ELSE past]
  BY DEF NextLine, CharIs
<1>. HIDE DEF n, r
<1>2. CASE CharIs(text, c, Newline)
  <2>1. r.offset = c /\ r.length = 0 /\ r.next = c + 1
    BY <1>1, <1>2
  <2>2. text[c + 1] = Newline
    BY <1>2 DEF CharIs
  <2>3. LineSound(text, c, width, r)
    BY <1>0, <2>1, <2>2 DEF LineSound, BlankIn, n
  <2>4. SplitSound(text, c, r)
    BY <1>0, <2>1, <2>2 DEF SplitSound
  <2>. QED
    BY <2>3, <2>4 DEF r
<1>3. CASE ~ CharIs(text, c, Newline)
  <2>1. /\ stop \in Nat /\ c < stop /\ stop <= n /\ stop <= c + width
        /\ \A i \in c..(stop - 1) : text[i + 1] # Newline
        /\ stop = n \/ stop = c + width \/ CharIs(text, stop, Newline)
    <3>1. A \in SUBSET Nat /\ A # {}
      BY <1>0
    <3>2. stop \in A /\ \A m \in A : stop <= m
      BY <3>1, LeastIs
    <3>. HIDE DEF stop
    <3>3. stop \in Nat /\ stop <= n /\ stop <= c + width
      <4>1. n \in A /\ c + width \in A
        OBVIOUS
      <4>. HIDE DEF A
      <4>. QED
        BY <3>1, <3>2, <4>1
    <3>4. c < stop
      BY <1>0, <1>3, <3>2
    <3>5. ASSUME NEW i \in c..(stop - 1) PROVE text[i + 1] # Newline
      <4>1. i \in c..(n - 1) /\ i < stop
        BY <1>0, <3>3
      <4>2. i \notin A
        BY <3>2, <3>3, <4>1
      <4>. QED
        BY <1>0, <4>1, <4>2 DEF CharIs, n
    <3>. QED
      BY <3>2, <3>3, <3>4, <3>5
  <2>. HIDE DEF stop
  <2>2. /\ end \in Nat /\ c < end /\ end <= stop
        /\ stop # n /\ ~ CharIs(text, stop, Newline) /\ ~ CharIs(text, stop, Space) /\ B # {} =>
             end < n /\ text[end + 1] = Space
        /\ stop = n \/ CharIs(text, stop, Newline) \/ CharIs(text, stop, Space) \/ B = {} => end = stop
    <3>1. CASE stop = n \/ CharIs(text, stop, Newline) \/ CharIs(text, stop, Space) \/ B = {}
      BY <2>1, <3>1
    <3>2. CASE ~ (stop = n \/ CharIs(text, stop, Newline) \/ CharIs(text, stop, Space) \/ B = {})
      <4>1. B \in SUBSET (0..stop) /\ B # {}
        BY <1>0, <2>1, <3>2
      <4>2. Greatest(B) \in B
        BY <2>1, <4>1, GreatestIs
      <4>. QED
        BY <1>0, <2>1, <3>2, <4>2 DEF CharIs, n
    <3>. QED
      BY <3>1, <3>2
  <2>. HIDE DEF end
  <2>3. /\ trimmed \in c..end
        /\ \A i \in trimmed..(end - 1) : CharIs(text, i, Space)
        /\ \A k \in T : trimmed <= k
    <3>1. T \in SUBSET Nat
      BY <1>0, <2>2
    <3>2. end \in T
      BY <1>0, <2>2
    <3>3. trimmed \in T /\ \A k \in T : trimmed <= k
      BY <3>1, <3>2, LeastIs
    <3>. QED
      BY <3>3
  <2>4. /\ past \in end..n
        /\ \A i \in end..(past - 1) : CharIs(text, i, Space)
        /\ past < n => text[past + 1] # Space
    <3>1. P \in SUBSET (0..n)
      BY <1>0, <2>2
    <3>2. end \in P
      BY <1>0, <2>1, <2>2
    <3>3. past \in P /\ \A k \in P : k <= past
      BY <1>0, <3>1, <3>2, GreatestIs
    <3>. HIDE DEF past
    <3>4. ASSUME past < n, text[past + 1] = Space PROVE FALSE
      <4>1. past + 1 \in end..n
        BY <1>0, <2>2, <3>3, <3>4
      <4>2. ASSUME NEW i \in end..past PROVE CharIs(text, i, Space)
        <5>1. CASE i = past
          BY <3>4, <5>1 DEF CharIs, n
        <5>2. CASE i # past
          BY <1>0, <2>2, <3>3, <5>2
        <5>. QED
          BY <5>1, <5>2
      <4>3. past + 1 \in P
        BY <1>0, <2>2, <3>3, <4>1, <4>2
      <4>. QED
        BY <1>0, <3>3, <4>1, <4>3
    <3>. QED
      BY <3>3, <3>4
  <2>. HIDE DEF trimmed, past
  <2>5. /\ r.offset = c /\ r.length = trimmed - c /\ c + r.length = trimmed
        /\ r.next = IF CharIs(text, past, Newline) THEN past + 1 ELSE past
    BY <1>0, <1>1, <1>3, <2>2, <2>3
  <2>6. LineSound(text, c, width, r)
    <3>1. r.length \in 0..width
      BY <1>0, <2>1, <2>2, <2>3, <2>5
    <3>2. r.next \in (c + 1)..n /\ trimmed <= r.next
      BY <1>0, <2>2, <2>3, <2>4, <2>5 DEF CharIs, n
    <3>3. ASSUME NEW i \in trimmed..(r.next - 1) PROVE text[i + 1] # Letter
      <4>1. CASE i < end
        BY <1>0, <2>2, <2>3, <4>1 DEF CharIs
      <4>2. CASE i >= end /\ i < past
        BY <1>0, <2>2, <2>3, <2>4, <4>2 DEF CharIs
      <4>3. CASE i >= past
        <5>1. i = past /\ CharIs(text, past, Newline)
          BY <1>0, <2>2, <2>3, <2>4, <2>5, <4>3
        <5>. QED
          BY <1>0, <5>1 DEF CharIs
      <4>. QED
        BY <2>2, <2>3, <2>4, <4>1, <4>2, <4>3
    <3>4. ASSUME NEW i \in c..(r.next - 1), text[i + 1] = Newline PROVE i = r.next - 1
      <4>1. CASE i < end
        BY <1>0, <2>1, <2>2, <3>4, <4>1
      <4>2. CASE i >= end /\ i < past
        BY <1>0, <2>2, <2>3, <2>4, <3>4, <4>2 DEF CharIs
      <4>3. CASE i >= past
        BY <1>0, <2>2, <2>3, <2>4, <2>5, <4>3
      <4>. QED
        BY <1>0, <2>2, <2>4, <4>1, <4>2, <4>3
    <3>5. text[c + 1] # Newline
      BY <1>0, <1>3 DEF CharIs, n
    <3>. QED
      BY <2>5, <3>1, <3>2, <3>3, <3>4, <3>5 DEF LineSound, BlankIn, n
  <2>7. SplitSound(text, c, r)
    <3>. SUFFICES ASSUME trimmed \in 1..(n - 1), text[trimmed] = Letter, text[trimmed + 1] = Letter
                  PROVE  \E first \in c..trimmed : BlankIn(text, c, first) /\ WordIn(text, first, trimmed)
      BY <2>5 DEF SplitSound, n
    <3>1. trimmed = end
      <4>1. CASE trimmed < end
        BY <1>0, <2>2, <2>3, <4>1 DEF CharIs
      <4>. QED
        BY <2>2, <2>3, <4>1
    <3>2. end = stop /\ B = {}
      <4>1. text[end + 1] # Space /\ end # n
        BY <1>0, <3>1
      <4>2. ~ CharIs(text, end, Newline) /\ ~ CharIs(text, end, Space)
        BY <1>0, <3>1 DEF CharIs
      <4>3. stop = n \/ CharIs(text, stop, Newline) \/ CharIs(text, stop, Space) \/ B = {}
        BY <2>2, <4>1
      <4>4. end = stop
        BY <2>2, <4>3
      <4>. QED
        BY <4>1, <4>2, <4>3, <4>4
    <3>3. ASSUME NEW i \in (c + 1)..(stop - 1) PROVE text[i + 1] = Letter
      <4>1. i + 1 \in 1..n /\ i < n
        BY <1>0, <2>1
      <4>2. ~ CharIs(text, i, Space)
        BY <3>2
      <4>3. text[i + 1] # Newline
        BY <1>0, <2>1
      <4>. QED
        BY <1>0, <4>1, <4>2, <4>3 DEF CharIs, Chars, n
    <3>4. CASE text[c + 1] = Letter
      <4>1. BlankIn(text, c, c)
        BY <1>0 DEF BlankIn
      <4>2. WordIn(text, c, trimmed)
        BY <1>0, <2>1, <3>1, <3>2, <3>3, <3>4 DEF WordIn
      <4>. QED
        BY <1>0, <2>3, <4>1, <4>2
    <3>5. CASE text[c + 1] # Letter
      <4>1. BlankIn(text, c, c + 1)
        BY <1>0, <3>5 DEF BlankIn
      <4>2. WordIn(text, c + 1, trimmed)
        BY <1>0, <2>1, <3>1, <3>2, <3>3 DEF WordIn
      <4>3. c + 1 \in c..trimmed
        BY <1>0, <2>1, <3>1, <3>2
      <4>. QED
        BY <4>1, <4>2, <4>3
    <3>. QED
      BY <3>4, <3>5
  <2>. QED
    BY <2>6, <2>7 DEF r
<1>. QED
  BY <1>2, <1>3

(* The lines from cursor c on, given those from later ones on.             *)
LinesAfter(text, width, S, c) ==
  IF c = Len(text) THEN <<>>
  ELSE LET line == NextLine(text, c, width)
       IN <<[offset |-> line.offset, length |-> line.length]>> \o S[line.next]

(* There are such lines, since every line moves the cursor on.             *)
LEMMA LinesExist ==
  ASSUME NEW text \in Seq(Chars), NEW width \in Nat \ {0}
  PROVE  \E S : S = [c \in 0..Len(text) |-> LinesAfter(text, width, S, c)]
<1>. DEFINE n == Len(text)
            Rest(m) == {c \in 0..n : c + m >= n}
            Solved == {m \in Nat : \E S : S = [c \in Rest(m) |-> LinesAfter(text, width, S, c)]}
<1>0. n \in Nat
  OBVIOUS
<1>1. 0 \in Solved
  <2>. DEFINE S == [c \in Rest(0) |-> <<>>]
  <2>1. \A c \in Rest(0) : c = n
    BY <1>0
  <2>2. \A c \in Rest(0) : LinesAfter(text, width, S, c) = <<>>
    BY <2>1 DEF LinesAfter
  <2>3. S = [c \in Rest(0) |-> LinesAfter(text, width, S, c)]
    BY <2>2
  <2>4. \E U : U = [c \in Rest(0) |-> LinesAfter(text, width, U, c)]
    <3>. HIDE DEF S, Rest
    <3>. QED
      BY <2>3
  <2>. HIDE DEF Rest
  <2>. QED
    BY <2>4
<1>2. ASSUME NEW m \in Nat, m \in Solved
      PROVE  m + 1 \in Solved
  <2>1. PICK S : S = [c \in Rest(m) |-> LinesAfter(text, width, S, c)]
    BY <1>2
  <2>. DEFINE T == [c \in Rest(m + 1) |-> LinesAfter(text, width, S, c)]
  <2>2. \A c \in Rest(m) : T[c] = S[c]
    BY <1>0, <2>1
  <2>3. ASSUME NEW c \in Rest(m + 1)
        PROVE  LinesAfter(text, width, T, c) = LinesAfter(text, width, S, c)
    <3>1. ASSUME c # n PROVE NextLine(text, c, width).next \in Rest(m)
      <4>1. c \in 0..(n - 1) /\ c + m + 1 >= n
        BY <1>0, <3>1
      <4>2. NextLine(text, c, width).next \in (c + 1)..n
        BY <4>1, LineWorks DEF LineSound
      <4>. QED
        BY <1>0, <4>1, <4>2
    <3>2. c # n => T[NextLine(text, c, width).next] = S[NextLine(text, c, width).next]
      BY <2>2, <3>1
    <3>. HIDE DEF T
    <3>. QED
      BY <3>2 DEF LinesAfter
  <2>4. T = [c \in Rest(m + 1) |-> LinesAfter(text, width, T, c)]
    BY <2>3
  <2>5. \E U : U = [c \in Rest(m + 1) |-> LinesAfter(text, width, U, c)]
    <3>. HIDE DEF T, Rest
    <3>. QED
      BY <2>4
  <2>. HIDE DEF Rest
  <2>. QED
    BY <2>5
<1>3. n \in Solved
  <2>. HIDE DEF Solved
  <2>. QED
    BY <1>0, <1>1, <1>2, AllNumbers
<1>4. Rest(n) = 0..n
  BY <1>0
<1>. QED
  BY <1>3, <1>4

LineRecords == [offset : Nat, length : Nat]

(* Lines that follow each other from cursor c to the end of the text.      *)
Chained(text, width, c, lines) ==
  /\ lines \in Seq(LineRecords)
  /\ lines = <<>> <=> c = Len(text)
  /\ lines # <<>> => lines[1].offset = c
  /\ \A k \in 1..Len(lines) :
       /\ lines[k].offset < Len(text)
       /\ lines[k].length = NextLine(text, lines[k].offset, width).length
       /\ NextLine(text, lines[k].offset, width).next =
            IF k = Len(lines) THEN Len(text) ELSE lines[k + 1].offset

(* A line before lines that follow each other.                             *)
LEMMA ChainGrows ==
  ASSUME NEW text \in Seq(Chars), NEW width \in Nat \ {0}, NEW c \in 0..(Len(text) - 1),
         NEW lines, Chained(text, width, NextLine(text, c, width).next, lines)
  PROVE  Chained(text, width, c, <<[offset |-> NextLine(text, c, width).offset,
                                    length |-> NextLine(text, c, width).length]>> \o lines)
<1>. DEFINE r    == NextLine(text, c, width)
            line == [offset |-> r.offset, length |-> r.length]
            all  == <<line>> \o lines
<1>1. r.offset = c /\ r.length \in Nat /\ r.next \in (c + 1)..Len(text)
  BY LineWorks DEF LineSound
<1>. HIDE DEF r
<1>2. line \in LineRecords /\ line.offset = c /\ line.length = r.length
  BY <1>1 DEF LineRecords
<1>. HIDE DEF line
<1>3. lines \in Seq(LineRecords) /\ Len(lines) \in Nat
  BY DEF Chained
<1>4. /\ all \in Seq(LineRecords) /\ Len(all) = Len(lines) + 1
      /\ all[1] = line /\ \A k \in 2..Len(all) : all[k] = lines[k - 1]
  BY <1>2, <1>3
<1>5. all # <<>> /\ c # Len(text)
  BY <1>3, <1>4
<1>. HIDE DEF all
<1>6. ASSUME NEW k \in 1..Len(all)
      PROVE  /\ all[k].offset < Len(text)
             /\ all[k].length = NextLine(text, all[k].offset, width).length
             /\ NextLine(text, all[k].offset, width).next =
                  IF k = Len(all) THEN Len(text) ELSE all[k + 1].offset
  <2>1. CASE k = 1
    <3>1. all[1].offset = c /\ all[1].length = r.length
      BY <1>2, <1>4
    <3>2. lines = <<>> => r.next = Len(text) /\ Len(all) = 1
      BY <1>3, <1>4 DEF Chained, r
    <3>3. lines # <<>> => r.next = lines[1].offset /\ Len(all) > 1 /\ all[2] = lines[1]
      BY <1>3, <1>4 DEF Chained, r
    <3>. QED
      BY <1>1, <2>1, <3>1, <3>2, <3>3 DEF r
  <2>2. CASE k # 1
    <3>1. k - 1 \in 1..Len(lines) /\ all[k] = lines[k - 1]
      BY <1>3, <1>4, <2>2
    <3>2. k # Len(all) => all[k + 1] = lines[(k - 1) + 1] /\ k - 1 # Len(lines)
      BY <1>3, <1>4, <2>2
    <3>3. k = Len(all) => k - 1 = Len(lines)
      BY <1>3, <1>4
    <3>. QED
      BY <3>1, <3>2, <3>3 DEF Chained
  <2>. QED
    BY <2>1, <2>2
<1>. QED
  BY <1>2, <1>4, <1>5, <1>6 DEF Chained, all, line, r

WidthOf(s) == IF ReaderCharsPerLine(s) = 0 THEN 1 ELSE ReaderCharsPerLine(s)

LEMMA LinesChain ==
  ASSUME NEW text \in Seq(Chars), NEW s, WidthOf(s) \in Nat \ {0}
  PROVE  Chained(text, WidthOf(s), 0, Lines(text, s))
<1>. DEFINE n == Len(text)
            width == WidthOf(s)
            S == CHOOSE S : S = [c \in 0..n |-> LinesAfter(text, width, S, c)]
<1>0. n \in Nat
  OBVIOUS
<1>1. S = [c \in 0..n |-> LinesAfter(text, width, S, c)]
  BY LinesExist
<1>2. Lines(text, s) = S[0]
  BY DEF Lines, LinesAfter, WidthOf
<1>. HIDE DEF S, width
<1>. DEFINE Good == {m \in Nat : \A c \in 0..n : c + m >= n => Chained(text, width, c, S[c])}
<1>3. ASSUME NEW c \in 0..n,
             \A d \in (c + 1)..n : Chained(text, width, d, S[d])
      PROVE  Chained(text, width, c, S[c])
  <2>1. S[c] = LinesAfter(text, width, S, c)
    BY <1>1
  <2>2. CASE c = n
    <3>1. S[c] = <<>>
      BY <2>1, <2>2 DEF LinesAfter
    <3>. QED
      BY <2>2, <3>1 DEF Chained
  <2>3. CASE c # n
    <3>1. c \in 0..(n - 1)
      BY <1>0, <2>3
    <3>2. NextLine(text, c, width).next \in (c + 1)..n
      BY <3>1, LineWorks DEF LineSound, width
    <3>3. Chained(text, width, NextLine(text, c, width).next, S[NextLine(text, c, width).next])
      BY <1>3, <3>2
    <3>4. S[c] = <<[offset |-> NextLine(text, c, width).offset,
                    length |-> NextLine(text, c, width).length]>> \o S[NextLine(text, c, width).next]
      BY <2>1, <2>3 DEF LinesAfter
    <3>. QED
      BY <3>1, <3>3, <3>4, ChainGrows DEF width
  <2>. QED
    BY <2>2, <2>3
<1>4. 0 \in Good
  <2>1. ASSUME NEW c \in 0..n, c + 0 >= n PROVE \A d \in (c + 1)..n : FALSE
    BY <1>0, <2>1
  <2>. QED
    BY <1>3, <2>1
<1>5. ASSUME NEW m \in Nat, m \in Good
      PROVE  m + 1 \in Good
  <2>1. ASSUME NEW c \in 0..n, c + (m + 1) >= n
        PROVE  \A d \in (c + 1)..n : d \in 0..n /\ d + m >= n
    BY <1>0, <2>1
  <2>. QED
    BY <1>3, <1>5, <2>1
<1>6. n \in Good
  <2>. HIDE DEF Good
  <2>. QED
    BY <1>0, <1>4, <1>5, AllNumbers
<1>. QED
  BY <1>0, <1>2, <1>6 DEF width

(* Lines that follow each other from the start hold the whole text.        *)
LEMMA ChainHoldsAll ==
  ASSUME NEW text \in Seq(Chars), NEW width \in Nat \ {0}, NEW lines,
         Chained(text, width, 0, lines)
  PROVE  HoldAll(lines, text, width)
<1>. DEFINE n == Len(text)
            m == Len(lines)
            Next(k) == NextLine(text, lines[k].offset, width)
            End(k)  == IF k = 0 THEN 0 ELSE lines[k].offset + lines[k].length
            SplitsWord(k) == /\ End(k) \in 1..(n - 1)
                             /\ text[End(k)] = Letter /\ text[End(k) + 1] = Letter
<1>0. n \in Nat /\ m \in Nat /\ lines \in [1..m -> LineRecords]
  BY DEF Chained
<1>0a. (m = 0 => n = 0) /\ (m # 0 => lines[1].offset = 0)
  <2>1. lines \in Seq(LineRecords) /\ (lines = <<>> <=> 0 = Len(text))
        /\ (lines # <<>> => lines[1].offset = 0)
    BY DEF Chained
  <2>. QED
    BY <2>1
<1>1. ASSUME NEW k \in 1..m
      PROVE  /\ lines[k].offset \in 0..(n - 1) /\ lines[k].length \in Nat
             /\ LineSound(text, lines[k].offset, width, Next(k))
             /\ SplitSound(text, lines[k].offset, Next(k))
             /\ lines[k].length = Next(k).length
             /\ Next(k).next = IF k = m THEN n ELSE lines[k + 1].offset
  <2>1. lines[k] \in LineRecords
    BY <1>0
  <2>2. lines[k].offset \in 0..(n - 1) /\ lines[k].length \in Nat
    BY <1>0, <2>1 DEF Chained, LineRecords
  <2>. QED
    BY <2>2, LineWorks DEF Chained
<1>. HIDE DEF Next
<1>2. ASSUME NEW k \in 1..m
      PROVE  BlankIn(text, End(k - 1), lines[k].offset) /\ End(k - 1) <= lines[k].offset
  <2>1. CASE k = 1
    <3>1. lines[1].offset = 0
      BY <1>0, <1>0a, <2>1
    <3>. QED
      BY <2>1, <3>1 DEF BlankIn
  <2>2. CASE k # 1
    <3>1. k - 1 \in 1..m /\ k - 1 # m /\ k - 1 # 0 /\ (k - 1) + 1 = k
      BY <1>0, <2>2
    <3>2. Next(k - 1).next = lines[k].offset
      BY <1>1, <3>1
    <3>3. End(k - 1) = lines[k - 1].offset + Next(k - 1).length
      BY <1>1, <3>1
    <3>4. LineSound(text, lines[k - 1].offset, width, Next(k - 1))
      BY <1>1, <3>1
    <3>. QED
      BY <3>2, <3>3, <3>4 DEF LineSound
  <2>. QED
    BY <2>1, <2>2
<1>3. BlankIn(text, End(m), n)
  <2>1. CASE m = 0
    <3>1. n = 0
      BY <1>0a, <2>1
    <3>. QED
      BY <2>1, <3>1 DEF BlankIn
  <2>2. CASE m # 0
    <3>1. m \in 1..m
      BY <1>0, <2>2
    <3>2. /\ Next(m).next = n /\ End(m) = lines[m].offset + Next(m).length
          /\ LineSound(text, lines[m].offset, width, Next(m))
      BY <1>1, <2>2, <3>1
    <3>. QED
      BY <3>2 DEF LineSound
  <2>. QED
    BY <2>1, <2>2
<1>4. ASSUME NEW k \in 1..m, SplitsWord(k)
      PROVE  \E first \in lines[k].offset..End(k) :
               /\ BlankIn(text, lines[k].offset, first)
               /\ WordIn(text, first, End(k))
  <2>1. lines[k].length = Next(k).length /\ SplitSound(text, lines[k].offset, Next(k))
    BY <1>1
  <2>2. k # 0
    BY <1>0
  <2>3. End(k) = lines[k].offset + Next(k).length
    BY <2>1, <2>2
  <2>4. /\ lines[k].offset + Next(k).length \in 1..(n - 1)
        /\ text[lines[k].offset + Next(k).length] = Letter
        /\ text[lines[k].offset + Next(k).length + 1] = Letter
    BY <1>4, <2>3
  <2>. HIDE DEF End
  <2>. QED
    BY <2>1, <2>3, <2>4 DEF SplitSound
<1>4a. ASSUME NEW k \in 1..m, k # m PROVE k + 1 \in 1..m
  <2>. HIDE DEF m
  <2>. QED
    BY <1>0, <1>4a
<1>5. ASSUME NEW i \in 1..(n - 1), text[i] = Newline, text[i + 1] = Newline
      PROVE  \E k \in 1..m : lines[k] = [offset |-> i, length |-> 0]
  <2>. DEFINE K == {k \in 1..m : lines[k].offset <= i - 1}
  <2>1. m # 0 /\ 1 \in 1..m /\ lines[1].offset = 0
    BY <1>0, <1>0a
  <2>2. K \in SUBSET Nat /\ K # {} /\ \A k \in K : k <= m
    BY <1>0, <2>1
  <2>3. PICK k \in K : \A l \in K : l <= k
    BY <1>0, <2>2, GreatestNumber
  <2>4. k \in 1..m /\ lines[k].offset \in 0..(i - 1)
    BY <1>1, <2>3
  <2>5. i - 1 < Next(k).next
    <3>1. CASE k = m
      BY <1>1, <2>4, <3>1
    <3>2. CASE k # m
      <4>1. k + 1 \in 1..m
        BY <1>4a, <2>4, <3>2
      <4>2. k + 1 \notin K
        <5>1. ~ (k + 1 <= k)
          BY <1>0, <2>4
        <5>. QED
          BY <2>3, <5>1
      <4>3. lines[k + 1].offset \in Nat /\ lines[k + 1].offset > i - 1
        BY <1>1, <4>1, <4>2
      <4>4. Next(k).next = lines[k + 1].offset
        BY <1>1, <2>4, <3>2
      <4>. QED
        BY <4>3, <4>4
    <3>. QED
      BY <3>1, <3>2
  <2>6. Next(k).next = i
    <3>1. LineSound(text, lines[k].offset, width, Next(k))
      BY <1>1, <2>4
    <3>2. Next(k).next \in Nat /\ i - 1 \in lines[k].offset..(Next(k).next - 1)
      BY <1>0, <2>4, <2>5, <3>1 DEF LineSound
    <3>3. (i - 1) + 1 = i
      OBVIOUS
    <3>4. i - 1 = Next(k).next - 1
      BY <1>5, <3>1, <3>2, <3>3 DEF LineSound
    <3>. QED
      BY <3>2, <3>4
  <2>7. k # m /\ k + 1 \in 1..m /\ lines[k + 1].offset = i
    <3>1. Next(k).next = IF k = m THEN n ELSE lines[k + 1].offset
      BY <1>1, <2>4
    <3>2. i # n
      BY <1>0
    <3>3. k # m /\ lines[k + 1].offset = i
      BY <2>6, <3>1, <3>2
    <3>. QED
      BY <1>4a, <2>4, <3>3
  <2>8. lines[k + 1].length = 0
    BY <1>1, <1>5, <2>7 DEF LineSound
  <2>9. lines[k + 1] = [offset |-> i, length |-> 0]
    BY <1>0, <2>7, <2>8 DEF LineRecords
  <2>. QED
    BY <2>7, <2>9
<1>6. ASSUME NEW k \in 1..m PROVE lines[k].length <= width
  <2>1. lines[k].length = Next(k).length /\ LineSound(text, lines[k].offset, width, Next(k))
    BY <1>1
  <2>2. Next(k).length \in 0..width
    BY <2>1 DEF LineSound
  <2>. QED
    BY <2>1, <2>2
<1>. QED
  BY <1>2, <1>3, <1>4, <1>5, <1>6 DEF HoldAll, BlankIn, WordIn

-----------------------------------------------------------------------------
(* Pages of lines                                                          *)

(* Pages of a whole number of lines, rounded up.                           *)
LEMMA RoundUp ==
  ASSUME NEW n \in Nat, NEW p \in Nat \ {0}
  PROVE  /\ (n + p - 1) \div p \in Nat
         /\ ((n + p - 1) \div p) * p >= n
         /\ (n + p - 1) \div p = 0 => n = 0
<1>. DEFINE q == (n + p - 1) \div p
            r == (n + p - 1) % p
<1>1. q \in Int /\ r \in 0..(p - 1)
  OBVIOUS
<1>2. n + p - 1 = p * q + r
  OBVIOUS
<1>. HIDE DEF q, r
<1>3. p * q >= n
  BY <1>1, <1>2
<1>4. q >= 0
  <2>1. ASSUME q <= -1 PROVE FALSE
    <3>1. p * q <= p * (-1)
      BY <1>1, <2>1
    <3>. QED
      BY <1>1, <1>3, <3>1
  <2>. QED
    BY <1>1, <2>1
<1>5. q = 0 => n = 0
  BY <1>1, <1>3
<1>6. p * q = q * p
  BY <1>1
<1>. QED
  BY <1>1, <1>3, <1>4, <1>5, <1>6 DEF q

LEMMA PagesOfLines ==
  ASSUME NEW text, NEW s, Lines(text, s) \in Seq(LineRecords), ReaderLinesPerPage(s) \in Nat \ {0}
  PROVE  /\ PageCountOf(text, s) \in Nat \ {0}
         /\ PageCountOf(text, s) * ReaderLinesPerPage(s) >= Len(Lines(text, s))
<1>. DEFINE n == Len(Lines(text, s))
            p == ReaderLinesPerPage(s)
            pages == (n + p - 1) \div p
<1>1. n \in Nat /\ p \in Nat \ {0}
  OBVIOUS
<1>2. PageCountOf(text, s) = IF pages = 0 THEN 1 ELSE pages
  BY DEF PageCountOf
<1>. HIDE DEF n, p
<1>3. pages \in Nat /\ pages * p >= n /\ (pages = 0 => n = 0)
  BY <1>1, RoundUp
<1>. HIDE DEF pages
<1>4. PageCountOf(text, s) \in Nat \ {0}
  BY <1>2, <1>3
<1>5. PageCountOf(text, s) * p >= n
  <2>1. CASE pages = 0
    <3>1. PageCountOf(text, s) * p = p
      BY <1>1, <1>2, <2>1
    <3>. QED
      BY <1>1, <1>3, <2>1, <3>1
  <2>2. CASE pages # 0
    BY <1>2, <1>3, <2>2
  <2>. QED
    BY <2>1, <2>2
<1>. QED
  BY <1>4, <1>5 DEF n, p

(* What is flattened step by step is what the sequence flattens to.        *)
LEMMA FlattenIs ==
  ASSUME NEW S, NEW c \in Nat \ {0}, NEW seqs \in [1..c -> Seq(S)], NEW G \in [1..c -> Seq(S)],
         G[1] = seqs[1], \A i \in 2..c : G[i] = G[i - 1] \o seqs[i]
  PROVE  FlattenSeq(seqs) = G[c]
<1>. DEFINE Body(F, i) == IF i = 1 THEN seqs[i] ELSE F[i - 1] \o seqs[i]
            F == CHOOSE F : F = [i \in 1..Len(seqs) |-> Body(F, i)]
<1>1. Len(seqs) = c /\ c # 0
  OBVIOUS
<1>2. FlattenSeq(seqs) = F[c]
  BY <1>1 DEF FlattenSeq
<1>3. G = [i \in 1..c |-> Body(G, i)]
  <2>1. ASSUME NEW i \in 1..c PROVE G[i] = Body(G, i)
    <3>1. i # 1 => i \in 2..c
      OBVIOUS
    <3>. QED
      BY <3>1
  <2>. QED
    BY <2>1
<1>4. F = [i \in 1..c |-> Body(F, i)]
  BY <1>1, <1>3
<1>. HIDE DEF F
<1>. DEFINE Same == {i \in Nat : i + 1 \in 1..c => F[i + 1] = G[i + 1]}
<1>5. 0 \in Same
  BY <1>3, <1>4
<1>6. ASSUME NEW i \in Nat, i \in Same PROVE i + 1 \in Same
  <2>. SUFFICES ASSUME (i + 1) + 1 \in 1..c PROVE F[(i + 1) + 1] = G[(i + 1) + 1]
    OBVIOUS
  <2>1. i + 1 \in 1..c /\ (i + 1) + 1 # 1 /\ ((i + 1) + 1) - 1 = i + 1
    OBVIOUS
  <2>2. F[i + 1] = G[i + 1]
    BY <1>6, <2>1
  <2>3. F[(i + 1) + 1] = F[i + 1] \o seqs[(i + 1) + 1]
    BY <1>4, <2>1
  <2>4. G[(i + 1) + 1] = G[i + 1] \o seqs[(i + 1) + 1]
    BY <1>3, <2>1
  <2>. QED
    BY <2>2, <2>3, <2>4
<1>7. c - 1 \in Same
  <2>1. c - 1 \in Nat
    OBVIOUS
  <2>. HIDE DEF Same
  <2>. QED
    BY <1>5, <1>6, <2>1, AllNumbers
<1>8. F[c] = G[c]
  <2>1. (c - 1) + 1 = c /\ c \in 1..c
    OBVIOUS
  <2>. QED
    BY <1>7, <2>1
<1>. QED
  BY <1>2, <1>8

(* A piece of a sequence and the piece after it.                           *)
LEMMA Pieces ==
  ASSUME NEW S, NEW seq \in Seq(S), NEW a \in Nat, NEW b \in Nat, a <= b, b <= Len(seq)
  PROVE  /\ SubSeq(seq, 1, a) \in Seq(S) /\ SubSeq(seq, a + 1, b) \in Seq(S)
         /\ SubSeq(seq, 1, a) \o SubSeq(seq, a + 1, b) = SubSeq(seq, 1, b)
<1>1. 1 \in 1..(Len(seq) + 1) /\ a \in (1 - 1)..Len(seq) /\ b \in a..Len(seq)
  OBVIOUS
<1>2. SubSeq(seq, 1, a) \o SubSeq(seq, a + 1, b) = SubSeq(seq, 1, b)
  BY <1>1, ConcatAdjacentSubSeq
<1>. QED
  BY <1>2

(* All pages one after the other are all the lines.                        *)
LEMMA PagesHoldLines ==
  ASSUME NEW text, NEW s, Lines(text, s) \in Seq(LineRecords), ReaderLinesPerPage(s) \in Nat \ {0}
  PROVE  FlattenSeq([p \in 1..PageCountOf(text, s) |-> LinesForPage(text, s, p)]) = Lines(text, s)
<1>. DEFINE lines == Lines(text, s)
            n == Len(lines)
            size == ReaderLinesPerPage(s)
            c == PageCountOf(text, s)
            Upto(p) == IF p * size > n THEN n ELSE p * size
            G == [p \in 1..c |-> SubSeq(lines, 1, Upto(p))]
            seqs == [p \in 1..c |-> LinesForPage(text, s, p)]
<1>1. lines \in Seq(LineRecords) /\ n \in Nat /\ size \in Nat \ {0} /\ c \in Nat \ {0} /\ c * size >= n
  BY PagesOfLines
<1>2. ASSUME NEW p \in 1..c
      PROVE  LinesForPage(text, s, p) = SubSeq(lines, (p - 1) * size + 1, Upto(p))
  <2>1. (p - 1) * size + 1 + size - 1 = p * size
    <3>1. (p - 1) * size = p * size - size
      BY <1>1
    <3>2. p * size \in Int
      BY <1>1
    <3>. QED
      BY <1>1, <3>1, <3>2
  <2>. QED
    BY <2>1 DEF LinesForPage
<1>. HIDE DEF lines, n, size, c
<1>3. ASSUME NEW p \in 1..c
      PROVE  /\ p * size \in Nat /\ (p - 1) * size \in Nat /\ (p - 1) * size <= p * size
             /\ Upto(p) \in Nat /\ Upto(p) <= n
  <2>1. (p - 1) * size = p * size - size /\ p * size \in Int
    BY <1>1
  <2>2. (p - 1) * size \in Nat
    BY <1>1
  <2>. QED
    BY <1>1, <2>1, <2>2
<1>4. ASSUME NEW p \in 1..c, p # 1
      PROVE  /\ LinesForPage(text, s, p) \in Seq(LineRecords)
             /\ SubSeq(lines, 1, Upto(p - 1)) \o LinesForPage(text, s, p) = SubSeq(lines, 1, Upto(p))
  <2>1. p - 1 \in 1..c
    BY <1>1, <1>4
  <2>2. CASE (p - 1) * size <= n
    <3>1. Upto(p - 1) = (p - 1) * size
      BY <1>1, <1>3, <2>1, <2>2
    <3>2. Upto(p - 1) <= Upto(p)
      BY <1>1, <1>3, <2>2, <3>1
    <3>3. LinesForPage(text, s, p) = SubSeq(lines, Upto(p - 1) + 1, Upto(p))
      BY <1>2, <3>1
    <3>4. Upto(p - 1) \in Nat /\ Upto(p) \in Nat /\ Upto(p) <= Len(lines)
      BY <1>3, <2>1 DEF n
    <3>. HIDE DEF Upto
    <3>5. /\ SubSeq(lines, Upto(p - 1) + 1, Upto(p)) \in Seq(LineRecords)
          /\ SubSeq(lines, 1, Upto(p - 1)) \o SubSeq(lines, Upto(p - 1) + 1, Upto(p))
               = SubSeq(lines, 1, Upto(p))
      BY <1>1, <3>2, <3>4, Pieces
    <3>. QED
      BY <3>3, <3>5
  <2>3. CASE (p - 1) * size > n
    <3>1. Upto(p - 1) = n /\ Upto(p) = n
      BY <1>1, <1>3, <2>1, <2>3
    <3>2. LinesForPage(text, s, p) = <<>>
      BY <1>1, <1>2, <1>3, <2>3, <3>1
    <3>3. SubSeq(lines, 1, n) \in Seq(LineRecords)
      BY <1>1 DEF n
    <3>. QED
      BY <3>1, <3>2, <3>3
  <2>. QED
    BY <1>1, <1>3, <2>1, <2>2, <2>3
<1>5. 1 \in 1..c /\ LinesForPage(text, s, 1) = SubSeq(lines, 1, Upto(1))
  <2>1. (1 - 1) * size + 1 = 1
    BY <1>1
  <2>. QED
    BY <1>1, <1>2, <2>1
<1>6. ASSUME NEW p \in 1..c PROVE SubSeq(lines, 1, Upto(p)) \in Seq(LineRecords)
  <2>1. Upto(p) \in Nat /\ Upto(p) <= Len(lines)
    BY <1>3 DEF n
  <2>. HIDE DEF Upto
  <2>. QED
    BY <1>1, <2>1
<1>7. Upto(c) = n /\ SubSeq(lines, 1, n) = lines
  BY <1>1, <1>3 DEF n
<1>8. /\ G \in [1..c -> Seq(LineRecords)] /\ seqs \in [1..c -> Seq(LineRecords)]
      /\ G[1] = seqs[1]
  BY <1>4, <1>5, <1>6
<1>9. ASSUME NEW p \in 2..c PROVE G[p] = G[p - 1] \o seqs[p]
  <2>1. p \in 1..c /\ p # 1 /\ p - 1 \in 1..c
    BY <1>1
  <2>. QED
    BY <1>4, <2>1
<1>10. G[c] = lines
  BY <1>1, <1>7
<1>11. FlattenSeq(seqs) = G[c]
  <2>. HIDE DEF G, seqs
  <2>. QED
    BY <1>1, <1>8, <1>9, FlattenIs
<1>. QED
  BY <1>10, <1>11 DEF lines, c

-----------------------------------------------------------------------------
(* The reader of text                                                      *)

AllScales == {BookScales[i] : i \in 1..Len(BookScales)}

(* Every text size has room for a character and a line.                    *)
LEMMA SizesWork ==
  ASSUME NEW s \in AllScales
  PROVE  /\ ReaderCharsPerLine(s) \in Nat \ {0} /\ WidthOf(s) = ReaderCharsPerLine(s)
         /\ ReaderLinesPerPage(s) \in Nat \ {0}
<1>1. s \in Nat \ {0} /\ s <= LineWidth /\ LineWidth \in Nat /\ BodyHeight \in Nat /\ MaxLines \in Nat \ {0}
  BY TextReaderAssumption DEF AllScales
<1>2. LineWidth \div s \in Nat /\ LineWidth \div s # 0 /\ BodyHeight \div s \in Nat
  <2>. DEFINE q == LineWidth \div s
  <2>1. q \in Int /\ LineWidth = s * q + (LineWidth % s) /\ LineWidth % s \in 0..(s - 1)
    BY <1>1
  <2>2. BodyHeight \div s \in Nat
    BY <1>1
  <2>. HIDE DEF q
  <2>3. q \in Nat /\ q # 0
    <3>1. ASSUME q <= 0 PROVE FALSE
      <4>1. s * q <= 0
        BY <1>1, <2>1, <3>1
      <4>. QED
        BY <1>1, <2>1, <4>1
    <3>. QED
      BY <2>1, <3>1
  <2>. QED
    BY <2>2, <2>3 DEF q
<1>. QED
  BY <1>1, <1>2 DEF ReaderCharsPerLine, ReaderLinesPerPage, WidthOf

(* A text of the library has lines and pages in every size.                *)
LEMMA TextsWork ==
  ASSUME NEW text \in Seq(Chars), NEW s \in AllScales
  PROVE  /\ Chained(text, ReaderCharsPerLine(s), 0, Lines(text, s))
         /\ PageCountOf(text, s) \in Nat \ {0}
<1>1. WidthOf(s) = ReaderCharsPerLine(s) /\ ReaderCharsPerLine(s) \in Nat \ {0}
      /\ ReaderLinesPerPage(s) \in Nat \ {0}
  BY SizesWork
<1>2. Chained(text, ReaderCharsPerLine(s), 0, Lines(text, s))
  BY <1>1, LinesChain
<1>3. Lines(text, s) \in Seq(LineRecords)
  BY <1>2 DEF Chained
<1>. QED
  BY <1>1, <1>2, <1>3, PagesOfLines

LEMMA BodyTyped ==
  ASSUME TextTypeOK
  PROVE  /\ scale \in AllScales
         /\ shelf # <<>> /\ Len(shelf) \in Nat \ {0} /\ \A k \in 1..Len(shelf) : shelf[k] \in Seq(Chars)
         /\ body # NoText => body = shelf
<1>1. shelf \in Seq(Seq(Chars)) /\ shelf # <<>>
  BY TextReaderAssumption DEF TextTypeOK, Chars
<1>. QED
  BY <1>1 DEF TextTypeOK, AllScales

(* A page number divided evenly is a page number.                          *)
LEMMA Proportion ==
  ASSUME NEW a \in Nat, NEW b \in Nat, NEW p \in Nat, p > 1, NEW count \in Nat, count > 1,
         a = p - 1, b \in 0..a
  PROVE  /\ (b * (count - 1)) \div a \in Nat
         /\ b = a => (b * (count - 1)) \div a = count - 1
<1>1. a \in Nat \ {0} /\ count - 1 \in Nat
  OBVIOUS
<1>. DEFINE x == b * (count - 1)
            q == x \div a
<1>2. x \in Nat
  BY <1>1
<1>3. b = a => x = a * (count - 1)
  OBVIOUS
<1>. HIDE DEF x
<1>4. q \in Int /\ x = a * q + (x % a) /\ x % a \in 0..(a - 1)
  BY <1>1, <1>2
<1>. HIDE DEF q
<1>5. q \in Nat
  <2>1. ASSUME q <= -1 PROVE FALSE
    <3>1. a * q <= a * (-1)
      BY <1>1, <1>4, <2>1
    <3>. QED
      BY <1>1, <1>2, <1>4, <3>1
  <2>. QED
    BY <1>4, <2>1
<1>6. b = a => q = count - 1
  <2>. SUFFICES ASSUME b = a PROVE q = count - 1
    OBVIOUS
  <2>1. a * (count - 1) = a * q + (x % a)
    BY <1>3, <1>4
  <2>2. ASSUME q >= count PROVE FALSE
    <3>1. a * q >= a * count /\ a * count = a * (count - 1) + a
      BY <1>1, <1>4, <2>2
    <3>. QED
      BY <1>1, <1>4, <2>1, <3>1
  <2>3. ASSUME q <= count - 2 PROVE FALSE
    <3>1. a * q <= a * (count - 2) /\ a * (count - 2) = a * (count - 1) - a
      BY <1>1, <1>4, <2>3
    <3>. QED
      BY <1>1, <1>4, <2>1, <3>1
  <2>. QED
    BY <1>1, <1>4, <2>2, <2>3
<1>. QED
  BY <1>5, <1>6 DEF x, q

(* What a change of the text size does to the page.                        *)
LEMMA CycleWorks ==
  ASSUME TextTypeOK, CycleBookTextSize
  PROVE  /\ body = shelf /\ scale' \in AllScales /\ UNCHANGED <<shelf, body, surah>>
         /\ body[surah] \in Seq(Chars)
         /\ bookPage' \in 1..PageCountOf(body[surah], scale')
         /\ bookPage = 1 => bookPage' = 1
         /\ bookPage = Pages(scale) /\ Pages(scale) > 1 => bookPage' = PageCountOf(body[surah], scale')
<1>. DEFINE i == CHOOSE k \in 1..Len(BookScales) : BookScales[k] = scale
            size == BookScales[(i % Len(BookScales)) + 1]
            count == Pages(size)
            old   == Pages(scale)
            page  == IF old > 1 /\ count > 1 /\ bookPage > 1
                     THEN 1 + ((bookPage - 1) * (count - 1)) \div (old - 1) ELSE 1
<1>1. /\ scale' = size /\ bookPage' = (IF page > count THEN count ELSE page)
      /\ UNCHANGED <<shelf, body, surah>> /\ body # NoText
  BY DEF CycleBookTextSize
<1>2. /\ body = shelf /\ scale \in AllScales /\ body[surah] \in Seq(Chars)
      /\ surah \in 1..Len(body) /\ bookPage \in 1..PageCountOf(body[surah], scale)
  BY <1>1, BodyTyped DEF TextTypeOK
<1>3. size \in AllScales
  <2>1. i \in 1..Len(BookScales) /\ Len(BookScales) \in Nat \ {0}
    BY <1>2, TextReaderAssumption DEF AllScales
  <2>. HIDE DEF i
  <2>2. (i % Len(BookScales)) + 1 \in 1..Len(BookScales)
    BY <2>1
  <2>. QED
    BY <2>2 DEF AllScales
<1>. HIDE DEF size
<1>4. old \in Nat \ {0} /\ count \in Nat \ {0} /\ bookPage \in 1..old
  BY <1>2, <1>3, TextsWork DEF Pages
<1>5. count = PageCountOf(body[surah], scale')
  BY <1>1 DEF Pages
<1>. HIDE DEF old, count
<1>6. CASE old > 1 /\ count > 1 /\ bookPage > 1
  <2>. DEFINE q == ((bookPage - 1) * (count - 1)) \div (old - 1)
  <2>1. q \in Nat /\ (bookPage - 1 = old - 1 => q = count - 1)
    <3>1. /\ old - 1 \in Nat /\ bookPage - 1 \in Nat /\ old \in Nat /\ count \in Nat
          /\ bookPage - 1 \in 0..(old - 1)
      BY <1>4
    <3>. QED
      BY <1>6, <3>1, Proportion
  <2>2. page = 1 + q
    BY <1>6
  <2>. HIDE DEF q, page
  <2>3. bookPage' \in 1..count /\ (bookPage = old => bookPage' = count)
    BY <1>1, <1>4, <2>1, <2>2
  <2>. QED
    BY <1>1, <1>2, <1>3, <1>5, <1>6, <2>3 DEF old
<1>7. CASE ~ (old > 1 /\ count > 1 /\ bookPage > 1)
  <2>1. bookPage' = 1
    BY <1>1, <1>4, <1>7
  <2>2. bookPage = old /\ old > 1 => bookPage' = count
    BY <1>4, <1>7, <2>1
  <2>3. bookPage' \in 1..count
    BY <1>4, <2>1
  <2>. QED
    BY <1>1, <1>2, <1>3, <1>5, <2>1, <2>2, <2>3 DEF old
<1>. QED
  BY <1>6, <1>7

LEMMA TurnWorks ==
  ASSUME TextTypeOK, NEW d \in Int, TurnText(d)
  PROVE  TextTypeOK'
<1>1. /\ body # NoText /\ body = shelf /\ scale \in AllScales /\ UNCHANGED <<shelf, body, scale>>
      /\ \A k \in 1..Len(body) : body[k] \in Seq(Chars) /\ PageCountOf(body[k], scale) \in Nat \ {0}
      /\ surah \in 1..Len(body) /\ bookPage \in 1..PageCountOf(body[surah], scale)
      /\ Len(body) \in Nat
  BY BodyTyped, TextsWork DEF TurnText, TextTypeOK
<1>2. surah' \in 1..Len(body) /\ bookPage' \in 1..PageCountOf(body[surah'], scale)
  BY <1>1 DEF TurnText, ShowTranslationSurah, Pages
<1>. QED
  BY <1>1, <1>2 DEF TextTypeOK

LEMMA NextTextTypeOK == TextTypeOK /\ [TextNext]_textVars => TextTypeOK'
<1>. SUFFICES ASSUME TextTypeOK, [TextNext]_textVars PROVE TextTypeOK'
  OBVIOUS
<1>1. \A k \in 1..Len(shelf), s \in AllScales : PageCountOf(shelf[k], s) \in Nat \ {0}
  BY BodyTyped, TextsWork
<1>2. CASE OpenText
  <2>1. 1 \in 1..Len(shelf) /\ scale \in AllScales
    BY BodyTyped
  <2>2. 1 \in 1..PageCountOf(shelf[1], scale)
    BY <1>1, <2>1
  <2>. QED
    BY <1>2, <2>1, <2>2 DEF OpenText, TextTypeOK
<1>3. CASE CloseText
  BY <1>3 DEF CloseText, TextTypeOK
<1>4. CASE OpenTextBookmark
  <2>1. PICK mark \in [a : 1..MaxBookmark, b : 1..2, c : AllScales] :
          /\ body' = shelf /\ scale' = mark.c
          /\ surah' = (IF mark.b <= Len(shelf) THEN mark.b ELSE 1)
          /\ bookPage' = LET last == PageCountOf(shelf[surah'], mark.c)
                         IN IF mark.a <= last THEN mark.a ELSE IF Len(shelf) > 1 THEN 1 ELSE last
    BY <1>4 DEF OpenTextBookmark, AllScales
  <2>2. mark.a \in Nat \ {0} /\ mark.b \in 1..2 /\ mark.c \in AllScales
    BY TextReaderAssumption
  <2>3. surah' \in 1..Len(shelf)
    BY <2>1, <2>2, BodyTyped
  <2>4. PageCountOf(shelf[surah'], mark.c) \in Nat \ {0}
    BY <1>1, <2>2, <2>3
  <2>5. bookPage' \in 1..PageCountOf(shelf[surah'], mark.c)
    BY <2>1, <2>2, <2>4
  <2>6. shelf' = shelf
    BY <1>4 DEF OpenTextBookmark
  <2>. QED
    BY <2>1, <2>2, <2>3, <2>5, <2>6 DEF TextTypeOK, AllScales
<1>5. CASE CycleBookTextSize
  <2>1. /\ body = shelf /\ scale' \in AllScales /\ UNCHANGED <<shelf, body, surah>>
        /\ bookPage' \in 1..PageCountOf(body[surah], scale')
    BY <1>5, CycleWorks
  <2>2. surah \in 1..Len(body)
    BY <1>5 DEF TextTypeOK, CycleBookTextSize
  <2>. QED
    BY <2>1, <2>2 DEF TextTypeOK, AllScales
<1>6. ASSUME NEW d \in {-3, -1, 1, 3}, TurnText(d) PROVE TextTypeOK'
  BY <1>6, TurnWorks
<1>7. CASE UNCHANGED textVars
  BY <1>7 DEF textVars, TextTypeOK
<1>. QED
  BY <1>2, <1>3, <1>4, <1>5, <1>6, <1>7 DEF TextNext

(* For any texts, sizes and panel, the reader stays on a page of a surah   *)
(* of the open book, whichever way it came there.                          *)
THEOREM TextTyped == TextSpec => []TextTypeOK
<1>1. TextInit => TextTypeOK
  BY TextReaderAssumption DEF TextInit, TextTypeOK
<1>. QED
  BY <1>1, NextTextTypeOK, PTL DEF TextSpec

(* Whatever the text: no line is wider than the panel, no word is split    *)
(* that fits on a line, and the pages hold every letter and blank line.    *)
THEOREM TextNeverLost == TextSpec => []NoTextLost
<1>1. ASSUME TextTypeOK PROVE NoTextLost
  <2>. SUFFICES ASSUME body # NoText
                PROVE  HoldAll(FlattenSeq([p \in 1..Pages(scale) |-> LinesForPage(body[surah], scale, p)]),
                               body[surah], ReaderCharsPerLine(scale))
    BY DEF NoTextLost
  <2>1. body[surah] \in Seq(Chars) /\ scale \in AllScales
    BY <1>1, BodyTyped DEF TextTypeOK
  <2>2. Chained(body[surah], ReaderCharsPerLine(scale), 0, Lines(body[surah], scale))
    BY <2>1, TextsWork
  <2>3. Lines(body[surah], scale) \in Seq(LineRecords)
    BY <2>2 DEF Chained
  <2>4. ReaderCharsPerLine(scale) \in Nat \ {0} /\ ReaderLinesPerPage(scale) \in Nat \ {0}
    BY <2>1, SizesWork
  <2>5. HoldAll(Lines(body[surah], scale), body[surah], ReaderCharsPerLine(scale))
    BY <2>1, <2>2, <2>4, ChainHoldsAll
  <2>6. FlattenSeq([p \in 1..PageCountOf(body[surah], scale) |-> LinesForPage(body[surah], scale, p)])
          = Lines(body[surah], scale)
    BY <2>3, <2>4, PagesHoldLines
  <2>. QED
    BY <2>5, <2>6 DEF Pages
<1>. QED
  BY <1>1, TextTyped, PTL

(* The pages of the first n surahs are those of the first n - 1 and those  *)
(* of surah n.                                                             *)
LEMMA PagesAdd ==
  ASSUME \A k \in 1..Len(body) : PageCountOf(body[k], scale) \in Nat, Len(body) \in Nat
  PROVE  /\ PagesOf(1..0) = 0
         /\ \A n \in 1..Len(body) :
              /\ PagesOf(1..(n - 1)) \in Nat
              /\ PagesOf(1..n) = PagesOf(1..(n - 1)) + PageCountOf(body[n], scale)
<1>. DEFINE m == Len(body)
            Count(k) == PageCountOf(body[k], scale)
            Of(k) == {k} \X (1..Count(k))
            All(n) == UNION {Of(k) : k \in 1..n}
            Fin == {n \in Nat : n <= m => IsFiniteSet(All(n)) /\ Cardinality(All(n)) \in Nat}
<1>1. \A n : PagesOf(1..n) = Cardinality(All(n))
  BY DEF PagesOf
<1>2. \A k \in 1..m : Count(k) \in Nat
  OBVIOUS
<1>. HIDE DEF Count, m
<1>3. All(0) = {} /\ IsFiniteSet(All(0)) /\ Cardinality(All(0)) = 0
  <2>1. All(0) = {}
    OBVIOUS
  <2>. QED
    BY <2>1, FS_EmptySet
<1>4. ASSUME NEW k \in 1..m PROVE IsFiniteSet(Of(k)) /\ Cardinality(Of(k)) = Count(k)
  <2>1. IsFiniteSet(1..Count(k)) /\ Cardinality(1..Count(k)) = Count(k)
    BY <1>2, FS_Interval
  <2>2. IsFiniteSet({k}) /\ Cardinality({k}) = 1
    BY FS_Singleton
  <2>3. IsFiniteSet(Of(k)) /\ Cardinality(Of(k)) = 1 * Count(k)
    BY <2>1, <2>2, FS_Product
  <2>. QED
    BY <1>2, <2>3
<1>5. ASSUME NEW n \in Nat \ {0} PROVE All(n) = All(n - 1) \cup Of(n) /\ All(n - 1) \cap Of(n) = {}
  <2>1. 1..n = (1..(n - 1)) \cup {n} /\ n \notin 1..(n - 1)
    OBVIOUS
  <2>2. \A x \in Of(n) : x[1] = n
    OBVIOUS
  <2>3. \A k \in 1..(n - 1) : \A x \in Of(k) : x[1] = k
    OBVIOUS
  <2>. HIDE DEF Of
  <2>4. All(n) = All(n - 1) \cup Of(n)
    BY <2>1
  <2>5. ASSUME NEW x \in All(n - 1), x \in Of(n) PROVE FALSE
    <3>1. PICK k \in 1..(n - 1) : x \in Of(k)
      OBVIOUS
    <3>. QED
      BY <2>1, <2>2, <2>3, <2>5, <3>1
  <2>. QED
    BY <2>4, <2>5
<1>. HIDE DEF All, Of
<1>6. ASSUME NEW n \in 1..m, IsFiniteSet(All(n - 1)), Cardinality(All(n - 1)) \in Nat
      PROVE  IsFiniteSet(All(n)) /\ Cardinality(All(n)) = Cardinality(All(n - 1)) + Count(n)
  <2>1. n \in Nat \ {0}
    OBVIOUS
  <2>2. /\ IsFiniteSet(All(n - 1) \cup Of(n))
        /\ Cardinality(All(n - 1) \cup Of(n))
             = Cardinality(All(n - 1)) + Cardinality(Of(n)) - Cardinality(All(n - 1) \cap Of(n))
    BY <1>4, <1>6, FS_Union
  <2>3. Cardinality(All(n - 1) \cap Of(n)) = 0
    BY <1>5, <2>1, FS_EmptySet
  <2>4. All(n) = All(n - 1) \cup Of(n)
    BY <1>5, <2>1
  <2>5. IsFiniteSet(All(n)) /\ Cardinality(All(n)) = Cardinality(All(n - 1)) + Cardinality(Of(n)) - 0
    BY <2>2, <2>3, <2>4
  <2>6. Cardinality(Of(n)) = Count(n) /\ Count(n) \in Nat
    BY <1>2, <1>4
  <2>. QED
    BY <1>6, <2>5, <2>6
<1>7. m \in Nat
  BY DEF m
<1>8. \A n \in 0..m : IsFiniteSet(All(n)) /\ Cardinality(All(n)) \in Nat
  <2>1. 0 \in Fin
    BY <1>3
  <2>2. ASSUME NEW n \in Nat, n \in Fin PROVE n + 1 \in Fin
    <3>. SUFFICES ASSUME n + 1 <= m PROVE IsFiniteSet(All(n + 1)) /\ Cardinality(All(n + 1)) \in Nat
      OBVIOUS
    <3>1. n + 1 \in 1..m /\ (n + 1) - 1 = n /\ n <= m
      BY <1>7
    <3>2. IsFiniteSet(All(n)) /\ Cardinality(All(n)) \in Nat
      BY <2>2, <3>1
    <3>3. IsFiniteSet(All(n + 1)) /\ Cardinality(All(n + 1)) = Cardinality(All(n)) + Count(n + 1)
      BY <1>6, <3>1, <3>2
    <3>. QED
      BY <1>2, <3>1, <3>2, <3>3
  <2>. HIDE DEF Fin
  <2>3. Nat \subseteq Fin
    BY <2>1, <2>2, AllNumbers
  <2>. QED
    BY <1>7, <2>3 DEF Fin
<1>9. ASSUME NEW n \in 1..m
      PROVE  Cardinality(All(n - 1)) \in Nat /\ Cardinality(All(n)) = Cardinality(All(n - 1)) + Count(n)
  <2>1. n - 1 \in 0..m
    BY <1>7
  <2>. QED
    BY <1>6, <1>8, <2>1
<1>. QED
  BY <1>1, <1>3, <1>9 DEF m, Count

(* What a turn of the wheel does to the place in the book.                 *)
LEMMA TurnReadsOn ==
  ASSUME TextTypeOK, NEW d \in {-3, -1, 1, 3}, TurnText(d)
  PROVE  LET to   == (Position)'
             by   == IF d > 0 THEN to - Position ELSE Position - to
             size == IF d > 0 THEN d ELSE 0 - d
             end  == IF d > 0 THEN PagesOf(1..Len(body)) ELSE 1
         IN by \in 0..size /\ (by = 0 => Position = end)
<1>. DEFINE count(k) == PageCountOf(body[k], scale)
            before(k) == PagesOf(1..(k - 1))
            m == Len(body)
<1>1. /\ UNCHANGED <<body, scale>> /\ surah \in 1..m /\ m \in Nat
      /\ bookPage \in 1..count(surah)
      /\ \A k \in 1..m : count(k) \in Nat \ {0}
  BY BodyTyped, TextsWork DEF TurnText, TextTypeOK
<1>2. /\ before(1) = 0
      /\ \A k \in 1..m : before(k) \in Nat /\ PagesOf(1..k) = before(k) + count(k)
  <2>1. 1 - 1 = 0
    OBVIOUS
  <2>2. \A k \in 1..Len(body) : PageCountOf(body[k], scale) \in Nat
    BY <1>1
  <2>. QED
    BY <1>1, <2>1, <2>2, PagesAdd
<1>3. Position = bookPage + before(surah)
  BY DEF Position
<1>4. (Position)' = bookPage' + before(surah')
  BY <1>1 DEF Position, PagesOf
<1>5. \A k \in 1..m : k < m => before(k + 1) = before(k) + count(k)
  BY <1>1, <1>2
<1>6. /\ PagesOf(1..m) = before(m) + count(m) /\ m \in 1..m
  BY <1>1, <1>2
<1>7. /\ d > 0 \/ d < 0
      /\ \/ /\ bookPage + d > count(surah) /\ surah < m /\ surah' = surah + 1 /\ bookPage' = 1
         \/ /\ bookPage + d < 1 /\ surah > 1 /\ surah' = surah - 1 /\ bookPage' = count(surah - 1)
         \/ /\ ~ (bookPage + d > count(surah) /\ surah < m) /\ ~ (bookPage + d < 1 /\ surah > 1)
            /\ bookPage' = (IF bookPage + d < 1 THEN 1
                            ELSE IF bookPage + d > count(surah) THEN count(surah) ELSE bookPage + d)
            /\ surah' = surah
  BY <1>1 DEF TurnText, ShowTranslationSurah, Pages
<1>. HIDE DEF count, before, m
<1>8. CASE bookPage + d > count(surah) /\ surah < m /\ surah' = surah + 1 /\ bookPage' = 1
  <2>1. before(surah + 1) = before(surah) + count(surah) /\ before(surah) \in Nat /\ count(surah) \in Nat \ {0}
    BY <1>1, <1>2, <1>5, <1>8
  <2>2. d > 0 /\ d \in Int
    BY <1>1, <1>7, <1>8, <2>1
  <2>. QED
    BY <1>1, <1>3, <1>4, <1>8, <2>1, <2>2
<1>9. CASE bookPage + d < 1 /\ surah > 1 /\ surah' = surah - 1 /\ bookPage' = count(surah - 1)
  <2>1. surah - 1 \in 1..m /\ surah - 1 < m /\ (surah - 1) + 1 = surah
    BY <1>1, <1>9
  <2>2. before(surah) = before(surah - 1) + count(surah - 1) /\ before(surah - 1) \in Nat /\ count(surah - 1) \in Nat \ {0}
    BY <1>1, <1>2, <1>5, <2>1
  <2>3. d < 0 /\ d \in Int /\ bookPage \in Nat \ {0}
    BY <1>1, <1>7, <1>9
  <2>4. Position - (Position)' = bookPage
    BY <1>1, <1>3, <1>4, <1>9, <2>2, <2>3
  <2>5. bookPage \in 0..(0 - d) /\ bookPage # 0
    BY <1>9, <2>3
  <2>6. ~ (d > 0)
    BY <2>3
  <2>. QED
    BY <2>4, <2>5, <2>6
<1>10. CASE /\ ~ (bookPage + d > count(surah) /\ surah < m) /\ ~ (bookPage + d < 1 /\ surah > 1)
            /\ bookPage' = (IF bookPage + d < 1 THEN 1
                            ELSE IF bookPage + d > count(surah) THEN count(surah) ELSE bookPage + d)
            /\ surah' = surah
  <2>1. before(surah) \in Nat /\ count(surah) \in Nat \ {0} /\ bookPage \in 1..count(surah)
    BY <1>1, <1>2
  <2>2. (Position)' - Position = bookPage' - bookPage /\ Position \in Nat /\ (Position)' \in Nat
    BY <1>3, <1>4, <1>10, <2>1
  <2>3. CASE d > 0
    <3>1. bookPage' - bookPage \in 0..d
      BY <1>10, <2>1, <2>3
    <3>2. bookPage' - bookPage = 0 => surah = m /\ bookPage = count(surah)
      BY <1>1, <1>10, <2>1, <2>3
    <3>3. bookPage' - bookPage = 0 => Position = PagesOf(1..m)
      BY <1>3, <1>6, <2>1, <3>2
    <3>. QED
      BY <2>2, <2>3, <3>1, <3>3 DEF m
  <2>4. CASE d < 0
    <3>1. bookPage - bookPage' \in 0..(0 - d)
      BY <1>10, <2>1, <2>4
    <3>2. bookPage - bookPage' = 0 => surah = 1 /\ bookPage = 1
      BY <1>1, <1>10, <2>1, <2>4
    <3>3. bookPage - bookPage' = 0 => Position = 1
      BY <1>2, <1>3, <3>2
    <3>4. Position - (Position)' = bookPage - bookPage'
      BY <2>1, <2>2, <3>1, <1>3, <1>4, <1>10
    <3>5. ~ (d > 0)
      BY <2>4
    <3>. QED
      BY <3>1, <3>3, <3>4, <3>5
  <2>. QED
    BY <1>7, <2>3, <2>4
<1>. QED
  BY <1>7, <1>8, <1>9, <1>10

(* In a book of any number of surahs, each of any length: the wheel passes *)
(* over no page and stands still only at either end, and a change of the   *)
(* text size keeps the first page first and the last one last.             *)
THEOREM WheelAlwaysReadsOn == TextSpec => WheelReadsOn
<1>. DEFINE On ==
       \A d \in {-3, -1, 1, 3} : TurnText(d) =>
         LET to   == (Position)'
             by   == IF d > 0 THEN to - Position ELSE Position - to
             size == IF d > 0 THEN d ELSE 0 - d
             end  == IF d > 0 THEN PagesOf(1..Len(body)) ELSE 1
         IN by \in 0..size /\ (by = 0 => Position = end)
     Kept ==
       body # NoText /\ CycleBookTextSize =>
         /\ bookPage = 1 => bookPage' = 1
         /\ bookPage = Pages(scale) /\ Pages(scale) > 1 => bookPage' = (Pages(scale))'
<1>1. TextTypeOK => On
  BY TurnReadsOn
<1>2. TextTypeOK => Kept
  <2>. SUFFICES ASSUME TextTypeOK, CycleBookTextSize PROVE Kept
    OBVIOUS
  <2>1. (Pages(scale))' = PageCountOf(body[surah], scale')
    BY CycleWorks DEF Pages
  <2>. QED
    BY <2>1, CycleWorks
<1>3. WheelReadsOn <=> ([][On]_textVars /\ [][Kept]_textVars)
  BY DEF WheelReadsOn
<1>. HIDE DEF On, Kept
<1>. QED
  BY <1>1, <1>2, <1>3, TextTyped, PTL


-----------------------------------------------------------------------------
(* Reading the Quran.  The word that is first in an ayah or on a line, or  *)
(* past the last word.                                                     *)
StartOfAyah(q, a) == IF a = AyahCount(q) THEN WordCount(q) ELSE FirstWord(q, a)
StartOfLine(q, l) == IF l = LineCount(q) THEN WordCount(q) ELSE MushafLines[q][l + 1]
LineWords(q, l)   == StartOfLine(q, l)..(StartOfLine(q, l + 1) - 1)

(* Where a screen says the next one starts, and where the reader is.       *)
StartAfter(q, r) == IF HasLayout(q) THEN r.line ELSE r.ayah

Here == IF HasLayout(quran) THEN cur.line ELSE cur.ayah

(* The inductive invariant.  The kinds of values there are; a screen waits *)
(* to be drawn exactly while loop() is about to draw it; the ayah of the   *)
(* cursor is on the line of the cursor; what the next screen starts with,  *)
(* and the words shown, are those of the screen at the cursor.             *)
QuranValues ==
  /\ QuranTypeOK
  /\ next \in [ayah : Nat, line : Nat, layout : BOOLEAN]
  /\ history \in Seq(Nat)
  /\ progress \in [id : Qurans \cup {NoQuran}, surah : Nat, ayah : Nat, screen : Nat]
  /\ seen \in [words : SUBSET Nat, by : {"open", "forward", "back", "edge"}]

Drawing ==
  /\ stale = drawing
  /\ drawing => pending = 0 /\ quran # NoQuran
  /\ quran = NoQuran => view = "picker" /\ history = <<>>

PlaceKept ==
  quran # NoQuran =>
    /\ cur.surah = SurahOf(quran, cur.ayah)
    /\ \A i \in 1..Len(history) : history[i] \in Starts(quran)
    /\ view = "pages" /\ HasLayout(quran) =>
         \E w \in LineWords(quran, cur.line) : AyahOfWord(quran, w) = cur.ayah

ScreenKept ==
  Drawn =>
    LET r == Rendered(quran, cur)
    IN next = [ayah |-> r.ayah, line |-> r.line, layout |-> r.layout] /\ seen.words = r.drawn

HistoryKept ==
  view = "pages" =>
    \A i \in 1..Len(history) : i < HistoryDepth =>
      (IF i = Len(history) THEN Here ELSE history[i + 1])
        = StartAfter(quran, ScreenFrom(quran, history[i]))

SavedKept == progress.id # NoQuran => Resumable(progress.id, progress)

QuranInv == QuranValues /\ Drawing /\ PlaceKept /\ ScreenKept /\ HistoryKept /\ SavedKept

(* Before the screen after a page forward is drawn, the words seen are     *)
(* those of the screen before it.                                          *)
Forwarded ==
  stale /\ seen.by = "forward" => view = "pages" /\
    \E n \in Starts(quran) :
      seen.words = ScreenFrom(quran, n).drawn /\ Here = StartAfter(quran, ScreenFrom(quran, n))

-----------------------------------------------------------------------------
(* Functions over a stretch of numbers                                     *)

(* What holds at the first number and is handed on holds at all of them.   *)
LEMMA Along ==
  ASSUME NEW a \in Nat, NEW b \in Nat, NEW T, a \in T,
         \A v \in a..(b - 1) : v \in T => v + 1 \in T
  PROVE  a..b \subseteq T
<1>. DEFINE K == {k \in Nat : a + k <= b => a + k \in T}
<1>1. 0 \in K
  OBVIOUS
<1>2. ASSUME NEW k \in Nat, k \in K PROVE k + 1 \in K
  <2>. SUFFICES ASSUME a + (k + 1) <= b PROVE a + (k + 1) \in T
    OBVIOUS
  <2>1. a + k \in a..(b - 1) /\ a + k \in T
    BY <1>2
  <2>2. (a + k) + 1 \in T
    BY <2>1
  <2>3. (a + k) + 1 = a + (k + 1)
    OBVIOUS
  <2>. QED
    BY <2>2, <2>3
<1>3. Nat \subseteq K
  <2>. HIDE DEF K
  <2>. QED
    BY <1>1, <1>2, AllNumbers
<1>4. ASSUME NEW v \in a..b PROVE v \in T
  <2>1. v - a \in Nat /\ a + (v - a) = v /\ v <= b
    OBVIOUS
  <2>2. v - a \in K
    BY <1>3, <2>1
  <2>. QED
    BY <2>1, <2>2
<1>. QED
  BY <1>4

(* A function that starts with x and goes on by G, and that there is one.  *)
GoesOn(f, a, b, S, x, G) ==
  /\ f \in [a..b -> S]
  /\ \A v \in a..b : f[v] = IF v = a THEN x ELSE G[v - 1][f[v - 1]]

LEMMA Goes ==
  ASSUME NEW a \in Nat, NEW b \in Nat, NEW S, NEW x \in S, NEW G \in [a..(b - 1) -> [S -> S]]
  PROVE  \E f : GoesOn(f, a, b, S, x, G)
<1>. DEFINE Is(f, c) == /\ f \in [a..c -> S]
                        /\ \A v \in a..c : f[v] = IF v = a THEN x ELSE G[v - 1][f[v - 1]]
            T == {c \in Nat : c <= b => \E f : Is(f, c)}
<1>1. CASE b < a
  <2>. DEFINE none == [v \in a..b |-> x]
  <2>1. a..b = {}
    BY <1>1
  <2>2. GoesOn(none, a, b, S, x, G)
    BY <2>1 DEF GoesOn
  <2>. QED
    BY <2>2
<1>2. CASE a <= b
  <2>1. a \in T
    <3>. DEFINE f == [v \in a..a |-> x]
    <3>1. Is(f, a)
      OBVIOUS
    <3>. QED
      BY <3>1
  <2>2. ASSUME NEW c \in a..(b - 1), c \in T PROVE c + 1 \in T
    <3>1. c \in Nat /\ c + 1 \in Nat /\ c <= b /\ c \in a..c /\ c \in a..b
      OBVIOUS
    <3>2. PICK f : Is(f, c)
      BY <2>2, <3>1
    <3>2a. \A v \in a..c : f[v] \in S
      BY <3>2
    <3>2b. \A v \in a..c : f[v] = IF v = a THEN x ELSE G[v - 1][f[v - 1]]
      BY <3>2
    <3>. DEFINE y == G[c][f[c]]
                g == [v \in a..(c + 1) |-> IF v = c + 1 THEN y ELSE f[v]]
    <3>3. f[c] \in S /\ y \in S
      BY <3>1, <3>2a
    <3>4. ASSUME NEW v \in a..(c + 1)
          PROVE  g[v] = (IF v = a THEN x ELSE G[v - 1][g[v - 1]]) /\ g[v] \in S
      <4>1. CASE v = c + 1
        <5>1. v # a /\ v - 1 = c /\ c # c + 1 /\ c \in a..(c + 1)
          BY <4>1, <3>1
        <5>2. g[v] = y /\ g[v - 1] = f[c]
          BY <4>1, <5>1
        <5>. QED
          BY <3>3, <5>1, <5>2
      <4>2. CASE v # c + 1
        <5>1. v \in a..c
          BY <4>2
        <5>2. g[v] = f[v] /\ f[v] \in S
          BY <3>2a, <4>2, <5>1
        <5>3. CASE v = a
          BY <3>2b, <5>1, <5>2, <5>3
        <5>4. CASE v # a
          <6>1. v - 1 \in a..(c + 1) /\ v - 1 # c + 1
            BY <5>1, <5>4
          <6>2. g[v - 1] = f[v - 1]
            BY <6>1
          <6>3. f[v] = G[v - 1][f[v - 1]]
            BY <3>2b, <5>1, <5>4
          <6>. QED
            BY <5>2, <5>4, <6>2, <6>3
        <5>. QED
          BY <5>3, <5>4
      <4>. QED
        BY <4>1, <4>2
    <3>5. g = [v \in a..(c + 1) |-> g[v]]
      OBVIOUS
    <3>. HIDE DEF g
    <3>6. g \in [a..(c + 1) -> S]
      BY <3>4, <3>5
    <3>7. Is(g, c + 1)
      BY <3>4, <3>6
    <3>. QED
      BY <3>1, <3>7
  <2>3. b \in T
    <3>. HIDE DEF T
    <3>1. a..b \subseteq T
      BY <2>1, <2>2, Along
    <3>. QED
      BY <1>2, <3>1
  <2>4. PICK f : Is(f, b)
    BY <2>3
  <2>5. GoesOn(f, a, b, S, x, G)
    BY <2>4 DEF GoesOn
  <2>. QED
    BY <2>5
<1>. QED
  BY <1>1, <1>2

-----------------------------------------------------------------------------
(* A package                                                               *)

(* The greatest start that is no later than a word is that of its part.    *)
LEMMA CutAt ==
  ASSUME NEW starts, NEW n \in Nat, Ascends(starts, n), starts # <<>>, NEW w \in 0..(n - 1)
  PROVE  LET m == Largest({l \in 0..(Len(starts) - 1) : starts[l + 1] <= w})
         IN /\ m \in 0..(Len(starts) - 1) /\ starts[m + 1] <= w
            /\ m + 1 < Len(starts) => w < starts[m + 2]
            /\ \A l \in 0..(Len(starts) - 1) :
                 starts[l + 1] <= w /\ (l + 1 < Len(starts) => w < starts[l + 2]) => l = m
<1>. DEFINE k == Len(starts)
            S == {l \in 0..(k - 1) : starts[l + 1] <= w}
            m == Largest(S)
<1>1. k \in Nat /\ DOMAIN starts = 1..k /\ \A i \in 1..k : starts[i] \in 0..(n - 1)
  BY DEF Ascends
<1>2. k # 0 /\ starts[1] = 0
  <2>1. starts[1] = 0
    BY DEF Ascends
  <2>. QED
    BY <1>1, <2>1 DEF Ascends
<1>3. \A i, j \in 1..k : i < j => starts[i] < starts[j]
  BY <1>1 DEF Ascends
<1>. HIDE DEF k
<1>4. 0 \in S
  BY <1>1, <1>2
<1>5. m \in S /\ \A l \in S : l <= m
  <2>1. S \in SUBSET Nat /\ \A l \in S : l <= k
    <3>. SUFFICES ASSUME NEW l \in 0..(k - 1) PROVE l \in Nat /\ l <= k
      OBVIOUS
    <3>. QED
      BY <1>1
  <2>1a. S # {}
    BY <1>4
  <2>. HIDE DEF S
  <2>2. \E j \in S : \A l \in S : l <= j
    BY <1>1, <2>1, <2>1a, GreatestNumber
  <2>. QED
    BY <2>2 DEF Largest
<1>. HIDE DEF m
<1>6. m + 1 < k => w < starts[m + 2]
  <2>. SUFFICES ASSUME m + 1 < k, ~ (w < starts[m + 2]) PROVE FALSE
    OBVIOUS
  <2>1. m + 1 \in 0..(k - 1) /\ (m + 1) + 1 = m + 2 /\ m + 2 \in 1..k
    BY <1>1, <1>5
  <2>2. starts[m + 2] <= w
    BY <1>1, <2>1
  <2>3. m + 1 \in S
    BY <2>1, <2>2
  <2>. QED
    BY <1>5, <2>3
<1>7. ASSUME NEW l \in 0..(k - 1), starts[l + 1] <= w, l + 1 < k => w < starts[l + 2]
      PROVE  l = m
  <2>1. l <= m
    BY <1>5, <1>7
  <2>2. ASSUME l < m PROVE FALSE
    <3>1. l + 1 < k /\ l + 2 \in 1..k /\ m + 1 \in 1..k /\ l + 2 <= m + 1
      BY <1>1, <1>5, <2>2
    <3>2. starts[l + 2] <= starts[m + 1]
      BY <1>1, <1>3, <3>1
    <3>. QED
      BY <1>1, <1>5, <1>7, <3>1, <3>2
  <2>. QED
    BY <1>5, <2>1, <2>2
<1>8. m \in 0..(k - 1) /\ starts[m + 1] <= w
  BY <1>5
<1>. QED
  BY <1>1, <1>2, <1>6, <1>7, <1>8 DEF k, m

(* The ayahs of a package, one after another from its first word to its    *)
(* last; a word is in one of them, and which one the search finds.         *)
LEMMA AyahsCut ==
  ASSUME NEW q \in Qurans
  PROVE  /\ AyahCount(q) \in Nat \ {0} /\ WordCount(q) \in Nat \ {0}
         /\ FirstWord(q, 0) = 0 /\ StartOfAyah(q, AyahCount(q)) = WordCount(q)
         /\ \A a \in 0..(AyahCount(q) - 1) :
              /\ FirstWord(q, a) = StartOfAyah(q, a) /\ EndOfAyah(q, a) = StartOfAyah(q, a + 1)
              /\ StartOfAyah(q, a) < StartOfAyah(q, a + 1)
         /\ \A a \in 0..AyahCount(q) : StartOfAyah(q, a) \in 0..WordCount(q)
         /\ \A a, b \in 0..AyahCount(q) : a < b => StartOfAyah(q, a) < StartOfAyah(q, b)
<1>. DEFINE n == AyahCount(q)
            W == WordCount(q)
            starts == [a \in DOMAIN Ayahs[q] |-> Ayahs[q][a].first]
<1>1. /\ Words[q] \in Seq(Nat) /\ Ayahs[q] \in Seq([surah : Nat, first : Nat]) /\ Ayahs[q] # <<>>
      /\ Ascends(starts, Len(Words[q]))
  BY QuranPagingAssumption DEF WellMade
<1>2. n \in Nat \ {0} /\ DOMAIN Ayahs[q] = 1..n /\ W \in Nat
  BY <1>1 DEF AyahCount, WordCount
<1>3. starts \in Seq(0..(W - 1)) /\ starts[1] = 0
      /\ \A i, j \in DOMAIN starts : i < j => starts[i] < starts[j]
  BY <1>1 DEF Ascends, WordCount
<1>4. DOMAIN starts = 1..n /\ \A i \in 1..n : starts[i] = Ayahs[q][i].first
  BY <1>2
<1>. HIDE DEF n, W, starts
<1>5. \A i \in 1..n : starts[i] \in 0..(W - 1)
  <2>1. Len(starts) = n
    BY <1>2, <1>3, <1>4
  <2>. QED
    BY <1>3, <2>1, ElementOfSeq
<1>6. W # 0 /\ 1 \in 1..n
  BY <1>2, <1>5
<1>7. \A a \in 0..(n - 1) : a + 1 \in 1..n /\ a # n /\ FirstWord(q, a) = starts[a + 1]
                           /\ StartOfAyah(q, a) = starts[a + 1]
  BY <1>2, <1>4 DEF FirstWord, StartOfAyah, n
<1>8. StartOfAyah(q, n) = W
  BY DEF StartOfAyah, n, W
<1>9. \A a \in 0..n : a = n \/ a \in 0..(n - 1)
  BY <1>2
<1>10. \A a \in 0..n : StartOfAyah(q, a) \in 0..W
  BY <1>2, <1>5, <1>7, <1>8, <1>9
<1>11. \A a, b \in 0..n : a < b => StartOfAyah(q, a) < StartOfAyah(q, b)
  <2>. SUFFICES ASSUME NEW a \in 0..n, NEW b \in 0..n, a < b
                PROVE  StartOfAyah(q, a) < StartOfAyah(q, b)
    OBVIOUS
  <2>1. a \in 0..(n - 1)
    BY <1>2
  <2>2. CASE b = n
    <3>1. starts[a + 1] \in 0..(W - 1) /\ StartOfAyah(q, a) = starts[a + 1]
      BY <1>5, <1>7, <2>1
    <3>. QED
      BY <1>2, <1>8, <2>2, <3>1
  <2>3. CASE b # n
    <3>1. b \in 0..(n - 1) /\ a + 1 < b + 1
      BY <1>2, <2>1, <2>3
    <3>. QED
      BY <1>3, <1>4, <1>7, <2>1, <3>1
  <2>. QED
    BY <2>2, <2>3
<1>12. \A a \in 0..(n - 1) : EndOfAyah(q, a) = StartOfAyah(q, a + 1)
  BY <1>2 DEF EndOfAyah, StartOfAyah, n
<1>13. \A a \in 0..(n - 1) : StartOfAyah(q, a) < StartOfAyah(q, a + 1)
  <2>. SUFFICES ASSUME NEW a \in 0..(n - 1) PROVE StartOfAyah(q, a) < StartOfAyah(q, a + 1)
    OBVIOUS
  <2>1. a \in 0..n /\ a + 1 \in 0..n /\ a < a + 1
    BY <1>2
  <2>. QED
    BY <1>11, <2>1
<1>14. FirstWord(q, 0) = 0
  BY <1>2, <1>3, <1>7
<1>. QED
  BY <1>2, <1>6, <1>7, <1>8, <1>10, <1>11, <1>12, <1>13, <1>14 DEF n, W

LEMMA AyahFound ==
  ASSUME NEW q \in Qurans, NEW w \in 0..(WordCount(q) - 1)
  PROVE  /\ AyahOfWord(q, w) \in 0..(AyahCount(q) - 1)
         /\ StartOfAyah(q, AyahOfWord(q, w)) <= w /\ w < StartOfAyah(q, AyahOfWord(q, w) + 1)
         /\ \A a \in 0..(AyahCount(q) - 1) :
              StartOfAyah(q, a) <= w /\ w < StartOfAyah(q, a + 1) => a = AyahOfWord(q, w)
<1>. DEFINE n == AyahCount(q)
            W == WordCount(q)
            starts == [a \in DOMAIN Ayahs[q] |-> Ayahs[q][a].first]
            S == {l \in 0..(Len(starts) - 1) : starts[l + 1] <= w}
            m == Largest(S)
<1>1. /\ Ayahs[q] \in Seq([surah : Nat, first : Nat]) /\ Ayahs[q] # <<>>
      /\ Ascends(starts, W)
  BY QuranPagingAssumption DEF WellMade, WordCount
<1>2. n \in Nat \ {0} /\ W \in Nat \ {0} /\ DOMAIN Ayahs[q] = 1..n
  BY <1>1, AyahsCut DEF AyahCount
<1>3. Len(starts) = n /\ \A i \in 1..n : starts[i] = Ayahs[q][i].first
  <2>1. DOMAIN starts = 1..n
    BY <1>2
  <2>2. starts \in Seq(0..(W - 1))
    BY <1>1 DEF Ascends
  <2>. QED
    BY <1>2, <2>1, <2>2
<1>4. starts # <<>>
  <2>. HIDE DEF starts
  <2>. QED
    BY <1>2, <1>3
<1>5. /\ m \in 0..(n - 1) /\ starts[m + 1] <= w
      /\ m + 1 < n => w < starts[m + 2]
      /\ \A l \in 0..(n - 1) : starts[l + 1] <= w /\ (l + 1 < n => w < starts[l + 2]) => l = m
  <2>. HIDE DEF n, W, starts
  <2>. QED
    BY <1>1, <1>2, <1>3, <1>4, CutAt DEF W
<1>6. \A a \in 0..(n - 1) : FirstWord(q, a) = starts[a + 1] /\ StartOfAyah(q, a) = starts[a + 1]
                           /\ (a + 1 < n => StartOfAyah(q, a + 1) = starts[a + 2])
                           /\ (~ (a + 1 < n) => StartOfAyah(q, a + 1) = W)
  <2>. HIDE DEF starts
  <2>. QED
    BY <1>2, <1>3 DEF FirstWord, StartOfAyah, n
<1>7. S = {a \in 0..(n - 1) : FirstWord(q, a) <= w}
  <2>. HIDE DEF n, starts
  <2>. QED
    BY <1>3, <1>6
<1>8. AyahOfWord(q, w) = m
  BY <1>7 DEF AyahOfWord, n
<1>. HIDE DEF m, starts, S
<1>. QED
  BY <1>2, <1>5, <1>6, <1>8 DEF n, W

(* The lines of the mushaf cut the words the same way.                     *)
LEMMA LinesCut ==
  ASSUME NEW q \in Qurans, HasLayout(q)
  PROVE  /\ LineCount(q) \in Nat \ {0} /\ WordCount(q) \in Nat \ {0}
         /\ StartOfLine(q, LineCount(q)) = WordCount(q)
         /\ \A l \in 0..(LineCount(q) - 1) :
              /\ MushafLines[q][l + 1] = StartOfLine(q, l) /\ EndOfLine(q, l) = StartOfLine(q, l + 1)
              /\ StartOfLine(q, l) < StartOfLine(q, l + 1)
         /\ \A l \in 0..LineCount(q) : StartOfLine(q, l) \in 0..WordCount(q)
         /\ \A l, k \in 0..LineCount(q) : l < k => StartOfLine(q, l) < StartOfLine(q, k)
<1>. DEFINE n == LineCount(q)
            W == WordCount(q)
            starts == MushafLines[q]
<1>0. starts # <<>>
  BY DEF HasLayout, LineCount
<1>1. Ascends(starts, W) /\ W \in Nat \ {0}
  BY <1>0, QuranPagingAssumption, AyahsCut DEF WellMade, WordCount
<1>2. starts \in Seq(0..(W - 1)) /\ starts[1] = 0
      /\ \A i, j \in DOMAIN starts : i < j => starts[i] < starts[j]
  BY <1>1 DEF Ascends
<1>3. n \in Nat \ {0} /\ DOMAIN starts = 1..n /\ \A i \in 1..n : starts[i] \in 0..(W - 1)
  <2>1. Len(starts) = n
    BY DEF LineCount
  <2>. HIDE DEF n, W, starts
  <2>2. \A i \in 1..n : starts[i] \in 0..(W - 1)
    BY <1>2, <2>1, ElementOfSeq
  <2>. QED
    BY <1>0, <1>2, <2>1, <2>2
<1>7. \A a \in 0..(n - 1) : a + 1 \in 1..n /\ a # n /\ StartOfLine(q, a) = starts[a + 1]
  BY <1>3 DEF StartOfLine
<1>8. StartOfLine(q, n) = W
  BY DEF StartOfLine
<1>12. \A a \in 0..(n - 1) : EndOfLine(q, a) = StartOfLine(q, a + 1)
  BY <1>3 DEF EndOfLine, StartOfLine
<1>. HIDE DEF n, W, starts
<1>9. \A a \in 0..n : a = n \/ a \in 0..(n - 1)
  BY <1>3
<1>10. \A a \in 0..n : StartOfLine(q, a) \in 0..W
  <2>. SUFFICES ASSUME NEW a \in 0..n PROVE StartOfLine(q, a) \in 0..W
    OBVIOUS
  <2>1. CASE a = n
    BY <1>1, <1>8, <2>1
  <2>2. CASE a \in 0..(n - 1)
    <3>1. StartOfLine(q, a) = starts[a + 1] /\ starts[a + 1] \in 0..(W - 1)
      BY <1>3, <1>7, <2>2
    <3>. QED
      BY <1>1, <3>1
  <2>. QED
    BY <1>9, <2>1, <2>2
<1>11. \A a, b \in 0..n : a < b => StartOfLine(q, a) < StartOfLine(q, b)
  <2>. SUFFICES ASSUME NEW a \in 0..n, NEW b \in 0..n, a < b
                PROVE  StartOfLine(q, a) < StartOfLine(q, b)
    OBVIOUS
  <2>1. a \in 0..(n - 1)
    BY <1>3
  <2>2. CASE b = n
    <3>1. starts[a + 1] \in 0..(W - 1) /\ StartOfLine(q, a) = starts[a + 1]
      BY <1>3, <1>7, <2>1
    <3>. QED
      BY <1>1, <1>8, <2>2, <3>1
  <2>3. CASE b # n
    <3>1. b \in 0..(n - 1) /\ a + 1 < b + 1
      BY <1>3, <2>1, <2>3
    <3>. QED
      BY <1>2, <1>3, <1>7, <2>1, <3>1
  <2>. QED
    BY <2>2, <2>3
<1>13. \A a \in 0..(n - 1) : StartOfLine(q, a) < StartOfLine(q, a + 1)
  <2>. SUFFICES ASSUME NEW a \in 0..(n - 1) PROVE StartOfLine(q, a) < StartOfLine(q, a + 1)
    OBVIOUS
  <2>1. a \in 0..n /\ a + 1 \in 0..n /\ a < a + 1
    BY <1>3
  <2>. QED
    BY <1>11, <2>1
<1>. QED
  BY <1>1, <1>3, <1>7, <1>8, <1>10, <1>11, <1>12, <1>13 DEF n, W, starts

LEMMA LineFound ==
  ASSUME NEW q \in Qurans, HasLayout(q), NEW w \in 0..(WordCount(q) - 1)
  PROVE  /\ LineOfWord(q, w) \in 0..(LineCount(q) - 1)
         /\ w \in LineWords(q, LineOfWord(q, w))
<1>. DEFINE n == LineCount(q)
            W == WordCount(q)
            starts == MushafLines[q]
            m == Largest({l \in 0..(Len(starts) - 1) : starts[l + 1] <= w})
<1>1. starts # <<>> /\ Len(starts) = n
  BY DEF HasLayout, LineCount
<1>2. Ascends(starts, W) /\ W \in Nat \ {0} /\ n \in Nat \ {0}
  BY <1>1, QuranPagingAssumption, LinesCut DEF WellMade, WordCount
<1>3. LineOfWord(q, w) = m
  BY DEF LineOfWord, LineCount
<1>4. /\ m \in 0..(n - 1) /\ starts[m + 1] <= w
      /\ m + 1 < n => w < starts[m + 2]
  <2>. HIDE DEF n, W, starts
  <2>. QED
    BY <1>1, <1>2, CutAt DEF W
<1>5. /\ StartOfLine(q, m) = starts[m + 1] /\ StartOfLine(q, m + 1) \in 0..W
      /\ m + 1 < n => StartOfLine(q, m + 1) = starts[m + 2]
      /\ ~ (m + 1 < n) => StartOfLine(q, m + 1) = W
  <2>. HIDE DEF m
  <2>1. m + 1 \in 0..n /\ (m + 1 < n => m + 1 # n) /\ m # n
    BY <1>2, <1>4
  <2>2. (m + 1) + 1 = m + 2
    BY <1>4
  <2>. QED
    BY <1>2, <1>4, <2>1, <2>2, LinesCut DEF StartOfLine
<1>. HIDE DEF m, starts
<1>6. w < StartOfLine(q, m + 1) /\ StartOfLine(q, m) <= w
  BY <1>2, <1>4, <1>5
<1>7. StartOfLine(q, m) \in Nat
  BY <1>2, <1>4, LinesCut
<1>. QED
  BY <1>2, <1>3, <1>4, <1>5, <1>6, <1>7 DEF LineWords, n, W

(* Surahs are numbered from 1 as the ayahs go on, each has a first ayah.   *)
LEMMA SurahsCounted ==
  ASSUME NEW q \in Qurans
  PROVE  /\ SurahCount(q) \in Nat \ {0} /\ SurahOf(q, 0) = 1
         /\ \A a \in 0..(AyahCount(q) - 1) : SurahOf(q, a) \in 1..SurahCount(q)
         /\ \A a, b \in 0..(AyahCount(q) - 1) : a <= b => SurahOf(q, a) <= SurahOf(q, b)
         /\ \A s \in 1..SurahCount(q) :
              FirstAyah(q, s) \in 0..(AyahCount(q) - 1) /\ SurahOf(q, FirstAyah(q, s)) = s
<1>. DEFINE n == AyahCount(q)
            c == SurahCount(q)
<1>1. n \in Nat \ {0}
  BY AyahsCut
<1>2. /\ Ayahs[q] \in Seq([surah : Nat, first : Nat]) /\ Len(Ayahs[q]) = n /\ DOMAIN Ayahs[q] = 1..n
      /\ c = Ayahs[q][n].surah
      /\ {Ayahs[q][a].surah : a \in 1..n} = 1..c
      /\ \A a, b \in 1..n : a < b => Ayahs[q][a].surah <= Ayahs[q][b].surah
  <2>1. /\ Ayahs[q] \in Seq([surah : Nat, first : Nat])
        /\ {Ayahs[q][a].surah : a \in DOMAIN Ayahs[q]} = 1..Ayahs[q][Len(Ayahs[q])].surah
        /\ \A a, b \in DOMAIN Ayahs[q] : a < b => Ayahs[q][a].surah <= Ayahs[q][b].surah
    BY QuranPagingAssumption DEF WellMade
  <2>2. Len(Ayahs[q]) = n /\ DOMAIN Ayahs[q] = 1..n
    BY <2>1 DEF AyahCount
  <2>3. c = Ayahs[q][n].surah
    BY DEF SurahCount
  <2>. QED
    BY <2>1, <2>2, <2>3
<1>. HIDE DEF n, c
<1>3. \A a \in 0..(n - 1) : a + 1 \in 1..n /\ SurahOf(q, a) = Ayahs[q][a + 1].surah
  BY <1>1 DEF SurahOf
<1>4. \A a \in 1..n : Ayahs[q][a].surah \in 1..c /\ Ayahs[q][a].surah \in Nat
  <2>. SUFFICES ASSUME NEW a \in 1..n PROVE Ayahs[q][a].surah \in 1..c /\ Ayahs[q][a].surah \in Nat
    OBVIOUS
  <2>1. Ayahs[q][a].surah \in {Ayahs[q][b].surah : b \in 1..n}
    OBVIOUS
  <2>2. Ayahs[q][a] \in [surah : Nat, first : Nat]
    BY <1>2, ElementOfSeq
  <2>. QED
    BY <1>2, <2>1, <2>2
<1>5. c \in Nat \ {0}
  <2>1. n \in 1..n
    BY <1>1
  <2>. QED
    BY <1>2, <1>4, <2>1
<1>6. \A a \in 0..(n - 1) : SurahOf(q, a) \in 1..c
  BY <1>3, <1>4
<1>7. \A a, b \in 0..(n - 1) : a <= b => SurahOf(q, a) <= SurahOf(q, b)
  <2>. SUFFICES ASSUME NEW a \in 0..(n - 1), NEW b \in 0..(n - 1), a <= b
                PROVE  SurahOf(q, a) <= SurahOf(q, b)
    OBVIOUS
  <2>1. CASE a = b
    BY <1>5, <1>6, <2>1
  <2>2. CASE a # b
    <3>1. a + 1 < b + 1
      BY <2>2
    <3>. QED
      BY <1>2, <1>3, <3>1
  <2>. QED
    BY <2>1, <2>2
<1>8. \A s \in 1..c : \E a \in 0..(n - 1) : SurahOf(q, a) = s
  <2>. SUFFICES ASSUME NEW s \in 1..c PROVE \E a \in 0..(n - 1) : SurahOf(q, a) = s
    OBVIOUS
  <2>1. PICK i \in 1..n : Ayahs[q][i].surah = s
    BY <1>2
  <2>2. i - 1 \in 0..(n - 1) /\ (i - 1) + 1 = i
    BY <1>1
  <2>. QED
    BY <1>3, <2>1, <2>2
<1>9. SurahOf(q, 0) = 1
  <2>1. 1 \in 1..c /\ 0 \in 0..(n - 1)
    BY <1>1, <1>5
  <2>2. PICK a \in 0..(n - 1) : SurahOf(q, a) = 1
    BY <1>8, <2>1
  <2>3. SurahOf(q, 0) <= 1
    BY <1>7, <2>1, <2>2
  <2>. QED
    BY <1>5, <1>6, <2>1, <2>3
<1>10. ASSUME NEW s \in 1..c
       PROVE  FirstAyah(q, s) \in 0..(n - 1) /\ SurahOf(q, FirstAyah(q, s)) = s
  <2>. DEFINE S == {a \in 0..(n - 1) : SurahOf(q, a) = s}
  <2>1. S \in SUBSET Nat /\ S # {}
    BY <1>8
  <2>2. PICK a \in S : \A b \in S : a <= b
    <3>. HIDE DEF S
    <3>. QED
      BY <2>1, LeastNumber
  <2>3. a > 0 => SurahOf(q, a - 1) # s
    <3>. SUFFICES ASSUME a > 0, SurahOf(q, a - 1) = s PROVE FALSE
      OBVIOUS
    <3>1. a - 1 \in S
      BY <1>1
    <3>. QED
      BY <2>2, <3>1
  <2>. QED
    BY <2>2, <2>3 DEF FirstAyah, n
<1>. QED
  BY <1>5, <1>6, <1>7, <1>9, <1>10 DEF n, c

(* A surah begins on a line of its own, so a line is in one surah.         *)
LEMMA LineOfOneSurah ==
  ASSUME NEW q \in Qurans, HasLayout(q), NEW l \in 0..(LineCount(q) - 1), NEW w \in LineWords(q, l)
  PROVE  /\ w \in 0..(WordCount(q) - 1) /\ StartOfLine(q, l) \in LineWords(q, l)
         /\ SurahOf(q, AyahOfWord(q, w)) = SurahOf(q, AyahOfWord(q, StartOfLine(q, l)))
<1>. DEFINE v == StartOfLine(q, l)
            a == AyahOfWord(q, v)
            b == AyahOfWord(q, w)
            n == AyahCount(q)
            Surah(i) == SurahOf(q, i)
<1>1. /\ LineCount(q) \in Nat \ {0} /\ WordCount(q) \in Nat \ {0} /\ n \in Nat \ {0}
      /\ l \in 0..LineCount(q) /\ l + 1 \in 0..LineCount(q)
  BY LinesCut, AyahsCut
<1>2. v \in 0..WordCount(q) /\ StartOfLine(q, l + 1) \in 0..WordCount(q) /\ v < StartOfLine(q, l + 1)
  BY <1>1, LinesCut
<1>3. w \in 0..(WordCount(q) - 1) /\ v \in LineWords(q, l) /\ v \in 0..(WordCount(q) - 1) /\ v <= w
      /\ w < StartOfLine(q, l + 1)
  BY <1>1, <1>2 DEF LineWords
<1>4. /\ a \in 0..(n - 1) /\ b \in 0..(n - 1)
      /\ StartOfAyah(q, a) <= v /\ v < StartOfAyah(q, a + 1) /\ StartOfAyah(q, b) <= w
  BY <1>3, AyahFound
<1>. HIDE DEF a, b, v
<1>5. a <= b
  <2>. SUFFICES ASSUME b < a PROVE FALSE
    BY <1>4
  <2>1. a \in 0..n /\ b + 1 \in 0..n /\ (b + 1 = a \/ b + 1 < a)
    BY <1>1, <1>4
  <2>2. StartOfAyah(q, b + 1) <= StartOfAyah(q, a)
    BY <2>1, AyahsCut DEF n
  <2>3. w < StartOfAyah(q, b + 1)
    BY <1>3, AyahFound DEF b
  <2>4. StartOfAyah(q, b + 1) \in Nat /\ StartOfAyah(q, a) \in Nat
    BY <2>1, AyahsCut DEF n
  <2>. QED
    BY <1>2, <1>3, <1>4, <2>2, <2>3, <2>4
<1>6. Surah(a) = Surah(b)
  <2>. SUFFICES ASSUME Surah(a) # Surah(b) PROVE FALSE
    OBVIOUS
  <2>. DEFINE S == {i \in a..b : Surah(i) # Surah(a)}
  <2>1. S \in SUBSET Nat /\ S # {}
    BY <1>4, <1>5
  <2>2. PICK k \in S : \A i \in S : k <= i
    <3>. HIDE DEF S
    <3>. QED
      BY <2>1, LeastNumber
  <2>3. k \in 0..(n - 1) /\ a < k /\ k <= b /\ k - 1 \in a..b /\ k - 1 \notin S /\ k - 1 \in 0..(n - 1)
    BY <1>1, <1>4, <2>2
  <2>4. Surah(k - 1) # Surah(k)
    BY <2>2, <2>3
  <2>5. /\ k + 1 \in 2..Len(Ayahs[q]) /\ Ayahs[q][(k + 1) - 1].surah # Ayahs[q][k + 1].surah
        /\ Ayahs[q][k + 1].first = StartOfAyah(q, k)
    <3>1. (k + 1) - 1 = k /\ (k - 1) + 1 = k
      BY <2>3
    <3>2. StartOfAyah(q, k) = FirstWord(q, k)
      BY <2>3, AyahsCut DEF n
    <3>. QED
      BY <1>1, <1>4, <2>3, <2>4, <3>1, <3>2 DEF SurahOf, FirstWord, n, AyahCount
  <2>6. PICK j \in DOMAIN MushafLines[q] : MushafLines[q][j] = StartOfAyah(q, k)
    <3>1. MushafLines[q] # <<>>
      BY DEF HasLayout, LineCount
    <3>. QED
      BY <2>5, <3>1, QuranPagingAssumption DEF WellMade
  <2>7. j - 1 \in 0..(LineCount(q) - 1) /\ StartOfLine(q, j - 1) = StartOfAyah(q, k)
    <3>1. MushafLines[q] \in Seq(0..(Len(Words[q]) - 1))
      <4>1. MushafLines[q] # <<>>
        BY DEF HasLayout, LineCount
      <4>2. Ascends(MushafLines[q], Len(Words[q]))
        BY <4>1, QuranPagingAssumption DEF WellMade
      <4>. QED
        BY <4>2 DEF Ascends
    <3>2. DOMAIN MushafLines[q] = 1..LineCount(q)
      BY <3>1 DEF LineCount
    <3>3. j - 1 \in 0..(LineCount(q) - 1) /\ (j - 1) + 1 = j
      BY <1>1, <3>2
    <3>. QED
      BY <2>6, <3>3, LinesCut
  <2>8. StartOfAyah(q, a + 1) <= StartOfAyah(q, k) /\ StartOfAyah(q, k) <= StartOfAyah(q, b)
        /\ StartOfAyah(q, k) \in Nat /\ StartOfAyah(q, a + 1) \in Nat /\ StartOfAyah(q, b) \in Nat
    <3>1. a + 1 \in 0..n /\ k \in 0..n /\ b \in 0..n /\ (a + 1 = k \/ a + 1 < k) /\ (k = b \/ k < b)
      BY <1>1, <1>4, <2>3
    <3>. QED
      BY <3>1, AyahsCut DEF n
  <2>9. v < StartOfLine(q, j - 1) /\ StartOfLine(q, j - 1) < StartOfLine(q, l + 1)
    BY <1>2, <1>3, <1>4, <2>7, <2>8
  <2>10. j - 1 \in 0..LineCount(q) /\ (j - 1 <= l \/ l + 1 <= j - 1)
    BY <1>1, <2>7
  <2>11. CASE j - 1 <= l
    <3>1. j - 1 = l \/ StartOfLine(q, j - 1) < StartOfLine(q, l)
      BY <1>1, <2>10, <2>11, LinesCut
    <3>. QED
      BY <1>2, <2>7, <2>8, <2>9, <3>1 DEF v
  <2>12. CASE l + 1 <= j - 1
    <3>1. j - 1 = l + 1 \/ StartOfLine(q, l + 1) < StartOfLine(q, j - 1)
      BY <1>1, <2>10, <2>12, LinesCut
    <3>. QED
      BY <1>2, <2>7, <2>8, <2>9, <3>1
  <2>. QED
    BY <2>10, <2>11, <2>12
<1>. QED
  BY <1>3, <1>6 DEF a, b, v

-----------------------------------------------------------------------------
(* Drawing by line                                                         *)

LineState == [row : Nat, used : Nat, drawn : SUBSET Nat]

(* An item moves the row on by at most one.                                *)
LEMMA ItemPlaced ==
  ASSUME NEW spot \in LineState, NEW width \in Nat
  PROVE  /\ PlaceItem(spot, width) \in LineState
         /\ PlaceItem(spot, width).row \in {spot.row, spot.row + 1} /\ PlaceItem(spot, width).drawn = spot.drawn
<1>1. spot.row \in Nat /\ spot.used \in Nat /\ spot.used + width \in Nat /\ spot.row + 1 \in Nat
      /\ spot.drawn \in SUBSET Nat
  BY DEF LineState
<1>2. CASE spot.used > 0 /\ spot.used + width > Width
  <2>1. PlaceItem(spot, width) = [spot EXCEPT !.row = spot.row + 1, !.used = width]
    BY <1>2 DEF PlaceItem
  <2>. QED
    BY <1>1, <2>1 DEF LineState
<1>3. CASE ~ (spot.used > 0 /\ spot.used + width > Width)
  <2>1. PlaceItem(spot, width) = [spot EXCEPT !.used = spot.used + width]
    BY <1>3 DEF PlaceItem
  <2>. QED
    BY <1>1, <2>1 DEF LineState
<1>. QED
  BY <1>2, <1>3

(* A word is drawn if its row is on the panel.                             *)
LEMMA WordPlaced ==
  ASSUME NEW q \in Qurans, NEW spot \in LineState, NEW v \in 0..(WordCount(q) - 1)
  PROVE  /\ PlaceWord(q, spot, v) \in LineState /\ PlaceWord(q, spot, v).row >= spot.row
         /\ spot.drawn \subseteq PlaceWord(q, spot, v).drawn
         /\ PlaceWord(q, spot, v).row <= Rows => PlaceWord(q, spot, v).drawn = spot.drawn \cup {v}
<1>. DEFINE placed == PlaceItem(spot, Words[q][v + 1])
            drawn  == [placed EXCEPT !.drawn = IF placed.row <= Rows THEN placed.drawn \cup {v}
                                               ELSE placed.drawn]
            end    == IF EndsAyah(q, v) THEN PlaceItem(drawn, Marker) ELSE drawn
<1>1. Words[q][v + 1] \in Nat /\ Marker \in Nat /\ Rows \in Nat /\ spot.row \in Nat /\ v \in Nat
  <2>1. Words[q] \in Seq(Nat)
    BY QuranPagingAssumption DEF WellMade
  <2>1a. v + 1 \in 1..Len(Words[q])
    BY AyahsCut DEF WordCount
  <2>2. Words[q][v + 1] \in Nat
    BY <2>1, <2>1a, ElementOfSeq
  <2>. QED
    BY <2>2, QuranPagingAssumption DEF LineState
<1>2. placed \in LineState /\ placed.row \in {spot.row, spot.row + 1} /\ placed.drawn = spot.drawn
  BY <1>1, ItemPlaced
<1>3. PlaceWord(q, spot, v) = end
  BY DEF PlaceWord
<1>. HIDE DEF placed
<1>4. /\ drawn \in LineState /\ drawn.row = placed.row
      /\ drawn.drawn = IF placed.row <= Rows THEN spot.drawn \cup {v} ELSE spot.drawn
  BY <1>1, <1>2 DEF LineState
<1>. HIDE DEF drawn
<1>5. /\ PlaceItem(drawn, Marker) \in LineState
      /\ PlaceItem(drawn, Marker).row \in {drawn.row, drawn.row + 1}
      /\ PlaceItem(drawn, Marker).drawn = drawn.drawn
  BY <1>1, <1>4, ItemPlaced
<1>6. end \in LineState /\ end.row \in {drawn.row, drawn.row + 1} /\ end.drawn = drawn.drawn
  BY <1>4, <1>5
<1>. HIDE DEF end
<1>7. end.row >= spot.row /\ (end.row <= Rows => placed.row <= Rows)
  BY <1>1, <1>2, <1>4, <1>6
<1>. QED
  BY <1>3, <1>4, <1>6, <1>7

(* A line that ends on the panel is drawn, every word of it.               *)
LEMMA LinePlaced ==
  ASSUME NEW q \in Qurans, HasLayout(q), NEW l \in 0..(LineCount(q) - 1),
         NEW row \in Nat, NEW drawn \in SUBSET Nat
  PROVE  /\ PlaceLine(q, row, drawn, l) \in LineState
         /\ PlaceLine(q, row, drawn, l).row >= row
         /\ drawn \subseteq PlaceLine(q, row, drawn, l).drawn
         /\ PlaceLine(q, row, drawn, l).row <= Rows =>
              PlaceLine(q, row, drawn, l).drawn = drawn \cup LineWords(q, l)
<1>. DEFINE a == StartOfLine(q, l)
            b == StartOfLine(q, l + 1)
            x == [row |-> row, used |-> 0, drawn |-> drawn]
            At == CHOOSE At : At = [v \in a..b |-> IF v = a THEN x ELSE PlaceWord(q, At[v - 1], v - 1)]
            G == [v \in a..(b - 1) |-> [s \in LineState |-> PlaceWord(q, s, v)]]
<1>1. /\ LineCount(q) \in Nat \ {0} /\ l + 1 \in 0..LineCount(q) /\ l \in 0..LineCount(q)
      /\ MushafLines[q][l + 1] = a /\ EndOfLine(q, l) = b
  BY LinesCut
<1>2. a \in Nat /\ b \in Nat /\ a < b /\ b <= WordCount(q) /\ WordCount(q) \in Nat
  BY <1>1, LinesCut
<1>3. PlaceLine(q, row, drawn, l) = At[b]
  BY <1>1 DEF PlaceLine
<1>4. Rows \in Nat /\ x \in LineState
  BY QuranPagingAssumption DEF LineState
<1>5. LineWords(q, l) = a..(b - 1)
  BY DEF LineWords
<1>. HIDE DEF a, b, x
<1>6. \A v \in a..(b - 1) : v \in 0..(WordCount(q) - 1)
  BY <1>2
<1>7. G \in [a..(b - 1) -> [LineState -> LineState]]
  BY <1>6, WordPlaced
<1>8. PICK f : GoesOn(f, a, b, LineState, x, G)
  <2>. HIDE DEF G
  <2>. QED
    BY <1>2, <1>4, <1>7, Goes
<1>9. f = [v \in a..b |-> IF v = a THEN x ELSE PlaceWord(q, f[v - 1], v - 1)]
  <2>1. ASSUME NEW v \in a..b, v # a PROVE G[v - 1][f[v - 1]] = PlaceWord(q, f[v - 1], v - 1)
    <3>1. v - 1 \in a..(b - 1) /\ v - 1 \in a..b
      BY <1>2, <2>1
    <3>2. f[v - 1] \in LineState
      BY <1>8, <3>1 DEF GoesOn
    <3>. QED
      BY <3>1, <3>2
  <2>2. f = [v \in a..b |-> f[v]]
    BY <1>8 DEF GoesOn
  <2>. HIDE DEF G
  <2>3. \A v \in a..b : f[v] = IF v = a THEN x ELSE PlaceWord(q, f[v - 1], v - 1)
    BY <1>8, <2>1 DEF GoesOn
  <2>. QED
    BY <2>2, <2>3
<1>10. At = [v \in a..b |-> IF v = a THEN x ELSE PlaceWord(q, At[v - 1], v - 1)]
  BY <1>9
<1>. HIDE DEF At, G
<1>11. At[a] = x
  BY <1>2, <1>10
<1>12. \A v \in a..(b - 1) : At[v + 1] = PlaceWord(q, At[v], v)
  <2>. SUFFICES ASSUME NEW v \in a..(b - 1) PROVE At[v + 1] = PlaceWord(q, At[v], v)
    OBVIOUS
  <2>1. v + 1 \in a..b /\ v + 1 # a /\ (v + 1) - 1 = v
    BY <1>2
  <2>. QED
    BY <1>10, <2>1
<1>. DEFINE T == {v \in Nat : /\ At[v] \in LineState /\ At[v].row >= row /\ drawn \subseteq At[v].drawn
                              /\ At[v].row <= Rows => At[v].drawn = drawn \cup (a..(v - 1))}
<1>13. a \in T
  <2>1. a..(a - 1) = {} /\ x.row = row /\ x.drawn = drawn
    BY <1>2 DEF x
  <2>. QED
    BY <1>2, <1>4, <1>11, <2>1
<1>14. ASSUME NEW v \in a..(b - 1), v \in T PROVE v + 1 \in T
  <2>1. v \in 0..(WordCount(q) - 1) /\ At[v] \in LineState
    BY <1>6, <1>14
  <2>2. /\ At[v + 1] \in LineState /\ At[v + 1].row >= At[v].row
        /\ At[v].drawn \subseteq At[v + 1].drawn
        /\ At[v + 1].row <= Rows => At[v + 1].drawn = At[v].drawn \cup {v}
    BY <1>12, <2>1, WordPlaced
  <2>3. At[v].row \in Nat /\ At[v + 1].row \in Nat /\ v + 1 \in Nat
    BY <1>2, <2>1, <2>2 DEF LineState
  <2>4. At[v + 1].row >= row /\ (At[v + 1].row <= Rows => At[v].row <= Rows)
    BY <1>4, <1>14, <2>2, <2>3
  <2>5. (a..(v - 1)) \cup {v} = a..((v + 1) - 1)
    BY <1>2
  <2>6. At[v + 1].row <= Rows => At[v + 1].drawn = drawn \cup (a..((v + 1) - 1))
    BY <1>14, <2>2, <2>4, <2>5
  <2>. QED
    BY <1>14, <2>2, <2>3, <2>4, <2>6
<1>15. b \in T
  <2>1. b \in a..b
    BY <1>2
  <2>. HIDE DEF T
  <2>. QED
    BY <1>2, <1>13, <1>14, <2>1, Along
<1>. QED
  BY <1>3, <1>5, <1>15

ScreenState == [row : Nat, drawn : SUBSET Nat, next : Nat, full : BOOLEAN]

(* One line more on a screen that starts with another.  If lines fit, the  *)
(* words drawn are those of the lines up to the next one.                  *)
WordsTo(q, from, s) == s.drawn = StartOfLine(q, from)..(StartOfLine(q, s.next) - 1)
ScreenTo(q, from, l, s) ==
  /\ s \in ScreenState /\ s.next \in from..l
  /\ LinesFit(q) => /\ WordsTo(q, from, s)
                    /\ ~ s.full => s.next = l
                    /\ l > from => s.next > from
                    /\ l = from => s.row = 1 /\ s.drawn = {} /\ ~ s.full

LEMMA LineDrawn ==
  ASSUME NEW q \in Qurans, HasLayout(q), NEW from \in Nat, NEW l \in from..(LineCount(q) - 1),
         NEW s, ScreenTo(q, from, l, s)
  PROVE  ScreenTo(q, from, l + 1, DrawLine(q, s, l))
<1>. DEFINE end == PlaceLine(q, s.row, s.drawn, l)
            stop == s.full \/ s.row > Rows \/ (end.row > Rows /\ s.drawn # {})
            r == DrawLine(q, s, l)
<1>1. /\ s \in ScreenState /\ s.row \in Nat /\ s.drawn \in SUBSET Nat /\ s.next \in Nat
      /\ s.full \in BOOLEAN /\ s.next \in from..l
  BY DEF ScreenTo, ScreenState
<1>2. LineCount(q) \in Nat \ {0} /\ l \in 0..(LineCount(q) - 1) /\ Rows \in Nat
  BY LinesCut, QuranPagingAssumption
<1>3. /\ end \in LineState /\ end.row >= s.row
      /\ end.row <= Rows => end.drawn = s.drawn \cup LineWords(q, l)
  BY <1>1, <1>2, LinePlaced
<1>4. r = IF stop THEN [s EXCEPT !.full = TRUE]
          ELSE [row |-> end.row + 1, drawn |-> end.drawn, next |-> l + 1, full |-> FALSE]
  BY DEF DrawLine
<1>5. end.row \in Nat /\ end.drawn \in SUBSET Nat
  BY <1>3 DEF LineState
<1>6. l = from /\ LinesFit(q) => ~ stop /\ end.row <= Rows
  <2>. SUFFICES ASSUME l = from, LinesFit(q) PROVE ~ stop /\ end.row <= Rows
    OBVIOUS
  <2>1. s.row = 1 /\ s.drawn = {} /\ ~ s.full
    BY DEF ScreenTo
  <2>2. end.row <= Rows
    BY <1>2, <2>1 DEF LinesFit
  <2>. QED
    BY <1>2, <1>3, <1>5, <2>1, <2>2
<1>. HIDE DEF end, r
<1>7. CASE stop
  <2>1. r \in ScreenState /\ r.next = s.next /\ r.drawn = s.drawn /\ r.full
    BY <1>1, <1>4, <1>7 DEF ScreenState
  <2>2. r.next \in from..(l + 1)
    BY <1>1, <2>1
  <2>3. ASSUME LinesFit(q) PROVE WordsTo(q, from, r) /\ r.next > from
    <3>1. l > from
      BY <1>6, <1>7, <2>3
    <3>. QED
      BY <2>1, <2>3, <3>1 DEF ScreenTo, WordsTo
  <2>. QED
    BY <2>1, <2>2, <2>3 DEF ScreenTo, r
<1>8. CASE ~ stop
  <2>1. r \in ScreenState /\ r.next = l + 1 /\ r.drawn = end.drawn /\ ~ r.full
    <3>1. r = [row |-> end.row + 1, drawn |-> end.drawn, next |-> l + 1, full |-> FALSE]
      BY <1>4, <1>8
    <3>. QED
      BY <1>2, <1>5, <3>1 DEF ScreenState
  <2>2. r.next \in from..(l + 1) /\ r.next > from
    BY <1>1, <2>1
  <2>3. ASSUME LinesFit(q) PROVE WordsTo(q, from, r)
    <3>1. s.next = l /\ s.drawn = StartOfLine(q, from)..(StartOfLine(q, l) - 1)
      BY <1>8, <2>3 DEF ScreenTo, WordsTo
    <3>2. /\ from \in 0..LineCount(q) /\ l \in 0..LineCount(q) /\ l + 1 \in 0..LineCount(q)
          /\ from = l \/ from < l
      BY <1>1, <1>2
    <3>3. /\ StartOfLine(q, from) \in Nat /\ StartOfLine(q, l) \in Nat /\ StartOfLine(q, l + 1) \in Nat
          /\ from = l \/ StartOfLine(q, from) < StartOfLine(q, l)
          /\ StartOfLine(q, l) < StartOfLine(q, l + 1)
      BY <1>2, <3>2, LinesCut
    <3>4. end.row <= Rows
      <4>1. CASE from = l
        BY <1>6, <2>3, <4>1
      <4>2. CASE from # l
        <5>1. StartOfLine(q, from) \in s.drawn
          BY <3>1, <3>3, <4>2
        <5>. QED
          BY <1>2, <1>5, <1>8, <5>1
      <4>. QED
        BY <4>1, <4>2
    <3>5. r.drawn = (StartOfLine(q, from)..(StartOfLine(q, l) - 1))
                      \cup (StartOfLine(q, l)..(StartOfLine(q, l + 1) - 1))
      BY <1>3, <2>1, <3>1, <3>4 DEF LineWords
    <3>6. r.drawn = StartOfLine(q, from)..(StartOfLine(q, l + 1) - 1)
      BY <3>3, <3>5
    <3>. QED
      BY <2>1, <3>6 DEF WordsTo
  <2>. QED
    BY <1>1, <2>1, <2>2, <2>3 DEF ScreenTo, r
<1>. QED
  BY <1>7, <1>8

(* A screen by line.                                                       *)
LEMMA LayoutScreen ==
  ASSUME NEW q \in Qurans, HasLayout(q), NEW from \in 0..(LineCount(q) - 1)
  PROVE  LET r == RenderLayoutPath(q, from)
         IN /\ r.layout = TRUE /\ r.drawn \in SUBSET Nat /\ r.ayah \in Nat
            /\ r.line \in from..LineCount(q)
            /\ LinesFit(q) => r.line > from
                              /\ r.drawn = StartOfLine(q, from)..(StartOfLine(q, r.line) - 1)
<1>. DEFINE b == LineCount(q)
            x == [row |-> 1, drawn |-> {}, next |-> from, full |-> FALSE]
            Screen == CHOOSE Screen : Screen =
                        [l \in from..b |-> IF l = from THEN x ELSE DrawLine(q, Screen[l - 1], l - 1)]
            G == [l \in from..(b - 1) |-> [s \in ScreenState |-> DrawLine(q, s, l)]]
            r == RenderLayoutPath(q, from)
<1>1. from \in Nat /\ b \in Nat /\ from < b
  BY LinesCut
<1>2. /\ r.layout = TRUE /\ r.drawn = Screen[b].drawn /\ r.line = Screen[b].next
      /\ r.ayah = IF Screen[b].next < b THEN AyahOfWord(q, MushafLines[q][Screen[b].next + 1])
                  ELSE AyahCount(q)
  BY DEF RenderLayoutPath
<1>. HIDE DEF b, x
<1>3. x \in ScreenState
  BY <1>1 DEF x, ScreenState
<1>4. ASSUME NEW l \in from..(b - 1), NEW s \in ScreenState PROVE DrawLine(q, s, l) \in ScreenState
  <2>1. l \in 0..(LineCount(q) - 1) /\ s.row \in Nat /\ s.drawn \in SUBSET Nat /\ l + 1 \in Nat
    BY <1>1 DEF b, ScreenState
  <2>2. PlaceLine(q, s.row, s.drawn, l) \in LineState
    BY <2>1, LinePlaced
  <2>3. PlaceLine(q, s.row, s.drawn, l).row + 1 \in Nat
        /\ PlaceLine(q, s.row, s.drawn, l).drawn \in SUBSET Nat
    BY <2>2 DEF LineState
  <2>. QED
    BY <2>1, <2>3 DEF DrawLine, ScreenState
<1>5. G \in [from..(b - 1) -> [ScreenState -> ScreenState]]
  BY <1>4
<1>6. PICK f : GoesOn(f, from, b, ScreenState, x, G)
  <2>. HIDE DEF G
  <2>. QED
    BY <1>1, <1>3, <1>5, Goes
<1>7. f = [l \in from..b |-> IF l = from THEN x ELSE DrawLine(q, f[l - 1], l - 1)]
  <2>1. ASSUME NEW l \in from..b, l # from PROVE G[l - 1][f[l - 1]] = DrawLine(q, f[l - 1], l - 1)
    <3>1. l - 1 \in from..(b - 1) /\ l - 1 \in from..b
      BY <1>1, <2>1
    <3>2. f[l - 1] \in ScreenState
      BY <1>6, <3>1 DEF GoesOn
    <3>. QED
      BY <3>1, <3>2
  <2>2. f = [l \in from..b |-> f[l]]
    BY <1>6 DEF GoesOn
  <2>. HIDE DEF G
  <2>3. \A l \in from..b : f[l] = IF l = from THEN x ELSE DrawLine(q, f[l - 1], l - 1)
    BY <1>6, <2>1 DEF GoesOn
  <2>. QED
    BY <2>2, <2>3
<1>8. Screen = [l \in from..b |-> IF l = from THEN x ELSE DrawLine(q, Screen[l - 1], l - 1)]
  BY <1>7
<1>. HIDE DEF Screen, G
<1>9. Screen[from] = x
  BY <1>1, <1>8
<1>10. \A l \in from..(b - 1) : Screen[l + 1] = DrawLine(q, Screen[l], l)
  <2>. SUFFICES ASSUME NEW l \in from..(b - 1) PROVE Screen[l + 1] = DrawLine(q, Screen[l], l)
    OBVIOUS
  <2>1. l + 1 \in from..b /\ l + 1 # from /\ (l + 1) - 1 = l
    BY <1>1
  <2>. QED
    BY <1>8, <2>1
<1>. DEFINE T == {l \in Nat : ScreenTo(q, from, l, Screen[l])}
<1>11. from \in T
  <2>1. x \in ScreenState /\ x.next = from /\ x.row = 1 /\ x.drawn = {} /\ ~ x.full
    BY <1>3 DEF x
  <2>2. StartOfLine(q, from) \in Nat
    BY <1>1, LinesCut DEF b
  <2>3. WordsTo(q, from, x)
    BY <2>1, <2>2 DEF WordsTo
  <2>. QED
    BY <1>1, <1>9, <2>1, <2>3 DEF ScreenTo
<1>12. ASSUME NEW l \in from..(b - 1), l \in T PROVE l + 1 \in T
  <2>1. ScreenTo(q, from, l + 1, DrawLine(q, Screen[l], l))
    BY <1>1, <1>12, LineDrawn DEF b
  <2>. QED
    BY <1>1, <1>10, <2>1
<1>13. ScreenTo(q, from, b, Screen[b])
  <2>1. b \in from..b
    BY <1>1
  <2>. HIDE DEF T
  <2>2. b \in T
    BY <1>1, <1>11, <1>12, <2>1, Along
  <2>. QED
    BY <2>2 DEF T
<1>14. r.drawn \in SUBSET Nat /\ r.line \in from..b
  BY <1>2, <1>13 DEF ScreenTo, ScreenState
<1>15. r.ayah \in Nat
  <2>1. AyahCount(q) \in Nat
    BY AyahsCut
  <2>2. CASE r.line < b
    <3>1. r.line \in 0..(LineCount(q) - 1) /\ r.line \in 0..LineCount(q) /\ r.line + 1 \in 0..LineCount(q)
      BY <1>1, <1>14, <2>2 DEF b
    <3>2. /\ MushafLines[q][r.line + 1] = StartOfLine(q, r.line)
          /\ StartOfLine(q, r.line) < StartOfLine(q, r.line + 1)
          /\ StartOfLine(q, r.line) \in 0..WordCount(q) /\ StartOfLine(q, r.line + 1) \in 0..WordCount(q)
          /\ WordCount(q) \in Nat
      BY <3>1, LinesCut
    <3>3. StartOfLine(q, r.line) \in 0..(WordCount(q) - 1)
      BY <3>2
    <3>4. AyahOfWord(q, StartOfLine(q, r.line)) \in 0..(AyahCount(q) - 1)
      BY <3>3, AyahFound
    <3>. QED
      BY <1>2, <2>1, <2>2, <3>2, <3>4
  <2>. QED
    BY <1>2, <2>1, <2>2
<1>16. LinesFit(q) => r.line > from /\ r.drawn = StartOfLine(q, from)..(StartOfLine(q, r.line) - 1)
  BY <1>1, <1>2, <1>13 DEF ScreenTo, WordsTo
<1>. QED
  BY <1>2, <1>14, <1>15, <1>16 DEF b

-----------------------------------------------------------------------------
(* Drawing by ayah                                                         *)

FillState == [row : Nat, used : Nat, drawn : SUBSET Nat, next : Nat, ayahs : Nat,
              started : BOOLEAN, full : BOOLEAN]

(* A word that is in an ayah, or one past the last.                        *)
InAyah(q, v, a) ==
  /\ a \in 0..AyahCount(q) /\ v \in 0..WordCount(q) /\ StartOfAyah(q, a) <= v
  /\ a < AyahCount(q) => v < StartOfAyah(q, a + 1)

(* The words before v have been put on a screen that starts with ayah c.   *)
(* If words fit, they are on it, up to the one it was full at, and the     *)
(* next screen starts with the ayah of the word that comes next.           *)
FillTo(q, c, v, s) ==
  /\ s \in FillState
  /\ WordsFit(q) =>
       /\ s.next >= c
       /\ ~ s.full => /\ s.drawn = StartOfAyah(q, c)..(v - 1) /\ InAyah(q, v, s.next)
                      /\ v > StartOfAyah(q, c) => s.ayahs > 0 \/ s.started
                      /\ v = StartOfAyah(q, c) => s.row = 1 /\ s.used = 0
       /\ s.full => \E e \in (StartOfAyah(q, c) + 1)..(v - 1) :
                      s.drawn = StartOfAyah(q, c)..(e - 1) /\ InAyah(q, e, s.next)

LEMMA WrappedTyped ==
  ASSUME NEW s \in FillState, NEW width \in Nat
  PROVE  /\ Wrapped(s, width) \in FillState /\ Wrapped(s, width).drawn = s.drawn
         /\ Wrapped(s, width).next = s.next /\ Wrapped(s, width).ayahs = s.ayahs
         /\ Wrapped(s, width).started = s.started /\ Wrapped(s, width).full = s.full
         /\ s.used + width <= Width => Wrapped(s, width) = s
<1>1. s.row + 1 \in Nat /\ s.used + width \in Nat /\ Width \in Nat
  BY QuranPagingAssumption DEF FillState
<1>2. CASE s.used + width > Width
  <2>1. Wrapped(s, width) = [s EXCEPT !.row = s.row + 1, !.used = 0]
    BY <1>2 DEF Wrapped
  <2>2. ~ (s.used + width <= Width)
    BY <1>1, <1>2
  <2>3. [s EXCEPT !.row = s.row + 1, !.used = 0] \in FillState
    BY <1>1 DEF FillState
  <2>. QED
    BY <2>1, <2>2, <2>3 DEF FillState
<1>3. CASE ~ (s.used + width > Width)
  BY <1>1, <1>3 DEF Wrapped
<1>. QED
  BY <1>2, <1>3

LEMMA SignFilled ==
  ASSUME NEW s \in FillState
  PROVE  /\ FillSign(s) \in FillState /\ FillSign(s).drawn = s.drawn /\ FillSign(s).next = s.next + 1
         /\ FillSign(s).ayahs > 0 /\ FillSign(s).full = s.full
<1>. DEFINE spot == Wrapped(s, Marker)
<1>1. Marker \in Nat /\ spot \in FillState /\ spot.drawn = s.drawn /\ spot.next = s.next
      /\ spot.ayahs = s.ayahs /\ spot.full = s.full
  BY WrappedTyped, QuranPagingAssumption
<1>2. FillSign(s) = [spot EXCEPT !.used = IF spot.row <= Rows THEN spot.used + Marker ELSE spot.used,
                                 !.next = spot.next + 1, !.ayahs = spot.ayahs + 1, !.started = FALSE]
  BY DEF FillSign
<1>. HIDE DEF spot
<1>3. spot.used + Marker \in Nat /\ spot.next + 1 \in Nat /\ spot.ayahs + 1 \in Nat
      /\ spot.ayahs + 1 > 0 /\ spot.used \in Nat
  BY <1>1 DEF FillState
<1>. QED
  BY <1>1, <1>2, <1>3 DEF FillState

LEMMA WordFilled ==
  ASSUME NEW s \in FillState, ~ s.full, NEW v \in Nat, NEW width \in Nat
  PROVE  LET word == FillWord(s, v, width)
         IN /\ word \in FillState
            /\ word.full => /\ s.used + width > Width /\ word.drawn = s.drawn
                            /\ s.ayahs > 0 \/ s.started => word.next = s.next
            /\ ~ word.full => word.drawn = s.drawn \cup {v} /\ word.next = s.next /\ word.started
<1>. DEFINE spot == Wrapped(s, width)
            full == spot.row # s.row /\ spot.row > Rows
            word == FillWord(s, v, width)
            on   == IF s.ayahs = 0 /\ ~ s.started THEN s.next + 1 ELSE s.next
<1>1. /\ spot \in FillState /\ spot.drawn = s.drawn /\ spot.next = s.next /\ spot.full = s.full
      /\ s.used + width <= Width => spot = s
  BY WrappedTyped
<1>2. word = IF full THEN [s EXCEPT !.full = TRUE, !.next = on]
             ELSE [spot EXCEPT !.used = spot.used + width, !.started = TRUE,
                               !.drawn = spot.drawn \cup {v}]
  BY DEF FillWord
<1>. HIDE DEF spot, word
<1>3. /\ spot.used + width \in Nat /\ s.next + 1 \in Nat /\ s.used + width \in Nat /\ Width \in Nat
      /\ spot.drawn \cup {v} \in SUBSET Nat /\ on \in Nat /\ s.ayahs \in Nat
  BY <1>1, QuranPagingAssumption DEF FillState
<1>4. CASE full
  <2>1. word = [s EXCEPT !.full = TRUE, !.next = on]
    BY <1>2, <1>4
  <2>2. word \in FillState /\ word.full /\ word.drawn = s.drawn /\ word.next = on
    BY <1>3, <2>1 DEF FillState
  <2>3. s.used + width > Width
    BY <1>1, <1>3, <1>4
  <2>4. s.ayahs > 0 \/ s.started => on = s.next
    BY <1>3
  <2>. QED
    BY <2>2, <2>3, <2>4 DEF word
<1>5. CASE ~ full
  <2>1. word = [spot EXCEPT !.used = spot.used + width, !.started = TRUE, !.drawn = spot.drawn \cup {v}]
    BY <1>2, <1>5
  <2>2. word \in FillState /\ ~ word.full /\ word.drawn = s.drawn \cup {v} /\ word.next = s.next
        /\ word.started
    BY <1>1, <1>3, <2>1 DEF FillState
  <2>. QED
    BY <2>2 DEF word
<1>. QED
  BY <1>4, <1>5

(* One word more.                                                          *)
LEMMA WordsFill ==
  ASSUME NEW q \in Qurans, NEW c \in 0..(AyahCount(q) - 1),
         NEW v \in StartOfAyah(q, c)..(WordCount(q) - 1), NEW s, FillTo(q, c, v, s)
  PROVE  FillTo(q, c, v + 1, Fill(q, s, v))
<1>. DEFINE first == StartOfAyah(q, c)
            width == Words[q][v + 1]
            word  == FillWord(s, v, width)
            r     == Fill(q, s, v)
<1>1. /\ AyahCount(q) \in Nat \ {0} /\ WordCount(q) \in Nat \ {0} /\ first \in Nat
      /\ v \in 0..(WordCount(q) - 1) /\ v \in Nat /\ first <= v /\ s \in FillState
  BY AyahsCut DEF FillTo
<1>2. width \in Nat /\ (WordsFit(q) => width <= Width) /\ Width \in Nat
  <2>1. Words[q] \in Seq(Nat)
    BY QuranPagingAssumption DEF WellMade
  <2>2. v + 1 \in 1..Len(Words[q])
    BY <1>1 DEF WordCount
  <2>3. Words[q][v + 1] \in Nat
    BY <2>1, <2>2, ElementOfSeq
  <2>. QED
    BY <2>2, <2>3, QuranPagingAssumption DEF WordsFit, WordCount
<1>3. r = IF s.full THEN s ELSE IF word.full \/ ~ EndsAyah(q, v) THEN word ELSE FillSign(word)
  BY DEF Fill
<1>4. CASE s.full
  <2>1. r = s
    BY <1>3, <1>4
  <2>2. ASSUME WordsFit(q)
        PROVE  \E e \in (first + 1)..((v + 1) - 1) : s.drawn = first..(e - 1) /\ InAyah(q, e, s.next)
    <3>1. PICK e \in (first + 1)..(v - 1) : s.drawn = first..(e - 1) /\ InAyah(q, e, s.next)
      BY <1>4, <2>2 DEF FillTo
    <3>2. e \in (first + 1)..((v + 1) - 1)
      BY <1>1
    <3>. QED
      BY <3>1, <3>2
  <2>. QED
    BY <1>1, <1>4, <2>1, <2>2 DEF FillTo
<1>5. CASE ~ s.full
  <2>1. /\ word \in FillState
        /\ word.full => /\ s.used + width > Width /\ word.drawn = s.drawn
                        /\ s.ayahs > 0 \/ s.started => word.next = s.next
        /\ ~ word.full => word.drawn = s.drawn \cup {v} /\ word.next = s.next /\ word.started
    BY <1>1, <1>2, <1>5, WordFilled
  <2>. HIDE DEF word, r
  <2>2. WordsFit(q) => /\ s.next >= c /\ s.drawn = first..(v - 1) /\ InAyah(q, v, s.next)
                       /\ v > first => s.ayahs > 0 \/ s.started
                       /\ v = first => s.used = 0
    BY <1>5 DEF FillTo
  <2>3. CASE word.full
    <3>1. r = word
      BY <1>3, <1>5, <2>3
    <3>2. ASSUME WordsFit(q)
          PROVE  /\ r.next >= c
                 /\ \E e \in (first + 1)..((v + 1) - 1) : r.drawn = first..(e - 1) /\ InAyah(q, e, r.next)
      <4>1. v # first
        BY <1>2, <2>1, <2>2, <2>3, <3>2
      <4>2. v \in (first + 1)..((v + 1) - 1) /\ v > first
        BY <1>1, <4>1
      <4>3. r.next = s.next /\ r.drawn = first..(v - 1)
        BY <2>1, <2>2, <2>3, <3>1, <3>2, <4>2
      <4>. QED
        BY <2>2, <3>2, <4>2, <4>3
    <3>. QED
      BY <2>1, <2>3, <3>1, <3>2 DEF FillTo, r
  <2>4. CASE ~ word.full
    <3>1. v + 1 > first /\ v + 1 # first /\ (first..(v - 1)) \cup {v} = first..((v + 1) - 1)
      BY <1>1
    <3>2. ASSUME WordsFit(q)
          PROVE  /\ s.next \in 0..(AyahCount(q) - 1) /\ AyahOfWord(q, v) = s.next
                 /\ EndsAyah(q, v) <=> StartOfAyah(q, s.next + 1) = v + 1
                 /\ StartOfAyah(q, s.next) <= v /\ v < StartOfAyah(q, s.next + 1)
      <4>1. InAyah(q, v, s.next)
        BY <2>2, <3>2
      <4>2. s.next # AyahCount(q)
        BY <1>1, <4>1 DEF InAyah, StartOfAyah
      <4>3. s.next \in 0..(AyahCount(q) - 1) /\ StartOfAyah(q, s.next) <= v /\ v < StartOfAyah(q, s.next + 1)
        BY <1>1, <4>1, <4>2 DEF InAyah
      <4>4. AyahOfWord(q, v) = s.next
        BY <1>1, <4>3, AyahFound
      <4>5. EndOfAyah(q, s.next) = StartOfAyah(q, s.next + 1)
        BY <4>3, AyahsCut
      <4>. QED
        BY <4>3, <4>4, <4>5 DEF EndsAyah
    <3>3. CASE EndsAyah(q, v)
      <4>1. r = FillSign(word)
        BY <1>3, <1>5, <2>4, <3>3
      <4>2. /\ r \in FillState /\ r.drawn = word.drawn /\ r.next = word.next + 1
            /\ r.ayahs > 0 /\ ~ r.full
        BY <2>1, <2>4, <4>1, SignFilled
      <4>3. ASSUME WordsFit(q)
            PROVE  r.next >= c /\ r.drawn = first..((v + 1) - 1) /\ InAyah(q, v + 1, r.next)
        <5>0. r.next = s.next + 1 /\ r.drawn = first..((v + 1) - 1)
          BY <2>1, <2>2, <2>4, <3>1, <4>2, <4>3
        <5>1. r.next = s.next + 1 /\ r.drawn = first..((v + 1) - 1) /\ r.next >= c
          BY <2>2, <3>2, <4>3, <5>0
        <5>2. r.next \in 0..AyahCount(q) /\ v + 1 \in 0..WordCount(q) /\ StartOfAyah(q, r.next) = v + 1
          BY <1>1, <3>2, <3>3, <4>3, <5>1
        <5>3. r.next < AyahCount(q) => StartOfAyah(q, r.next) < StartOfAyah(q, r.next + 1)
          BY <1>1, <5>2, AyahsCut
        <5>. QED
          BY <1>1, <5>1, <5>2, <5>3 DEF InAyah
      <4>. QED
        BY <3>1, <4>2, <4>3 DEF FillTo, r
    <3>4. CASE ~ EndsAyah(q, v)
      <4>1. r = word
        BY <1>3, <1>5, <3>4
      <4>3. ASSUME WordsFit(q)
            PROVE  r.next >= c /\ r.drawn = first..((v + 1) - 1) /\ InAyah(q, v + 1, r.next)
        <5>1. r.next = s.next /\ r.drawn = first..((v + 1) - 1) /\ r.next >= c
          BY <2>1, <2>2, <2>4, <3>1, <4>1, <4>3
        <5>2. StartOfAyah(q, s.next + 1) \in Nat /\ StartOfAyah(q, s.next) \in Nat
          <6>1. s.next \in 0..AyahCount(q) /\ s.next + 1 \in 0..AyahCount(q)
            BY <1>1, <3>2, <4>3
          <6>. QED
            BY <6>1, AyahsCut
        <5>3. StartOfAyah(q, s.next) <= v + 1 /\ v + 1 < StartOfAyah(q, s.next + 1)
          BY <1>1, <3>2, <3>4, <4>3, <5>2
        <5>. QED
          BY <1>1, <3>2, <4>3, <5>1, <5>3 DEF InAyah
      <4>. QED
        BY <2>1, <2>4, <3>1, <4>1, <4>3 DEF FillTo, r
    <3>. QED
      BY <3>3, <3>4
  <2>. QED
    BY <2>3, <2>4
<1>. QED
  BY <1>4, <1>5

(* A screen by ayah.                                                       *)
LEMMA AyahScreen ==
  ASSUME NEW q \in Qurans, NEW c, c.ayah \in 0..(AyahCount(q) - 1), c.surah = SurahOf(q, c.ayah)
  PROVE  LET r == RenderByAyah(q, c)
         IN /\ r.layout = FALSE /\ r.drawn \in SUBSET Nat /\ r.ayah \in Nat /\ r.line = 0
            /\ WordsFit(q) =>
                 /\ r.ayah >= c.ayah
                 /\ \E e \in Nat : /\ e > StartOfAyah(q, c.ayah) /\ InAyah(q, e, r.ayah)
                                   /\ r.drawn = StartOfAyah(q, c.ayah)..(e - 1)
<1>. DEFINE n == AyahCount(q)
            rest == {a \in c.ayah..(n - 1) : SurahOf(q, a) = c.surah}
            a == FirstWord(q, c.ayah)
            b == IF c.ayah \in rest THEN EndOfAyah(q, Largest(rest)) ELSE a
            x == [row |-> 1, used |-> 0, drawn |-> {}, next |-> c.ayah, ayahs |-> 0,
                  started |-> FALSE, full |-> FALSE]
            Screen == CHOOSE Screen : Screen =
                        [v \in a..b |-> IF v = a THEN x ELSE Fill(q, Screen[v - 1], v - 1)]
            G == [v \in a..(b - 1) |-> [s \in FillState |-> Fill(q, s, v)]]
            r == RenderByAyah(q, c)
<1>1. n \in Nat \ {0} /\ c.ayah \in rest /\ rest \in SUBSET Nat /\ \A k \in rest : k <= n
  BY AyahsCut
<1>2. Largest(rest) \in rest /\ \A k \in rest : k <= Largest(rest)
  <2>. HIDE DEF rest, n
  <2>1. \E j \in rest : \A k \in rest : k <= j
    BY <1>1, GreatestNumber
  <2>. QED
    BY <2>1 DEF Largest
<1>3. /\ a = StartOfAyah(q, c.ayah) /\ b = StartOfAyah(q, Largest(rest) + 1)
      /\ a \in Nat /\ b \in Nat /\ a < b /\ b <= WordCount(q) /\ WordCount(q) \in Nat
  <2>1. Largest(rest) \in 0..(n - 1) /\ c.ayah <= Largest(rest)
    BY <1>1, <1>2
  <2>2. Largest(rest) + 1 \in 0..n /\ c.ayah \in 0..n /\ c.ayah < Largest(rest) + 1
    BY <1>1, <2>1
  <2>3. b = EndOfAyah(q, Largest(rest))
    BY <1>1
  <2>. HIDE DEF rest, b
  <2>4. a = StartOfAyah(q, c.ayah) /\ b = StartOfAyah(q, Largest(rest) + 1)
    BY <2>1, <2>3, AyahsCut DEF n
  <2>. HIDE DEF a
  <2>5. /\ StartOfAyah(q, c.ayah) < StartOfAyah(q, Largest(rest) + 1)
        /\ StartOfAyah(q, c.ayah) \in 0..WordCount(q) /\ WordCount(q) \in Nat
        /\ StartOfAyah(q, Largest(rest) + 1) \in 0..WordCount(q)
    BY <2>2, AyahsCut DEF n
  <2>. QED
    BY <2>4, <2>5
<1>4. r.layout = FALSE /\ r.drawn = Screen[b].drawn /\ r.ayah = Screen[b].next /\ r.line = 0
  BY DEF RenderByAyah
<1>. HIDE DEF n, rest, a, b, x, r
<1>5. x \in FillState
  BY <1>1 DEF x, FillState, n
<1>6. ASSUME NEW v \in a..(b - 1), NEW s \in FillState PROVE Fill(q, s, v) \in FillState
  <2>1. Words[q] \in Seq(Nat)
    BY QuranPagingAssumption DEF WellMade
  <2>2. v \in Nat /\ v + 1 \in 1..Len(Words[q])
    BY <1>3 DEF WordCount
  <2>3. Words[q][v + 1] \in Nat
    BY <2>1, <2>2, ElementOfSeq
  <2>4. CASE s.full
    BY <2>4 DEF Fill
  <2>5. CASE ~ s.full
    <3>1. FillWord(s, v, Words[q][v + 1]) \in FillState
      BY <2>2, <2>3, <2>5, WordFilled
    <3>2. FillSign(FillWord(s, v, Words[q][v + 1])) \in FillState
      BY <3>1, SignFilled
    <3>. QED
      BY <2>5, <3>1, <3>2 DEF Fill
  <2>. QED
    BY <2>4, <2>5
<1>7. G \in [a..(b - 1) -> [FillState -> FillState]]
  BY <1>6
<1>8. PICK f : GoesOn(f, a, b, FillState, x, G)
  <2>. HIDE DEF G
  <2>. QED
    BY <1>3, <1>5, <1>7, Goes
<1>9. f = [v \in a..b |-> IF v = a THEN x ELSE Fill(q, f[v - 1], v - 1)]
  <2>1. ASSUME NEW v \in a..b, v # a PROVE G[v - 1][f[v - 1]] = Fill(q, f[v - 1], v - 1)
    <3>1. v - 1 \in a..(b - 1) /\ v - 1 \in a..b
      BY <1>3, <2>1
    <3>2. f[v - 1] \in FillState
      BY <1>8, <3>1 DEF GoesOn
    <3>. QED
      BY <3>1, <3>2
  <2>2. f = [v \in a..b |-> f[v]]
    BY <1>8 DEF GoesOn
  <2>. HIDE DEF G
  <2>3. \A v \in a..b : f[v] = IF v = a THEN x ELSE Fill(q, f[v - 1], v - 1)
    BY <1>8, <2>1 DEF GoesOn
  <2>. QED
    BY <2>2, <2>3
<1>10. Screen = [v \in a..b |-> IF v = a THEN x ELSE Fill(q, Screen[v - 1], v - 1)]
  BY <1>9
<1>. HIDE DEF Screen, G
<1>11. Screen[a] = x
  BY <1>3, <1>10
<1>12. \A v \in a..(b - 1) : Screen[v + 1] = Fill(q, Screen[v], v)
  <2>. SUFFICES ASSUME NEW v \in a..(b - 1) PROVE Screen[v + 1] = Fill(q, Screen[v], v)
    OBVIOUS
  <2>1. v + 1 \in a..b /\ v + 1 # a /\ (v + 1) - 1 = v
    BY <1>3
  <2>. QED
    BY <1>10, <2>1
<1>. DEFINE T == {v \in Nat : FillTo(q, c.ayah, v, Screen[v])}
<1>13. a \in T
  <2>1. /\ x.next = c.ayah /\ x.row = 1 /\ x.used = 0 /\ x.drawn = {} /\ ~ x.full
    BY DEF x
  <2>2. x.drawn = a..(a - 1) /\ ~ (a > a)
    BY <1>3, <2>1
  <2>3. InAyah(q, a, x.next) /\ x.next >= c.ayah
    <3>1. c.ayah \in 0..AyahCount(q) /\ a \in 0..WordCount(q) /\ StartOfAyah(q, c.ayah) <= a
      BY <1>1, <1>3 DEF n
    <3>2. StartOfAyah(q, c.ayah) < StartOfAyah(q, c.ayah + 1)
      BY AyahsCut
    <3>. QED
      BY <1>3, <2>1, <3>1, <3>2 DEF InAyah
  <2>. QED
    BY <1>3, <1>5, <1>11, <2>1, <2>2, <2>3 DEF FillTo
<1>14. ASSUME NEW v \in a..(b - 1), v \in T PROVE v + 1 \in T
  <2>1. v \in StartOfAyah(q, c.ayah)..(WordCount(q) - 1) /\ v + 1 \in Nat
    BY <1>3
  <2>2. FillTo(q, c.ayah, v + 1, Fill(q, Screen[v], v))
    BY <1>14, <2>1, WordsFill
  <2>. QED
    BY <1>12, <2>1, <2>2
<1>15. FillTo(q, c.ayah, b, Screen[b])
  <2>1. b \in a..b
    BY <1>3
  <2>. HIDE DEF T
  <2>2. b \in T
    BY <1>3, <1>13, <1>14, <2>1, Along
  <2>. QED
    BY <2>2 DEF T
<1>16. r.drawn \in SUBSET Nat /\ r.ayah \in Nat
  BY <1>4, <1>15 DEF FillTo, FillState
<1>17. ASSUME WordsFit(q)
       PROVE  /\ r.ayah >= c.ayah
              /\ \E e \in Nat : e > StartOfAyah(q, c.ayah) /\ InAyah(q, e, r.ayah)
                                /\ r.drawn = StartOfAyah(q, c.ayah)..(e - 1)
  <2>1. r.ayah >= c.ayah
    BY <1>4, <1>15, <1>17 DEF FillTo
  <2>2. CASE ~ Screen[b].full
    <3>1. Screen[b].drawn = a..(b - 1) /\ InAyah(q, b, Screen[b].next)
      BY <1>3, <1>15, <1>17, <2>2 DEF FillTo
    <3>. QED
      BY <1>3, <1>4, <2>1, <3>1
  <2>3. CASE Screen[b].full
    <3>1. PICK e \in (a + 1)..(b - 1) : Screen[b].drawn = a..(e - 1) /\ InAyah(q, e, Screen[b].next)
      BY <1>3, <1>15, <1>17, <2>3 DEF FillTo
    <3>2. e \in Nat /\ e > a
      BY <1>3
    <3>. QED
      BY <1>3, <1>4, <2>1, <3>1, <3>2
  <2>. QED
    BY <2>2, <2>3
<1>. QED
  BY <1>4, <1>16, <1>17 DEF r

-----------------------------------------------------------------------------
(* A screen, by line or by ayah                                            *)

StartWord(q, n) == IF HasLayout(q) THEN StartOfLine(q, n) ELSE StartOfAyah(q, n)
StartCount(q)   == IF HasLayout(q) THEN LineCount(q) ELSE AyahCount(q)

LEMMA StartsCut ==
  ASSUME NEW q \in Qurans
  PROVE  /\ StartCount(q) \in Nat \ {0} /\ Starts(q) = 0..(StartCount(q) - 1)
         /\ WordCount(q) \in Nat \ {0} /\ StartWord(q, StartCount(q)) = WordCount(q)
         /\ \A n \in 0..StartCount(q) : StartWord(q, n) \in 0..WordCount(q)
         /\ \A m, n \in 0..StartCount(q) : m < n => StartWord(q, m) < StartWord(q, n)
<1>1. CASE HasLayout(q)
  BY <1>1, LinesCut DEF StartWord, StartCount, Starts
<1>2. CASE ~ HasLayout(q)
  BY <1>2, AyahsCut DEF StartWord, StartCount, Starts
<1>. QED
  BY <1>1, <1>2

(* What kinds of values a screen is made of.                               *)
LEMMA ScreenTyped ==
  ASSUME NEW q \in Qurans, NEW n \in Starts(q)
  PROVE  LET r == ScreenFrom(q, n)
         IN /\ r.layout = HasLayout(q) /\ r.drawn \in SUBSET Nat /\ r.ayah \in Nat /\ r.line \in Nat
            /\ StartAfter(q, r) \in Nat
<1>1. CASE HasLayout(q)
  <2>1. [NewState EXCEPT !.line = n].line = n
    BY DEF NewState
  <2>2. n \in 0..(LineCount(q) - 1) /\ LineCount(q) \in Nat
    BY <1>1, LinesCut DEF Starts
  <2>3. ScreenFrom(q, n) = RenderLayoutPath(q, n)
    BY <1>1, <2>1 DEF ScreenFrom, Rendered
  <2>4. HasLayout(q) = TRUE
    BY <1>1 DEF HasLayout
  <2>5. /\ RenderLayoutPath(q, n).layout = TRUE /\ RenderLayoutPath(q, n).drawn \in SUBSET Nat
        /\ RenderLayoutPath(q, n).ayah \in Nat /\ RenderLayoutPath(q, n).line \in n..LineCount(q)
    BY <1>1, <2>2, LayoutScreen
  <2>6. RenderLayoutPath(q, n).line \in Nat
    BY <2>2, <2>5
  <2>. QED
    BY <1>1, <2>3, <2>4, <2>5, <2>6 DEF StartAfter
<1>2. CASE ~ HasLayout(q)
  <2>. DEFINE c == [NewState EXCEPT !.ayah = n, !.surah = SurahOf(q, n)]
  <2>1. c.ayah = n /\ c.surah = SurahOf(q, n)
    BY DEF NewState
  <2>2. n \in 0..(AyahCount(q) - 1)
    BY <1>2 DEF Starts
  <2>3. ScreenFrom(q, n) = RenderByAyah(q, c)
    BY <1>2 DEF ScreenFrom, Rendered
  <2>. HIDE DEF c
  <2>4. HasLayout(q) = FALSE
    BY <1>2 DEF HasLayout
  <2>5. /\ RenderByAyah(q, c).layout = FALSE /\ RenderByAyah(q, c).drawn \in SUBSET Nat
        /\ RenderByAyah(q, c).ayah \in Nat /\ RenderByAyah(q, c).line = 0
    BY <2>1, <2>2, AyahScreen
  <2>6. RenderByAyah(q, c).line \in Nat
    BY <2>5
  <2>. QED
    BY <1>2, <2>3, <2>4, <2>5, <2>6 DEF StartAfter
<1>. QED
  BY <1>1, <1>2

(* The screen at the cursor is the one that starts there.                  *)
LEMMA ScreenHere ==
  ASSUME NEW q \in Qurans, NEW c \in Cursor, c.surah = SurahOf(q, c.ayah)
  PROVE  Rendered(q, c) = ScreenFrom(q, IF HasLayout(q) THEN c.line ELSE c.ayah)
<1>1. CASE HasLayout(q)
  BY <1>1 DEF ScreenFrom, Rendered, NewState
<1>2. CASE ~ HasLayout(q)
  <2>. DEFINE d == [NewState EXCEPT !.ayah = c.ayah, !.surah = SurahOf(q, c.ayah)]
  <2>1. d.ayah = c.ayah /\ d.surah = c.surah
    BY DEF NewState
  <2>. HIDE DEF d
  <2>2. RenderByAyah(q, c) = RenderByAyah(q, d)
    BY <2>1 DEF RenderByAyah
  <2>. QED
    BY <1>2, <2>2 DEF ScreenFrom, Rendered, d
<1>. QED
  BY <1>1, <1>2

(* A screen shows words that follow each other; the next one starts where  *)
(* the word after the last of them is, and goes on from there.             *)
Shows(q, n, r, e) ==
  LET m == StartAfter(q, r)
  IN /\ r.drawn = StartWord(q, n)..(e - 1) /\ e > StartWord(q, n) /\ e <= WordCount(q)
     /\ m \in n..StartCount(q) /\ StartWord(q, m) <= e
     /\ m < StartCount(q) => e < StartWord(q, m + 1)

LEMMA ScreenShows ==
  ASSUME NEW q \in Qurans, Fits(q), NEW n \in Starts(q)
  PROVE  /\ \E e \in Nat : Shows(q, n, ScreenFrom(q, n), e)
         /\ HasLayout(q) \/ AyahsFit(q) => StartAfter(q, ScreenFrom(q, n)) > n
<1>1. CASE HasLayout(q)
  <2>. DEFINE r == RenderLayoutPath(q, n)
  <2>1. [NewState EXCEPT !.line = n].line = n
    BY DEF NewState
  <2>2. n \in 0..(LineCount(q) - 1) /\ LineCount(q) \in Nat
    BY <1>1, LinesCut DEF Starts
  <2>3. ScreenFrom(q, n) = r
    BY <1>1, <2>1 DEF ScreenFrom, Rendered
  <2>4. /\ r.line \in n..LineCount(q) /\ r.line > n
        /\ r.drawn = StartOfLine(q, n)..(StartOfLine(q, r.line) - 1)
    BY <1>1, <2>2, LayoutScreen DEF Fits
  <2>. HIDE DEF r
  <2>5. n \in 0..LineCount(q) /\ r.line \in 0..LineCount(q)
        /\ (r.line < LineCount(q) => r.line + 1 \in 0..LineCount(q) /\ r.line < r.line + 1)
    BY <2>2, <2>4
  <2>6. /\ StartOfLine(q, r.line) \in 0..WordCount(q) /\ StartOfLine(q, n) < StartOfLine(q, r.line)
        /\ r.line < LineCount(q) => StartOfLine(q, r.line) < StartOfLine(q, r.line + 1)
        /\ WordCount(q) \in Nat
    BY <1>1, <2>4, <2>5, LinesCut
  <2>7. Shows(q, n, r, StartOfLine(q, r.line))
    BY <1>1, <2>4, <2>6 DEF Shows, StartAfter, StartWord, StartCount
  <2>. QED
    BY <1>1, <2>3, <2>4, <2>6, <2>7 DEF StartAfter
<1>2. CASE ~ HasLayout(q)
  <2>. DEFINE c == [NewState EXCEPT !.ayah = n, !.surah = SurahOf(q, n)]
              r == RenderByAyah(q, c)
  <2>1. c.ayah = n /\ c.surah = SurahOf(q, n)
    BY DEF NewState
  <2>2. n \in 0..(AyahCount(q) - 1)
    BY <1>2 DEF Starts
  <2>3. ScreenFrom(q, n) = r
    BY <1>2 DEF ScreenFrom, Rendered
  <2>. HIDE DEF c
  <2>4. PICK e \in Nat : e > StartOfAyah(q, n) /\ InAyah(q, e, r.ayah) /\ r.drawn = StartOfAyah(q, n)..(e - 1)
    BY <1>2, <2>1, <2>2, AyahScreen DEF Fits
  <2>5. r.ayah >= n /\ r.ayah \in Nat
    BY <1>2, <2>1, <2>2, AyahScreen DEF Fits
  <2>. HIDE DEF r
  <2>6. Shows(q, n, r, e)
    BY <1>2, <2>2, <2>4, <2>5 DEF Shows, InAyah, StartAfter, StartWord, StartCount
  <2>7. AyahsFit(q) => r.ayah > n
    BY <1>2, <2>3 DEF AyahsFit
  <2>. QED
    BY <1>2, <2>3, <2>6, <2>7 DEF StartAfter
<1>. QED
  BY <1>1, <1>2

-----------------------------------------------------------------------------
(* The cursor                                                              *)

(* A cursor that is in the package, and on the line of its ayah.           *)
InPackage(q, c) ==
  /\ c \in Cursor /\ c.surah \in 1..SurahCount(q) /\ c.ayah \in 0..(AyahCount(q) - 1)
  /\ c.surah = SurahOf(q, c.ayah)
  /\ HasLayout(q) => c.line \in 0..(LineCount(q) - 1)
OnItsLine(q, c) ==
  HasLayout(q) => \E w \in LineWords(q, c.line) : AyahOfWord(q, w) = c.ayah

LEMMA NewStateInPackage ==
  ASSUME NEW q \in Qurans
  PROVE  NewState \in Cursor /\ InPackage(q, NewState)
<1>1. NewState = [surah |-> 1, ayah |-> 0, line |-> 0, screen |-> 1]
  BY DEF NewState
<1>2. NewState \in Cursor
  BY <1>1 DEF Cursor
<1>3. 1 \in 1..SurahCount(q) /\ 0 \in 0..(AyahCount(q) - 1) /\ SurahOf(q, 0) = 1
  BY AyahsCut, SurahsCounted
<1>4. HasLayout(q) => 0 \in 0..(LineCount(q) - 1)
  BY LinesCut
<1>. QED
  BY <1>1, <1>2, <1>3, <1>4 DEF InPackage

LEMMA SeekWorks ==
  ASSUME NEW q \in Qurans, NEW c \in Cursor, NEW a \in 0..(AyahCount(q) - 1), c.surah = SurahOf(q, a)
  PROVE  InPackage(q, SeekToAyah(q, c, a)) /\ OnItsLine(q, SeekToAyah(q, c, a))
<1>. DEFINE d == SeekToAyah(q, c, a)
            w == FirstWord(q, a)
            l == LineOfWord(q, w)
<1>1. c.surah \in 1..SurahCount(q) /\ a \in Nat
  BY SurahsCounted
<1>2. CASE HasLayout(q)
  <2>1. d = [c EXCEPT !.ayah = a, !.line = l]
    BY <1>2 DEF SeekToAyah
  <2>2. /\ w = StartOfAyah(q, a) /\ w < StartOfAyah(q, a + 1) /\ a \in 0..AyahCount(q)
        /\ a + 1 \in 0..AyahCount(q)
    BY AyahsCut
  <2>3. w \in 0..(WordCount(q) - 1)
    <3>1. /\ StartOfAyah(q, a) \in 0..WordCount(q) /\ StartOfAyah(q, a + 1) \in 0..WordCount(q)
          /\ WordCount(q) \in Nat
      BY <2>2, AyahsCut
    <3>. QED
      BY <2>2, <3>1
  <2>4. AyahOfWord(q, w) = a
    BY <2>2, <2>3, AyahFound
  <2>5. l \in 0..(LineCount(q) - 1) /\ w \in LineWords(q, l)
    BY <1>2, <2>3, LineFound
  <2>. HIDE DEF d, l, w
  <2>6. l \in Nat
    BY <1>2, <2>5, LinesCut
  <2>7. d \in Cursor /\ d.ayah = a /\ d.line = l /\ d.surah = c.surah
    BY <1>1, <2>1, <2>6 DEF Cursor
  <2>. QED
    BY <1>1, <2>4, <2>5, <2>7 DEF InPackage, OnItsLine, d
<1>3. CASE ~ HasLayout(q)
  <2>1. d = [c EXCEPT !.ayah = a, !.line = c.line]
    BY <1>3 DEF SeekToAyah
  <2>. HIDE DEF d
  <2>2. d \in Cursor /\ d.ayah = a /\ d.surah = c.surah
    BY <1>1, <2>1 DEF Cursor
  <2>. QED
    BY <1>1, <1>3, <2>2 DEF InPackage, OnItsLine, d
<1>. QED
  BY <1>2, <1>3

LEMMA LoadWorks ==
  ASSUME NEW q \in Qurans, NEW c \in Cursor, NEW s \in 1..SurahCount(q)
  PROVE  LoadSurah(q, c, s) \in Cursor /\ LoadSurah(q, c, s).surah = s
<1>1. FirstAyah(q, s) \in Nat /\ s \in Nat
  BY SurahsCounted
<1>. QED
  BY <1>1 DEF LoadSurah, Cursor

LEMMA SyncWorks ==
  ASSUME NEW q \in Qurans, HasLayout(q), NEW c \in Cursor, c.line < LineCount(q)
  PROVE  /\ InPackage(q, QuranSyncAyahToLine(q, c)) /\ OnItsLine(q, QuranSyncAyahToLine(q, c))
         /\ QuranSyncAyahToLine(q, c).line = c.line
<1>. DEFINE d == QuranSyncAyahToLine(q, c)
            w == StartOfLine(q, c.line)
            a == AyahOfWord(q, w)
<1>1. LineCount(q) \in Nat /\ c.line \in 0..(LineCount(q) - 1)
  BY LinesCut DEF Cursor
<1>2. MushafLines[q][c.line + 1] = w
  BY <1>1, LinesCut
<1>3. d = [c EXCEPT !.ayah = a, !.surah = SurahOf(q, a)]
  BY <1>2 DEF QuranSyncAyahToLine
<1>4. w \in LineWords(q, c.line) /\ w \in 0..(WordCount(q) - 1)
  <2>1. /\ c.line \in 0..LineCount(q) /\ c.line + 1 \in 0..LineCount(q)
    BY <1>1
  <2>2. /\ w \in 0..WordCount(q) /\ StartOfLine(q, c.line + 1) \in 0..WordCount(q)
        /\ w < StartOfLine(q, c.line + 1) /\ WordCount(q) \in Nat
    BY <1>1, <2>1, LinesCut
  <2>. QED
    BY <2>2 DEF LineWords
<1>5. a \in 0..(AyahCount(q) - 1)
  BY <1>4, AyahFound
<1>6. SurahOf(q, a) \in 1..SurahCount(q)
  BY <1>5, SurahsCounted
<1>. HIDE DEF d, w
<1>7. AyahOfWord(q, w) = a
  OBVIOUS
<1>. HIDE DEF a
<1>8. a \in Nat /\ SurahOf(q, a) \in Nat
  BY <1>5, <1>6
<1>9. d \in Cursor /\ d.ayah = a /\ d.surah = SurahOf(q, a) /\ d.line = c.line
  BY <1>3, <1>8 DEF Cursor
<1>. QED
  BY <1>1, <1>4, <1>5, <1>6, <1>7, <1>9 DEF InPackage, OnItsLine, d

(* The invariant, in these terms.                                          *)
LEMMA QuranParts ==
  ASSUME QuranInv, quran # NoQuran
  PROVE  /\ quran \in Qurans /\ InPackage(quran, cur)
         /\ view = "pages" => OnItsLine(quran, cur)
         /\ Here \in Starts(quran) /\ Rendered(quran, cur) = ScreenFrom(quran, Here)
<1>1. /\ quran \in Qurans /\ cur \in Cursor /\ cur.surah \in 1..SurahCount(quran)
      /\ cur.ayah < AyahCount(quran) /\ (HasLayout(quran) => cur.line < LineCount(quran))
      /\ cur.surah = SurahOf(quran, cur.ayah)
  BY DEF QuranInv, QuranValues, QuranTypeOK, PlaceKept
<1>2. AyahCount(quran) \in Nat /\ (HasLayout(quran) => LineCount(quran) \in Nat)
  BY <1>1, AyahsCut, LinesCut
<1>3. cur.ayah \in 0..(AyahCount(quran) - 1) /\ (HasLayout(quran) => cur.line \in 0..(LineCount(quran) - 1))
  BY <1>1, <1>2 DEF Cursor
<1>4. view = "pages" => OnItsLine(quran, cur)
  BY DEF QuranInv, PlaceKept, OnItsLine
<1>5. Here \in Starts(quran)
  BY <1>3 DEF Here, Starts
<1>6. Rendered(quran, cur) = ScreenFrom(quran, Here)
  BY <1>1, ScreenHere DEF Here
<1>. QED
  BY <1>1, <1>3, <1>4, <1>5, <1>6 DEF InPackage

-----------------------------------------------------------------------------
(* Opening and leaving a package                                           *)

(* No starts are remembered: the history, as it is emptied.                *)
LEMMA NoHistory == <<>> \in Seq(Nat) /\ Len(<<>>) = 0 /\ Len(<<>>) <= HistoryDepth
<1>1. HistoryDepth \in Nat /\ Len(<<>>) = 0
  BY QuranPagingAssumption
<1>2. 0 <= HistoryDepth
  BY <1>1
<1>. QED
  BY <1>1, <1>2

LEMMA OpenQuranKeeps == ASSUME CalmPicking, QuranInv, OpenQuran PROVE QuranInv'
<1>1. PICK q \in Qurans :
        /\ quran' = q
        /\ IF Resumable(q, progress)
           THEN /\ view' = "pages"
                /\ cur' = [SeekToAyah(q, LoadSurah(q, NewState, progress.surah), progress.ayah)
                            EXCEPT !.screen = IF progress.screen > 0 THEN progress.screen ELSE 1]
           ELSE view' = "picker" /\ cur' = NewState
  BY DEF OpenQuran
<1>2. /\ history' = <<>> /\ stale' = TRUE /\ drawing' = TRUE /\ seen' = NowhereYet
      /\ next' = next /\ status' = status /\ pending' = pending /\ progress' = progress /\ pending = 0
  BY DEF OpenQuran
<1>3. quran' # NoQuran
  BY <1>1, QuranPagingAssumption
<1>4. /\ progress \in [id : Qurans \cup {NoQuran}, surah : Nat, ayah : Nat, screen : Nat]
      /\ progress.screen \in Nat /\ progress.ayah \in Nat
  BY DEF QuranInv, QuranValues
<1>5. /\ view' \in {"picker", "pages"} /\ InPackage(q, cur')
      /\ view' = "pages" => OnItsLine(q, cur')
  <2>1. CASE Resumable(q, progress)
    <3>. DEFINE c == LoadSurah(q, NewState, progress.surah)
                d == SeekToAyah(q, c, progress.ayah)
                s == IF progress.screen > 0 THEN progress.screen ELSE 1
    <3>1. /\ progress.surah \in 1..SurahCount(q) /\ progress.ayah \in 0..(AyahCount(q) - 1)
          /\ progress.surah = SurahOf(q, progress.ayah)
      BY <1>4, <2>1, AyahsCut DEF Resumable
    <3>2. c \in Cursor /\ c.surah = progress.surah
      BY <3>1, NewStateInPackage, LoadWorks
    <3>3. InPackage(q, d) /\ OnItsLine(q, d)
      BY <3>1, <3>2, SeekWorks
    <3>4. view' = "pages" /\ cur' = [d EXCEPT !.screen = s]
      BY <1>1, <2>1
    <3>5. s \in Nat
      BY <1>4
    <3>. HIDE DEF d, s
    <3>6. /\ cur' \in Cursor /\ cur'.surah = d.surah /\ cur'.ayah = d.ayah /\ cur'.line = d.line
      BY <3>3, <3>4, <3>5 DEF InPackage, Cursor
    <3>. QED
      BY <3>3, <3>4, <3>6 DEF InPackage, OnItsLine
  <2>2. CASE ~ Resumable(q, progress)
    BY <1>1, <2>2, NewStateInPackage
  <2>. QED
    BY <2>1, <2>2
<1>6. QuranValues'
  <2>1. QuranTypeOK'
    <3>1. status' \in {"", "end", "start"} /\ pending' \in -1..1 /\ Len(history') <= HistoryDepth
      BY <1>2, NoHistory DEF QuranInv, QuranValues, QuranTypeOK
    <3>2. /\ cur' \in Cursor /\ cur'.surah \in 1..SurahCount(quran') /\ cur'.ayah < AyahCount(quran')
          /\ (HasLayout(quran') => cur'.line < LineCount(quran'))
      BY <1>1, <1>5, AyahsCut, LinesCut DEF InPackage
    <3>. QED
      BY <1>1, <1>2, <1>5, <3>1, <3>2 DEF QuranTypeOK
  <2>. QED
    BY <1>2, <2>1 DEF QuranInv, QuranValues, NowhereYet
<1>7. Drawing'
  BY <1>2, <1>3 DEF Drawing
<1>8. PlaceKept'
  BY <1>1, <1>2, <1>5 DEF PlaceKept, InPackage, OnItsLine
<1>9. ScreenKept' /\ HistoryKept' /\ SavedKept'
  BY <1>2 DEF ScreenKept, Drawn, HistoryKept, SavedKept, QuranInv
<1>. QED
  BY <1>6, <1>7, <1>8, <1>9 DEF QuranInv

LEMMA OpenSurahKeeps == ASSUME CalmPicking, QuranInv, OpenSelectedSurah PROVE QuranInv'
<1>1. /\ quran' = quran /\ quran # NoQuran /\ view' = "pages" /\ status' = "" /\ history' = <<>>
      /\ stale' = TRUE /\ drawing' = TRUE /\ seen' = NowhereYet
      /\ next' = next /\ pending' = pending /\ progress' = progress /\ pending = 0
  BY DEF OpenSelectedSurah
<1>2. PICK s \in 1..SurahCount(quran) :
        cur' = SeekToAyah(quran, LoadSurah(quran, cur, s), FirstAyah(quran, s))
  BY DEF OpenSelectedSurah
<1>3. quran \in Qurans /\ cur \in Cursor
  BY <1>1, QuranParts DEF InPackage
<1>4. InPackage(quran, cur') /\ OnItsLine(quran, cur')
  <2>. DEFINE c == LoadSurah(quran, cur, s)
  <2>1. /\ FirstAyah(quran, s) \in 0..(AyahCount(quran) - 1) /\ SurahOf(quran, FirstAyah(quran, s)) = s
    BY <1>3, SurahsCounted
  <2>2. c \in Cursor /\ c.surah = s
    BY <1>3, LoadWorks
  <2>. HIDE DEF c
  <2>. QED
    BY <1>2, <1>3, <2>1, <2>2, SeekWorks DEF c
<1>5. QuranValues'
  <2>1. QuranTypeOK'
    <3>1. Len(history') <= HistoryDepth
      BY <1>1, NoHistory
    <3>3. pending' \in -1..1
      BY <1>1 DEF QuranInv, QuranValues, QuranTypeOK
    <3>2. /\ cur' \in Cursor /\ cur'.surah \in 1..SurahCount(quran) /\ cur'.ayah < AyahCount(quran)
          /\ (HasLayout(quran) => cur'.line < LineCount(quran))
      BY <1>3, <1>4, AyahsCut, LinesCut DEF InPackage
    <3>. QED
      BY <1>1, <1>3, <3>1, <3>2, <3>3 DEF QuranTypeOK
  <2>2. seen' \in [words : SUBSET Nat, by : {"open", "forward", "back", "edge"}] /\ history' \in Seq(Nat)
    BY <1>1, NoHistory DEF NowhereYet
  <2>. QED
    BY <1>1, <2>1, <2>2 DEF QuranInv, QuranValues
<1>6. Drawing'
  BY <1>1 DEF Drawing
<1>7. PlaceKept'
  <2>1. Len(history') = 0
    BY <1>1, NoHistory
  <2>2. \A i \in 1..Len(history') : history'[i] \in Starts(quran)
    BY <2>1
  <2>. QED
    BY <1>1, <1>4, <2>2 DEF PlaceKept, InPackage, OnItsLine
<1>8. ScreenKept' /\ HistoryKept' /\ SavedKept'
  <2>1. Len(history') = 0
    BY <1>1, NoHistory
  <2>2. HistoryKept'
    BY <2>1 DEF HistoryKept
  <2>. QED
    BY <1>1, <2>2 DEF ScreenKept, Drawn, SavedKept, QuranInv
<1>. QED
  BY <1>5, <1>6, <1>7, <1>8 DEF QuranInv

LEMMA SavedWorks ==
  ASSUME QuranInv, quran # NoQuran, SaveQuranProgress
  PROVE  /\ progress' \in [id : Qurans \cup {NoQuran}, surah : Nat, ayah : Nat, screen : Nat]
         /\ SavedKept'
<1>1. quran \in Qurans /\ InPackage(quran, cur)
  BY QuranParts
<1>2. progress' = [id |-> quran, surah |-> cur.surah, ayah |-> cur.ayah, screen |-> cur.screen]
  BY DEF SaveQuranProgress
<1>3. cur.ayah < AyahCount(quran)
  BY <1>1, AyahsCut DEF InPackage
<1>4. Resumable(progress'.id, progress')
  BY <1>1, <1>2, <1>3 DEF Resumable, InPackage
<1>. QED
  BY <1>1, <1>2, <1>4 DEF SavedKept, InPackage, Cursor

LEMMA LeavePagesKeeps == ASSUME QuranInv, LeavePages PROVE QuranInv'
<1>1. /\ quran # NoQuran /\ view' = "picker" /\ stale' = FALSE /\ drawing' = FALSE /\ drawing = FALSE
      /\ quran' = quran /\ cur' = cur /\ next' = next /\ history' = history /\ status' = status
      /\ pending' = pending /\ seen' = seen
  BY DEF LeavePages, QuranInv, QuranValues, QuranTypeOK
<1>2. progress' \in [id : Qurans \cup {NoQuran}, surah : Nat, ayah : Nat, screen : Nat] /\ SavedKept'
  BY <1>1, SavedWorks DEF LeavePages
<1>3. QuranTypeOK'
  BY <1>1 DEF QuranInv, QuranValues, QuranTypeOK
<1>4. QuranValues'
  BY <1>1, <1>2, <1>3 DEF QuranInv, QuranValues
<1>5. Drawing' /\ PlaceKept'
  BY <1>1 DEF QuranInv, Drawing, PlaceKept
<1>6. ScreenKept' /\ HistoryKept'
  BY <1>1 DEF ScreenKept, Drawn, HistoryKept
<1>. QED
  BY <1>2, <1>4, <1>5, <1>6 DEF QuranInv

(* A package that is closed leaves nothing behind but the saved place.     *)
LEMMA CloseKeeps ==
  ASSUME QuranInv, ~ drawing, CloseQuran, pending' = pending, drawing' = drawing,
         next' \in [ayah : Nat, line : Nat, layout : BOOLEAN], status' \in {"", "end", "start"},
         progress' \in [id : Qurans \cup {NoQuran}, surah : Nat, ayah : Nat, screen : Nat], SavedKept'
  PROVE  QuranInv'
<1>1. /\ quran' = NoQuran /\ view' = "picker" /\ history' = <<>> /\ cur' = NewState
      /\ stale' = FALSE /\ seen' = NowhereYet /\ drawing' = FALSE
  BY DEF CloseQuran, QuranInv, QuranValues, QuranTypeOK
<1>2. NewState \in Cursor
  BY DEF NewState, Cursor
<1>3. Len(history') <= HistoryDepth /\ history' \in Seq(Nat)
  BY <1>1, NoHistory
<1>4. QuranTypeOK'
  BY <1>1, <1>2, <1>3 DEF QuranInv, QuranValues, QuranTypeOK
<1>5. QuranValues'
  <2>1. seen' \in [words : SUBSET Nat, by : {"open", "forward", "back", "edge"}]
    BY <1>1 DEF NowhereYet
  <2>. QED
    BY <1>3, <1>4, <2>1 DEF QuranValues
<1>6. Drawing' /\ PlaceKept' /\ ScreenKept' /\ HistoryKept'
  BY <1>1 DEF Drawing, PlaceKept, ScreenKept, Drawn, HistoryKept
<1>. QED
  BY <1>5, <1>6 DEF QuranInv

LEMMA LeaveQuranKeeps == ASSUME QuranInv, LeaveQuran PROVE QuranInv'
<1>1. /\ quran # NoQuran /\ ~ drawing /\ CloseQuran
      /\ next' = next /\ status' = status /\ pending' = pending /\ drawing' = drawing
  BY DEF LeaveQuran
<1>2. progress' \in [id : Qurans \cup {NoQuran}, surah : Nat, ayah : Nat, screen : Nat] /\ SavedKept'
  <2>1. CASE view = "pages"
    BY <1>1, <2>1, SavedWorks DEF LeaveQuran
  <2>2. CASE view # "pages"
    BY <2>2 DEF LeaveQuran, QuranInv, QuranValues, SavedKept
  <2>. QED
    BY <2>1, <2>2
<1>3. next' \in [ayah : Nat, line : Nat, layout : BOOLEAN] /\ status' \in {"", "end", "start"}
  BY <1>1 DEF QuranInv, QuranValues, QuranTypeOK
<1>. QED
  BY <1>1, <1>2, <1>3, CloseKeeps

LEMMA SleepKeeps == ASSUME QuranInv, QuranSleeps PROVE QuranInv'
<1>1. /\ quran # NoQuran /\ ~ drawing /\ CloseQuran /\ SaveQuranProgress
      /\ next' = [ayah |-> 0, line |-> 0, layout |-> FALSE] /\ status' = ""
      /\ pending' = pending /\ drawing' = drawing
  BY DEF QuranSleeps
<1>2. progress' \in [id : Qurans \cup {NoQuran}, surah : Nat, ayah : Nat, screen : Nat] /\ SavedKept'
  BY <1>1, SavedWorks
<1>3. next' \in [ayah : Nat, line : Nat, layout : BOOLEAN]
  BY <1>1
<1>. QED
  BY <1>1, <1>2, <1>3, CloseKeeps

LEMMA WheelStepsKeep == ASSUME QuranInv, WheelSteps PROVE QuranInv'
<1>1. /\ quran' = quran /\ view' = view /\ cur' = cur /\ next' = next /\ history' = history
      /\ status' = status /\ stale' = stale /\ drawing' = drawing /\ progress' = progress
      /\ seen' = seen /\ ~ drawing /\ pending' \in {-1, 1}
  BY DEF WheelSteps
<1>2. QuranTypeOK'
  <2>1. pending' \in -1..1
    BY <1>1
  <2>. QED
    BY <1>1, <2>1 DEF QuranInv, QuranValues, QuranTypeOK
<1>5. QuranValues'
  BY <1>1, <1>2 DEF QuranInv, QuranValues
<1>6. PlaceKept'
  BY <1>1 DEF QuranInv, PlaceKept
<1>7. SavedKept'
  BY <1>1 DEF QuranInv, SavedKept
<1>3. Drawing'
  BY <1>1 DEF QuranInv, Drawing
<1>4. ScreenKept' /\ HistoryKept'
  BY <1>1 DEF QuranInv, ScreenKept, Drawn, HistoryKept, Here
<1>. QED
  BY <1>3, <1>4, <1>5, <1>6, <1>7 DEF QuranInv

-----------------------------------------------------------------------------
(* Turning the page                                                        *)

(* What every answer to the wheel leaves to show, on the pages.            *)
Answered(by) ==
  /\ quran # NoQuran /\ view = "pages" /\ ~ drawing
  /\ quran' = quran /\ view' = view /\ next' = next /\ progress' = progress
  /\ pending' = 0 /\ drawing' = TRUE /\ stale' = TRUE /\ status' \in {"", "end", "start"}
  /\ by \in {"forward", "back", "edge"} /\ seen' = [seen EXCEPT !.by = by]

LEMMA AnswerKeeps ==
  ASSUME QuranInv, NEW by, Answered(by), InPackage(quran, cur'), OnItsLine(quran, cur'),
         history' \in Seq(Nat), Len(history') <= HistoryDepth,
         \A i \in 1..Len(history') : history'[i] \in Starts(quran), HistoryKept'
  PROVE  QuranInv'
<1>1. quran \in Qurans
  BY QuranParts DEF Answered
<1>2. QuranTypeOK'
  <2>1. /\ cur' \in Cursor /\ cur'.surah \in 1..SurahCount(quran) /\ cur'.ayah < AyahCount(quran)
        /\ (HasLayout(quran) => cur'.line < LineCount(quran))
    BY <1>1, AyahsCut, LinesCut DEF InPackage
  <2>2. pending' \in -1..1
    <3>1. pending' = 0
      BY DEF Answered
    <3>. HIDE DEF Answered
    <3>. QED
      BY <3>1
  <2>3. quran' = quran /\ view' = "pages" /\ {stale', drawing'} \subseteq BOOLEAN
        /\ status' \in {"", "end", "start"}
    BY DEF Answered
  <2>. QED
    BY <1>1, <2>1, <2>2, <2>3 DEF QuranTypeOK
<1>3. seen' \in [words : SUBSET Nat, by : {"open", "forward", "back", "edge"}]
  BY DEF QuranInv, QuranValues, Answered
<1>4. QuranValues'
  BY <1>2, <1>3 DEF QuranInv, QuranValues, Answered
<1>5. Drawing'
  BY DEF Drawing, Answered
<1>6. PlaceKept'
  BY DEF PlaceKept, InPackage, OnItsLine, Answered
<1>7. ScreenKept' /\ SavedKept'
  BY DEF QuranInv, ScreenKept, Drawn, SavedKept, Answered
<1>. QED
  BY <1>4, <1>5, <1>6, <1>7 DEF QuranInv

LEMMA EdgeKeeps ==
  ASSUME QuranInv, Answered("edge"), cur' = cur, history' = history
  PROVE  QuranInv'
<1>1. InPackage(quran, cur') /\ OnItsLine(quran, cur')
  BY QuranParts DEF Answered
<1>2. history' \in Seq(Nat) /\ Len(history') <= HistoryDepth
  BY DEF QuranInv, QuranValues, QuranTypeOK
<1>3. \A i \in 1..Len(history') : history'[i] \in Starts(quran)
  BY DEF QuranInv, PlaceKept, Answered
<1>4. HistoryKept'
  BY DEF QuranInv, HistoryKept, Here, Answered
<1>. QED
  BY <1>1, <1>2, <1>3, <1>4, AnswerKeeps

LEMMA HistoryTyped ==
  ASSUME QuranInv
  PROVE  /\ history \in Seq(Nat) /\ Len(history) \in Nat /\ Len(history) <= HistoryDepth
         /\ HistoryDepth \in Nat
         /\ quran # NoQuran => \A i \in 1..Len(history) : history[i] \in Starts(quran)
<1>1. history \in Seq(Nat) /\ Len(history) <= HistoryDepth
  BY DEF QuranInv, QuranValues, QuranTypeOK
<1>2. Len(history) \in Nat /\ HistoryDepth \in Nat
  BY <1>1, QuranPagingAssumption
<1>. QED
  BY <1>1, <1>2 DEF QuranInv, PlaceKept

(* The screen left is remembered where there is room.                      *)
LEMMA ForwardKeeps ==
  ASSUME QuranInv, Answered("forward"), InPackage(quran, cur'), OnItsLine(quran, cur'),
         history' = Push(Here), Here' = StartAfter(quran, ScreenFrom(quran, Here))
  PROVE  QuranInv'
<1>. DEFINE n == Len(history)
<1>1. /\ history \in Seq(Nat) /\ n \in Nat /\ n <= HistoryDepth /\ HistoryDepth \in Nat
      /\ \A i \in 1..n : history[i] \in Starts(quran)
  BY HistoryTyped DEF Answered
<1>2. Here \in Starts(quran) /\ Here \in Nat
  <2>1. Here \in Starts(quran) /\ quran \in Qurans
    BY QuranParts DEF Answered
  <2>. QED
    BY <2>1, StartsCut
<1>3. \A i \in 1..n : i < HistoryDepth =>
        (IF i = n THEN Here ELSE history[i + 1]) = StartAfter(quran, ScreenFrom(quran, history[i]))
  BY DEF QuranInv, HistoryKept, Answered
<1>4. CASE n < HistoryDepth
  <2>1. /\ history' = Append(history, Here) /\ history' \in Seq(Nat) /\ Len(history') = n + 1
        /\ history'[n + 1] = Here
    BY <1>1, <1>2, <1>4 DEF Push
  <2>2. \A i \in 1..n : history'[i] = history[i]
    BY <1>1, <1>2, <2>1
  <2>3. \A i \in 1..Len(history') : history'[i] \in Starts(quran)
    <3>. SUFFICES ASSUME NEW i \in 1..Len(history') PROVE history'[i] \in Starts(quran)
      OBVIOUS
    <3>1. i = n + 1 \/ i \in 1..n
      BY <1>1, <2>1
    <3>. QED
      BY <1>1, <1>2, <2>1, <2>2, <3>1
  <2>4. ASSUME NEW i \in 1..Len(history')
        PROVE  (IF i = Len(history') THEN Here' ELSE history'[i + 1])
                 = StartAfter(quran, ScreenFrom(quran, history'[i]))
    <3>. HIDE DEF n
    <3>1. CASE i = n + 1
      BY <2>1, <3>1
    <3>2. CASE i = n
      BY <1>1, <1>3, <1>4, <2>1, <2>2, <3>2
    <3>3. CASE i < n
      <4>1. /\ i \in 1..n /\ i + 1 \in 1..n /\ i # n /\ i # n + 1 /\ i < HistoryDepth
        BY <1>1, <3>3
      <4>. QED
        BY <1>3, <2>1, <2>2, <4>1
    <3>. QED
      BY <1>1, <2>1, <3>1, <3>2, <3>3
  <2>5. HistoryKept'
    BY <2>4 DEF HistoryKept, Answered
  <2>6. Len(history') <= HistoryDepth
    BY <1>1, <1>4, <2>1
  <2>. QED
    BY <2>1, <2>3, <2>5, <2>6, AnswerKeeps
<1>5. CASE ~ n < HistoryDepth
  <2>1. history' = history /\ n = HistoryDepth
    BY <1>1, <1>5 DEF Push
  <2>2. HistoryKept'
    <3>. SUFFICES ASSUME NEW i \in 1..Len(history), i < HistoryDepth
                  PROVE  (IF i = Len(history) THEN Here' ELSE history[i + 1])
                           = StartAfter(quran, ScreenFrom(quran, history[i]))
      BY <2>1 DEF HistoryKept, Answered
    <3>. QED
      BY <1>1, <1>3, <2>1
  <2>. QED
    BY <1>1, <2>1, <2>2, AnswerKeeps
<1>. QED
  BY <1>4, <1>5

(* The start remembered last is where the screen goes.                     *)
LEMMA BackKeeps ==
  ASSUME QuranInv, Answered("back"), InPackage(quran, cur'), OnItsLine(quran, cur'),
         history' = IF history = <<>> THEN <<>> ELSE Front(history),
         history # <<>> => Here' = Last(history)
  PROVE  QuranInv'
<1>. DEFINE n == Len(history)
<1>1. /\ history \in Seq(Nat) /\ n \in Nat /\ n <= HistoryDepth /\ HistoryDepth \in Nat
      /\ \A i \in 1..n : history[i] \in Starts(quran)
  BY HistoryTyped DEF Answered
<1>2. \A i \in 1..n : i < HistoryDepth =>
        (IF i = n THEN Here ELSE history[i + 1]) = StartAfter(quran, ScreenFrom(quran, history[i]))
  BY DEF QuranInv, HistoryKept, Answered
<1>3. CASE history = <<>>
  <2>1. history' = <<>> /\ Len(history') = 0 /\ history' \in Seq(Nat) /\ Len(history') <= HistoryDepth
    BY <1>3, NoHistory
  <2>2. HistoryKept' /\ \A i \in 1..Len(history') : history'[i] \in Starts(quran)
    BY <2>1 DEF HistoryKept
  <2>. QED
    BY <2>1, <2>2, AnswerKeeps
<1>4. CASE history # <<>>
  <2>1. n >= 1 /\ history' = SubSeq(history, 1, n - 1) /\ Here' = history[n]
    BY <1>1, <1>4 DEF Front, Last
  <2>2. /\ history' \in Seq(Nat) /\ Len(history') = n - 1
        /\ \A i \in 1..(n - 1) : history'[i] = history[i]
    BY <1>1, <2>1
  <2>. HIDE DEF n
  <2>3. \A i \in 1..Len(history') : history'[i] \in Starts(quran)
    BY <1>1, <2>2
  <2>4. ASSUME NEW i \in 1..Len(history'), i < HistoryDepth
        PROVE  (IF i = Len(history') THEN Here' ELSE history'[i + 1])
                 = StartAfter(quran, ScreenFrom(quran, history'[i]))
    <3>1. i \in 1..n /\ i # n /\ history'[i] = history[i]
      BY <1>1, <2>2
    <3>2. history[i + 1] = StartAfter(quran, ScreenFrom(quran, history'[i]))
      BY <1>2, <2>4, <3>1
    <3>3. CASE i = n - 1
      BY <1>1, <2>1, <2>2, <3>2, <3>3
    <3>4. CASE i # n - 1
      <4>1. i + 1 \in 1..(n - 1) /\ i # Len(history')
        BY <1>1, <2>2, <3>1, <3>4
      <4>. QED
        BY <2>2, <3>2, <4>1
    <3>. QED
      BY <3>3, <3>4
  <2>5. HistoryKept'
    BY <2>4 DEF HistoryKept, Answered
  <2>6. Len(history') <= HistoryDepth
    BY <1>1, <2>2
  <2>. QED
    BY <2>2, <2>3, <2>5, <2>6, AnswerKeeps
<1>. QED
  BY <1>3, <1>4


(* Where the next screen starts, as the screen at the cursor said.         *)
LEMMA NextStart ==
  ASSUME QuranInv, quran # NoQuran, view = "pages", ~ drawing
  PROVE  /\ next.layout = HasLayout(quran) /\ next.line \in Nat /\ next.ayah \in Nat
         /\ StartAfter(quran, ScreenFrom(quran, Here))
              = IF HasLayout(quran) THEN next.line ELSE next.ayah
<1>. DEFINE r == ScreenFrom(quran, Here)
<1>1. quran \in Qurans /\ Here \in Starts(quran) /\ Rendered(quran, cur) = r
  BY QuranParts
<1>2. ~ stale
  BY DEF QuranInv, Drawing
<1>3. next = [ayah |-> r.ayah, line |-> r.line, layout |-> r.layout]
  BY <1>1, <1>2 DEF QuranInv, ScreenKept, Drawn
<1>4. r.layout = HasLayout(quran) /\ r.ayah \in Nat /\ r.line \in Nat
  BY <1>1, ScreenTyped
<1>. HIDE DEF r
<1>5. next.layout = HasLayout(quran) /\ next.line = r.line /\ next.ayah = r.ayah
  BY <1>3, <1>4
<1>6. StartAfter(quran, r) = IF HasLayout(quran) THEN next.line ELSE next.ayah
  BY <1>5 DEF StartAfter
<1>. QED
  BY <1>4, <1>5, <1>6 DEF r

(* A page forward stays, or goes where the screen said the next one starts. *)
GoesForward ==
  /\ Answered("forward") /\ InPackage(quran, cur') /\ OnItsLine(quran, cur')
  /\ history' = Push(Here) /\ Here' = StartAfter(quran, ScreenFrom(quran, Here))

LEMMA PageForwardWorks ==
  ASSUME QuranInv, WheelRests, quran # NoQuran, view = "pages", pending > 0
  PROVE  (Answered("edge") /\ cur' = cur /\ history' = history) \/ (status' = "" /\ GoesForward)
<1>1. /\ ~ drawing /\ pending' = 0 /\ drawing' = TRUE /\ QuranPageForward
      /\ quran' = quran /\ view' = view /\ next' = next /\ progress' = progress
  BY DEF WheelRests
<1>2. /\ quran \in Qurans /\ cur \in Cursor /\ Here \in Starts(quran)
      /\ cur.screen + 1 \in Nat
  BY QuranParts DEF InPackage, Cursor
<1>3. /\ next.layout = HasLayout(quran) /\ next.line \in Nat /\ next.ayah \in Nat
      /\ StartAfter(quran, ScreenFrom(quran, Here))
           = IF HasLayout(quran) THEN next.line ELSE next.ayah
  BY <1>1, NextStart
<1>4. CASE AtEdge("end")
  BY <1>1, <1>4 DEF AtEdge, Answered
<1>5. CASE HasLayout(quran) /\ ~ AtEdge("end")
  <2>1. /\ next.line < LineCount(quran) /\ history' = Push(cur.line)
        /\ cur' = QuranSyncAyahToLine(quran, [cur EXCEPT !.line = next.line, !.screen = cur.screen + 1])
        /\ status' = "" /\ stale' = TRUE /\ seen' = [seen EXCEPT !.by = "forward"]
    <3>1. ForwardByLine
      BY <1>1, <1>3, <1>5 DEF QuranPageForward
    <3>2. next.line < LineCount(quran)
      BY <1>2, <1>3, <1>5, <3>1, LinesCut DEF ForwardByLine
    <3>3. /\ history' = Push(cur.line)
          /\ Moved(QuranSyncAyahToLine(quran, [cur EXCEPT !.line = next.line, !.screen = @ + 1]),
                   "forward")
      BY <1>5, <3>1 DEF ForwardByLine
    <3>. QED
      BY <3>2, <3>3 DEF Moved
  <2>2. InPackage(quran, cur') /\ OnItsLine(quran, cur') /\ cur'.line = next.line
    <3>. DEFINE c == [cur EXCEPT !.line = next.line, !.screen = cur.screen + 1]
    <3>1. c \in Cursor /\ c.line = next.line
      BY <1>2, <1>3 DEF Cursor
    <3>2. cur' = QuranSyncAyahToLine(quran, c)
      BY <2>1
    <3>. HIDE DEF c
    <3>. QED
      BY <1>2, <1>5, <2>1, <3>1, <3>2, SyncWorks
  <2>3. Answered("forward")
    BY <1>1, <2>1 DEF Answered
  <2>4. Here = cur.line /\ Here' = cur'.line
    BY <1>1, <1>5 DEF Here
  <2>. QED
    BY <1>3, <1>5, <2>1, <2>2, <2>3, <2>4 DEF GoesForward
<1>6. CASE ~ HasLayout(quran) /\ ~ AtEdge("end")
  <2>1. /\ next.ayah < AyahCount(quran) /\ history' = Push(cur.ayah)
        /\ cur' = [cur EXCEPT !.ayah = next.ayah, !.screen = cur.screen + 1,
                              !.surah = SurahOf(quran, next.ayah)]
        /\ status' = "" /\ stale' = TRUE /\ seen' = [seen EXCEPT !.by = "forward"]
    <3>1. ForwardByAyah
      BY <1>1, <1>3, <1>6 DEF QuranPageForward
    <3>2. next.ayah < AyahCount(quran)
      BY <1>2, <1>3, <1>6, <3>1, AyahsCut DEF ForwardByAyah
    <3>3. /\ history' = Push(cur.ayah)
          /\ Moved([cur EXCEPT !.ayah = next.ayah, !.screen = @ + 1,
                               !.surah = SurahOf(quran, next.ayah)], "forward")
      BY <1>6, <3>1 DEF ForwardByAyah
    <3>. QED
      BY <3>2, <3>3 DEF Moved
  <2>2. InPackage(quran, cur') /\ OnItsLine(quran, cur') /\ cur'.ayah = next.ayah
    <3>1. SurahOf(quran, next.ayah) \in 1..SurahCount(quran) /\ SurahOf(quran, next.ayah) \in Nat
          /\ next.ayah \in 0..(AyahCount(quran) - 1)
      <4>1. AyahCount(quran) \in Nat /\ next.ayah \in Nat /\ next.ayah < AyahCount(quran)
        BY <1>2, <1>3, <2>1, AyahsCut
      <4>2. next.ayah \in 0..(AyahCount(quran) - 1)
        BY <4>1
      <4>. QED
        BY <1>2, <4>2, SurahsCounted
    <3>2. /\ cur' \in Cursor /\ cur'.ayah = next.ayah /\ cur'.surah = SurahOf(quran, next.ayah)
      BY <1>2, <1>3, <2>1, <3>1 DEF Cursor
    <3>. QED
      BY <1>2, <1>6, <2>1, <3>1, <3>2 DEF InPackage, OnItsLine
  <2>3. Answered("forward")
    BY <1>1, <2>1 DEF Answered
  <2>4. Here = cur.ayah /\ Here' = cur'.ayah
    BY <1>1, <1>6 DEF Here
  <2>. QED
    BY <1>3, <1>6, <2>1, <2>2, <2>3, <2>4 DEF GoesForward
<1>. QED
  BY <1>4, <1>5, <1>6

LEMMA PageForwardKeeps ==
  ASSUME QuranInv, WheelRests, quran # NoQuran, view = "pages", pending > 0
  PROVE  QuranInv'
  BY PageForwardWorks, EdgeKeeps, ForwardKeeps DEF GoesForward

LEMMA PageBackKeeps ==
  ASSUME QuranInv, WheelRests, quran # NoQuran, view = "pages", ~ pending > 0
  PROVE  QuranInv'
<1>1. /\ ~ drawing /\ pending' = 0 /\ drawing' = TRUE /\ QuranPageBack
      /\ quran' = quran /\ view' = view /\ next' = next /\ progress' = progress
  BY DEF WheelRests
<1>2. /\ quran \in Qurans /\ cur \in Cursor /\ OneLess(cur.screen) \in Nat
      /\ HasLayout(quran) => cur.line \in 0..(LineCount(quran) - 1)
  BY QuranParts DEF InPackage, Cursor, OneLess
<1>3. next.layout = HasLayout(quran)
  BY <1>1, NextStart
<1>4. /\ history \in Seq(Nat) /\ Len(history) \in Nat
      /\ history # <<>> => Last(history) \in Starts(quran)
  BY <1>1, HistoryTyped DEF Last
<1>5. CASE AtEdge("start")
  BY <1>1, <1>5, EdgeKeeps DEF AtEdge, Answered
<1>6. CASE HasLayout(quran) /\ ~ AtEdge("start")
  <2>. DEFINE l == IF history = <<>> THEN cur.line - 1 ELSE Last(history)
  <2>1. /\ ~ (history = <<>> /\ cur.line = 0)
        /\ history' = IF history = <<>> THEN <<>> ELSE Front(history)
        /\ cur' = QuranSyncAyahToLine(quran, [cur EXCEPT !.line = l, !.screen = OneLess(cur.screen)])
        /\ status' = "" /\ stale' = TRUE /\ seen' = [seen EXCEPT !.by = "back"]
    BY <1>1, <1>3, <1>6 DEF QuranPageBack, BackByLine, Moved
  <2>2. LineCount(quran) \in Nat
    BY <1>2, <1>6, LinesCut
  <2>3. l \in Nat /\ l < LineCount(quran)
    <3>1. CASE history = <<>>
      <4>1. cur.line \in 0..(LineCount(quran) - 1) /\ cur.line # 0 /\ l = cur.line - 1
        BY <1>2, <1>6, <2>1, <3>1
      <4>. QED
        BY <2>2, <4>1
    <3>2. CASE history # <<>>
      <4>1. Last(history) \in 0..(LineCount(quran) - 1)
        BY <1>4, <1>6, <3>2 DEF Starts
      <4>. QED
        BY <2>2, <3>2, <4>1
    <3>. QED
      BY <3>1, <3>2
  <2>. HIDE DEF l
  <2>4. InPackage(quran, cur') /\ OnItsLine(quran, cur') /\ cur'.line = l
    <3>. DEFINE c == [cur EXCEPT !.line = l, !.screen = OneLess(cur.screen)]
    <3>1. c \in Cursor /\ c.line = l
      BY <1>2, <2>3 DEF Cursor
    <3>2. cur' = QuranSyncAyahToLine(quran, c)
      BY <2>1
    <3>. HIDE DEF c
    <3>. QED
      BY <1>2, <1>6, <2>3, <3>1, <3>2, SyncWorks
  <2>5. Answered("back")
    BY <1>1, <2>1 DEF Answered
  <2>6. history # <<>> => Here' = Last(history)
    BY <1>1, <1>6, <2>4 DEF Here, l
  <2>. QED
    BY <2>1, <2>4, <2>5, <2>6, BackKeeps
<1>7. CASE ~ HasLayout(quran) /\ ~ AtEdge("start")
  <2>. DEFINE a == Last(history)
  <2>1. /\ history # <<>> /\ history' = Front(history)
        /\ cur' = [cur EXCEPT !.ayah = a, !.screen = OneLess(cur.screen), !.surah = SurahOf(quran, a)]
        /\ status' = "" /\ stale' = TRUE /\ seen' = [seen EXCEPT !.by = "back"]
    BY <1>1, <1>3, <1>7 DEF QuranPageBack, BackByAyah, Moved
  <2>2. AyahCount(quran) \in Nat
    BY <1>2, AyahsCut
  <2>3. a \in Nat /\ a < AyahCount(quran)
    <3>1. a \in 0..(AyahCount(quran) - 1)
      BY <1>4, <1>7, <2>1 DEF Starts
    <3>. QED
      BY <2>2, <3>1
  <2>. HIDE DEF a
  <2>4. InPackage(quran, cur') /\ OnItsLine(quran, cur') /\ cur'.ayah = a
    <3>1. SurahOf(quran, a) \in 1..SurahCount(quran) /\ SurahOf(quran, a) \in Nat
          /\ a \in 0..(AyahCount(quran) - 1)
      <4>1. a \in 0..(AyahCount(quran) - 1)
        BY <1>2, <2>3, AyahsCut
      <4>. QED
        BY <1>2, <4>1, SurahsCounted
    <3>2. /\ cur' \in Cursor /\ cur'.ayah = a /\ cur'.surah = SurahOf(quran, a)
      BY <1>2, <2>3, <2>1, <3>1 DEF Cursor
    <3>. QED
      BY <1>2, <1>7, <2>3, <3>1, <3>2 DEF InPackage, OnItsLine
  <2>5. Answered("back")
    BY <1>1, <2>1 DEF Answered
  <2>6. Here' = Last(history)
    BY <1>1, <1>7, <2>4 DEF Here, a
  <2>. QED
    BY <2>1, <2>4, <2>5, <2>6, BackKeeps
<1>. QED
  BY <1>5, <1>6, <1>7

LEMMA WheelRestsKeep == ASSUME QuranInv, WheelRests PROVE QuranInv'
<1>1. CASE quran # NoQuran /\ view = "pages"
  <2>1. CASE pending > 0
    BY <1>1, <2>1, PageForwardKeeps
  <2>2. CASE ~ pending > 0
    BY <1>1, <2>2, PageBackKeeps
  <2>. QED
    BY <2>1, <2>2
<1>2. CASE ~ (quran # NoQuran /\ view = "pages")
  <2>1. /\ pending' = 0 /\ drawing' = drawing /\ cur' = cur /\ history' = history /\ status' = status
        /\ stale' = stale /\ seen' = seen /\ ~ drawing
        /\ quran' = quran /\ view' = view /\ next' = next /\ progress' = progress
    BY <1>2 DEF WheelRests
  <2>2. pending' \in -1..1
    <3>1. pending' = 0
      BY <2>1
    <3>. QED
      BY <3>1
  <2>3. QuranTypeOK'
    BY <2>1, <2>2 DEF QuranInv, QuranValues, QuranTypeOK
  <2>4. QuranValues'
    BY <2>1, <2>3 DEF QuranInv, QuranValues
  <2>5. Drawing'
    BY <2>1 DEF QuranInv, Drawing
  <2>6. PlaceKept'
    BY <2>1 DEF QuranInv, PlaceKept
  <2>7. HistoryKept'
    BY <2>1 DEF QuranInv, HistoryKept, Here
  <2>8. ScreenKept' /\ SavedKept'
    BY <2>1 DEF QuranInv, ScreenKept, Drawn, SavedKept
  <2>. QED
    BY <2>4, <2>5, <2>6, <2>7, <2>8 DEF QuranInv
<1>. QED
  BY <1>1, <1>2


-----------------------------------------------------------------------------
(* Drawing                                                                 *)

(* Where there are lines the header's surah is already the cursor's.       *)
LEMMA HeaderAgrees ==
  ASSUME QuranInv, quran # NoQuran, view = "pages", HasLayout(quran)
  PROVE  SurahOf(quran, AyahOfWord(quran, MushafLines[quran][cur.line + 1])) = cur.surah
<1>1. /\ quran \in Qurans /\ cur.line \in 0..(LineCount(quran) - 1)
      /\ cur.surah = SurahOf(quran, cur.ayah)
  BY QuranParts DEF InPackage
<1>2. PICK w \in LineWords(quran, cur.line) : AyahOfWord(quran, w) = cur.ayah
  BY QuranParts DEF OnItsLine
<1>3. SurahOf(quran, AyahOfWord(quran, w))
        = SurahOf(quran, AyahOfWord(quran, StartOfLine(quran, cur.line)))
  BY <1>1, LineOfOneSurah
<1>4. MushafLines[quran][cur.line + 1] = StartOfLine(quran, cur.line)
  BY <1>1, LinesCut
<1>. QED
  BY <1>1, <1>2, <1>3, <1>4

(* What a screen drawn leaves: the cursor is where it was.                 *)
LEMMA DrawWorks ==
  ASSUME QuranInv, Draw
  PROVE  /\ quran # NoQuran /\ stale /\ drawing' = FALSE /\ stale' = FALSE /\ cur' = cur
         /\ quran' = quran /\ view' = view /\ history' = history /\ status' = status
         /\ pending' = pending /\ progress' = progress
         /\ view # "pages" => next' = next /\ seen' = seen
         /\ view = "pages" =>
              LET r == ScreenFrom(quran, Here)
              IN /\ next' = [ayah |-> r.ayah, line |-> r.line, layout |-> r.layout]
                 /\ seen' = [seen EXCEPT !.words = r.drawn]
<1>1. stale /\ pending = 0 /\ quran # NoQuran
  BY DEF Draw, QuranInv, Drawing
<1>2. /\ drawing' = FALSE /\ stale' = FALSE
      /\ quran' = quran /\ view' = view /\ history' = history /\ status' = status
      /\ pending' = pending /\ progress' = progress
  BY <1>1 DEF Draw
<1>3. CASE view # "pages"
  BY <1>1, <1>2, <1>3 DEF Draw
<1>4. CASE view = "pages"
  <2>. DEFINE r == ScreenFrom(quran, Here)
  <2>1. quran \in Qurans /\ Here \in Starts(quran) /\ Rendered(quran, cur) = r /\ cur \in Cursor
    BY <1>1, QuranParts DEF InPackage
  <2>2. r.layout = HasLayout(quran)
    BY <2>1, ScreenTyped
  <2>. HIDE DEF r
  <2>3. /\ next' = [ayah |-> r.ayah, line |-> r.line, layout |-> r.layout]
        /\ seen' = [seen EXCEPT !.words = r.drawn]
        /\ cur' = IF r.layout
                  THEN [cur EXCEPT !.surah =
                          SurahOf(quran, AyahOfWord(quran, MushafLines[quran][cur.line + 1]))]
                  ELSE cur
    BY <1>1, <1>4, <2>1 DEF Draw
  <2>4. cur' = cur
    <3>1. CASE HasLayout(quran)
      <4>1. SurahOf(quran, AyahOfWord(quran, MushafLines[quran][cur.line + 1])) = cur.surah
        BY <1>1, <1>4, <3>1, HeaderAgrees
      <4>2. cur' = [cur EXCEPT !.surah = cur.surah]
        BY <2>2, <2>3, <3>1, <4>1
      <4>. QED
        BY <2>1, <4>2 DEF Cursor
    <3>2. CASE ~ HasLayout(quran)
      BY <2>2, <2>3, <3>2
    <3>. QED
      BY <3>1, <3>2
  <2>. QED
    BY <1>1, <1>2, <1>4, <2>3, <2>4 DEF r
<1>. QED
  BY <1>3, <1>4

LEMMA DrawKeeps == ASSUME QuranInv, Draw PROVE QuranInv'
<1>1. /\ quran # NoQuran /\ stale /\ drawing' = FALSE /\ stale' = FALSE /\ cur' = cur
      /\ quran' = quran /\ view' = view /\ history' = history /\ status' = status
      /\ pending' = pending /\ progress' = progress
  BY DrawWorks
<1>2. QuranTypeOK'
  BY <1>1 DEF QuranInv, QuranValues, QuranTypeOK
<1>3. Drawing'
  BY <1>1 DEF QuranInv, Drawing
<1>4. PlaceKept'
  BY <1>1 DEF QuranInv, PlaceKept
<1>5. HistoryKept'
  BY <1>1 DEF QuranInv, HistoryKept, Here
<1>6. SavedKept'
  BY <1>1 DEF QuranInv, SavedKept
<1>7. CASE view # "pages"
  <2>1. next' = next /\ seen' = seen
    BY <1>7, DrawWorks
  <2>2. QuranValues'
    BY <1>1, <1>2, <2>1 DEF QuranInv, QuranValues
  <2>3. ScreenKept'
    BY <1>1, <1>7 DEF ScreenKept, Drawn
  <2>. QED
    BY <1>3, <1>4, <1>5, <1>6, <2>2, <2>3 DEF QuranInv
<1>8. CASE view = "pages"
  <2>. DEFINE r == ScreenFrom(quran, Here)
  <2>1. /\ next' = [ayah |-> r.ayah, line |-> r.line, layout |-> r.layout]
        /\ seen' = [seen EXCEPT !.words = r.drawn]
    BY <1>8, DrawWorks
  <2>2. quran \in Qurans /\ Here \in Starts(quran) /\ Rendered(quran, cur) = r
    BY <1>1, QuranParts
  <2>3. /\ r.layout \in BOOLEAN /\ r.drawn \in SUBSET Nat /\ r.ayah \in Nat /\ r.line \in Nat
    <3>1. HasLayout(quran) \in BOOLEAN
      BY DEF HasLayout
    <3>. QED
      BY <2>2, <3>1, ScreenTyped
  <2>. HIDE DEF r
  <2>4. /\ seen \in [words : SUBSET Nat, by : {"open", "forward", "back", "edge"}]
    BY DEF QuranInv, QuranValues
  <2>5. /\ seen' \in [words : SUBSET Nat, by : {"open", "forward", "back", "edge"}]
        /\ seen'.words = r.drawn
    BY <2>1, <2>3, <2>4
  <2>6. next' \in [ayah : Nat, line : Nat, layout : BOOLEAN]
    BY <2>1, <2>3
  <2>7. QuranValues'
    BY <1>1, <1>2, <2>5, <2>6 DEF QuranInv, QuranValues
  <2>8. ScreenKept'
    BY <1>1, <2>1, <2>2, <2>5 DEF ScreenKept
  <2>. QED
    BY <1>3, <1>4, <1>5, <1>6, <2>7, <2>8 DEF QuranInv
<1>. QED
  BY <1>7, <1>8

-----------------------------------------------------------------------------
(* The invariant                                                           *)

LEMMA QuranStarts == QuranInit => QuranInv
<1>. SUFFICES ASSUME QuranInit PROVE QuranInv
  OBVIOUS
<1>1. /\ quran = NoQuran /\ view = "picker" /\ cur = NewState
      /\ next = [ayah |-> 0, line |-> 0, layout |-> FALSE]
      /\ history = <<>> /\ status = "" /\ stale = FALSE /\ pending = 0 /\ drawing = FALSE
      /\ progress = [id |-> NoQuran, surah |-> 0, ayah |-> 0, screen |-> 0]
      /\ seen = NowhereYet
  BY DEF QuranInit
<1>2. NewState \in Cursor
  BY DEF NewState, Cursor
<1>3. history \in Seq(Nat) /\ Len(history) <= HistoryDepth
  BY <1>1, NoHistory
<1>4. pending \in -1..1
  <2>1. pending = 0
    BY <1>1
  <2>. QED
    BY <2>1
<1>5. QuranTypeOK
  BY <1>1, <1>2, <1>3, <1>4 DEF QuranTypeOK
<1>6. /\ next \in [ayah : Nat, line : Nat, layout : BOOLEAN]
      /\ seen \in [words : SUBSET Nat, by : {"open", "forward", "back", "edge"}]
      /\ progress \in [id : Qurans \cup {NoQuran}, surah : Nat, ayah : Nat, screen : Nat]
  BY <1>1 DEF NowhereYet
<1>7. QuranValues
  BY <1>3, <1>5, <1>6 DEF QuranValues
<1>8. Drawing /\ PlaceKept /\ ScreenKept /\ HistoryKept /\ SavedKept
  BY <1>1 DEF Drawing, PlaceKept, ScreenKept, Drawn, HistoryKept, SavedKept
<1>. QED
  BY <1>7, <1>8 DEF QuranInv

LEMMA QuranStepKeeps == ASSUME CalmPicking PROVE QuranInv /\ [QuranNext]_quranVars => QuranInv'
<1>. SUFFICES ASSUME QuranInv, [QuranNext]_quranVars PROVE QuranInv'
  OBVIOUS
<1>1. CASE OpenQuran
  BY <1>1, OpenQuranKeeps
<1>2. CASE OpenSelectedSurah
  BY <1>2, OpenSurahKeeps
<1>3. CASE LeavePages
  BY <1>3, LeavePagesKeeps
<1>4. CASE LeaveQuran
  BY <1>4, LeaveQuranKeeps
<1>5. CASE QuranSleeps
  BY <1>5, SleepKeeps
<1>6. CASE WheelSteps
  BY <1>6, WheelStepsKeep
<1>7. CASE WheelRests
  BY <1>7, WheelRestsKeep
<1>8. CASE Draw
  BY <1>8, DrawKeeps
<1>9. CASE UNCHANGED quranVars
  <2>1. /\ quran' = quran /\ view' = view /\ cur' = cur /\ next' = next /\ history' = history
        /\ status' = status /\ stale' = stale /\ pending' = pending /\ drawing' = drawing
        /\ progress' = progress /\ seen' = seen
    BY <1>9 DEF quranVars
  <2>2. QuranTypeOK'
    BY <2>1 DEF QuranInv, QuranValues, QuranTypeOK
  <2>3. QuranValues'
    BY <2>1, <2>2 DEF QuranInv, QuranValues
  <2>4. Drawing' /\ PlaceKept'
    BY <2>1 DEF QuranInv, Drawing, PlaceKept
  <2>5. ScreenKept' /\ HistoryKept' /\ SavedKept'
    BY <2>1 DEF QuranInv, ScreenKept, Drawn, HistoryKept, Here, SavedKept
  <2>. QED
    BY <2>3, <2>4, <2>5 DEF QuranInv
<1>. QED
  BY <1>1, <1>2, <1>3, <1>4, <1>5, <1>6, <1>7, <1>8, <1>9 DEF QuranNext

LEMMA QuranInvariant == ASSUME CalmPicking PROVE QuranSpec => []QuranInv
<1>1. QuranInit => QuranInv
  BY QuranStarts
<1>2. QuranInv /\ [QuranNext]_quranVars => QuranInv'
  BY QuranStepKeeps
<1>. QED
  BY <1>1, <1>2, PTL DEF QuranSpec


-----------------------------------------------------------------------------
(* What the reader of a Quran package is promised                          *)

(* The variables keep their types: the cursor is in the package, at one of *)
(* its surahs and ayahs and on one of its lines, and no more screens are   *)
(* remembered than there is room for (g_quran_state, g_quran_history).     *)
THEOREM QuranTyped == ASSUME CalmPicking PROVE QuranSpec => []QuranTypeOK
<1>1. QuranInv => QuranTypeOK
  BY DEF QuranInv, QuranValues
<1>. QED
  BY <1>1, QuranInvariant, PTL

(* The screens gone back over are the ones that were paged through: each   *)
(* start remembered leads to the next one (PushHistory, PopHistory).       *)
THEOREM HistoryAlwaysChains == ASSUME CalmPicking PROVE QuranSpec => []HistoryChains
<1>1. ASSUME QuranInv PROVE HistoryChains
  <2>. SUFFICES ASSUME Drawn, NEW i \in 1..Len(history), i < HistoryDepth
                PROVE  LET start(n) == IF n > Len(history)
                                       THEN IF HasLayout(quran) THEN cur.line ELSE cur.ayah
                                       ELSE history[n]
                           r == ScreenFrom(quran, start(i))
                       IN start(i + 1) = IF HasLayout(quran) THEN r.line ELSE r.ayah
    BY DEF HistoryChains
  <2>. DEFINE start(n) == IF n > Len(history) THEN Here ELSE history[n]
  <2>1. Len(history) \in Nat
    BY <1>1, HistoryTyped
  <2>2. start(i) = history[i]
    BY <2>1
  <2>3. start(i + 1) = IF i = Len(history) THEN Here ELSE history[i + 1]
    BY <2>1
  <2>4. start(i + 1) = StartAfter(quran, ScreenFrom(quran, history[i]))
    BY <1>1, <2>3 DEF QuranInv, HistoryKept, Drawn
  <2>. QED
    BY <2>2, <2>4 DEF StartAfter, Here
<1>. QED
  BY <1>1, QuranInvariant, PTL

(* Where what is drawn fits, the ayah counted as the reader's place is on  *)
(* the screen; and the place saved is found again (SaveQuranProgress).     *)
THEOREM PlaceAlwaysHonest ==
  ASSUME CalmPicking, \A q \in Qurans : Fits(q)
  PROVE  QuranSpec => []PlaceHonest
<1>1. ASSUME QuranInv PROVE PlaceHonest
  <2>1. progress.id # NoQuran => Resumable(progress.id, progress)
    BY <1>1 DEF QuranInv, SavedKept
  <2>2. ASSUME Drawn PROVE \E w \in seen.words : AyahOfWord(quran, w) = cur.ayah
    <3>. DEFINE r == ScreenFrom(quran, Here)
    <3>1. quran # NoQuran /\ view = "pages"
      BY <2>2 DEF Drawn
    <3>2. /\ quran \in Qurans /\ Here \in Starts(quran) /\ Rendered(quran, cur) = r
          /\ InPackage(quran, cur) /\ OnItsLine(quran, cur)
      BY <1>1, <3>1, QuranParts
    <3>3. seen.words = r.drawn
      BY <1>1, <2>2, <3>2 DEF QuranInv, ScreenKept
    <3>4. PICK e \in Nat : Shows(quran, Here, r, e)
      BY <3>2, ScreenShows
    <3>5. HasLayout(quran) => StartAfter(quran, r) > Here
      BY <3>2, ScreenShows
    <3>. HIDE DEF r
    <3>6. seen.words = StartWord(quran, Here)..(e - 1) /\ e > StartWord(quran, Here)
      BY <3>3, <3>4 DEF Shows
    <3>7. CASE HasLayout(quran)
      <4>. DEFINE l == cur.line
                  m == StartAfter(quran, r)
      <4>1. PICK w \in LineWords(quran, l) : AyahOfWord(quran, w) = cur.ayah
        BY <3>2, <3>7 DEF OnItsLine
      <4>2. /\ l = Here /\ l \in 0..(LineCount(quran) - 1) /\ LineCount(quran) \in Nat
            /\ m \in l..LineCount(quran) /\ m > l /\ StartOfLine(quran, m) <= e
        BY <3>2, <3>4, <3>5, <3>7, LinesCut DEF Here, Starts, Shows, StartCount, StartWord
      <4>3. /\ l \in 0..LineCount(quran) /\ l + 1 \in 0..LineCount(quran) /\ m \in 0..LineCount(quran)
            /\ l + 1 = m \/ l + 1 < m
        BY <4>2
      <4>4. /\ StartOfLine(quran, l) \in Nat /\ StartOfLine(quran, l + 1) \in Nat
            /\ StartOfLine(quran, m) \in Nat /\ StartOfLine(quran, l + 1) <= StartOfLine(quran, m)
        BY <3>2, <3>7, <4>3, LinesCut
      <4>5. StartWord(quran, Here) = StartOfLine(quran, l)
        BY <3>7, <4>2 DEF StartWord
      <4>6. w \in StartOfLine(quran, l)..(StartOfLine(quran, l + 1) - 1)
        BY <4>1 DEF LineWords
      <4>. HIDE DEF l, m
      <4>7. w \in StartOfLine(quran, l)..(e - 1)
        BY <4>2, <4>4, <4>6
      <4>. QED
        BY <3>6, <4>1, <4>5, <4>7
    <3>8. CASE ~ HasLayout(quran)
      <4>. DEFINE a == cur.ayah
                  w == StartOfAyah(quran, a)
      <4>1. a = Here /\ a \in 0..(AyahCount(quran) - 1) /\ StartWord(quran, Here) = w
        BY <3>2, <3>8 DEF Here, InPackage, StartWord
      <4>2. /\ a \in 0..AyahCount(quran) /\ a + 1 \in 0..AyahCount(quran)
        BY <3>2, <4>1, AyahsCut
      <4>3. /\ w \in 0..WordCount(quran) /\ StartOfAyah(quran, a + 1) \in 0..WordCount(quran)
            /\ w < StartOfAyah(quran, a + 1) /\ WordCount(quran) \in Nat
        BY <3>2, <4>1, <4>2, AyahsCut
      <4>4. w \in 0..(WordCount(quran) - 1) /\ w <= w
        BY <4>3
      <4>5. AyahOfWord(quran, w) = a
        BY <3>2, <4>1, <4>3, <4>4, AyahFound
      <4>. HIDE DEF a, w
      <4>6. w \in seen.words
        BY <3>6, <4>1, <4>4
      <4>. QED
        BY <4>5, <4>6 DEF a
    <3>. QED
      BY <3>7, <3>8
  <2>. QED
    BY <2>1, <2>2 DEF PlaceHonest
<1>. QED
  BY <1>1, QuranInvariant, PTL


-----------------------------------------------------------------------------
(* No word is passed over                                                  *)

(* Two screens of which one starts where the other said: it starts no      *)
(* later than the word after the last one there, and ends later.           *)
LEMMA ScreensMeet ==
  ASSUME NEW q \in Qurans, Fits(q), AyahsFit(q), NEW n \in Starts(q), NEW m \in Starts(q),
         m = StartAfter(q, ScreenFrom(q, n))
  PROVE  /\ \E w \in ScreenFrom(q, m).drawn : \A v \in ScreenFrom(q, n).drawn : v < w
         /\ \A w \in ScreenFrom(q, m).drawn :
              w - 1 \in ScreenFrom(q, n).drawn \cup ScreenFrom(q, m).drawn
<1>. DEFINE r == ScreenFrom(q, n)
            s == ScreenFrom(q, m)
            k == StartAfter(q, s)
<1>1. PICK e \in Nat : Shows(q, n, r, e)
  BY ScreenShows
<1>2. PICK d \in Nat : Shows(q, m, s, d)
  BY ScreenShows
<1>3. m > n /\ k > m
  BY ScreenShows
<1>. HIDE DEF r, s, k
<1>4. /\ StartCount(q) \in Nat /\ n \in 0..(StartCount(q) - 1) /\ m \in 0..(StartCount(q) - 1)
  BY StartsCut
<1>5. k \in m..StartCount(q) /\ StartWord(q, k) <= d
  BY <1>2 DEF Shows, k, s
<1>6. /\ n \in 0..StartCount(q) /\ m \in 0..StartCount(q) /\ m + 1 \in 0..StartCount(q)
      /\ k \in 0..StartCount(q) /\ m < StartCount(q) /\ (m + 1 = k \/ m + 1 < k)
  BY <1>3, <1>4, <1>5
<1>7. /\ StartWord(q, n) \in Nat /\ StartWord(q, m) \in Nat /\ StartWord(q, m + 1) \in Nat
      /\ StartWord(q, k) \in Nat
      /\ StartWord(q, n) < StartWord(q, m) /\ StartWord(q, m + 1) <= StartWord(q, k)
  BY <1>3, <1>6, StartsCut
<1>8. /\ r.drawn = StartWord(q, n)..(e - 1) /\ e > StartWord(q, n)
      /\ StartWord(q, m) <= e /\ e < StartWord(q, m + 1)
  BY <1>1, <1>6 DEF Shows, r
<1>9. s.drawn = StartWord(q, m)..(d - 1) /\ d > StartWord(q, m)
  BY <1>2 DEF Shows
<1>10. e < d
  BY <1>5, <1>7, <1>8
<1>11. \E w \in s.drawn : \A v \in r.drawn : v < w
  <2>1. d - 1 \in s.drawn
    BY <1>7, <1>9
  <2>2. \A v \in r.drawn : v < d - 1
    BY <1>7, <1>8, <1>10
  <2>. QED
    BY <2>1, <2>2
<1>12. ASSUME NEW w \in s.drawn PROVE w - 1 \in r.drawn \cup s.drawn
  <2>1. CASE w = StartWord(q, m)
    BY <1>7, <1>8, <2>1
  <2>2. CASE w # StartWord(q, m)
    BY <1>7, <1>9, <1>12, <2>2
  <2>. QED
    BY <2>1, <2>2
<1>. QED
  BY <1>11, <1>12 DEF r, s

(* A screen that is the last one shows the last word.                      *)
LEMMA LastScreenShows ==
  ASSUME NEW q \in Qurans, Fits(q), AyahsFit(q), NEW n \in Starts(q),
         StartAfter(q, ScreenFrom(q, n)) = n \/ StartAfter(q, ScreenFrom(q, n)) >= StartCount(q)
  PROVE  WordCount(q) - 1 \in ScreenFrom(q, n).drawn
<1>. DEFINE r == ScreenFrom(q, n)
            m == StartAfter(q, r)
<1>1. PICK e \in Nat : Shows(q, n, r, e)
  BY ScreenShows
<1>2. m > n /\ n \in Nat /\ StartCount(q) \in Nat /\ n \in 0..StartCount(q) /\ n < StartCount(q)
  BY ScreenShows, StartsCut
<1>3. m \in n..StartCount(q) /\ StartWord(q, m) <= e /\ e <= WordCount(q)
      /\ r.drawn = StartWord(q, n)..(e - 1)
  BY <1>1 DEF Shows
<1>4. m = StartCount(q)
  BY <1>2, <1>3
<1>5. /\ StartWord(q, m) = WordCount(q) /\ WordCount(q) \in Nat /\ StartWord(q, n) \in Nat
      /\ StartWord(q, n) < WordCount(q)
  BY <1>2, <1>4, StartsCut
<1>. HIDE DEF r, m
<1>6. WordCount(q) - 1 \in StartWord(q, n)..(e - 1)
  BY <1>3, <1>5
<1>. QED
  BY <1>3, <1>6 DEF r

LEMMA ForwardedStep ==
  ASSUME CalmPicking
  PROVE  QuranInv /\ Forwarded /\ [QuranNext]_quranVars => Forwarded'
<1>. SUFFICES ASSUME QuranInv, Forwarded, [QuranNext]_quranVars PROVE Forwarded'
  OBVIOUS
<1>1. CASE OpenQuran
  BY <1>1 DEF OpenQuran, Forwarded, NowhereYet
<1>2. CASE OpenSelectedSurah
  BY <1>2 DEF OpenSelectedSurah, Forwarded, NowhereYet
<1>3. CASE LeavePages
  BY <1>3 DEF LeavePages, Forwarded
<1>4. CASE LeaveQuran
  BY <1>4 DEF LeaveQuran, CloseQuran, Forwarded
<1>5. CASE QuranSleeps
  BY <1>5 DEF QuranSleeps, CloseQuran, Forwarded
<1>6. CASE WheelSteps
  BY <1>6 DEF WheelSteps, Forwarded, Here
<1>7. CASE WheelRests
  <2>1. CASE ~ (quran # NoQuran /\ view = "pages")
    BY <1>7, <2>1 DEF WheelRests, Forwarded, Here
  <2>2. CASE quran # NoQuran /\ view = "pages" /\ ~ pending > 0
    <3>1. seen'.by \in {"edge", "back"}
      <4>1. QuranPageBack /\ seen \in [words : SUBSET Nat, by : {"open", "forward", "back", "edge"}]
        BY <1>7, <2>2 DEF WheelRests, QuranInv, QuranValues
      <4>. QED
        BY <4>1 DEF QuranPageBack, BackByLine, BackByAyah, AtEdge, Moved
    <3>. QED
      BY <3>1 DEF Forwarded
  <2>3. CASE quran # NoQuran /\ view = "pages" /\ pending > 0
    <3>. DEFINE r == ScreenFrom(quran, Here)
    <3>1. quran \in Qurans /\ Here \in Starts(quran) /\ Rendered(quran, cur) = r
      BY <2>3, QuranParts
    <3>2. Drawn
      BY <1>7, <2>3 DEF WheelRests, QuranInv, Drawing, Drawn
    <3>3. seen.words = r.drawn /\ seen \in [words : SUBSET Nat, by : {"open", "forward", "back", "edge"}]
      BY <3>1, <3>2 DEF QuranInv, ScreenKept, QuranValues
    <3>4. CASE Answered("edge")
      BY <3>3, <3>4 DEF Answered, Forwarded
    <3>5. CASE GoesForward
      <4>1. quran' = quran /\ view' = "pages" /\ seen' = [seen EXCEPT !.by = "forward"]
            /\ Here' = StartAfter(quran, r)
        BY <3>5 DEF GoesForward, Answered
      <4>2. seen'.words = r.drawn
        BY <3>3, <4>1
      <4>. QED
        BY <3>1, <4>1, <4>2 DEF Forwarded
    <3>. QED
      BY <1>7, <2>3, <3>4, <3>5, PageForwardWorks
  <2>. QED
    BY <2>1, <2>2, <2>3
<1>8. CASE Draw
  BY <1>8, DrawWorks DEF Forwarded
<1>9. CASE UNCHANGED quranVars
  BY <1>9 DEF quranVars, Forwarded, Here
<1>. QED
  BY <1>1, <1>2, <1>3, <1>4, <1>5, <1>6, <1>7, <1>8, <1>9 DEF QuranNext

(* Where what is drawn fits, paging forward passes over no word, and the   *)
(* end is announced on a screen that shows the last one (QuranPageForward). *)
THEOREM EveryWordShown ==
  ASSUME CalmPicking, \A q \in Qurans : Fits(q) /\ AyahsFit(q)
  PROVE  QuranSpec => NothingSkipped
<1>. DEFINE Follows == Draw /\ seen.by = "forward" /\ seen'.words # {} =>
                         /\ \E w \in seen'.words : \A v \in seen.words : v < w
                         /\ \A w \in seen'.words : w - 1 \in seen.words \cup seen'.words
            Ends == WheelRests /\ view = "pages" /\ status' = "end" =>
                      WordCount(quran) - 1 \in seen.words
<1>1. ASSUME QuranInv, Forwarded, [QuranNext]_quranVars PROVE Follows
  <2>. SUFFICES ASSUME Draw, seen.by = "forward"
                PROVE  /\ \E w \in seen'.words : \A v \in seen.words : v < w
                       /\ \A w \in seen'.words : w - 1 \in seen.words \cup seen'.words
    OBVIOUS
  <2>1. quran # NoQuran /\ stale
    BY <1>1, DrawWorks
  <2>2. view = "pages"
    BY <1>1, <2>1 DEF Forwarded
  <2>3. PICK n \in Starts(quran) :
          seen.words = ScreenFrom(quran, n).drawn /\ Here = StartAfter(quran, ScreenFrom(quran, n))
    BY <1>1, <2>1 DEF Forwarded
  <2>4. quran \in Qurans /\ Here \in Starts(quran)
    BY <1>1, <2>1, QuranParts
  <2>5. seen'.words = ScreenFrom(quran, Here).drawn
    <3>1. seen' = [seen EXCEPT !.words = ScreenFrom(quran, Here).drawn]
      BY <1>1, <2>2, DrawWorks
    <3>2. seen \in [words : SUBSET Nat, by : {"open", "forward", "back", "edge"}]
      BY <1>1 DEF QuranInv, QuranValues
    <3>. QED
      BY <3>1, <3>2
  <2>6. /\ \E w \in ScreenFrom(quran, Here).drawn : \A v \in ScreenFrom(quran, n).drawn : v < w
        /\ \A w \in ScreenFrom(quran, Here).drawn :
             w - 1 \in ScreenFrom(quran, n).drawn \cup ScreenFrom(quran, Here).drawn
    BY <2>3, <2>4, ScreensMeet
  <2>. QED
    BY <2>3, <2>5, <2>6
<1>2. ASSUME QuranInv, [QuranNext]_quranVars PROVE Ends
  <2>. SUFFICES ASSUME WheelRests, view = "pages", status' = "end"
                PROVE  WordCount(quran) - 1 \in seen.words
    OBVIOUS
  <2>1. quran # NoQuran /\ ~ drawing /\ ~ stale
    BY <1>2 DEF QuranInv, Drawing, WheelRests
  <2>2. pending > 0 /\ QuranPageForward
    BY <2>1 DEF WheelRests, QuranPageBack, BackByLine, BackByAyah, AtEdge, Moved
  <2>3. quran \in Qurans /\ Here \in Starts(quran) /\ Rendered(quran, cur) = ScreenFrom(quran, Here)
    BY <1>2, <2>1, QuranParts
  <2>4. /\ next.layout = HasLayout(quran) /\ next.line \in Nat /\ next.ayah \in Nat
        /\ StartAfter(quran, ScreenFrom(quran, Here))
             = IF HasLayout(quran) THEN next.line ELSE next.ayah
    BY <1>2, <2>1, NextStart
  <2>5. \/ StartAfter(quran, ScreenFrom(quran, Here)) = Here
        \/ StartAfter(quran, ScreenFrom(quran, Here)) >= StartCount(quran)
    <3>1. CASE HasLayout(quran)
      BY <2>2, <2>4, <3>1 DEF QuranPageForward, ForwardByLine, Moved, Here, StartCount
    <3>2. CASE ~ HasLayout(quran)
      BY <2>2, <2>4, <3>2 DEF QuranPageForward, ForwardByAyah, Moved, Here, StartCount
    <3>. QED
      BY <3>1, <3>2
  <2>6. WordCount(quran) - 1 \in ScreenFrom(quran, Here).drawn
    BY <2>3, <2>5, LastScreenShows
  <2>. QED
    BY <1>2, <2>1, <2>3, <2>6 DEF QuranInv, ScreenKept, Drawn
<1>3. QuranInit => Forwarded
  BY DEF QuranInit, Forwarded
<1>4. QuranInv /\ Forwarded /\ [QuranNext]_quranVars => Forwarded'
  BY ForwardedStep
<1>5. NothingSkipped <=> [][Follows]_quranVars /\ [][Ends]_quranVars
  BY DEF NothingSkipped
<1>. HIDE DEF Follows, Ends
<1>. QED
  BY <1>1, <1>2, <1>3, <1>4, <1>5, QuranInvariant, PTL DEF QuranSpec

-----------------------------------------------------------------------------
(* The three readers side by side                                          *)

(* A step of one reader is a step of it or none, for each of the three.    *)
LEMMA OneReads ==
  ASSUME [ReadersNext]_readersVars
  PROVE  [PageNext]_pageVars /\ [TextNext]_textVars /\ [QuranNext]_quranVars
BY DEF ReadersNext, readersVars

(* Whichever reader is on the screen and whatever is read with it, all     *)
(* three keep their types: the page stays in the book, the surah and the   *)
(* text size among those there are, the cursor in the package.             *)
THEOREM ReadersTyped == ASSUME CalmPicking PROVE ReadersSpec => []ReadersTypeOK
<1>. DEFINE Inv == PageInv /\ TextTypeOK /\ QuranInv
<1>1. ReadersInit => Inv
  BY PageInitInv, QuranStarts, TextReaderAssumption DEF ReadersInit, TextInit, TextTypeOK
<1>2. Inv /\ [ReadersNext]_readersVars => Inv'
  BY OneReads, PageNextStep, NextTextTypeOK, QuranStepKeeps
<1>3. Inv => ReadersTypeOK
  BY DEF PageInv, QuranInv, QuranValues, ReadersTypeOK
<1>. HIDE DEF Inv
<1>. QED
  BY <1>1, <1>2, <1>3, PTL DEF ReadersSpec
=============================================================================
