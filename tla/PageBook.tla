------------------------------- MODULE PageBook -------------------------------
(***************************************************************************)
(* A book shown as page pictures (main.cpp, ScreenMode::kPages).  The page *)
(* on screen and its neighbours are kept decoded in Slots slots of memory, *)
(* one neighbour is read per pass of loop() while nothing waits to be      *)
(* drawn, and the place is written to /USER/pages.bin some time after the  *)
(* last page turn and on the way out.                                      *)
(*                                                                         *)
(* Pages are counted from 0, as in the code.  A picture is the pair of a   *)
(* book and a page; decoding into a slot that then fails leaves no         *)
(* picture there.  Chapters are the first pages of a book's CHAPTER_INDEX, *)
(* 1-based and ascending; titles are left out.  What the code leaves in a  *)
(* variable nobody reads again (the page of a closed book, the target of a *)
(* jump that is over, the picture in an unlabelled slot) is put back to    *)
(* its first value.                                                        *)
(***************************************************************************)
EXTENDS Integers, Sequences, FiniteSets

CONSTANTS
  PageBooks,  (* books with page pictures                                  *)
  PageCount,  (* PageCount[b]: how many                                    *)
  MostPages,  (* bound: no book has more                                   *)
  BadPages,   (* <<b, p>>: pictures that cannot be decoded                 *)
  Chapters,   (* Chapters[b]: the first pages of its chapters              *)
  Slots,      (* app::kPageCacheSlots                                      *)
  JumpStep,   (* ui::kPageJumpStep                                         *)
  NoBook      (* the id of no book: 16 zero bytes                          *)

ASSUME PageBookAssumption ==
  /\ NoBook \notin PageBooks
  /\ MostPages \in Nat
  /\ PageCount \in [PageBooks -> 1..MostPages]
  /\ Chapters \in [PageBooks -> Seq(Nat)]
  /\ Slots \in Nat \ {0} /\ JumpStep \in Nat \ {0}

VARIABLES
  book,         (* what g_page_reader has open, or NoBook                  *)
  at,           (* g_page_index                                            *)
  cache,        (* g_page_cache: the label of a slot, the picture in it    *)
  prefetchFailed,
  resume,       (* g_page_resume_id, g_page_resume_index                   *)
  unsaved, settledTurn,  (* g_page_progress_dirty, the delay since a turn  *)
  jump,         (* g_page_jump_mode and g_page_jump_target                 *)
  glass,        (* what is drawn, and whether g_dirty asks for a repaint   *)
  onCard        (* /USER/pages.bin                                         *)

pageVars == <<book, at, cache, prefetchFailed, resume, unsaved, settledTurn,
              jump, glass, onCard>>

AnyPage  == 0..MostPages
Place    == [id : PageBooks \cup {NoBook}, page : AnyPage]
Picture(b, p) == <<b, p>>
NoPicture     == <<NoBook, 0>>
Empty         == [i \in 1..Slots |-> [page |-> -1, bits |-> NoPicture]]

PageTypeOK ==
  /\ book \in PageBooks \cup {NoBook} /\ at \in AnyPage
  /\ cache \in [1..Slots -> [page : {-1} \cup AnyPage,
                             bits : {NoPicture} \cup (PageBooks \X AnyPage)]]
  /\ prefetchFailed \in {-1} \cup AnyPage
  /\ {resume, onCard} \subseteq Place
  /\ {unsaved, settledTurn} \subseteq BOOLEAN
  /\ jump \in [on : BOOLEAN, to : AnyPage]
  /\ glass \in [dirty : BOOLEAN, bits : {NoPicture} \cup (PageBooks \X AnyPage)]
  /\ book # NoBook => at < PageCount[book] /\ jump.to < PageCount[book]

PageInit ==
  /\ book = NoBook /\ at = 0 /\ cache = Empty /\ prefetchFailed = -1
  /\ resume = [id |-> NoBook, page |-> 0] /\ onCard = resume
  /\ unsaved = FALSE /\ settledTurn = FALSE
  /\ jump = [on |-> FALSE, to |-> 0]
  /\ glass = [dirty |-> FALSE, bits |-> NoPicture]

Repaints == glass' = [glass EXCEPT !.dirty = TRUE]

-----------------------------------------------------------------------------
(* The decoded pages                                                       *)

Cached(p) == \E i \in 1..Slots : cache[i].page = p

Distance(p) == IF p > at THEN p - at ELSE at - p

(* An empty slot if there is one, or else the last of those that hold a    *)
(* page farthest from the one on screen.                                   *)
Victim ==
  LET free == {i \in 1..Slots : cache[i].page = -1}
      far  == {i \in 1..Slots : \A j \in 1..Slots :
                 Distance(cache[j].page) <= Distance(cache[i].page)}
  IN IF free # {} THEN CHOOSE i \in free : \A j \in free : i <= j
                  ELSE CHOOSE i \in far : \A j \in far : j <= i

Readable(p) == <<book, p>> \notin BadPages

(* Mutant: the slot is labelled before the picture is read.                *)
LabelFirst(p) ==
  IF Cached(p) THEN cache
  ELSE [cache EXCEPT ![Victim] =
          [page |-> p, bits |-> IF Readable(p) THEN Picture(book, p) ELSE NoPicture]]

(* The cache after PageBits(p).                                            *)
PageBits(p) ==
  IF Cached(p) THEN cache
  ELSE [cache EXCEPT ![Victim] =
          IF Readable(p) THEN [page |-> p, bits |-> Picture(book, p)]
                         ELSE [page |-> -1, bits |-> NoPicture]]

Bits(c, p) ==
  IF \E i \in 1..Slots : c[i].page = p
  THEN c[CHOOSE i \in 1..Slots : c[i].page = p].bits
  ELSE NoPicture

RepaintPage ==
  /\ book # NoBook /\ glass.dirty
  /\ cache' = PageBits(at)
  /\ glass' = [dirty |-> FALSE, bits |-> Bits(PageBits(at), at)]
  /\ UNCHANGED <<book, at, prefetchFailed, resume, unsaved, settledTurn, jump, onCard>>

Wanted(p) == p \in 0..(PageCount[book] - 1) /\ ~Cached(p) /\ prefetchFailed # p

(* Mutant: a page that would not decode is not remembered.                 *)
PrefetchForgets(p) ==
  /\ cache' = PageBits(p)
  /\ UNCHANGED <<prefetchFailed, unsaved, settledTurn, onCard>>

Prefetch(p) ==
  /\ cache' = PageBits(p)
  /\ prefetchFailed' = IF Readable(p) THEN prefetchFailed ELSE p
  /\ UNCHANGED <<unsaved, settledTurn, onCard>>

(* One pass of loop() with nothing to draw: the place, the next page, or   *)
(* the previous one.                                                       *)
PollPagePrefetch ==
  /\ book # NoBook /\ ~glass.dirty
  /\ \/ /\ unsaved /\ settledTurn
        /\ unsaved' = FALSE /\ onCard' = [id |-> resume.id, page |-> at]
        /\ settledTurn' = FALSE
        /\ UNCHANGED <<cache, prefetchFailed>>
     \/ /\ ~(unsaved /\ settledTurn) /\ Wanted(at + 1)
        /\ Prefetch(at + 1)
     \/ /\ ~(unsaved /\ settledTurn) /\ ~Wanted(at + 1) /\ Wanted(at - 1)
        /\ Prefetch(at - 1)
  /\ UNCHANGED <<book, at, resume, jump, glass>>

DelayPasses ==
  /\ unsaved /\ ~settledTurn
  /\ settledTurn' = TRUE
  /\ UNCHANGED <<book, at, cache, prefetchFailed, resume, unsaved, jump, glass, onCard>>

-----------------------------------------------------------------------------
(* Opening and leaving                                                     *)

(* The book the resume record names opens at its page; after a restart the *)
(* record is the one on the card.                                          *)
OpenAt(b, known) ==
  LET r == IF known.id = b THEN known ELSE IF onCard.id = b THEN onCard ELSE known
      p == IF r.id = b /\ r.page < PageCount[b] THEN r.page ELSE 0
  IN /\ book' = b /\ at' = p /\ resume' = [id |-> b, page |-> p]
     /\ prefetchFailed' = -1 /\ unsaved' = FALSE
     /\ Repaints
     /\ UNCHANGED <<cache, settledTurn, jump, onCard>>

OpenPageBook == book = NoBook /\ \E b \in PageBooks : OpenAt(b, resume)

(* OpenBookmark() puts the bookmark where the book will resume.  The page  *)
(* of a bookmark may be one an earlier edition of the book had.            *)
OpenPageBookmark ==
  /\ book = NoBook
  /\ \E b \in PageBooks, p \in AnyPage : OpenAt(b, [id |-> b, page |-> p])

Closed ==
  /\ book' = NoBook /\ at' = 0 /\ cache' = Empty /\ prefetchFailed' = -1
  /\ settledTurn' = FALSE /\ jump' = [on |-> FALSE, to |-> 0]
  /\ glass' = [dirty |-> FALSE, bits |-> NoPicture]

SavePageProgress ==
  /\ unsaved' = FALSE
  /\ onCard' = IF unsaved THEN [id |-> resume.id, page |-> at] ELSE onCard

ClosePageBook ==
  /\ book # NoBook /\ ~jump.on
  /\ SavePageProgress
  /\ Closed
  /\ UNCHANGED resume

(* Everything in RAM is gone; the card keeps the place.                    *)
Restarted == Closed /\ resume' = [id |-> NoBook, page |-> 0]

PageBookSleeps == book # NoBook /\ SavePageProgress /\ Restarted

LosePower ==
  /\ book # NoBook /\ unsaved' = FALSE /\ Restarted
  /\ UNCHANGED onCard

-----------------------------------------------------------------------------
(* The wheel and the buttons                                               *)

Clamp(p) == IF p < 0 THEN 0 ELSE IF p > PageCount[book] - 1 THEN PageCount[book] - 1 ELSE p

GoTo(p) ==
  /\ at' = p /\ resume' = [resume EXCEPT !.page = p]
  /\ unsaved' = TRUE /\ settledTurn' = FALSE

TurnPage ==
  /\ book # NoBook /\ ~jump.on
  /\ \E d \in {-2, -1, 1, 2} : Clamp(at + d) # at /\ GoTo(Clamp(at + d))
  /\ Repaints
  /\ UNCHANGED <<book, cache, prefetchFailed, jump, onCard>>

JumpOpens ==
  /\ book # NoBook /\ ~jump.on
  /\ jump' = [on |-> TRUE, to |-> at] /\ Repaints
  /\ UNCHANGED <<book, at, cache, prefetchFailed, resume, unsaved, settledTurn, onCard>>

JumpTargetTo(p) ==
  /\ jump' = [jump EXCEPT !.to = p] /\ Repaints
  /\ UNCHANGED <<book, at, cache, prefetchFailed, resume, unsaved, settledTurn, onCard>>

JumpTurns ==
  /\ book # NoBook /\ jump.on
  /\ \E d \in {-1, 1} : /\ Clamp(jump.to + d * JumpStep) # jump.to
                        /\ JumpTargetTo(Clamp(jump.to + d * JumpStep))

(* How many chapters start at or before a page: where a search by halving  *)
(* may end.                                                                *)
ChapterForPage(page) ==
  LET c == Chapters[book]
  IN {n \in 0..Len(c) : (n > 0 => c[n] <= page) /\ (n < Len(c) => page < c[n + 1])}

JumpTargetToNextChapter ==
  /\ book # NoBook /\ jump.on /\ Chapters[book] # <<>>
  /\ \E next \in ChapterForPage(jump.to + 1) :
       LET first == Chapters[book][IF next >= Len(Chapters[book]) THEN 1 ELSE next + 1]
       IN JumpTargetTo(Clamp(IF first > 0 THEN first - 1 ELSE 0))

JumpGoes ==
  /\ book # NoBook /\ jump.on
  /\ jump' = [on |-> FALSE, to |-> 0] /\ Repaints
  /\ IF jump.to # at THEN GoTo(jump.to)
     ELSE UNCHANGED <<at, resume, unsaved, settledTurn>>
  /\ UNCHANGED <<book, cache, prefetchFailed, onCard>>

JumpCancelled ==
  /\ book # NoBook /\ jump.on
  /\ jump' = [on |-> FALSE, to |-> 0] /\ Repaints
  /\ UNCHANGED <<book, at, cache, prefetchFailed, resume, unsaved, settledTurn, onCard>>

PageNext ==
  \/ OpenPageBook \/ OpenPageBookmark \/ ClosePageBook \/ PageBookSleeps \/ LosePower
  \/ TurnPage \/ JumpOpens \/ JumpTurns \/ JumpTargetToNextChapter \/ JumpGoes \/ JumpCancelled
  \/ RepaintPage \/ PollPagePrefetch \/ DelayPasses

PageFairness == WF_pageVars(RepaintPage \/ PollPagePrefetch) /\ WF_pageVars(DelayPasses)

PageSpec == PageInit /\ [][PageNext]_pageVars /\ PageFairness

-----------------------------------------------------------------------------
(* What a slot says it holds is what it holds, and the page drawn is the   *)
(* page the reader is on, through turns, evictions, failed reads and       *)
(* another book.                                                           *)
NeverWrongPage ==
  book # NoBook =>
    /\ \A i \in 1..Slots : cache[i].page # -1 => cache[i].bits = Picture(book, cache[i].page)
    /\ ~glass.dirty => glass.bits = IF Readable(at) THEN Picture(book, at) ELSE NoPicture

(* With nobody at the wheel the reader comes to rest: both neighbours are  *)
(* decoded, or known to be unreadable, and the place is on the card.       *)
AtRest ==
  /\ ~glass.dirty /\ ~unsaved
  /\ \A p \in {at - 1, at + 1} : ~Wanted(p)

Background == RepaintPage \/ PollPagePrefetch \/ DelayPasses

ComesToRest == <>[][Background]_pageVars => <>[](book # NoBook => AtRest)
================================================================================
