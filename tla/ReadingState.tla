----------------------------- MODULE ReadingState -----------------------------
(***************************************************************************)
(* What the reader remembers of its user: the page a picture book was left *)
(* at (/USER/pages.bin), the place in the Quran (/USER/progress.bin) and   *)
(* the bookmarks (/USER/bookmarks.bin).  src/firmware/src/main.cpp decides *)
(* when each is written, storage/reading_progress.cpp and                  *)
(* storage/bookmarks.cpp write it: a temporary file, then remove, then     *)
(* rename.  The power may go between any two of these.                     *)
(*                                                                         *)
(* A place is a book and a position in it: a page, or what the Quran       *)
(* reader needs to come back to an ayah.  A file that is absent and one    *)
(* that fails its checks are both None to whoever loads it, apart from     *)
(* Torn, which no file may ever become.  A temporary file left behind is   *)
(* never read, and removed by the next save: only the one being renamed    *)
(* is in the model.                                                        *)
(*                                                                         *)
(* Text books, whose page is in their bookmark only, the surah picker,     *)
(* which keeps the Quran open, and a card that is not mounted are left     *)
(* out.                                                                    *)
(***************************************************************************)
EXTENDS Integers, Sequences

CONSTANTS
  Books,         (* the books of page pictures                             *)
  PageCount,     (* pages of each                                          *)
  Quran,         (* the Quran package                                      *)
  QuranPlaces,   (* positions in it                                        *)
  MaxBookmarks,  (* kMaxBookmarks                                          *)
  TableClock,    (* kTableClockMode: such a device never sleeps            *)
  IoFaults,      (* may a write fail while the power stays on?             *)
  None, Torn

ASSUME ReadingAssumption ==
  /\ PageCount \in [Books -> Nat \ {0}]
  /\ QuranPlaces \subseteq Nat /\ 0 \in QuranPlaces
  /\ Quran \notin Books
  /\ None \notin Books \cup [book : {Quran}, at : QuranPlaces]
  /\ MaxBookmarks \in Nat \ {0}
  /\ TableClock \in BOOLEAN /\ IoFaults \in BOOLEAN

VARIABLES
  file,            (* the three files                                      *)
  list,            (* g_bookmarks                                          *)
  screen,
  open, at, dirty, (* g_page_reader.isOpen(), g_page_index,
                      g_page_progress_dirty                                *)
  resume,          (* g_page_resume_id and g_page_resume_index             *)
  quran,           (* the place on the Quran screen, None when it is closed *)
  pc, job,         (* the save that is running, and what follows it        *)
  turned, recited, (* history: the last page turned to and the last place
                      in the Quran, None when the power went or a write
                      failed before it was saved                           *)
  unsaved          (* history: the last write of the bookmarks failed      *)

pages   == <<open, at, dirty, resume>>
history == <<turned, recited, unsaved>>
vars    == <<file, list, screen, pages, quran, pc, job, history>>

Names == {"pages", "progress", "bookmarks"}
Place(b, n) == [book |-> b, at |-> n]
PagePlaces  == {p \in [book : Books, at : Nat] : p.at < PageCount[p.book]}
Recitations == [book : {Quran}, at : QuranPlaces]
Places      == PagePlaces \cup Recitations

ASSUME NoListAssumption == None \notin Seq(Places)

Nowhere == Place(None, 0)
NoJob   == [name |-> "", value |-> None, temp |-> "",
            then |-> "", book |-> None, ok |-> FALSE]

TypeOK ==
  /\ file["pages"] \in [book : Books, at : Nat] \cup {None}
  /\ file["progress"] \in Recitations \cup {None}
  /\ file["bookmarks"] \in Seq(Places) \cup {None}
  /\ list \in Seq(Places)
  /\ screen \in {"off", "home", "pages", "quran"}
  /\ open \in BOOLEAN /\ at \in Nat /\ dirty \in BOOLEAN
  /\ resume \in PagePlaces \cup {Nowhere}
  /\ quran \in Recitations \cup {None}
  /\ pc \in {"ready", "temp", "unlink", "rename", "return"}
  /\ job.name \in Names \cup {""} /\ job.temp \in {"", "whole", "torn"}
  /\ job.then \in {"", "stay", "close", "home", "recite", "sleep", "off"}
  /\ turned \in PagePlaces \cup {None}
  /\ recited \in Recitations \cup {None}
  /\ unsaved \in BOOLEAN

Init ==
  /\ file = [n \in Names |-> None]
  /\ list = <<>>
  /\ screen = "off"
  /\ open = FALSE /\ at = 0 /\ dirty = FALSE
  /\ resume = Nowhere
  /\ quran = None
  /\ pc = "ready" /\ job = NoJob
  /\ turned = None /\ recited = None /\ unsaved = FALSE

-----------------------------------------------------------------------------
(* Saving a file                                                           *)

Save(name, value, then, book) ==
  /\ pc' = "temp"
  /\ job' = [name |-> name, value |-> value, temp |-> "",
             then |-> then, book |-> book, ok |-> FALSE]

SaveReturns(ok) == pc' = "return" /\ job' = [job EXCEPT !.ok = ok]

RamAsIs == UNCHANGED <<list, screen, pages, quran, turned, recited>>

(* Mutation: what writeAll() returns is not looked at.                     *)
SaveTempUnchecked ==
  /\ pc = "temp"
  /\ pc' = "unlink"
  /\ \E t \in {"whole", "torn"} : job' = [job EXCEPT !.temp = t]
  /\ RamAsIs
  /\ UNCHANGED <<file, unsaved>>

SaveTemp ==
  /\ pc = "temp"
  /\ \/ pc' = "unlink" /\ job' = [job EXCEPT !.temp = "whole"]
     \/ IoFaults /\ SaveReturns(FALSE)
  /\ RamAsIs
  /\ UNCHANGED <<file, unsaved>>

SaveUnlink ==
  /\ pc = "unlink"
  /\ pc' = "rename"
  /\ \/ file' = [file EXCEPT ![job.name] = None]
     \/ IoFaults /\ UNCHANGED file
  /\ RamAsIs
  /\ UNCHANGED <<job, unsaved>>

(* FAT cannot rename over a file.                                          *)
SaveRename ==
  /\ pc = "rename"
  /\ \/ /\ file[job.name] = None
        /\ file' = [file EXCEPT ![job.name] = IF job.temp = "whole" THEN job.value ELSE Torn]
        /\ SaveReturns(TRUE)
     \/ /\ IoFaults \/ file[job.name] # None
        /\ SaveReturns(FALSE)
        /\ UNCHANGED file
  /\ RamAsIs
  /\ UNCHANGED unsaved

-----------------------------------------------------------------------------
(* Books of page pictures                                                  *)

(* What OpenPageBook() finds without what RAM remembers.                   *)
OnCard(b) == IF file["pages"] # None /\ file["pages"].book = b THEN file["pages"].at ELSE 0

StartOf(b, known) ==
  LET start == IF known.book = b THEN known.at ELSE OnCard(b)
  IN  IF start < PageCount[b] THEN start ELSE 0

ShowBook(b, known) ==
  /\ screen' = "pages"
  /\ open' = TRUE
  /\ at' = StartOf(b, known)
  /\ dirty' = FALSE
  /\ resume' = Place(b, at')

(* The package may turn out to be gone or damaged.                         *)
OpenOrFail(b, known) ==
  \/ ShowBook(b, known)
  \/ IoFaults /\ open' = FALSE /\ resume' = known /\ UNCHANGED <<screen, at, dirty>>

(* ClosePageBook(), on the way to the library or to the book b.  The page  *)
(* in `at` is saved under the id in resume.                                *)
ClosePageBook(b, known) ==
  IF open /\ dirty
  THEN /\ Save("pages", Place(known.book, at), "close", b)
       /\ resume' = known
       /\ UNCHANGED <<screen, open, at, dirty>>
  ELSE /\ IF b # None
          THEN OpenOrFail(b, known)
          ELSE open' = FALSE /\ screen' = "home" /\ UNCHANGED <<at, dirty, resume>>
       /\ UNCHANGED <<pc, job>>

(* OpenBook() closes whatever was open before it opens b.                  *)
OpenBook(b, known) == ClosePageBook(b, known)

ChooseBook(b) ==
  /\ pc = "ready" /\ screen = "home"
  /\ OpenBook(b, resume)
  /\ UNCHANGED <<file, list, quran, history>>

(* The wheel, or "Go to page".                                             *)
TurnPage(b, n) ==
  /\ pc = "ready" /\ screen = "pages"
  /\ b = resume.book /\ n # at
  /\ at' = n
  /\ resume' = Place(b, n)
  /\ dirty' = TRUE
  /\ turned' = resume'
  /\ UNCHANGED <<file, list, screen, open, quran, pc, job, recited, unsaved>>

(* A few seconds after the last turn.                                      *)
PollSave ==
  /\ pc = "ready" /\ screen = "pages" /\ dirty
  /\ Save("pages", resume, "stay", None)
  /\ UNCHANGED <<file, list, screen, pages, quran, history>>

(* Mutation: EXIT leaves the reader open for the next book to close.       *)
ExitKeepsOpen ==
  /\ pc = "ready" /\ screen = "pages"
  /\ screen' = "home"
  /\ UNCHANGED <<file, list, pages, quran, pc, job, history>>

(* Mutation: the reader is closed before the position is saved.            *)
ExitClosesFirst ==
  /\ pc = "ready" /\ screen = "pages"
  /\ screen' = "home"
  /\ open' = FALSE
  /\ UNCHANGED <<file, list, at, dirty, resume, quran, pc, job, history>>

(* EXIT or MENU.                                                           *)
Exit ==
  /\ pc = "ready" /\ screen = "pages"
  /\ ClosePageBook(None, resume)
  /\ UNCHANGED <<file, list, quran, history>>

-----------------------------------------------------------------------------
(* The Quran                                                               *)

Recital == recited' = IF job.name = "progress" /\ ~ job.ok THEN None ELSE recited

(* OpenQuran() resumes from progress.bin; without it the user picks a      *)
(* surah.  The package may turn out to be gone or damaged.                 *)
OpenQuran ==
  \/ /\ screen' = "quran"
     /\ quran' \in IF file["progress"] # None THEN {file["progress"]} ELSE Recitations
     /\ recited' = quran'
  \/ IoFaults /\ Recital /\ UNCHANGED <<screen, quran>>

ChooseQuran ==
  /\ pc = "ready" /\ screen = "home"
  /\ OpenQuran
  /\ UNCHANGED <<file, list, pages, pc, job, turned, unsaved>>

Recite(n) ==
  /\ pc = "ready" /\ screen = "quran"
  /\ n # quran.at
  /\ quran' = Place(Quran, n)
  /\ recited' = quran'
  /\ UNCHANGED <<file, list, screen, pages, pc, job, turned, unsaved>>

ExitQuran ==
  /\ pc = "ready" /\ screen = "quran"
  /\ Save("progress", quran, "home", None)
  /\ UNCHANGED <<file, list, screen, pages, quran, history>>

-----------------------------------------------------------------------------
(* Bookmarks                                                               *)

Removed(s, k) == SubSeq(s, 1, k - 1) \o SubSeq(s, k + 1, Len(s))

Held(s, p) == {k \in 1..Len(s) : s[k] = p}

(* The slot add() uses up: that of an identical place, or a free one, or   *)
(* the oldest's when the list is full.                                     *)
Slot(s, p) ==
  IF Held(s, p) # {} THEN CHOOSE k \in Held(s, p) : \A j \in Held(s, p) : k <= j
  ELSE IF Len(s) < MaxBookmarks THEN Len(s) + 1 ELSE Len(s)

(* Mutation: an identical place is added once more.                        *)
AddedTwice(s, p) == <<p>> \o Removed(s, IF Len(s) < MaxBookmarks THEN Len(s) + 1 ELSE Len(s))

(* Newest first: what comes before the slot moves down by one.             *)
Added(s, p) == <<p>> \o Removed(s, Slot(s, p))

Keep(l) ==
  /\ list' = l
  /\ Save("bookmarks", l, "stay", None)
  /\ UNCHANGED <<file, screen, pages, quran, history>>

AddBookmarkHere ==
  /\ pc = "ready" /\ screen \in {"pages", "quran"}
  /\ Keep(Added(list, IF screen = "pages" THEN resume ELSE quran))

DeleteBookmark(k) ==
  /\ pc = "ready" /\ screen = "home"
  /\ k \in 1..Len(list)
  /\ Keep(Removed(list, k))

OpenBookmark(mark) ==
  /\ pc = "ready" /\ screen = "home"
  /\ IF mark.book = Quran
     THEN /\ Save("progress", mark, "recite", None)
          /\ recited' = mark
          /\ UNCHANGED <<screen, pages>>
     ELSE OpenBook(mark.book, mark) /\ UNCHANGED recited
  /\ UNCHANGED <<file, list, quran, turned, unsaved>>

(* "Continue": the page file, when there is one, before the Quran's.       *)
LastRead ==
  IF file["pages"] # None THEN {file["pages"]}
  ELSE IF file["progress"] # None THEN {file["progress"]} ELSE {}

-----------------------------------------------------------------------------
(* Sleep, loss of power, boot                                              *)

TurnOff ==
  /\ list' = <<>> /\ screen' = "off"
  /\ open' = FALSE /\ at' = 0 /\ dirty' = FALSE
  /\ resume' = Nowhere /\ quran' = None
  /\ pc' = "ready" /\ job' = NoJob

(* The second half of GoToSleep().                                         *)
SleepPages ==
  IF open /\ dirty
  THEN Save("pages", resume, "off", None) /\ UNCHANGED <<list, screen, pages, quran>>
  ELSE TurnOff

GoToSleep ==
  /\ ~ TableClock
  /\ pc = "ready" /\ screen # "off"
  /\ IF quran # None
     THEN Save("progress", quran, "sleep", None) /\ UNCHANGED <<list, screen, pages, quran>>
     ELSE SleepPages
  /\ UNCHANGED <<file, history>>

(* What was not written is not promised to anyone.                         *)
PowerLoss ==
  /\ screen # "off"
  /\ TurnOff
  /\ turned' = IF dirty \/ job.name = "pages" THEN None ELSE turned
  /\ recited' = IF quran # None \/ job.name = "progress" THEN None ELSE recited
  /\ UNCHANGED <<file, unsaved>>

Boot ==
  /\ screen = "off"
  /\ screen' = "home"
  /\ list' = IF file["bookmarks"] = None THEN <<>> ELSE file["bookmarks"]
  /\ unsaved' = FALSE
  /\ UNCHANGED <<file, pages, quran, pc, job, turned, recited>>

(* The save is over; its caller goes on.                                   *)
Return ==
  /\ pc = "return"
  /\ turned' = IF ~ job.ok /\ job.name = "pages" THEN None ELSE turned
  /\ unsaved' = IF job.name = "bookmarks" THEN ~ job.ok ELSE unsaved
  /\ LET finished == pc' = "ready" /\ job' = NoJob
         clean    == dirty' = (dirty /\ ~ (job.ok /\ job.name = "pages"))
     IN  \/ /\ job.then = "stay"
            /\ finished /\ clean
            /\ Recital /\ UNCHANGED <<list, screen, open, at, resume, quran>>
         \/ /\ job.then = "close"
            /\ finished
            /\ IF job.book # None
               THEN OpenOrFail(job.book, resume)
               ELSE clean /\ open' = FALSE /\ screen' = "home" /\ UNCHANGED <<at, resume>>
            /\ Recital /\ UNCHANGED <<list, quran>>
         \/ /\ job.then = "home"
            /\ finished /\ quran' = None /\ screen' = "home"
            /\ Recital /\ UNCHANGED <<list, pages>>
         \/ /\ job.then = "recite"
            /\ finished /\ OpenQuran
            /\ UNCHANGED <<list, pages>>
         \/ job.then = "sleep" /\ SleepPages /\ Recital
         \/ job.then = "off" /\ TurnOff /\ Recital
  /\ UNCHANGED file

-----------------------------------------------------------------------------
Next ==
  \/ Boot \/ PowerLoss \/ GoToSleep
  \/ \E b \in Books : ChooseBook(b)
  \/ \E b \in Books : \E n \in 0..(PageCount[b] - 1) : TurnPage(b, n)
  \/ PollSave \/ Exit
  \/ ChooseQuran \/ ExitQuran
  \/ \E n \in QuranPlaces : Recite(n)
  \/ AddBookmarkHere
  \/ \E k \in 1..MaxBookmarks : DeleteBookmark(k)
  \/ \E k \in 1..MaxBookmarks : k <= Len(list) /\ OpenBookmark(list[k])
  \/ \E place \in LastRead : OpenBookmark(place)
  \/ SaveTemp \/ SaveUnlink \/ SaveRename \/ Return

Spec == Init /\ [][Next]_vars

-----------------------------------------------------------------------------
(* No file holds a page its book does not have: the position of one book   *)
(* is never written under the id of another (SavePageProgress() takes the  *)
(* id from g_page_resume_id, which OpenBookmark() overwrites before        *)
(* OpenBook() closes the book that was open, and the page from             *)
(* g_page_index).                                                          *)
RightPlace ==
  file["pages"] # None => file["pages"].at < PageCount[file["pages"].book]

(* Whatever way a book or the Quran was left, sleep included, its file     *)
(* holds the last page turned to and the last place recited, unless a      *)
(* write failed or the power went.                                         *)
PlacesKept ==
  pc = "ready" =>
    /\ ~ open /\ turned # None => file["pages"] = turned
    /\ quran = None /\ recited # None => file["progress"] = recited

(* The list on the screen is the one a restart would load, unless its last *)
(* write failed; it is no longer than the table, and keeps a place once    *)
(* (Bookmarks::add() shifts within a fixed table).                         *)
BookmarksKept ==
  screen # "off" /\ pc = "ready" =>
    /\ Len(list) <= MaxBookmarks
    /\ \A j, k \in 1..Len(list) : list[j] = list[k] => j = k
    /\ ~ unsaved =>
         list = IF file["bookmarks"] = None THEN <<>> ELSE file["bookmarks"]
=============================================================================
