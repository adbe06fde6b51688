-------------------------- MODULE ReadingState_proofs --------------------------
(***************************************************************************)
(* Proofs about ReadingState, for any books, places and length of the      *)
(* list, with failing writes and loss of power: the files only ever hold   *)
(* places there are, and what the user left is what the files keep.        *)
(***************************************************************************)
EXTENDS ReadingState, SequenceTheorems, TLAPS

-----------------------------------------------------------------------------
(* The inductive invariant                                                 *)

(* A list of bookmarks as add() and removeAt() leave it.                   *)
Lists == {l \in Seq(Places) : /\ Len(l) <= MaxBookmarks
                              /\ \A j, k \in 1..Len(l) : l[j] = l[k] => j = k}

FilesTyped ==
  /\ file = [n \in Names |-> file[n]]
  /\ file["pages"] \in PagePlaces \cup {None}
  /\ file["progress"] \in Recitations \cup {None}
  /\ file["bookmarks"] \in Lists \cup {None}

MemoryTyped ==
  /\ list \in Lists
  /\ screen \in {"off", "home", "pages", "quran"}
  /\ open \in BOOLEAN /\ at \in Nat /\ dirty \in BOOLEAN
  /\ resume \in PagePlaces \cup {Nowhere}
  /\ quran \in Recitations \cup {None}

HistoryTyped ==
  /\ turned \in PagePlaces \cup {None}
  /\ recited \in Recitations \cup {None}
  /\ unsaved \in BOOLEAN

Savers == {"stay", "close", "home", "recite", "sleep", "off"}

JobTyped ==
  /\ pc \in {"ready", "temp", "unlink", "rename", "return"}
  /\ pc = "ready" => job = NoJob
  /\ job = [name |-> job.name, value |-> job.value, temp |-> job.temp,
            then |-> job.then, book |-> None, ok |-> job.ok]
  /\ pc # "ready" => job.name \in Names /\ job.then \in Savers
  /\ job.temp \in {"", "whole"} /\ job.ok \in BOOLEAN
  /\ pc \in {"unlink", "rename"} => job.temp = "whole"

(* Each screen has its reader open, and the page on it is the one a        *)
(* bookmark would take.                                                    *)
ScreenHolds ==
  /\ open <=> screen = "pages"
  /\ quran # None <=> screen = "quran"
  /\ open => resume \in PagePlaces /\ resume.at = at
  /\ screen = "off" => pc = "ready"

(* A save is of what is on the screen, for a caller that matches it.       *)
JobHolds ==
  /\ job.name = "pages" => /\ open /\ dirty /\ job.value = resume
                           /\ job.then \in {"stay", "close", "off"}
  /\ job.name = "progress" =>
       /\ job.value \in Recitations
       /\ \/ job.then \in {"home", "sleep"} /\ job.value = quran
          \/ job.then = "recite" /\ screen = "home"
  /\ job.name = "bookmarks" => job.value = list /\ job.then = "stay"
  /\ pc = "return" /\ job.ok => file[job.name] = job.value

Loaded == IF file["bookmarks"] = None THEN <<>> ELSE file["bookmarks"]

(* Where the last page turned to, the last place recited and the list are  *)
(* kept: on the screen, in the running save, or in their file.             *)
TurnedHeld ==
  turned # None =>
    IF job.name = "pages" THEN turned = job.value
    ELSE IF open /\ dirty THEN turned = resume ELSE turned = file["pages"]

RecitedHeld ==
  recited # None =>
    IF job.name = "progress" THEN recited = job.value
    ELSE IF quran # None THEN recited = quran ELSE recited = file["progress"]

ListHeld ==
  screen # "off" /\ ~ unsaved /\ job.name # "bookmarks" => list = Loaded

KInv == /\ FilesTyped /\ MemoryTyped /\ HistoryTyped /\ JobTyped
        /\ ScreenHolds /\ JobHolds
        /\ TurnedHeld /\ RecitedHeld /\ ListHeld

-----------------------------------------------------------------------------
(* The list of bookmarks                                                   *)

(* Removed() closes the gap.                                               *)
LEMMA RemovedIsShorter ==
  ASSUME NEW l \in Lists, NEW k \in 1..(Len(l) + 1)
  PROVE  /\ Removed(l, k) \in Lists
         /\ Len(Removed(l, k)) = IF k <= Len(l) THEN Len(l) - 1 ELSE Len(l)
         /\ \A j \in 1..Len(Removed(l, k)) : Removed(l, k)[j] = IF j < k THEN l[j] ELSE l[j + 1]
<1>1. /\ l \in Seq(Places) /\ Len(l) \in Nat /\ Len(l) <= MaxBookmarks
      /\ \A j, m \in 1..Len(l) : l[j] = l[m] => j = m
      /\ \A j \in 1..Len(l) : l[j] \in Places
  BY LenProperties, ElementOfSeq DEF Lists
<1>. DEFINE s == SubSeq(l, 1, k - 1)
            t == SubSeq(l, k + 1, Len(l))
            r == Removed(l, k)
<1>2. /\ s \in Seq(Places) /\ Len(s) = k - 1
      /\ \A i \in 1..(k - 1) : s[i] = l[i]
  <2>1. \A i \in 1..(k - 1) : l[i] \in Places
    BY <1>1
  <2>. QED
    BY <2>1, SubSeqProperties
<1>3. /\ t \in Seq(Places) /\ Len(t) = IF k <= Len(l) THEN Len(l) - k ELSE 0
      /\ \A i \in 1..(Len(l) - k) : t[i] = l[k + i]
  <2>1. \A i \in (k + 1)..Len(l) : l[i] \in Places
    BY <1>1
  <2>2. /\ t \in Seq(Places)
        /\ Len(t) = IF k + 1 <= Len(l) THEN Len(l) - (k + 1) + 1 ELSE 0
        /\ \A i \in 1..(Len(l) - (k + 1) + 1) : t[i] = l[(k + 1) + i - 1]
    BY <1>1, <2>1, SubSeqProperties
  <2>3. \A i \in 1..(Len(l) - k) : (k + 1) + i - 1 = k + i
    BY <1>1
  <2>. HIDE DEF t
  <2>. QED
    BY <1>1, <2>2, <2>3
<1>4. r = s \o t
  BY DEF Removed
<1>. HIDE DEF s, t, r
<1>5. /\ r \in Seq(Places)
      /\ Len(r) = Len(s) + Len(t)
      /\ \A i \in 1..Len(s) + Len(t) : r[i] = IF i <= Len(s) THEN s[i] ELSE t[i - Len(s)]
  BY <1>2, <1>3, <1>4, ConcatProperties
<1>6. Len(r) = IF k <= Len(l) THEN Len(l) - 1 ELSE Len(l)
  BY <1>1, <1>2, <1>3, <1>5
<1>7. \A j \in 1..Len(r) : r[j] = IF j < k THEN l[j] ELSE l[j + 1]
  <2>. SUFFICES ASSUME NEW j \in 1..Len(r) PROVE r[j] = IF j < k THEN l[j] ELSE l[j + 1]
    OBVIOUS
  <2>1. CASE j < k
    BY <2>1, <1>1, <1>2, <1>3, <1>5
  <2>2. CASE ~ j < k
    <3>1. j - (k - 1) \in 1..(Len(l) - k) /\ k + (j - (k - 1)) = j + 1
      BY <2>2, <1>1, <1>6
    <3>2. r[j] = t[j - (k - 1)]
      BY <2>2, <1>1, <1>2, <1>3, <1>5
    <3>. QED
      BY <2>2, <3>1, <3>2, <1>3
  <2>. QED
    BY <2>1, <2>2
<1>8. \A j, m \in 1..Len(r) : r[j] = r[m] => j = m
  <2>. SUFFICES ASSUME NEW j \in 1..Len(r), NEW m \in 1..Len(r), r[j] = r[m] PROVE j = m
    OBVIOUS
  <2>. DEFINE place(i) == IF i < k THEN i ELSE i + 1
  <2>1. place(j) \in 1..Len(l) /\ place(m) \in 1..Len(l)
    BY <1>1, <1>6
  <2>2. r[j] = l[place(j)] /\ r[m] = l[place(m)]
    BY <1>7
  <2>3. place(j) = place(m)
    BY <2>1, <2>2, <1>1
  <2>. QED
    BY <2>3, <1>1, <1>6
<1>9. r \in Lists
  BY <1>1, <1>5, <1>6, <1>8, ReadingAssumption DEF Lists
<1>. QED
  BY <1>6, <1>7, <1>9 DEF r

(* add() keeps the list within its table and each place once in it.        *)
LEMMA AddedIsList == ASSUME NEW l \in Lists, NEW p \in Places PROVE Added(l, p) \in Lists
<1>1. /\ l \in Seq(Places) /\ Len(l) \in Nat /\ Len(l) <= MaxBookmarks /\ MaxBookmarks \in Nat \ {0}
      /\ \A j, m \in 1..Len(l) : l[j] = l[m] => j = m
  BY LenProperties, ReadingAssumption DEF Lists
<1>. DEFINE k == Slot(l, p)
            r == Removed(l, k)
<1>2. k \in 1..(Len(l) + 1) /\ (k = Len(l) + 1 => Len(l) < MaxBookmarks)
      /\ \A j \in 1..Len(l) : l[j] = p => j = k
  <2>1. CASE Held(l, p) # {}
    <3>1. PICK h \in Held(l, p) : TRUE
      BY <2>1
    <3>2. h \in 1..Len(l) /\ l[h] = p
      BY <3>1 DEF Held
    <3>3. \A j \in Held(l, p) : j = h
      BY <1>1, <3>2 DEF Held
    <3>4. \A j \in Held(l, p) : h <= j
      BY <3>3, <3>2
    <3>5. k = h
      BY <2>1, <3>1, <3>3, <3>4 DEF Slot
    <3>. QED
      BY <3>2, <3>5, <1>1
  <2>2. CASE Held(l, p) = {}
    <3>1. \A j \in 1..Len(l) : l[j] # p
      BY <2>2 DEF Held
    <3>2. k = IF Len(l) < MaxBookmarks THEN Len(l) + 1 ELSE Len(l)
      BY <2>2 DEF Slot
    <3>. QED
      BY <3>1, <3>2, <1>1
  <2>. QED
    BY <2>1, <2>2
<1>3. /\ r \in Seq(Places) /\ Len(r) \in Nat
      /\ Len(r) = IF k <= Len(l) THEN Len(l) - 1 ELSE Len(l)
      /\ \A j \in 1..Len(r) : r[j] = IF j < k THEN l[j] ELSE l[j + 1]
      /\ \A j, m \in 1..Len(r) : r[j] = r[m] => j = m
  BY <1>2, RemovedIsShorter, LenProperties DEF Lists
<1>4. Added(l, p) = <<p>> \o r
  BY DEF Added
<1>. HIDE DEF k, r
<1>. DEFINE a == <<p>> \o r
<1>5. /\ a \in Seq(Places) /\ Len(a) = 1 + Len(r) /\ a[1] = p
      /\ \A i \in 2..Len(a) : i - 1 \in 1..Len(r) /\ a[i] = r[i - 1]
  <2>1. <<p>> \in Seq(Places) /\ Len(<<p>>) = 1 /\ <<p>>[1] = p
    OBVIOUS
  <2>2. /\ a \in Seq(Places) /\ Len(a) = Len(<<p>>) + Len(r)
        /\ \A i \in 1..Len(<<p>>) + Len(r) : a[i] = IF i <= Len(<<p>>) THEN <<p>>[i] ELSE r[i - Len(<<p>>)]
    BY <2>1, <1>3, ConcatProperties
  <2>. HIDE DEF a
  <2>. QED
    BY <2>1, <2>2, <1>3
<1>. HIDE DEF a
<1>6. \A j \in 1..Len(r) : r[j] # p
  <2>. SUFFICES ASSUME NEW j \in 1..Len(r), r[j] = p PROVE FALSE
    OBVIOUS
  <2>. DEFINE i == IF j < k THEN j ELSE j + 1
  <2>1. i \in 1..Len(l) /\ i # k
    BY <1>1, <1>2, <1>3
  <2>2. l[i] = p
    BY <1>3
  <2>. QED
    BY <2>1, <2>2, <1>2
<1>7. \A j, m \in 1..Len(a) : a[j] = a[m] => j = m
  <2>. SUFFICES ASSUME NEW j \in 1..Len(a), NEW m \in 1..Len(a), a[j] = a[m] PROVE j = m
    OBVIOUS
  <2>1. (j = 1 \/ j \in 2..Len(a)) /\ (m = 1 \/ m \in 2..Len(a))
    BY <1>3, <1>5
  <2>2. CASE j = 1
    BY <2>1, <2>2, <1>5, <1>6
  <2>3. CASE m = 1
    BY <2>1, <2>3, <1>5, <1>6
  <2>4. CASE j \in 2..Len(a) /\ m \in 2..Len(a)
    <3>1. r[j - 1] = r[m - 1] /\ j - 1 \in 1..Len(r) /\ m - 1 \in 1..Len(r)
      BY <2>4, <1>5
    <3>2. j - 1 = m - 1
      BY <3>1, <1>3
    <3>. QED
      BY <3>2, <2>4
  <2>. QED
    BY <2>1, <2>2, <2>3, <2>4
<1>8. Len(a) <= MaxBookmarks
  BY <1>1, <1>2, <1>3, <1>5
<1>. QED
  BY <1>4, <1>5, <1>7, <1>8 DEF Lists, a

(* The empty list is one.                                                  *)
LEMMA EmptyIsList == <<>> \in Lists
  BY EmptySeq, ReadingAssumption DEF Lists

-----------------------------------------------------------------------------
(* Facts that several steps need                                           *)

(* None is neither a place nor a list.                                     *)
LEMMA NoneIsApart ==
  /\ None \notin Books /\ None \notin Recitations /\ None \notin Lists
  /\ \A p \in PagePlaces : p # Nowhere
<1>1. None \notin Books /\ None \notin Recitations
  BY ReadingAssumption DEF Recitations
<1>2. None \notin Lists
  BY NoListAssumption DEF Lists
<1>3. \A p \in PagePlaces : p # Nowhere
  BY <1>1 DEF PagePlaces, Nowhere, Place
<1>. QED
  BY <1>1, <1>2, <1>3

(* Place() makes the places there are.                                     *)
LEMMA PlacesThereAre ==
  /\ \A b \in Books : \A n \in 0..(PageCount[b] - 1) : Place(b, n) \in PagePlaces
  /\ \A n \in QuranPlaces : Place(Quran, n) \in Recitations
  /\ \A p \in PagePlaces : p.book \in Books /\ p.book # Quran /\ p.at \in Nat
                           /\ p = Place(p.book, p.at)
  /\ \A p \in Recitations : p.book = Quran
<1>1. \A b \in Books : PageCount[b] \in Nat
  BY ReadingAssumption
<1>2. \A b \in Books : \A n \in 0..(PageCount[b] - 1) :
        /\ Place(b, n) \in [book : Books, at : Nat] /\ Place(b, n).at < PageCount[Place(b, n).book]
  BY <1>1 DEF Place
<1>3. \A b \in Books : \A n \in 0..(PageCount[b] - 1) : Place(b, n) \in PagePlaces
  BY <1>2 DEF PagePlaces
<1>4. \A p \in PagePlaces : p.book \in Books /\ p.book # Quran /\ p.at \in Nat
                            /\ p = Place(p.book, p.at)
  BY ReadingAssumption DEF PagePlaces, Place
<1>. QED
  BY <1>3, <1>4 DEF Recitations, Place

(* Where OpenPageBook() starts is a page of the book.                      *)
LEMMA StartIsAPage ==
  ASSUME FilesTyped, NEW b \in Books, NEW known \in PagePlaces \cup {Nowhere}
  PROVE  StartOf(b, known) \in 0..(PageCount[b] - 1)
<1>1. PageCount[b] \in Nat \ {0}
  BY ReadingAssumption
<1>2. OnCard(b) \in Nat
  BY PlacesThereAre DEF OnCard, FilesTyped
<1>3. known.at \in Nat
  BY PlacesThereAre DEF Nowhere, Place
<1>. QED
  BY <1>1, <1>2, <1>3 DEF StartOf

(* No save is running.                                                     *)
LEMMA NoJobFields == NoJob.name = "" /\ ~ NoJob.ok
  BY DEF NoJob

(* Save() begins a save.                                                   *)
LEMMA SaveBegins ==
  ASSUME NEW name \in Names, NEW value, NEW then \in Savers, Save(name, value, then, None)
  PROVE  /\ JobTyped' /\ pc' = "temp"
         /\ job'.name = name /\ job'.value = value /\ job'.then = then
<1>1. PICK j : j = [name |-> name, value |-> value, temp |-> "",
                    then |-> then, book |-> None, ok |-> FALSE]
  OBVIOUS
<1>2. /\ j = [name |-> j.name, value |-> j.value, temp |-> j.temp,
              then |-> j.then, book |-> None, ok |-> j.ok]
      /\ j.name = name /\ j.value = value /\ j.then = then /\ j.temp = "" /\ j.ok = FALSE
  BY <1>1
<1>3. job' = j /\ pc' = "temp"
  BY <1>1 DEF Save
<1>. QED
  BY <1>2, <1>3 DEF JobTyped

(* What changing one field of a job leaves.                                *)
LEMMA JobFields ==
  ASSUME JobTyped, NEW x
  PROVE  /\ job.book = None
         /\ [job EXCEPT !.ok = x] =
              [name |-> job.name, value |-> job.value, temp |-> job.temp,
               then |-> job.then, book |-> None, ok |-> x]
         /\ [job EXCEPT !.temp = x] =
              [name |-> job.name, value |-> job.value, temp |-> x,
               then |-> job.then, book |-> None, ok |-> job.ok]
<1>1. PICK n, v, t, h, o : /\ n = job.name /\ v = job.value /\ t = job.temp /\ h = job.then /\ o = job.ok
                           /\ job = [name |-> n, value |-> v, temp |-> t, then |-> h, book |-> None, ok |-> o]
  BY DEF JobTyped
<1>2. [[name |-> n, value |-> v, temp |-> t, then |-> h, book |-> None, ok |-> o] EXCEPT !.ok = x] =
        [name |-> n, value |-> v, temp |-> t, then |-> h, book |-> None, ok |-> x]
  OBVIOUS
<1>3. [[name |-> n, value |-> v, temp |-> t, then |-> h, book |-> None, ok |-> o] EXCEPT !.temp = x] =
        [name |-> n, value |-> v, temp |-> x, then |-> h, book |-> None, ok |-> o]
  OBVIOUS
<1>. QED
  BY <1>1, <1>2, <1>3

(* A save reports whether it got through.                                  *)
LEMMA SaveReturnsTyped ==
  ASSUME JobTyped, pc # "ready", NEW ok \in BOOLEAN, SaveReturns(ok)
  PROVE  /\ JobTyped' /\ pc' = "return" /\ job'.ok = ok
         /\ job'.name = job.name /\ job'.value = job.value /\ job'.then = job.then
<1>1. /\ job' = [name |-> job.name, value |-> job.value, temp |-> job.temp,
                 then |-> job.then, book |-> None, ok |-> ok]
      /\ pc' = "return"
  BY JobFields DEF SaveReturns
<1>2. PICK j : j = [name |-> job.name, value |-> job.value, temp |-> job.temp,
                    then |-> job.then, book |-> None, ok |-> ok]
  OBVIOUS
<1>3. /\ j = [name |-> j.name, value |-> j.value, temp |-> j.temp,
              then |-> j.then, book |-> None, ok |-> j.ok]
      /\ j.name = job.name /\ j.value = job.value /\ j.then = job.then
      /\ j.temp = job.temp /\ j.ok = ok
  BY <1>2
<1>. QED
  BY <1>1, <1>2, <1>3 DEF JobTyped

(* The initial states.                                                     *)
LEMMA InitKInv == Init => KInv
<1>. SUFFICES ASSUME Init PROVE KInv
  OBVIOUS
<1>1. FilesTyped /\ Loaded = <<>>
  BY DEF Init, FilesTyped, Names, Loaded
<1>2. MemoryTyped
  BY EmptyIsList DEF Init, MemoryTyped
<1>3. JobTyped
  BY DEF Init, JobTyped, NoJob
<1>4. JobHolds
  BY NoJobFields DEF Init, JobHolds
<1>. QED
  BY <1>1, <1>2, <1>3, <1>4 DEF Init, KInv, HistoryTyped, ScreenHolds, TurnedHeld, RecitedHeld, ListHeld

(* The power is off, or the device asleep.                                 *)
LEMMA TurnedOff ==
  ASSUME TurnOff
  PROVE  MemoryTyped' /\ JobTyped' /\ ScreenHolds' /\ JobHolds' /\ ListHeld'
         /\ job'.name = "" /\ ~ open' /\ quran' = None
<1>1. MemoryTyped'
  BY EmptyIsList DEF TurnOff, MemoryTyped
<1>2. job' = NoJob /\ pc' = "ready" /\ screen' = "off" /\ open' = FALSE /\ quran' = None
  BY DEF TurnOff
<1>3. JobTyped'
  BY <1>2 DEF JobTyped, NoJob
<1>4. JobHolds'
  BY <1>2, NoJobFields DEF JobHolds
<1>5. ScreenHolds' /\ ListHeld'
  BY <1>2 DEF ScreenHolds, ListHeld
<1>. QED
  BY <1>1, <1>2, <1>3, <1>4, <1>5, NoJobFields

-----------------------------------------------------------------------------
(* The steps of a save                                                     *)

LEMMA SaveTempStep == ASSUME KInv, SaveTemp PROVE KInv'
<1>1. pc = "temp" /\ UNCHANGED <<file, list, screen, pages, quran, history>>
  BY DEF SaveTemp, RamAsIs, history
<1>2. JobTyped' /\ pc' # "ready" /\ (pc' = "return" => job'.ok = FALSE)
      /\ job'.name = job.name /\ job'.value = job.value /\ job'.then = job.then
  <2>1. CASE pc' = "unlink" /\ job' = [job EXCEPT !.temp = "whole"]
    <3>1. PICK j : j = [name |-> job.name, value |-> job.value, temp |-> "whole",
                        then |-> job.then, book |-> None, ok |-> job.ok]
      OBVIOUS
    <3>2. job' = j
      BY <2>1, <3>1, JobFields DEF KInv
    <3>3. /\ j = [name |-> j.name, value |-> j.value, temp |-> j.temp,
                  then |-> j.then, book |-> None, ok |-> j.ok]
          /\ j.name = job.name /\ j.value = job.value /\ j.then = job.then
          /\ j.temp = "whole" /\ j.ok = job.ok
      BY <3>1
    <3>. QED
      BY <2>1, <3>2, <3>3, <1>1 DEF KInv, JobTyped
  <2>2. CASE SaveReturns(FALSE)
    BY <2>2, <1>1, SaveReturnsTyped DEF KInv
  <2>. QED
    BY <2>1, <2>2 DEF SaveTemp
<1>3. FilesTyped' /\ MemoryTyped' /\ HistoryTyped'
  BY <1>1 DEF KInv, FilesTyped, MemoryTyped, HistoryTyped, pages, history
<1>4. ScreenHolds'
  BY <1>1, <1>2 DEF KInv, ScreenHolds, pages
<1>5. JobHolds'
  BY <1>1, <1>2 DEF KInv, JobHolds, pages
<1>6. TurnedHeld' /\ RecitedHeld'
  BY <1>1, <1>2 DEF KInv, TurnedHeld, RecitedHeld, pages, history
<1>7. ListHeld'
  BY <1>1, <1>2 DEF KInv, ListHeld, Loaded, history
<1>. QED
  BY <1>2, <1>3, <1>4, <1>5, <1>6, <1>7 DEF KInv

(* Removing the saved file: what it held is what is being saved.           *)
LEMMA SaveUnlinkStep == ASSUME KInv, SaveUnlink PROVE KInv'
<1>1. pc = "unlink" /\ pc' = "rename" /\ UNCHANGED <<job, list, screen, pages, quran, history>>
  BY DEF SaveUnlink, RamAsIs, history
<1>2. job.name \in Names /\ (file' = [file EXCEPT ![job.name] = None] \/ file' = file)
  BY <1>1 DEF KInv, JobTyped, SaveUnlink
<1>3. FilesTyped' /\ \A n \in Names : n # job.name => file'[n] = file[n]
  BY <1>2 DEF KInv, FilesTyped, Names
<1>4. MemoryTyped' /\ HistoryTyped' /\ JobTyped' /\ ScreenHolds'
  BY <1>1 DEF KInv, MemoryTyped, HistoryTyped, JobTyped, ScreenHolds, pages, history
<1>5. JobHolds'
  BY <1>1 DEF KInv, JobHolds, pages
<1>6. TurnedHeld' /\ RecitedHeld'
  BY <1>1, <1>3 DEF KInv, TurnedHeld, RecitedHeld, pages, history, Names
<1>7. ListHeld'
  BY <1>1, <1>3 DEF KInv, ListHeld, Loaded, history, Names
<1>. QED
  BY <1>3, <1>4, <1>5, <1>6, <1>7 DEF KInv

(* The rename: the file holds what was saved, and no other file changes.   *)
LEMMA SaveRenameStep == ASSUME KInv, SaveRename PROVE KInv'
<1>1. pc = "rename" /\ UNCHANGED <<list, screen, pages, quran, history>>
  BY DEF SaveRename, RamAsIs, history
<1>2. job.name \in Names /\ job.temp = "whole"
  BY <1>1 DEF KInv, JobTyped
<1>3. PICK ok \in BOOLEAN :
        /\ SaveReturns(ok)
        /\ file' = IF ok THEN [file EXCEPT ![job.name] = job.value] ELSE file
  <2>1. CASE /\ file' = [file EXCEPT ![job.name] = IF job.temp = "whole" THEN job.value ELSE Torn]
             /\ SaveReturns(TRUE)
    BY <2>1, <1>2
  <2>2. CASE SaveReturns(FALSE) /\ UNCHANGED file
    BY <2>2
  <2>. QED
    BY <2>1, <2>2 DEF SaveRename
<1>4. /\ JobTyped' /\ pc' = "return" /\ job'.ok = ok
      /\ job'.name = job.name /\ job'.value = job.value /\ job'.then = job.then
  BY <1>1, <1>3, SaveReturnsTyped DEF KInv
<1>5. /\ job.name = "pages" => job.value \in PagePlaces
      /\ job.name = "progress" => job.value \in Recitations
      /\ job.name = "bookmarks" => job.value \in Lists
  BY DEF KInv, JobHolds, ScreenHolds, MemoryTyped
<1>6. FilesTyped' /\ (\A n \in Names : n # job.name => file'[n] = file[n])
      /\ (ok => file'[job.name] = job.value)
  BY <1>2, <1>3, <1>5 DEF KInv, FilesTyped, Names
<1>7. MemoryTyped' /\ HistoryTyped' /\ ScreenHolds'
  BY <1>1, <1>4 DEF KInv, MemoryTyped, HistoryTyped, ScreenHolds, pages, history
<1>8. JobHolds'
  BY <1>1, <1>4, <1>6 DEF KInv, JobHolds, pages
<1>9. TurnedHeld' /\ RecitedHeld'
  BY <1>1, <1>4, <1>6 DEF KInv, TurnedHeld, RecitedHeld, pages, history, Names
<1>10. ListHeld'
  BY <1>1, <1>4, <1>6 DEF KInv, ListHeld, Loaded, history, Names
<1>. QED
  BY <1>4, <1>6, <1>7, <1>8, <1>9, <1>10 DEF KInv

-----------------------------------------------------------------------------
(* What begins a save, and what opens a book                               *)

(* The save of the page or of the place on the screen.                     *)
LEMMA PlaceSaved ==
  ASSUME KInv, pc = "ready", screen # "off",
         NEW name \in Names, NEW value, NEW then \in Savers, Save(name, value, then, None),
         UNCHANGED <<file, list, screen, pages, quran, history>>,
         \/ /\ name = "pages" /\ open /\ dirty /\ value = resume
            /\ then \in {"stay", "close", "off"}
         \/ /\ name = "progress" /\ quran # None /\ value = quran
            /\ then \in {"home", "sleep"}
  PROVE  KInv'
<1>1. /\ JobTyped' /\ pc' = "temp"
      /\ job'.name = name /\ job'.value = value /\ job'.then = then
  BY SaveBegins
<1>2. job.name = ""
  BY NoJobFields DEF KInv, JobTyped
<1>3. FilesTyped' /\ MemoryTyped' /\ HistoryTyped'
  BY DEF KInv, FilesTyped, MemoryTyped, HistoryTyped, pages, history
<1>4. ScreenHolds'
  BY <1>1 DEF KInv, ScreenHolds, pages
<1>5. JobHolds'
  BY <1>1 DEF KInv, JobHolds, MemoryTyped, pages
<1>6. TurnedHeld'
  BY <1>1, <1>2 DEF KInv, TurnedHeld, pages, history
<1>7. RecitedHeld'
  BY <1>1, <1>2 DEF KInv, RecitedHeld, history
<1>8. ListHeld'
  BY <1>1, <1>2 DEF KInv, ListHeld, Loaded, history
<1>. QED
  BY <1>1, <1>3, <1>4, <1>5, <1>6, <1>7, <1>8 DEF KInv

(* A book opened from the library.                                         *)
LEMMA BookOpened ==
  ASSUME KInv, pc = "ready", screen = "home",
         NEW b \in Books, NEW known \in PagePlaces \cup {Nowhere}, OpenOrFail(b, known),
         UNCHANGED <<file, list, quran, pc, job, history>>
  PROVE  KInv'
<1>1. ~ open /\ quran = None /\ job.name = ""
  BY NoJobFields DEF KInv, ScreenHolds, JobTyped
<1>2. /\ MemoryTyped' /\ ScreenHolds'
      /\ (dirty' => ~ open')
  <2>1. CASE ShowBook(b, known)
    <3>1. StartOf(b, known) \in 0..(PageCount[b] - 1) /\ PageCount[b] \in Nat
      BY StartIsAPage, ReadingAssumption DEF KInv
    <3>2. PICK n \in Nat : n = StartOf(b, known) /\ Place(b, n) \in PagePlaces
      BY <3>1, PlacesThereAre
    <3>3. screen' = "pages" /\ open' = TRUE /\ at' = n /\ dirty' = FALSE /\ resume' = Place(b, n)
      BY <2>1, <3>2 DEF ShowBook
    <3>4. Place(b, n).at = n
      BY DEF Place
    <3>. QED
      BY <1>1, <3>2, <3>3, <3>4 DEF KInv, MemoryTyped, ScreenHolds
  <2>2. CASE open' = FALSE /\ resume' = known /\ UNCHANGED <<screen, at, dirty>>
    BY <2>2, <1>1 DEF KInv, MemoryTyped, ScreenHolds
  <2>. QED
    BY <2>1, <2>2 DEF OpenOrFail
<1>3. FilesTyped' /\ HistoryTyped' /\ JobTyped'
  BY DEF KInv, FilesTyped, HistoryTyped, JobTyped, history
<1>4. JobHolds'
  BY <1>1 DEF KInv, JobHolds
<1>5. TurnedHeld' /\ RecitedHeld'
  BY <1>1, <1>2 DEF KInv, TurnedHeld, RecitedHeld, history
<1>6. ListHeld'
  BY DEF KInv, ListHeld, Loaded, history
<1>. QED
  BY <1>2, <1>3, <1>4, <1>5, <1>6 DEF KInv

(* OpenBook() finds no book open.                                          *)
LEMMA OpenBookStep ==
  ASSUME KInv, pc = "ready", screen = "home",
         NEW b \in Books, NEW known \in PagePlaces \cup {Nowhere}, OpenBook(b, known),
         UNCHANGED <<file, list, quran, history>>
  PROVE  KInv'
<1>1. ~ open /\ b # None
  BY NoneIsApart DEF KInv, ScreenHolds
<1>2. OpenOrFail(b, known) /\ UNCHANGED <<pc, job>>
  BY <1>1 DEF OpenBook, ClosePageBook
<1>. QED
  BY <1>2, BookOpened

LEMMA ChooseBookStep == ASSUME KInv, NEW b \in Books, ChooseBook(b) PROVE KInv'
  BY OpenBookStep DEF ChooseBook, KInv, MemoryTyped

LEMMA TurnPageStep ==
  ASSUME KInv, NEW b \in Books, NEW n \in 0..(PageCount[b] - 1), TurnPage(b, n)
  PROVE  KInv'
<1>1. PICK p \in PagePlaces : p = Place(b, n) /\ p.at = n /\ n \in Nat
  <2>1. PageCount[b] \in Nat
    BY ReadingAssumption
  <2>. QED
    BY <2>1, PlacesThereAre DEF Place
<1>2. /\ open /\ job.name = "" /\ pc = "ready" /\ screen = "pages"
      /\ at' = n /\ resume' = p /\ dirty' = TRUE /\ turned' = p
      /\ UNCHANGED <<file, list, screen, open, quran, pc, job, recited, unsaved>>
  BY <1>1, NoJobFields DEF TurnPage, KInv, ScreenHolds, JobTyped
<1>3. FilesTyped' /\ MemoryTyped' /\ HistoryTyped' /\ JobTyped'
  BY <1>1, <1>2 DEF KInv, FilesTyped, MemoryTyped, HistoryTyped, JobTyped
<1>4. ScreenHolds'
  BY <1>1, <1>2 DEF KInv, ScreenHolds
<1>5. JobHolds'
  BY <1>2 DEF KInv, JobHolds
<1>6. TurnedHeld' /\ RecitedHeld'
  BY <1>2 DEF KInv, TurnedHeld, RecitedHeld
<1>7. ListHeld'
  BY <1>2 DEF KInv, ListHeld, Loaded
<1>. QED
  BY <1>3, <1>4, <1>5, <1>6, <1>7 DEF KInv

LEMMA PollSaveStep == ASSUME KInv, PollSave PROVE KInv'
<1>1. pc = "ready" /\ screen = "pages" /\ dirty /\ open
  BY DEF PollSave, KInv, ScreenHolds
<1>2. Save("pages", resume, "stay", None) /\ UNCHANGED <<file, list, screen, pages, quran, history>>
  BY DEF PollSave
<1>. QED
  BY <1>1, <1>2, PlaceSaved DEF Names, Savers

(* The reader is closed, its page saved first when it changed.             *)
LEMMA ExitStep == ASSUME KInv, Exit PROVE KInv'
<1>1. /\ pc = "ready" /\ screen = "pages" /\ open /\ job.name = "" /\ quran = None
      /\ resume \in PagePlaces /\ resume.at = at
      /\ UNCHANGED <<file, list, quran, history>>
  BY NoJobFields DEF Exit, KInv, ScreenHolds, JobTyped
<1>2. ClosePageBook(None, resume)
  BY DEF Exit
<1>3. CASE dirty
  <2>1. Place(resume.book, at) = resume
    BY <1>1, PlacesThereAre
  <2>2. /\ Save("pages", resume, "close", None)
        /\ UNCHANGED <<screen, open, at, dirty, resume>>
    BY <1>1, <1>2, <1>3, <2>1 DEF ClosePageBook
  <2>. QED
    BY <1>1, <1>3, <2>2, PlaceSaved DEF Names, Savers, pages
<1>4. CASE ~ dirty
  <2>1. open' = FALSE /\ screen' = "home" /\ UNCHANGED <<at, dirty, resume, pc, job>>
    BY <1>1, <1>2, <1>4 DEF ClosePageBook
  <2>2. FilesTyped' /\ MemoryTyped' /\ HistoryTyped' /\ JobTyped'
    BY <1>1, <2>1 DEF KInv, FilesTyped, MemoryTyped, HistoryTyped, JobTyped, history
  <2>3. ScreenHolds'
    BY <1>1, <2>1 DEF KInv, ScreenHolds
  <2>4. JobHolds'
    BY <1>1, <2>1 DEF KInv, JobHolds
  <2>5. TurnedHeld' /\ RecitedHeld'
    BY <1>1, <1>4, <2>1 DEF KInv, TurnedHeld, RecitedHeld, history
  <2>6. ListHeld'
    BY <1>1, <2>1 DEF KInv, ListHeld, Loaded, history
  <2>. QED
    BY <2>2, <2>3, <2>4, <2>5, <2>6 DEF KInv
<1>. QED
  BY <1>3, <1>4

-----------------------------------------------------------------------------
(* The Quran, the bookmarks                                                *)

(* The Quran opened, or found gone, from the library.                      *)
LEMMA QuranOpened ==
  ASSUME KInv, screen = "home", OpenQuran
  PROVE  /\ screen' \in {"home", "quran"} /\ quran' \in Recitations \cup {None}
         /\ quran' # None <=> screen' = "quran"
         /\ recited' \in Recitations \cup {None}
         /\ recited' # None =>
              IF quran' # None THEN recited' = quran'
              ELSE recited' = recited /\ (job.name = "progress" => job.ok)
<1>1. quran = None /\ recited \in Recitations \cup {None} /\ None \notin Recitations
  BY NoneIsApart DEF KInv, ScreenHolds, HistoryTyped
<1>2. CASE /\ screen' = "quran"
           /\ quran' \in IF file["progress"] # None THEN {file["progress"]} ELSE Recitations
           /\ recited' = quran'
  <2>1. quran' \in Recitations
    BY <1>2 DEF KInv, FilesTyped
  <2>. QED
    BY <1>1, <1>2, <2>1
<1>3. CASE Recital /\ UNCHANGED <<screen, quran>>
  BY <1>1, <1>3 DEF Recital
<1>. QED
  BY <1>2, <1>3 DEF OpenQuran

LEMMA ChooseQuranStep == ASSUME KInv, ChooseQuran PROVE KInv'
<1>1. /\ pc = "ready" /\ screen = "home" /\ job.name = "" /\ quran = None /\ ~ open
      /\ UNCHANGED <<file, list, pages, pc, job, turned, unsaved>>
  BY NoJobFields DEF ChooseQuran, KInv, ScreenHolds, JobTyped
<1>2. /\ screen' \in {"home", "quran"} /\ quran' \in Recitations \cup {None}
      /\ quran' # None <=> screen' = "quran"
      /\ recited' \in Recitations \cup {None}
      /\ recited' # None => IF quran' # None THEN recited' = quran' ELSE recited' = recited
  BY <1>1, QuranOpened DEF ChooseQuran
<1>3. FilesTyped' /\ MemoryTyped' /\ HistoryTyped' /\ JobTyped'
  BY <1>1, <1>2 DEF KInv, FilesTyped, MemoryTyped, HistoryTyped, JobTyped, pages
<1>4. ScreenHolds'
  BY <1>1, <1>2 DEF KInv, ScreenHolds, pages
<1>5. JobHolds'
  BY <1>1 DEF KInv, JobHolds, pages
<1>6. TurnedHeld'
  BY <1>1 DEF KInv, TurnedHeld, pages
<1>7. RecitedHeld'
  <2>1. recited # None => recited = file["progress"]
    BY <1>1 DEF KInv, RecitedHeld
  <2>2. job' = job /\ file' = file
    BY <1>1
  <2>3. recited' # None => IF quran' # None THEN recited' = quran' ELSE recited' = file["progress"]
    BY <1>2, <2>1
  <2>. QED
    BY <1>1, <2>2, <2>3 DEF RecitedHeld
<1>8. ListHeld'
  BY <1>1, <1>2 DEF KInv, ListHeld, Loaded
<1>. QED
  BY <1>3, <1>4, <1>5, <1>6, <1>7, <1>8 DEF KInv

LEMMA ReciteStep == ASSUME KInv, NEW n \in QuranPlaces, Recite(n) PROVE KInv'
<1>1. PICK p \in Recitations : p = Place(Quran, n)
  BY PlacesThereAre
<1>2. /\ pc = "ready" /\ screen = "quran" /\ job.name = "" /\ quran' = p /\ recited' = p
      /\ p # None
      /\ UNCHANGED <<file, list, screen, pages, pc, job, turned, unsaved>>
  BY <1>1, NoJobFields, NoneIsApart DEF Recite, KInv, JobTyped
<1>3. FilesTyped' /\ MemoryTyped' /\ HistoryTyped' /\ JobTyped'
  BY <1>2 DEF KInv, FilesTyped, MemoryTyped, HistoryTyped, JobTyped, pages
<1>4. ScreenHolds'
  BY <1>2 DEF KInv, ScreenHolds, pages
<1>5. JobHolds'
  BY <1>2 DEF KInv, JobHolds, pages
<1>6. TurnedHeld' /\ RecitedHeld'
  BY <1>2 DEF KInv, TurnedHeld, RecitedHeld, pages
<1>7. ListHeld'
  BY <1>2 DEF KInv, ListHeld, Loaded
<1>. QED
  BY <1>3, <1>4, <1>5, <1>6, <1>7 DEF KInv

LEMMA ExitQuranStep == ASSUME KInv, ExitQuran PROVE KInv'
<1>1. pc = "ready" /\ screen = "quran" /\ quran # None
  BY DEF ExitQuran, KInv, ScreenHolds
<1>2. Save("progress", quran, "home", None) /\ UNCHANGED <<file, list, screen, pages, quran, history>>
  BY DEF ExitQuran
<1>. QED
  BY <1>1, <1>2, PlaceSaved DEF Names, Savers

(* A list that changed is saved at once.                                   *)
LEMMA KeepStep == ASSUME KInv, pc = "ready", screen # "off", NEW l \in Lists, Keep(l) PROVE KInv'
<1>1. list' = l /\ UNCHANGED <<file, screen, pages, quran, history>>
  BY DEF Keep
<1>2. /\ JobTyped' /\ pc' = "temp"
      /\ job'.name = "bookmarks" /\ job'.value = l /\ job'.then = "stay"
  BY SaveBegins DEF Keep, Names, Savers
<1>3. job.name = ""
  BY NoJobFields DEF KInv, JobTyped
<1>4. FilesTyped' /\ MemoryTyped' /\ HistoryTyped'
  BY <1>1 DEF KInv, FilesTyped, MemoryTyped, HistoryTyped, pages, history
<1>5. ScreenHolds'
  BY <1>1, <1>2 DEF KInv, ScreenHolds, pages
<1>6. JobHolds'
  BY <1>1, <1>2 DEF KInv, JobHolds
<1>7. TurnedHeld' /\ RecitedHeld'
  BY <1>1, <1>2, <1>3 DEF KInv, TurnedHeld, RecitedHeld, pages, history
<1>8. ListHeld'
  BY <1>2 DEF ListHeld
<1>. QED
  BY <1>2, <1>4, <1>5, <1>6, <1>7, <1>8 DEF KInv

LEMMA AddBookmarkStep == ASSUME KInv, AddBookmarkHere PROVE KInv'
<1>1. pc = "ready" /\ screen \in {"pages", "quran"}
  BY DEF AddBookmarkHere
<1>. DEFINE p == IF screen = "pages" THEN resume ELSE quran
<1>2. p \in Places
  BY <1>1 DEF KInv, ScreenHolds, MemoryTyped, Places
<1>3. Added(list, p) \in Lists
  BY <1>2, AddedIsList DEF KInv, MemoryTyped
<1>4. Keep(Added(list, p))
  BY DEF AddBookmarkHere
<1>. QED
  BY <1>1, <1>3, <1>4, KeepStep

LEMMA DeleteBookmarkStep == ASSUME KInv, NEW k, DeleteBookmark(k) PROVE KInv'
<1>1. pc = "ready" /\ screen = "home" /\ k \in 1..Len(list) /\ Keep(Removed(list, k))
  BY DEF DeleteBookmark
<1>2. Len(list) \in Nat
  BY LenProperties DEF KInv, MemoryTyped, Lists
<1>3. Removed(list, k) \in Lists
  BY <1>1, <1>2, RemovedIsShorter DEF KInv, MemoryTyped
<1>. QED
  BY <1>1, <1>3, KeepStep

(* A bookmark of the Quran goes through progress.bin; one of a book is     *)
(* opened.                                                                 *)
LEMMA OpenBookmarkStep == ASSUME KInv, NEW mark \in Places, OpenBookmark(mark) PROVE KInv'
<1>1. pc = "ready" /\ screen = "home" /\ ~ open /\ quran = None
      /\ UNCHANGED <<file, list, quran, turned, unsaved>>
  BY DEF OpenBookmark, KInv, ScreenHolds
<1>2. CASE mark \in PagePlaces
  <2>1. mark.book \in Books /\ mark.book # Quran
    BY <1>2, PlacesThereAre
  <2>2. OpenBook(mark.book, mark) /\ UNCHANGED recited
    BY <2>1 DEF OpenBookmark
  <2>. QED
    BY <1>1, <1>2, <2>1, <2>2, OpenBookStep DEF history
<1>3. CASE mark \in Recitations
  <2>1. /\ Save("progress", mark, "recite", None) /\ recited' = mark
        /\ UNCHANGED <<screen, pages>>
    BY <1>3, PlacesThereAre DEF OpenBookmark
  <2>2. /\ JobTyped' /\ pc' = "temp"
        /\ job'.name = "progress" /\ job'.value = mark /\ job'.then = "recite"
    BY <2>1, SaveBegins DEF Names, Savers
  <2>3. job.name = ""
    BY <1>1, NoJobFields DEF KInv, JobTyped
  <2>4. FilesTyped' /\ MemoryTyped' /\ HistoryTyped'
    BY <1>1, <1>3, <2>1 DEF KInv, FilesTyped, MemoryTyped, HistoryTyped, pages
  <2>5. ScreenHolds'
    BY <1>1, <2>1, <2>2 DEF KInv, ScreenHolds, pages
  <2>6. JobHolds'
    BY <1>1, <1>3, <2>1, <2>2 DEF KInv, JobHolds
  <2>7. TurnedHeld' /\ RecitedHeld'
    BY <1>1, <2>1, <2>2, <2>3 DEF KInv, TurnedHeld, RecitedHeld, pages
  <2>8. ListHeld'
    BY <1>1, <2>1, <2>2, <2>3 DEF KInv, ListHeld, Loaded
  <2>. QED
    BY <2>2, <2>4, <2>5, <2>6, <2>7, <2>8 DEF KInv
<1>. QED
  BY <1>2, <1>3 DEF Places

-----------------------------------------------------------------------------
(* Sleep, loss of power, boot                                              *)

(* The device goes off with every place of value in its file.              *)
LEMMA OffStep ==
  ASSUME KInv, TurnOff, file' = file, unsaved' \in BOOLEAN, HistoryTyped',
         turned' # None => turned' = file["pages"],
         recited' # None => recited' = file["progress"]
  PROVE  KInv'
<1>1. FilesTyped'
  BY DEF KInv, FilesTyped
<1>2. TurnedHeld' /\ RecitedHeld'
  BY TurnedOff DEF TurnedHeld, RecitedHeld
<1>. QED
  BY <1>1, <1>2, TurnedOff DEF KInv

LEMMA PowerLossStep == ASSUME KInv, PowerLoss PROVE KInv'
<1>1. /\ TurnOff /\ file' = file /\ unsaved' = unsaved
      /\ turned' = IF dirty \/ job.name = "pages" THEN None ELSE turned
      /\ recited' = IF quran # None \/ job.name = "progress" THEN None ELSE recited
  BY DEF PowerLoss
<1>2. HistoryTyped'
  BY <1>1 DEF KInv, HistoryTyped
<1>3. turned' # None => turned' = file["pages"]
  BY <1>1 DEF KInv, TurnedHeld
<1>4. recited' # None => recited' = file["progress"]
  BY <1>1 DEF KInv, RecitedHeld
<1>. QED
  BY <1>1, <1>2, <1>3, <1>4, OffStep DEF HistoryTyped

LEMMA GoToSleepStep == ASSUME KInv, GoToSleep PROVE KInv'
<1>1. pc = "ready" /\ screen # "off" /\ job.name = "" /\ UNCHANGED <<file, history>>
  BY NoJobFields DEF GoToSleep, KInv, JobTyped
<1>2. CASE quran # None
  <2>1. Save("progress", quran, "sleep", None) /\ UNCHANGED <<list, screen, pages, quran>>
    BY <1>2 DEF GoToSleep
  <2>. QED
    BY <1>1, <1>2, <2>1, PlaceSaved DEF Names, Savers
<1>3. CASE quran = None /\ open /\ dirty
  <2>1. Save("pages", resume, "off", None) /\ UNCHANGED <<list, screen, pages, quran>>
    BY <1>3 DEF GoToSleep, SleepPages
  <2>. QED
    BY <1>1, <1>3, <2>1, PlaceSaved DEF Names, Savers
<1>4. CASE quran = None /\ ~ (open /\ dirty)
  <2>1. TurnOff
    BY <1>4 DEF GoToSleep, SleepPages
  <2>2. HistoryTyped' /\ unsaved' \in BOOLEAN
    BY <1>1 DEF KInv, HistoryTyped, history
  <2>3. turned' # None => turned' = file["pages"]
    BY <1>1, <1>4 DEF KInv, TurnedHeld, history
  <2>4. recited' # None => recited' = file["progress"]
    BY <1>1, <1>4 DEF KInv, RecitedHeld, history
  <2>. QED
    BY <1>1, <2>1, <2>2, <2>3, <2>4, OffStep
<1>. QED
  BY <1>2, <1>3, <1>4

LEMMA BootStep == ASSUME KInv, Boot PROVE KInv'
<1>1. /\ screen = "off" /\ pc = "ready" /\ job.name = "" /\ ~ open /\ quran = None
      /\ screen' = "home" /\ list' = Loaded /\ unsaved' = FALSE
      /\ UNCHANGED <<file, pages, quran, pc, job, turned, recited>>
  BY NoJobFields DEF Boot, Loaded, KInv, ScreenHolds, JobTyped
<1>2. Loaded \in Lists
  BY EmptyIsList DEF KInv, FilesTyped, Loaded
<1>3. FilesTyped' /\ MemoryTyped' /\ HistoryTyped' /\ JobTyped'
  BY <1>1, <1>2 DEF KInv, FilesTyped, MemoryTyped, HistoryTyped, JobTyped, pages
<1>4. ScreenHolds'
  BY <1>1 DEF KInv, ScreenHolds, pages
<1>5. JobHolds'
  BY <1>1 DEF KInv, JobHolds
<1>6. TurnedHeld' /\ RecitedHeld'
  BY <1>1 DEF KInv, TurnedHeld, RecitedHeld, pages
<1>7. ListHeld'
  BY <1>1 DEF ListHeld, Loaded
<1>. QED
  BY <1>3, <1>4, <1>5, <1>6, <1>7 DEF KInv

-----------------------------------------------------------------------------
(* A save returns to its caller                                            *)

(* What is promised after it is what the file holds.                       *)
LEMMA PromisesKept ==
  ASSUME KInv, Return
  PROVE  /\ job.name \in Names /\ file' = file
         /\ turned' \in PagePlaces \cup {None} /\ unsaved' \in BOOLEAN
         /\ turned' # None =>
              IF job.name = "pages" \/ ~ (open /\ dirty) THEN turned' = file["pages"]
              ELSE turned' = resume
         /\ job.name = "pages" /\ ~ job.ok => turned' = None
         /\ screen # "off" /\ ~ unsaved' => list = Loaded
<1>1. pc = "return" /\ job.name \in Names /\ job.ok \in BOOLEAN
  BY DEF Return, KInv, JobTyped
<1>2. /\ file' = file
      /\ turned' = IF ~ job.ok /\ job.name = "pages" THEN None ELSE turned
      /\ unsaved' = IF job.name = "bookmarks" THEN ~ job.ok ELSE unsaved
  BY DEF Return
<1>3. turned' \in PagePlaces \cup {None} /\ unsaved' \in BOOLEAN
  BY <1>1, <1>2 DEF KInv, HistoryTyped
<1>4. job.ok => file[job.name] = job.value
  BY <1>1 DEF KInv, JobHolds
<1>5. turned' # None =>
        IF job.name = "pages" \/ ~ (open /\ dirty) THEN turned' = file["pages"]
        ELSE turned' = resume
  BY <1>2, <1>4 DEF KInv, TurnedHeld
<1>6. screen # "off" /\ ~ unsaved' => list = Loaded
  <2>1. CASE job.name = "bookmarks"
    <3>1. ~ unsaved' => file["bookmarks"] = list
      BY <1>2, <1>4, <2>1 DEF KInv, JobHolds
    <3>2. list # None
      BY NoneIsApart DEF KInv, MemoryTyped
    <3>. QED
      BY <3>1, <3>2 DEF Loaded
  <2>2. CASE job.name # "bookmarks"
    BY <1>2, <2>2 DEF KInv, ListHeld
  <2>. QED
    BY <2>1, <2>2
<1>. QED
  BY <1>1, <1>2, <1>3, <1>5, <1>6

(* The place in the Quran, of a caller that does not open it.              *)
LEMMA RecitalKept ==
  ASSUME KInv, Return, Recital
  PROVE  /\ recited' \in Recitations \cup {None}
         /\ recited' # None =>
              IF job.name = "progress" \/ quran = None THEN recited' = file["progress"]
              ELSE recited' = quran
<1>1. job.ok => file[job.name] = job.value
  BY DEF Return, KInv, JobHolds
<1>2. recited' = IF job.name = "progress" /\ ~ job.ok THEN None ELSE recited
  BY DEF Recital
<1>. QED
  BY <1>1, <1>2 DEF KInv, RecitedHeld, HistoryTyped

(* The save is over, and the device on.                                    *)
LEMMA Finished ==
  ASSUME KInv, Return, pc' = "ready", job' = NoJob, list' = list,
         screen' \in {"home", "pages", "quran"},
         open' \in BOOLEAN /\ at' = at /\ dirty' \in BOOLEAN /\ resume' = resume,
         quran' \in Recitations \cup {None}, recited' \in Recitations \cup {None},
         open' <=> screen' = "pages", quran' # None <=> screen' = "quran",
         open' => open,
         turned' # None => IF open' /\ dirty' THEN turned' = resume ELSE turned' = file["pages"],
         recited' # None => IF quran' # None THEN recited' = quran' ELSE recited' = file["progress"]
  PROVE  KInv'
<1>1. job'.name = "" /\ ~ job'.ok
  BY NoJobFields
<1>2. file' = file /\ turned' \in PagePlaces \cup {None} /\ unsaved' \in BOOLEAN
  BY PromisesKept
<1>3. screen # "off" /\ (~ unsaved' => list = Loaded)
  BY PromisesKept DEF Return, KInv, ScreenHolds
<1>4. FilesTyped' /\ MemoryTyped' /\ HistoryTyped'
  BY <1>2 DEF KInv, FilesTyped, MemoryTyped, HistoryTyped
<1>5. JobTyped'
  BY DEF JobTyped, NoJob
<1>6. ScreenHolds'
  BY DEF KInv, ScreenHolds
<1>7. JobHolds'
  BY <1>1 DEF JobHolds
<1>8. TurnedHeld' /\ RecitedHeld'
  BY <1>1, <1>2 DEF TurnedHeld, RecitedHeld
<1>9. ListHeld'
  BY <1>2, <1>3 DEF ListHeld, Loaded
<1>. QED
  BY <1>4, <1>5, <1>6, <1>7, <1>8, <1>9 DEF KInv

LEMMA ReturnStep == ASSUME KInv, Return PROVE KInv'
<1>1. /\ pc = "return" /\ job.name \in Names /\ job.ok \in BOOLEAN
      /\ (open <=> screen = "pages") /\ (quran # None <=> screen = "quran") /\ screen # "off"
      /\ screen \in {"home", "pages", "quran"} /\ open \in BOOLEAN /\ dirty \in BOOLEAN
      /\ quran \in Recitations \cup {None}
  BY DEF Return, KInv, JobTyped, ScreenHolds, MemoryTyped
<1>2. /\ job.name = "pages" => open /\ job.then \in {"stay", "close", "off"}
      /\ job.name = "progress" => \/ job.then \in {"home", "sleep"} /\ quran # None
                                  \/ job.then = "recite" /\ screen = "home"
      /\ job.name = "bookmarks" => job.then = "stay"
  <2>1. job.name = "progress" /\ job.then \in {"home", "sleep"} => quran # None
    BY NoneIsApart DEF KInv, JobHolds
  <2>. QED
    BY <2>1 DEF KInv, JobHolds
<1>3. /\ turned' # None =>
           IF job.name = "pages" \/ ~ (open /\ dirty) THEN turned' = file["pages"]
           ELSE turned' = resume
      /\ job.name = "pages" /\ ~ job.ok => turned' = None
  BY PromisesKept
<1>4. CASE /\ job.then = "stay"
           /\ pc' = "ready" /\ job' = NoJob /\ dirty' = (dirty /\ ~ (job.ok /\ job.name = "pages"))
           /\ Recital /\ UNCHANGED <<list, screen, open, at, resume, quran>>
  <2>1. turned' # None => IF open' /\ dirty' THEN turned' = resume ELSE turned' = file["pages"]
    BY <1>1, <1>3, <1>4
  <2>2. recited' # None => IF quran' # None THEN recited' = quran' ELSE recited' = file["progress"]
    BY <1>1, <1>2, <1>4, RecitalKept
  <2>. QED
    BY <1>1, <1>4, <2>1, <2>2, RecitalKept, Finished
<1>5. CASE /\ job.then = "close"
           /\ pc' = "ready" /\ job' = NoJob /\ dirty' = (dirty /\ ~ (job.ok /\ job.name = "pages"))
           /\ open' = FALSE /\ screen' = "home" /\ UNCHANGED <<at, resume, list, quran>>
           /\ Recital
  <2>1. job.name = "pages" /\ quran = None
    BY <1>1, <1>2, <1>5 DEF Names
  <2>2. recited' # None => recited' = file["progress"]
    BY <1>5, <2>1, RecitalKept
  <2>. QED
    BY <1>1, <1>3, <1>5, <2>1, <2>2, RecitalKept, Finished
<1>6. CASE /\ job.then = "home"
           /\ pc' = "ready" /\ job' = NoJob /\ quran' = None /\ screen' = "home"
           /\ Recital /\ UNCHANGED <<list, pages>>
  <2>1. job.name = "progress" /\ ~ open
    BY <1>1, <1>2, <1>6 DEF Names
  <2>. QED
    BY <1>1, <1>3, <1>6, <2>1, RecitalKept, Finished DEF pages
<1>7. CASE /\ job.then = "recite"
           /\ pc' = "ready" /\ job' = NoJob /\ OpenQuran
           /\ UNCHANGED <<list, pages>>
  <2>1. job.name = "progress" /\ screen = "home" /\ ~ open /\ quran = None
    BY <1>1, <1>2, <1>7 DEF Names
  <2>2. /\ screen' \in {"home", "quran"} /\ quran' \in Recitations \cup {None}
        /\ quran' # None <=> screen' = "quran"
        /\ recited' \in Recitations \cup {None}
        /\ recited' # None => IF quran' # None THEN recited' = quran'
                              ELSE recited' = recited /\ job.ok
    BY <1>7, <2>1, QuranOpened
  <2>3. job.ok /\ recited # None => recited = file["progress"]
    BY <1>1, <2>1 DEF KInv, RecitedHeld, JobHolds
  <2>4. recited' # None => IF quran' # None THEN recited' = quran' ELSE recited' = file["progress"]
    BY <2>2, <2>3
  <2>. QED
    BY <1>1, <1>3, <1>7, <2>1, <2>2, <2>4, Finished DEF pages
<1>8. CASE job.then \in {"sleep", "off"} /\ TurnOff /\ Recital
  <2>1. /\ job.name = "pages" \/ ~ open
        /\ job.name = "progress" \/ quran = None
    BY <1>1, <1>2, <1>8 DEF Names
  <2>2. HistoryTyped' /\ unsaved' \in BOOLEAN /\ file' = file
    BY <1>8, PromisesKept, RecitalKept DEF HistoryTyped
  <2>3. turned' # None => turned' = file["pages"]
    BY <1>3, <2>1
  <2>4. recited' # None => recited' = file["progress"]
    BY <1>8, <2>1, RecitalKept
  <2>. QED
    BY <1>8, <2>2, <2>3, <2>4, OffStep
<1>9. job.then = "sleep" => (SleepPages <=> TurnOff)
  <2>1. job.then = "sleep" => ~ open
    BY <1>1, <1>2 DEF Names
  <2>. QED
    BY <2>1 DEF SleepPages
<1>. QED
  <2>1. \/ /\ job.then = "stay"
           /\ pc' = "ready" /\ job' = NoJob /\ dirty' = (dirty /\ ~ (job.ok /\ job.name = "pages"))
           /\ Recital /\ UNCHANGED <<list, screen, open, at, resume, quran>>
        \/ /\ job.then = "close"
           /\ pc' = "ready" /\ job' = NoJob /\ dirty' = (dirty /\ ~ (job.ok /\ job.name = "pages"))
           /\ open' = FALSE /\ screen' = "home" /\ UNCHANGED <<at, resume, list, quran>>
           /\ Recital
        \/ /\ job.then = "home"
           /\ pc' = "ready" /\ job' = NoJob /\ quran' = None /\ screen' = "home"
           /\ Recital /\ UNCHANGED <<list, pages>>
        \/ /\ job.then = "recite"
           /\ pc' = "ready" /\ job' = NoJob /\ OpenQuran
           /\ UNCHANGED <<list, pages>>
        \/ job.then = "sleep" /\ SleepPages /\ Recital
        \/ job.then = "off" /\ TurnOff /\ Recital
    BY <1>1, JobFields DEF Return, KInv
  <2>. QED
    BY <2>1, <1>4, <1>5, <1>6, <1>7, <1>8, <1>9

-----------------------------------------------------------------------------
(* The invariant and what follows                                          *)

LEMMA NextKInv == ASSUME KInv, [Next]_vars PROVE KInv'
<1>1. CASE \E k \in 1..MaxBookmarks : k <= Len(list) /\ OpenBookmark(list[k])
  <2>1. PICK k \in 1..MaxBookmarks : k <= Len(list) /\ OpenBookmark(list[k])
    BY <1>1
  <2>2. list \in Seq(Places) /\ Len(list) \in Nat /\ MaxBookmarks \in Nat
    BY LenProperties, ReadingAssumption DEF KInv, MemoryTyped, Lists
  <2>3. list[k] \in Places
    BY <2>1, <2>2, ElementOfSeq
  <2>. QED
    BY <2>1, <2>3, OpenBookmarkStep
<1>2. CASE \E place \in LastRead : OpenBookmark(place)
  <2>1. PICK place \in LastRead : OpenBookmark(place)
    BY <1>2
  <2>2. place \in Places
    BY DEF LastRead, KInv, FilesTyped, Places
  <2>. QED
    BY <2>1, <2>2, OpenBookmarkStep
<1>3. CASE UNCHANGED vars
  <2>1. FilesTyped' /\ MemoryTyped' /\ HistoryTyped' /\ ScreenHolds'
    BY <1>3 DEF KInv, FilesTyped, MemoryTyped, HistoryTyped, ScreenHolds, vars, pages, history
  <2>2. JobTyped'
    BY <1>3 DEF KInv, JobTyped, vars
  <2>3. JobHolds' /\ TurnedHeld' /\ RecitedHeld' /\ ListHeld'
    BY <1>3 DEF KInv, JobHolds, TurnedHeld, RecitedHeld, ListHeld, Loaded, vars, pages, history
  <2>. QED
    BY <2>1, <2>2, <2>3 DEF KInv
<1>. QED
  BY <1>1, <1>2, <1>3, BootStep, PowerLossStep, GoToSleepStep, ChooseBookStep, TurnPageStep,
     PollSaveStep, ExitStep, ChooseQuranStep, ExitQuranStep, ReciteStep, AddBookmarkStep,
     DeleteBookmarkStep, SaveTempStep, SaveUnlinkStep, SaveRenameStep, ReturnStep DEF Next

(* The files hold places there are, the screens have their readers open,   *)
(* and what the user left is on the screen, in the running save or in its  *)
(* file, in every state of every behaviour.                                *)
THEOREM ReadingInvariance == Spec => []KInv
  BY InitKInv, NextKInv, PTL DEF Spec

(* The variables keep their types, and no file is ever torn.               *)
THEOREM ReadingTyped == Spec => []TypeOK
<1>1. KInv => TypeOK
  <2>. SUFFICES ASSUME KInv PROVE TypeOK
    OBVIOUS
  <2>1. /\ file["pages"] \in [book : Books, at : Nat] \cup {None}
        /\ file["progress"] \in Recitations \cup {None}
        /\ file["bookmarks"] \in Seq(Places) \cup {None} /\ list \in Seq(Places)
    BY DEF KInv, FilesTyped, MemoryTyped, PagePlaces, Lists
  <2>2. /\ job.name \in Names \cup {""} /\ job.temp \in {"", "whole", "torn"}
        /\ job.then \in {"", "stay", "close", "home", "recite", "sleep", "off"}
    <3>1. NoJob.then = "" /\ NoJob.name = ""
      BY DEF NoJob
    <3>. QED
      BY <3>1 DEF KInv, JobTyped, Savers
  <2>. QED
    BY <2>1, <2>2 DEF KInv, MemoryTyped, HistoryTyped, JobTyped, TypeOK
<1>. QED
  BY <1>1, ReadingInvariance, PTL

(* No position is ever written under the id of another book.               *)
THEOREM AlwaysRightPlace == Spec => []RightPlace
<1>1. KInv => RightPlace
  BY DEF KInv, FilesTyped, PagePlaces, RightPlace
<1>. QED
  BY <1>1, ReadingInvariance, PTL

(* Whatever way a book or the Quran was left, its file holds the last      *)
(* place, unless a write failed or the power went.                         *)
THEOREM PlacesAlwaysKept == Spec => []PlacesKept
<1>1. KInv => PlacesKept
  BY NoJobFields DEF KInv, JobTyped, TurnedHeld, RecitedHeld, PlacesKept
<1>. QED
  BY <1>1, ReadingInvariance, PTL

(* The list on the screen is the one a restart loads, fits its table and   *)
(* holds a place once.                                                     *)
THEOREM BookmarksAlwaysKept == Spec => []BookmarksKept
<1>1. KInv => BookmarksKept
  <2>. SUFFICES ASSUME KInv, screen # "off", pc = "ready" PROVE
         /\ Len(list) <= MaxBookmarks
         /\ \A j, k \in 1..Len(list) : list[j] = list[k] => j = k
         /\ ~ unsaved => list = IF file["bookmarks"] = None THEN <<>> ELSE file["bookmarks"]
    BY DEF BookmarksKept
  <2>1. job.name = ""
    BY NoJobFields DEF KInv, JobTyped
  <2>2. ~ unsaved => list = Loaded
    BY <2>1 DEF KInv, ListHeld
  <2>. QED
    BY <2>2 DEF KInv, MemoryTyped, Lists, Loaded
<1>. QED
  BY <1>1, ReadingInvariance, PTL
=============================================================================
