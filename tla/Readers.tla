-------------------------------- MODULE Readers --------------------------------
(***************************************************************************)
(* The three readers of main.cpp side by side.  At most one of them is on  *)
(* the screen (Screens), and none of them reads what another one keeps, so *)
(* that a behaviour reads with one while the others rest.                  *)
(***************************************************************************)
EXTENDS PageBook, TextReader, QuranPaging

VARIABLE reading  (* the reader this behaviour is about *)

readersVars == <<pageVars, textVars, quranVars, reading>>

ReadersInit ==
  /\ reading \in {"pages", "text", "quran"}
  /\ PageInit /\ TextInit /\ QuranInit
  /\ reading # "text" => shelf = <<<<>>>>

ReadersNext ==
  \/ reading = "pages" /\ PageNext /\ UNCHANGED <<textVars, quranVars, reading>>
  \/ reading = "text" /\ TextNext /\ UNCHANGED <<pageVars, quranVars, reading>>
  \/ reading = "quran" /\ QuranNext /\ UNCHANGED <<pageVars, textVars, reading>>

ReadersSpec == ReadersInit /\ [][ReadersNext]_readersVars /\ PageFairness

(* Each reader stays in the book, the surah and the panel it has.          *)
ReadersTypeOK == PageTypeOK /\ TextTypeOK /\ QuranTypeOK
================================================================================
