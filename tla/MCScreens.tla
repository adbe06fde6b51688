------------------------------- MODULE MCScreens -------------------------------
(* A Quran, a translation that goes with it, a book of text and a book of  *)
(* page pictures; the card may hold any two of them at a time.             *)
EXTENDS Screens

MCType    == [q |-> "quran", t |-> "translation", b |-> "book", p |-> "book"]
MCDeltas  == {-3, -1, 1, 3}
MCAligned == [q |-> "none", t |-> "q", b |-> "none", p |-> "none"]
================================================================================
