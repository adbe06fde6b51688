--------------------------- MODULE MCReadingState ---------------------------
(* Small instances of ReadingState: a book of two pages, one of a single   *)
(* page, and a Quran of two places.                                        *)
EXTENDS ReadingState

CONSTANTS a, b, q

Shelf == {a, b}
Counts == [x \in Shelf |-> IF x = a THEN 2 ELSE 1]
TwoPlaces == {0, 1}

=============================================================================
