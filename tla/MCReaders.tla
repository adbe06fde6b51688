------------------------------- MODULE MCReaders -------------------------------
(* Small books for the three readers.                                      *)
EXTENDS Readers

CONSTANTS b1, b2, q1, q2

MCPageCount == [b \in {b1, b2} |-> IF b = b1 THEN 4 ELSE 2]
MCBadPages  == {<<b1, 2>>}
MCChapters  == [b \in {b1, b2} |-> IF b = b1 THEN <<1, 3, 4>> ELSE <<>>]

Texts(n) == UNION {[1..k -> {Letter, Space, Newline}] : k \in 0..n}
Verses   == <<"x", "s", "x", "n", "n", "x", "x", "x">>
MCLibrary ==
  {<<t>> : t \in Texts(4)}
    \cup {<<<<>>, Verses>>}
    \cup {<<Verses \o Verses>>,
          <<Verses \o Verses, <<>>, <<"x", "x", "s", "x", "x">>>>}
MCScales == <<2, 3, 4>>

Ayah(s, w) == [surah |-> s, first |-> w]
MCWords == [q \in {q1, q2} |->
              IF q = q1 THEN <<1,2,1, 2,2,2, 1,1, 2,1,1, 1,2, 1>>
                        ELSE <<2,1,1,2,1,1,1,2,1,2>>]
MCAyahs == [q \in {q1, q2} |->
              IF q = q1
              THEN <<Ayah(1, 0), Ayah(1, 2), Ayah(1, 5), Ayah(2, 6), Ayah(2, 9),
                     Ayah(3, 11), Ayah(3, 13)>>
              ELSE <<Ayah(1, 0), Ayah(1, 2), Ayah(1, 3), Ayah(2, 5), Ayah(2, 7), Ayah(3, 9)>>]
MCLines == [q \in {q1, q2} |-> IF q = q1 THEN <<0, 3, 6, 8, 11, 13>> ELSE <<>>]

(* What the proofs suppose to fit does.                                    *)
ASSUME MCFits == \A q \in Qurans : Fits(q) /\ AyahsFit(q)

(* An ayah that runs for two screens.                                      *)
MCLongWords == [q \in {q1, q2} |-> <<2,2, 2,2, 2,2, 2,1, 2,1>>]
MCLongAyahs == [q \in {q1, q2} |-> <<Ayah(1, 0), Ayah(1, 8)>>]
MCLongLines == [q \in {q1, q2} |-> <<0, 2, 4, 6, 8>>]
================================================================================
