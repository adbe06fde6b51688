------------------------------ MODULE MCTransfer ------------------------------
(* Small instances of Transfer: one client and every server, and two       *)
(* clients with different files under one name.                            *)
EXTENDS Transfer, TLC

CONSTANTS x, y, alice, bob

OneFile  == alice :> x
TwoFiles == (alice :> x) @@ (bob :> y)

(* In chunks of two cells: two whole chunks and a shorter one, as a photo  *)
(* of 48,016 bytes goes in three chunks; one and a shorter one; two.       *)
OneSize   == x :> 5
TwoSizes  == (x :> 3) @@ (y :> 4)
=============================================================================
