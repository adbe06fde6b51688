------------------------------- MODULE MCRadios -------------------------------
(* A small instance of Radios: one network that works, and both builds.    *)
EXTENDS Radios

CONSTANT n1

One  == {n1}
Both == BOOLEAN
=============================================================================
