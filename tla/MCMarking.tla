------------------------------ MODULE MCMarking ------------------------------
(* An instance of Marking for TLC: one student has a mark; one has turned  *)
(* in and tested.                                                          *)
EXTENDS Marking, TLC

CONSTANTS u1, u2, s60, s100

First == (u1 :> s60) @@ (u2 :> Unmarked)
==============================================================================
