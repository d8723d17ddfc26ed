----------------------------- MODULE MCTALesson -----------------------------
(* An instance of TALesson for TLC: a homework with one of two problems,   *)
(* which is open and then over; the other may be added, and another        *)
(* homework be made with either of them.                                   *)
EXTENDS TALesson, TLC

CONSTANTS h1, h2, p1, p2, n1

Open == [problems |-> {p1}, deadline |-> 0, score_openness |-> 0, submitable |-> 1]
First == [homeworks |-> (h1 :> Open) @@ (h2 :> None), notices |-> {},
          judging |-> [x \in Homeworks \X Problems |-> 0]]
==============================================================================
