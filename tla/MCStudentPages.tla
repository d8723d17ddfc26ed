--------------------------- MODULE MCStudentPages ---------------------------
(* An instance of the pages that a student uses for TLC.                   *)
EXTENDS StudentPages, TLC

CONSTANTS h1, h2, p1, p2, n1, n2, u1

(* One kind of test, of which the student has two and has used one; an     *)
(* earlier test did not count.                                             *)
Tests == [k \in {"1"} |-> 2]
Results == [used |-> [k \in {"1"} |-> 1], tests |-> 2, turned |-> 0, judged |-> FALSE]

(* A homework that is open, with two problems, one of which is turned in,  *)
(* and one that is over.                                                   *)
Open == [problems |-> {p1, p2}, deadline |-> 1, submitable |-> FALSE, score_openness |-> FALSE]
Past == [problems |-> {p1}, deadline |-> 0, submitable |-> TRUE, score_openness |-> TRUE]
Course == [homeworks |-> (h1 :> Open) @@ (h2 :> Past),
           turned |-> [x \in {h1, h2} \X {p1, p2} |-> IF x = <<h1, p1>> THEN 1 ELSE 0],
           notices |-> {n1}, tas |-> {u1}]
==============================================================================
