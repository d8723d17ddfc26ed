--------------------------- MODULE MCAssistantPages ---------------------------
(* An instance of the pages that an assistant uses for TLC.                *)
EXTENDS AssistantPages, TLC

CONSTANTS u1, u2, me, s60, s100

(* The assistant and two students, one of them in the course.              *)
FirstOfCourse == [l \in {"students", "tas"} |-> IF l = "tas" THEN {me} ELSE {u1}]

(* A private problem, or none.                                             *)
FirstOfForm ==
    [method |-> 0, text |-> "stored", language |-> {"1"}, test_language |-> "1", openness |-> 0,
     files |-> [s \in {"code", "case", "script"} |-> IF s = "script" THEN None ELSE 0]]

(* One student has a mark; one has turned in and tested.                   *)
FirstOfMarking == (u1 :> s60) @@ (u2 :> Unmarked)
===============================================================================
