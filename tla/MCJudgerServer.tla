--------------------------- MODULE MCJudgerServer ---------------------------
(* Instances of JudgerServer for TLC.                                      *)
EXTENDS JudgerServer

CONSTANTS t1, t2, s1, s2

(* Two programs and two scripts; the second script has lost its source.    *)
TwoEach == [i \in Jobs |-> IF i \in {t1, t2} THEN "tradi" ELSE "script"]
=============================================================================
