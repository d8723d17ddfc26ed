------------------------------ MODULE MCSession ------------------------------
(* An instance of Session for TLC: a student who signs up, an assistant    *)
(* and an administrator in two tabs.                                       *)
EXTENDS Session, TLC

CONSTANTS stu, ta, ad, t1, t2

Roles == (stu :> 1) @@ (ta :> 2) @@ (ad :> 3)
TabSymmetry == Permutations({t1, t2})
==============================================================================
