------------------------------ MODULE MCJudging ------------------------------
(* Instances of Judging for TLC.                                           *)
EXTENDS Judging, TLC

CONSTANTS r1, r2, r3, u1, u2, h1, p1, p2, c, script, g1, f1, f2, a1, a2

Arg(u, p, h, t, l, g, f) ==
    [user |-> u, prob |-> p, hw |-> h, type |-> t, lang |-> l, gear |-> g, file |-> f]

Final(u, p, l)  == Arg(u, p, h1, 2, l, None, None)
Test(u, p, l)   == Arg(u, p, h1, 1, l, g1, None)
Public(u, p, l) == Arg(u, p, None, 0, l, None, None)
Html(u, p, f)   == Arg(u, p, h1, 4, None, None, f)

(* Final submissions of two students and a test of one of them.            *)
BatchInputs == {Final(u1, p1, c), Final(u2, p1, c), Test(u1, p1, c)}

TwoStudents == {Final(u1, p1, c), Final(u2, p1, c)}

(* Scripts are judged on p1, p2 is HTML.                                   *)
AllInputs  == {Final(u1, p1, script), Test(u1, p1, script), Public(u1, p1, script),
               Html(u1, p2, f1), Html(u1, p2, f2)}
AllMethods == [p \in Problems |-> IF p = p1 THEN 1 ELSE 2]

AllEnrolled == [h \in Homeworks |-> Users]
OnlyP1      == {<<h1, p1>>}
BothProblems == {<<h1, p1>>, <<h1, p2>>}
Limits      == [p \in Problems |-> [g \in Gears |-> 3]]
Code        == [p \in Problems |-> 0]
ByProblem   == [s \in Homeworks \X Problems |-> IF s[2] = p1 THEN 1 ELSE 2]
ByUser      == [s \in Problems \X Users |-> 3]

Sym == Permutations(Reqs) \cup Permutations(Tas)
==============================================================================
