---------------------------- MODULE MCSubmission ----------------------------
(* Instances of Submission for TLC.                                        *)
EXTENDS Submission, TLC

CONSTANTS r1, r2, r3, r4, u1, u2, u3, h1, p1, p2, c, script, g1, g2, f1, f2

Arg(u, p, h, t, l, g, f) ==
    [user |-> u, prob |-> p, hw |-> h, type |-> t, lang |-> l, gear |-> g, file |-> f]

Final(u, p, l)  == Arg(u, p, h1, 2, l, None, None)
Test(u, p, g)   == Arg(u, p, h1, 1, c, g, None)
Public(u, p, l) == Arg(u, p, None, 0, l, None, None)
Html(u, p, f)   == Arg(u, p, h1, 4, None, None, f)

(* Final submissions of two students in two languages and HTML homework,   *)
(* sent twice with one upload or with two; a student who is not enrolled;  *)
(* a problem that has no judgestates row.                                  *)
FinalInputs == {Final(u1, p1, c), Final(u1, p1, script), Final(u2, p1, c),
                Html(u1, p1, f1), Html(u1, p1, f2), Final(u3, p1, c), Final(u1, p2, c)}

(* Requests of every kind: tests of two students with two gears, public    *)
(* submissions in two languages, final ones for two problems, HTML.        *)
MixedInputs == {Test(u1, p1, g1), Test(u1, p1, g2), Test(u2, p1, g1),
                Public(u1, p1, c), Public(u1, p2, script),
                Final(u1, p1, c), Final(u1, p2, c), Html(u1, p1, f1)}

NotU3        == [h \in Homeworks |-> Users \ {u3}]
OnlyP1       == {<<h1, p1>>}
Limits       == [p \in Problems |-> [g \in Gears |-> IF g = g1 THEN 1 ELSE 2]]

(* Locks: by problem for homework requests, by user for public ones; a     *)
(* collision of everything on one lock is the constant function.           *)
ByProblem    == [s \in Homeworks \X Problems |-> IF s[2] = p1 THEN 1 ELSE 2]
ByUser       == [s \in Problems \X Users |-> IF s[2] = u1 THEN 2 ELSE 3]
Colliding    == [s \in Problems \X Users |-> 1]

Sym == Permutations(Reqs)
=============================================================================
