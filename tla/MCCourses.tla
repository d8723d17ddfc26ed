------------------------------ MODULE MCCourses ------------------------------
(* Instances of CourseRaces for TLC.                                           *)
EXTENDS CourseRaces, TLC

CONSTANTS q1, q2, q3, s1, s2, ta, ad, p1, p2, old, oldhw

Roles == (s1 :> 1) @@ (s2 :> 1) @@ (ta :> 2) @@ (ad :> 3)
Members == [students |-> {s1}, tas |-> {ta}]

Blank(kind, caller) ==
    [kind |-> kind, caller |-> caller, course |-> None, user |-> None, side |-> None,
     hw |-> None, note |-> None, name |-> "", members |-> Members, problems |-> {},
     status |-> 0]
On(kind, caller, k) == [Blank(kind, caller) EXCEPT !.course = k]
Member(kind, k, side, u) == [On(kind, u, k) EXCEPT !.side = side, !.user = u]
Hw(kind, h, ps) == [On(kind, ta, old) EXCEPT !.hw = h, !.problems = ps]
Update(caller, side, us) ==
    [On("update", caller, old) EXCEPT !.members[side] = us, !.status = 1]

Enrolments == {Member("enrol", old, "students", s1), Member("enrol", old, "students", s2)}
Notices == {[On("notice", ta, old) EXCEPT !.name = "n"]}

(* Every handler on the old course, and what can be asked of the course,   *)
(* homework or notice that the first request creates.                      *)
AllInputs ==
    Enrolments \cup Notices \cup
    {[Blank("create", ta) EXCEPT !.name = "new"],
     [Blank("password", s2) EXCEPT !.user = s2],
     On("delete", ta, old), On("delete", ad, q1),
     Update(ta, "students", {s2}), Update(ad, "tas", {}), Update(s1, "students", {}),
     Member("add", old, "students", s2), Member("add", q1, "students", s2),
     Member("drop", old, "students", s1), Member("drop", old, "tas", ta),
     Member("enrol", q1, "students", s2),
     Hw("hwcreate", None, {p1, p2}), Hw("hwdelete", oldhw, {}), Hw("hwdelete", q1, {}),
     Hw("hwupdate", oldhw, {p2}), Hw("hwset", oldhw, {}),
     [Blank("unnotice", ad) EXCEPT !.note = q1]}
==============================================================================
