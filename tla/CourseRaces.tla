------------------------------ MODULE CourseRaces ------------------------------
(***************************************************************************)
(* Courses with a history of the overlaps that its handlers do not guard   *)
(* against, and what holds in spite of them.  Any requests may overlap, at *)
(* every statement; the history only watches:                              *)
(*   - a row that was saved as a whole over what another request had       *)
(*     written to it since it was read;                                    *)
(*   - a course and a user that two requests were changing at once, other  *)
(*     than by enrolments, or whose course was not found again by the      *)
(*     request that made it, or found in place of another;                 *)
(*   - a homework that one request was updating while another was making   *)
(*     or changing it.                                                     *)
(* The properties say that nothing else brings the tables apart, and that  *)
(* what is touched by one of these brings apart nothing but itself.        *)
(***************************************************************************)
EXTENDS Courses

VARIABLES
    cread, uread,  \* the course row and the user row of a request, as it read them
    lost,          \* the course rows and user rows that were overwritten
    crossed,       \* pairs of a course and a user
    twice          \* homeworks

history == <<cread, uread, lost, crossed, twice>>

RInit ==
    /\ Init
    /\ cread = [r \in Reqs |-> None] /\ uread = [r \in Reqs |-> None]
    /\ lost = {} /\ crossed = {} /\ twice = {}

-----------------------------------------------------------------------------
(* The memberships that a request is about: the course and its users.      *)
UsersOf(c) ==
    CASE c.kind = "create" -> c.members["students"] \cup c.members["tas"]
      [] c.kind \in {"update", "delete"} -> Users
      [] c.kind \in {"add", "drop", "enrol"} -> {c.user}
      [] OTHER -> {}
CourseOf(r, c) == IF c.kind = "create" THEN r ELSE c.course
About(r, c) == {CourseOf(r, c)} \X UsersOf(c)

Changing(m) == {q \in Reqs : Active(q) /\ m \in About(q, inp[q])}
Enrols(q) == inp[q].kind = "enrol"

RArrive(r, c) ==
    /\ Arrive(r, c)
    /\ crossed' = crossed \cup {m \in About(r, c) :
                      \E q \in Changing(m) : ~(c.kind = "enrol" /\ Enrols(q))}
    /\ UNCHANGED <<cread, uread, lost, twice>>

(* A request that makes a course and goes on with another one, or with     *)
(* none, because this one has changed.                                     *)
RFindCourse(r) ==
    /\ FindCourse(r)
    /\ LET k == crow'[r].id IN
          /\ cread' = [cread EXCEPT ![r] = courses[k]]
          /\ crossed' = crossed \cup (IF k = r THEN {} ELSE {r, k} \X Users)
    /\ UNCHANGED <<uread, lost, twice>>

RGivesUp(r) ==
    /\ GivesUp(r)
    /\ crossed' = crossed \cup (IF pc[r] = "find" THEN {r} \X Users ELSE {})
    /\ UNCHANGED <<cread, uread, lost, twice>>

RReadCourse(r) ==
    /\ ReadCourse(r) \/ ReadSpell(r)
    /\ cread' = [cread EXCEPT ![r] = courses[inp[r].course]]
    /\ UNCHANGED <<uread, lost, crossed, twice>>

RSaveCourse(r) ==
    /\ SaveCourse(r)
    /\ LET k == crow[r].id IN
          lost' = lost \cup (IF courses[k] \in {None, cread[r]} THEN {} ELSE {<<"courses", k>>})
    /\ UNCHANGED <<cread, uread, crossed, twice>>

RReadUser(r) ==
    /\ ReadUser(r) \/ ReadOwnRow(r)
    /\ uread' = [uread EXCEPT ![r] = IF Done(r)' THEN @ ELSE users[urow'[r].id]]
    /\ UNCHANGED <<cread, lost, crossed, twice>>

RSaveUser(r) ==
    /\ SaveUser(r)
    /\ LET u == urow[r].id IN
          lost' = lost \cup (IF users[u] = uread[r] THEN {} ELSE {<<"users", u>>})
    /\ UNCHANGED <<cread, uread, crossed, twice>>

(* The requests that are making or changing the row of homework h, and     *)
(* have read it; one of an update changes the rows of judgestates too.     *)
Making(h) == {h} \cap {q \in Reqs : Active(q) /\ inp[q].kind = "hwcreate"}
Rewriting(h) == {q \in Reqs : /\ pc[q] \in {"caller", "states", "savehw"}
                              /\ inp[q].kind \in {"hwupdate", "hwset"} /\ inp[q].hw = h
                              /\ inp[q].kind = "hwset" => pc[q] = "savehw"}

RReadHw(r) ==
    /\ ReadHw(r)
    /\ LET h == inp[r].hw
           others == Making(h) \cup Rewriting(h)
           race == \/ inp[r].kind = "hwupdate" /\ others # {}
                   \/ inp[r].kind = "hwset" /\ \E q \in others : inp[q].kind = "hwupdate"
       IN  twice' = twice \cup (IF race THEN {h} ELSE {})
    /\ UNCHANGED <<cread, uread, lost, crossed>>

ROther(r) ==
    /\ \/ Caller(r) \/ InsertCourse(r) \/ RemoveCourse(r) \/ Pull(r)
       \/ InsertInUser(r) \/ InsertInCourse(r)
       \/ InsertHw(r) \/ SaveHw(r) \/ DeleteHw(r) \/ CreateState(r) \/ DeleteState(r)
       \/ InsertNotice(r) \/ FindNotice(r) \/ DeleteNotice(r)
    /\ UNCHANGED history

RServe(r) == \/ RFindCourse(r) \/ RGivesUp(r) \/ RReadCourse(r) \/ RSaveCourse(r)
             \/ RReadUser(r) \/ RSaveUser(r) \/ RReadHw(r) \/ ROther(r)

RNext == \/ \E r \in Reqs : (\E c \in Inputs : RArrive(r, c)) \/ RServe(r)
         \/ Rest /\ UNCHANGED history

RSpec == RInit /\ [][RNext]_<<vars, history>>

-----------------------------------------------------------------------------
(* Properties.                                                             *)

(* The two sides of a membership agree whenever no request about it is     *)
(* served: the course lists the user as often as the user lists the        *)
(* course, at most once, and not at all when the course is not there.      *)
(* Through every handler that writes both lists one after the other,       *)
(* wherever it fails, and enrolments that overlap; only a row that was     *)
(* overwritten, or requests that changed this membership at once, can      *)
(* bring it apart, and then no other membership (course.py, user.py:292).  *)
SidesAgree ==
    \A k \in CourseIds, u \in Users :
        \/ <<k, u>> \in crossed \/ <<"courses", k>> \in lost \/ <<"users", u>> \in lost
        \/ Changing(<<k, u>>) # {}
        \/ \A s \in Sides :
              /\ users[u][s][k] <= 1
              /\ users[u][s][k] = IF courses[k] = None THEN 0 ELSE courses[k].members[s][u]

(* A course lists a homework exactly when the homework is there and its    *)
(* own, unless the homework is just being made or deleted: however members *)
(* and notices of the course, and other homeworks, change at that time, as *)
(* long as none of them has overwritten the course row (homework.py:46).   *)
HomeworksListed ==
    \A k \in CourseIds, h \in HwIds :
        \/ courses[k] = None \/ <<"courses", k>> \in lost
        \/ \E r \in Reqs : /\ Active(r) /\ inp[r].kind \in {"hwcreate", "hwdelete"}
                           /\ HwOf(r, inp[r]) = h
        \/ h \in courses[k].homeworks <=> homeworks[h] # None /\ homeworks[h].course = k

(* A homework that a course lists has exactly one judgestates row for each *)
(* of its problems and none for another problem, unless it is just being   *)
(* updated, or two requests were rewriting it at once: also when the       *)
(* course row was overwritten and brought a homework back, as long as it   *)
(* is there; judgeall and submit take that row for granted                 *)
(* (problem.py:550, 823).                                                  *)
StatesMatch ==
    \A k \in CourseIds : courses[k] # None =>
        \A h \in courses[k].homeworks :
            \/ homeworks[h] = None \/ h \in twice
            \/ \E r \in Rewriting(h) : inp[r].kind = "hwupdate"
            \/ judgestates[h] = Listed(homeworks[h].problems, Problems)

===============================================================================
