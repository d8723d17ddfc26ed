-------------------------------- MODULE Courses --------------------------------
(***************************************************************************)
(* The handlers that keep courses, their members, homeworks and notices    *)
(* (backend/apis/course.py, homework.py, notice.py) and the one that       *)
(* changes a password (user.py), which saves a user row as a whole too.    *)
(*                                                                         *)
(* A membership is stored twice: in a list of the course row and in a list *)
(* of the user row.  An action is one SQL statement with the computation   *)
(* up to the next await, as in Submission.  Rows are read as a whole and   *)
(* saved as a whole, except where the code uses an array function of the   *)
(* database.  A list of ids is the number of times each id is in it.       *)
(***************************************************************************)
EXTENDS Naturals, FiniteSets

CONSTANTS
    Reqs, Users, Problems,
    Role,         \* Role[u]: 1 student, 2 assistant, 3 administrator
    Inputs,       \* what requests may ask for
    OldCourse,    \* a course that is there from the start
    OldMembers,   \* its members on each side
    OldHw,        \* its homework
    OldProblems,  \* the problems of that homework
    None

(* The member lists: students / student_courses and tas / ta_courses.      *)
Sides == {"students", "tas"}

(* A row is named by the request that creates it.                          *)
CourseIds == Reqs \cup {OldCourse}
HwIds == Reqs \cup {OldHw}

Kinds == {"create", "delete", "update", "add", "drop", "enrol", "password",
          "hwcreate", "hwdelete", "hwupdate", "hwset", "notice", "unnotice"}

OldName == "old"
Names == {c.name : c \in Inputs} \cup {OldName}

(* What a request carries: the arguments of its handler, the others None.  *)
Arguments == [kind : Kinds, caller : Users, course : CourseIds \cup {None},
              user : Users \cup {None}, side : Sides \cup {None}, hw : HwIds \cup {None},
              note : Reqs \cup {None}, name : Names, members : [Sides -> SUBSET Users],
              problems : SUBSET Problems, status : 0..1]

(* Rows of the tables.                                                     *)
Rows == [name : Names, status : 0..1, homeworks : SUBSET HwIds, notices : SUBSET Reqs,
         spell : BOOLEAN, members : [Sides -> [Users -> Nat]]]
HwRows == [course : CourseIds, problems : SUBSET Problems, open : 0..1]

ASSUME CoursesAssumption ==
    /\ IsFiniteSet(Reqs) /\ IsFiniteSet(Users)
    /\ Role \in [Users -> 1..3]
    /\ OldMembers \in [Sides -> SUBSET Users] /\ OldProblems \subseteq Problems
    /\ Inputs \subseteq Arguments
    /\ \A c \in Inputs :
          /\ c.kind \notin {"create", "password", "unnotice"} => c.course # None
          /\ c.kind \in {"add", "drop", "enrol", "password"} => c.user # None
          /\ c.kind \in {"add", "drop"} => c.side # None
          /\ c.kind \in {"hwdelete", "hwupdate", "hwset"} => c.hw # None
          /\ c.kind = "unnotice" => c.note # None
    /\ OldCourse \notin Reqs /\ OldHw \notin Reqs
    /\ None \notin CourseIds \cup HwIds \cup Users \cup Inputs
    /\ None \notin Sides /\ None \notin Rows /\ None \notin HwRows

VARIABLES
    courses, users, homeworks, notices,   \* the tables
    judgestates,  \* the number of rows of each problem of each homework
    pc, inp,      \* the next statement of a request; what it asks for
    crow,         \* target_course, course: a course row in memory, its id
    urow,         \* student, TA, obj: a user row in memory, its id
    hrow,         \* target_homework
    todo,         \* user rows still to be changed, and how
    states,       \* judgestates rows still to be created and deleted
    answer        \* what was answered

tables == <<courses, users, homeworks, judgestates, notices>>
locals == <<crow, urow, hrow, todo, states>>
vars == <<tables, pc, inp, locals, answer>>

Listed(ids, all) == [x \in all |-> IF x \in ids THEN 1 ELSE 0]

NewCourse(name, members) ==
    [name |-> name, status |-> 0, homeworks |-> {}, notices |-> {},
     spell |-> FALSE, members |-> [s \in Sides |-> Listed(members[s], Users)]]

Init ==
    /\ courses = [k \in CourseIds |->
          IF k = OldCourse
          THEN [NewCourse(OldName, OldMembers) EXCEPT !.homeworks = {OldHw}, !.spell = TRUE]
          ELSE None]
    /\ users = [u \in Users |-> [s \in Sides |->
          Listed({k \in {OldCourse} : u \in OldMembers[s]}, CourseIds)]]
    /\ homeworks = [h \in HwIds |-> IF h = OldHw
          THEN [course |-> OldCourse, problems |-> OldProblems, open |-> 1] ELSE None]
    /\ judgestates = [h \in HwIds |-> [p \in Problems |->
          IF h = OldHw /\ p \in OldProblems THEN 1 ELSE 0]]
    /\ notices = [n \in Reqs |-> None]
    /\ pc = [r \in Reqs |-> "new"]
    /\ inp = [r \in Reqs |-> None]
    /\ crow = [r \in Reqs |-> None]
    /\ urow = [r \in Reqs |-> None]
    /\ hrow = [r \in Reqs |-> None]
    /\ todo = [r \in Reqs |-> {}]
    /\ states = [r \in Reqs |-> [create |-> {}, delete |-> {}]]
    /\ answer = [r \in Reqs |-> None]

-----------------------------------------------------------------------------
(* Control.  A label is the next statement of a request.                   *)
Done(r) == pc[r] = "done"
Active(r) == pc[r] \notin {"new", "done"}
At(r, label, kind) == pc[r] = label /\ inp[r].kind = kind

Finish(r, how) == /\ pc' = [pc EXCEPT ![r] = "done"]
                  /\ answer' = [answer EXCEPT ![r] = how]
Go(r, label) == IF label = "done" THEN Finish(r, "ok")
                ELSE pc' = [pc EXCEPT ![r] = label] /\ UNCHANGED answer

(* An exception or a refusal: what was done before stays done.             *)
Fail(r) == Finish(r, "failed") /\ UNCHANGED <<tables, inp, locals>>

(* The homework a request is about.                                        *)
HwKinds == {"hwcreate", "hwdelete", "hwupdate", "hwset"}
HwOf(r, c) == IF c.kind = "hwcreate" THEN r ELSE c.hw

First(c) == CASE c.kind \in {"add", "drop", "notice"} -> "readcourse"
              [] c.kind = "password" -> "user"
              [] c.kind = "hwupdate" -> "readhw"
              [] OTHER -> "caller"

AfterCaller(kind) == CASE kind = "create" -> "insert"
                       [] kind \in {"delete", "update"} -> "readcourse"
                       [] kind = "enrol" -> "readspell"
                       [] kind = "password" -> "saveuser"
                       [] kind = "hwcreate" -> "inserthw"
                       [] kind \in {"hwdelete", "hwset"} -> "readhw"
                       [] kind = "notice" -> "insertnotice"
                       [] kind = "unnotice" -> "deletenotice"

(* The loops over members: create and update end with the course row.      *)
Loop(r, left) == IF left # {} THEN "user"
                 ELSE IF inp[r].kind \in {"create", "update"} THEN "savecourse" ELSE "done"

(* The loops over problems.                                                *)
StatesLoop(r, left) == IF left.create \cup left.delete # {} THEN "states"
                       ELSE IF inp[r].kind = "hwcreate" THEN "savecourse" ELSE "savehw"

(* An id is known once its row is inserted.  Only the creation of a        *)
(* homework does not look whether its course is there.                     *)
Inserted(k) == k \in Reqs => inp[k] # None /\ (inp[k].kind = "create" => pc[k] \notin {"caller", "insert"})

(* The handlers take the course of a homework from its row: requests about *)
(* one homework are about one course.                                      *)
NamesCourse(r, c) ==
    /\ c.kind \in HwKinds /\ c.hw = OldHw => c.course = OldCourse
    /\ \A q \in Reqs :
          /\ inp[q] # None /\ inp[q].kind \in HwKinds /\ c.kind \in HwKinds
          /\ HwOf(q, inp[q]) = HwOf(r, c)
          => inp[q].course = c.course

Arrive(r, c) ==
    /\ pc[r] = "new"
    /\ NamesCourse(r, c)
    /\ c.kind = "hwcreate" => Inserted(c.course)
    /\ inp' = [inp EXCEPT ![r] = c]
    /\ Go(r, First(c))
    /\ UNCHANGED <<tables, locals>>

-----------------------------------------------------------------------------
(* Authority.                                                              *)
Teaches(u, k) == users[u]["tas"][k] > 0

Permitted(r) ==
    LET c == inp[r]
        role == Role[c.caller]
    IN  CASE c.kind \in {"create", "delete"} -> role >= 2
          [] c.kind \in {"update", "hwupdate"} -> role = 3 \/ Teaches(c.caller, c.course)
          [] c.kind \in {"hwcreate", "hwdelete", "hwset"} ->
                 role = 3 \/ (role = 2 /\ Teaches(c.caller, c.course))
          [] c.kind = "enrol" -> role = 1 /\ c.caller = c.user
          [] c.kind = "password" -> c.caller = c.user
          [] c.kind = "notice" -> role = 3 \/ (role = 2 /\ crow[r].row.members["tas"][c.caller] > 0)
          [] c.kind = "unnotice" -> role = 3

Caller(r) ==
    /\ pc[r] = "caller"
    /\ Permitted(r)
    /\ Go(r, IF inp[r].kind = "hwupdate" THEN StatesLoop(r, states[r])
             ELSE AfterCaller(inp[r].kind))
    /\ UNCHANGED <<tables, inp, locals>>

-----------------------------------------------------------------------------
(* Rows.                                                                   *)
(* UPDATE ... WHERE id changes nothing when the row is not there.          *)
SaveRow(k, row) == courses' = [courses EXCEPT ![k] = IF @ = None THEN None ELSE row]

(* sub_list: the set difference, which also drops repetitions.             *)
SubList(ids, id) == [k \in DOMAIN ids |-> IF k = id \/ ids[k] = 0 THEN 0 ELSE 1]

(* A change of a user row: list.append, list.remove or sub_list.           *)
Changed(row, t, id) ==
    CASE t.op = "add" -> [row EXCEPT ![t.side][id] = @ + 1]
      [] t.op = "drop" -> [row EXCEPT ![t.side][id] = @ - 1]
      [] t.op = "sub" -> [row EXCEPT ![t.side] = SubList(@, id)]

(* The same change for each user of each side.                             *)
Changes(op, members) == {t \in [user : Users, side : Sides, op : {op}] : t.user \in members[t.side]}

(* The loops change students before assistants, added before removed.      *)
Rank(t) == (IF t.side = "students" THEN 0 ELSE 2) + (IF t.op = "add" THEN 0 ELSE 1)
Foremost(ts) == {t \in ts : \A o \in ts : Rank(t) <= Rank(o)}

(* What the request makes of the course row it has read: the row to keep   *)
(* in memory, the user rows to change after it, and the next statement.    *)
Keep(r, row, changes, label) ==
    /\ crow' = [crow EXCEPT ![r] = [id |-> inp[r].course, row |-> row]]
    /\ todo' = [todo EXCEPT ![r] = changes]
    /\ Go(r, label)

-----------------------------------------------------------------------------
(* FAULTS: plausible mistakes, one for each property.                      *)

(* Removing without looking whether the member is there.                   *)
UseForMemberFault(r, row) ==
    LET c == inp[r]
        t == [user |-> c.user, side |-> c.side, op |-> c.kind]
    IN  /\ c.kind \in {"add", "drop"}
        /\ Keep(r, [row EXCEPT !.members[c.side][c.user] = IF c.kind = "add" THEN 1 ELSE @ - 1],
                {t}, "savecourse")

(* The rows of the members that are removed are forgotten.                 *)
UseForUpdateFault(r, row) ==
    /\ inp[r].kind = "update"
    /\ LET was == [s \in Sides |-> {u \in Users : row.members[s][u] > 0}]
           left == Changes("add", [s \in Sides |-> inp[r].members[s] \ was[s]])
       IN  Keep(r, [row EXCEPT !.members = [s \in Sides |-> Listed(inp[r].members[s], Users)],
                               !.status = inp[r].status],
                left, Loop(r, left))

(* A deleted homework stays in the list of its course.                     *)
UseForListFault(r, row) ==
    \/ /\ inp[r].kind = "hwcreate"
       /\ Keep(r, [row EXCEPT !.homeworks = @ \cup {r}], {}, StatesLoop(r, states[r]))
    \/ /\ inp[r].kind \in {"hwdelete", "notice"}
       /\ Keep(r, row, {}, IF inp[r].kind = "notice" THEN "caller" ELSE "savecourse")

(* The judgestates rows of removed problems stay.                          *)
UseForHwUpdateFault(r, row) ==
    /\ inp[r].kind = "hwupdate"
    /\ hrow' = [hrow EXCEPT ![r] = [row EXCEPT !.problems = inp[r].problems]]
    /\ states' = [states EXCEPT ![r] = [create |-> inp[r].problems \ row.problems,
                                        delete |-> {}]]
    /\ Go(r, "caller")

-----------------------------------------------------------------------------
(* Statements on course rows.                                              *)
InsertCourse(r) ==
    /\ At(r, "insert", "create")
    /\ courses' = [courses EXCEPT ![r] = NewCourse(inp[r].name, inp[r].members)]
    /\ Go(r, "find")
    /\ UNCHANGED <<users, homeworks, notices, judgestates, inp, locals>>

(* The search by the arguments may return any course that has them.        *)
Alike(r) ==
    {k \in CourseIds : /\ courses[k] # None
                       /\ courses[k].name = inp[r].name
                       /\ \A s \in Sides : courses[k].members[s] = Listed(inp[r].members[s], Users)}

FindCourse(r) ==
    /\ At(r, "find", "create")
    /\ \E k \in Alike(r) :
          crow' = [crow EXCEPT ![r] = [id |-> k, row |-> [courses[k] EXCEPT !.spell = TRUE]]]
    /\ todo' = [todo EXCEPT ![r] = Changes("add", inp[r].members)]
    /\ Go(r, Loop(r, todo'[r]))
    /\ UNCHANGED <<tables, inp, urow, hrow, states>>

UseForMember(r, row) ==
    LET c == inp[r]
        t == [user |-> c.user, side |-> c.side, op |-> c.kind]
        listed == row.members[c.side][c.user]
    IN  \/ /\ c.kind = "add" /\ listed = 0
           /\ Keep(r, [row EXCEPT !.members[c.side][c.user] = 1], {t}, "savecourse")
        \/ /\ c.kind = "drop" /\ listed > 0
           /\ Keep(r, [row EXCEPT !.members[c.side][c.user] = @ - 1], {t}, "savecourse")
        \/ /\ c.kind \in {"add", "drop"} /\ (c.kind = "add") = (listed > 0)
           /\ Keep(r, row, {}, "done")

(* An assistant deletes only a draft course of its own.                    *)
MayDelete(r, row) ==
    Role[inp[r].caller] = 3 \/ (row.status = 0 /\ row.members["tas"][inp[r].caller] > 0)

UseForUpdate(r, row) ==
    /\ inp[r].kind = "update"
    /\ LET was == [s \in Sides |-> {u \in Users : row.members[s][u] > 0}]
           new == inp[r].members
           left == Changes("add", [s \in Sides |-> new[s] \ was[s]])
                       \cup Changes("sub", [s \in Sides |-> was[s] \ new[s]])
       IN  Keep(r, [row EXCEPT !.members = [s \in Sides |-> Listed(new[s], Users)],
                               !.status = inp[r].status],
                left, Loop(r, left))

UseForList(r, row) ==
    \/ /\ inp[r].kind = "hwcreate"
       /\ Keep(r, [row EXCEPT !.homeworks = @ \cup {r}], {}, StatesLoop(r, states[r]))
    \/ /\ inp[r].kind = "hwdelete" /\ inp[r].hw \in row.homeworks
       /\ Keep(r, [row EXCEPT !.homeworks = @ \ {inp[r].hw}], {}, "savecourse")
    \/ /\ inp[r].kind = "notice"
       /\ Keep(r, row, {}, "caller")

ReadCourse(r) ==
    /\ pc[r] = "readcourse"
    /\ LET row == courses[inp[r].course] IN
          /\ row # None
          /\ \/ UseForMember(r, row) \/ UseForUpdate(r, row) \/ UseForList(r, row)
             \/ /\ inp[r].kind = "delete" /\ MayDelete(r, row)
                /\ Keep(r, row, {}, "remove")
    /\ UNCHANGED <<tables, inp, urow, hrow, states>>

SaveCourse(r) ==
    /\ pc[r] = "savecourse"
    /\ SaveRow(crow[r].id, crow[r].row)
    /\ Go(r, CASE inp[r].kind \in {"add", "drop"} -> "user"
               [] inp[r].kind = "hwdelete" -> "deletehw"
               [] OTHER -> "done")
    /\ UNCHANGED <<users, homeworks, notices, judgestates, inp, locals>>

(* The delete statement, then one array_remove for each member.            *)
RemoveCourse(r) ==
    /\ At(r, "remove", "delete")
    /\ courses' = [courses EXCEPT ![inp[r].course] = None]
    /\ todo' = [todo EXCEPT ![r] =
          {t \in [user : Users, side : Sides, op : {"pull"}] :
              crow[r].row.members[t.side][t.user] > 0}]
    /\ Go(r, IF todo'[r] = {} THEN "done" ELSE "pull")
    /\ UNCHANGED <<users, homeworks, notices, judgestates, inp, crow, urow, hrow, states>>

Pull(r) ==
    /\ At(r, "pull", "delete")
    /\ \E t \in Foremost(todo[r]) :
          /\ users' = [users EXCEPT ![t.user][t.side][inp[r].course] = 0]
          /\ todo' = [todo EXCEPT ![r] = @ \ {t}]
    /\ Go(r, IF todo'[r] = {} THEN "done" ELSE "pull")
    /\ UNCHANGED <<courses, homeworks, notices, judgestates, inp, crow, urow, hrow, states>>

-----------------------------------------------------------------------------
(* Statements on user rows.                                                *)
(* list.remove of a course the user row does not have fails after the      *)
(* course row is saved.                                                    *)
ReadUser(r) ==
    /\ pc[r] = "user" /\ inp[r].kind # "password"
    /\ \E t \in Foremost(todo[r]) :
          IF t.op = "drop" /\ users[t.user][t.side][crow[r].id] = 0
          THEN Fail(r)
          ELSE /\ urow' = [urow EXCEPT ![r] =
                      [id |-> t.user, row |-> Changed(users[t.user], t, crow[r].id)]]
               /\ todo' = [todo EXCEPT ![r] = @ \ {t}]
               /\ Go(r, "saveuser")
               /\ UNCHANGED <<tables, inp, crow, hrow, states>>

ReadOwnRow(r) ==
    /\ At(r, "user", "password")
    /\ urow' = [urow EXCEPT ![r] = [id |-> inp[r].user, row |-> users[inp[r].user]]]
    /\ Go(r, "caller")
    /\ UNCHANGED <<tables, inp, crow, hrow, todo, states>>

SaveUser(r) ==
    /\ pc[r] = "saveuser"
    /\ users' = [users EXCEPT ![urow[r].id] = urow[r].row]
    /\ Go(r, Loop(r, todo[r]))
    /\ UNCHANGED <<courses, homeworks, notices, judgestates, inp, locals>>

-----------------------------------------------------------------------------
(* Enrolment by the spell of a course: two statements of the database, each *)
(* of which adds an id to a list that does not have it.                    *)
Once(n) == IF n = 0 THEN 1 ELSE n
HasSpell(row) == IF row = None THEN FALSE ELSE row.spell

ReadSpell(r) ==
    /\ At(r, "readspell", "enrol")
    /\ HasSpell(courses[inp[r].course])
    /\ Keep(r, courses[inp[r].course], {}, "insuser")
    /\ UNCHANGED <<tables, inp, urow, hrow, states>>

InsertInUser(r) ==
    /\ At(r, "insuser", "enrol")
    /\ users' = [users EXCEPT ![inp[r].user]["students"][crow[r].id] = Once(@)]
    /\ Go(r, "inscourse")
    /\ UNCHANGED <<courses, homeworks, notices, judgestates, inp, locals>>

InsertInCourse(r) ==
    /\ At(r, "inscourse", "enrol")
    /\ LET row == courses[crow[r].id] IN
          SaveRow(crow[r].id, IF row = None THEN None
                              ELSE [row EXCEPT !.members["students"][inp[r].user] = Once(@)])
    /\ Go(r, "done")
    /\ UNCHANGED <<users, homeworks, notices, judgestates, inp, locals>>

-----------------------------------------------------------------------------
(* Statements on homework and judgestates rows.                            *)
InsertHw(r) ==
    /\ At(r, "inserthw", "hwcreate")
    /\ homeworks' = [homeworks EXCEPT ![r] =
          [course |-> inp[r].course, problems |-> inp[r].problems, open |-> 1]]
    /\ states' = [states EXCEPT ![r] = [create |-> inp[r].problems, delete |-> {}]]
    /\ Go(r, "readcourse")
    /\ UNCHANGED <<courses, users, notices, judgestates, inp, crow, urow, hrow, todo>>

(* The two switches, submitable and score_openness.                        *)
UseForSet(r, row) ==
    /\ inp[r].kind = "hwset"
    /\ hrow' = [hrow EXCEPT ![r] = [row EXCEPT !.open = 1 - @]]
    /\ Go(r, "savehw") /\ UNCHANGED states

UseForHwUpdate(r, row) ==
    /\ inp[r].kind = "hwupdate"
    /\ hrow' = [hrow EXCEPT ![r] = [row EXCEPT !.problems = inp[r].problems]]
    /\ states' = [states EXCEPT ![r] = [create |-> inp[r].problems \ row.problems,
                                        delete |-> row.problems \ inp[r].problems]]
    /\ Go(r, "caller")

UseForHwDelete(r, row) ==
    /\ inp[r].kind = "hwdelete"
    /\ hrow' = [hrow EXCEPT ![r] = row]
    /\ Go(r, "readcourse") /\ UNCHANGED states

ReadHw(r) ==
    /\ pc[r] = "readhw"
    /\ LET row == homeworks[inp[r].hw] IN
          row # None /\ (UseForSet(r, row) \/ UseForHwUpdate(r, row) \/ UseForHwDelete(r, row))
    /\ UNCHANGED <<tables, inp, crow, urow, todo>>

SaveHw(r) ==
    /\ pc[r] = "savehw"
    /\ homeworks' = [homeworks EXCEPT ![inp[r].hw] = IF @ = None THEN None ELSE hrow[r]]
    /\ Go(r, "done")
    /\ UNCHANGED <<courses, users, notices, judgestates, inp, locals>>

(* The judgestates rows of the homework stay.                              *)
DeleteHw(r) ==
    /\ At(r, "deletehw", "hwdelete")
    /\ homeworks' = [homeworks EXCEPT ![inp[r].hw] = None]
    /\ Go(r, "done")
    /\ UNCHANGED <<courses, users, notices, judgestates, inp, locals>>

CreateState(r) ==
    /\ pc[r] = "states"
    /\ \E p \in states[r].create :
          /\ judgestates' = [judgestates EXCEPT ![HwOf(r, inp[r])][p] = @ + 1]
          /\ states' = [states EXCEPT ![r].create = @ \ {p}]
    /\ Go(r, StatesLoop(r, states'[r]))
    /\ UNCHANGED <<courses, users, homeworks, notices, inp, crow, urow, hrow, todo>>

DeleteState(r) ==
    /\ At(r, "states", "hwupdate") /\ states[r].create = {}
    /\ \E p \in states[r].delete :
          /\ judgestates' = [judgestates EXCEPT ![inp[r].hw][p] = 0]
          /\ states' = [states EXCEPT ![r].delete = @ \ {p}]
    /\ Go(r, StatesLoop(r, states'[r]))
    /\ UNCHANGED <<courses, users, homeworks, notices, inp, crow, urow, hrow, todo>>

-----------------------------------------------------------------------------
(* Statements on notice rows.                                              *)
NoticeRow(r) == [course |-> inp[r].course, text |-> inp[r].name]
Like(r) == {n \in Reqs : notices[n] = NoticeRow(r)}

InsertNotice(r) ==
    /\ At(r, "insertnotice", "notice")
    /\ notices' = [notices EXCEPT ![r] = NoticeRow(r)]
    /\ Go(r, "findnotice")
    /\ UNCHANGED <<courses, users, homeworks, judgestates, inp, locals>>

FindNotice(r) ==
    /\ At(r, "findnotice", "notice")
    /\ \E n \in Like(r) : crow' = [crow EXCEPT ![r].row.notices = @ \cup {n}]
    /\ Go(r, "savecourse")
    /\ UNCHANGED <<tables, inp, urow, hrow, todo, states>>

(* The id stays in the list of the course.                                 *)
DeleteNotice(r) ==
    /\ At(r, "deletenotice", "unnotice")
    /\ notices' = [notices EXCEPT ![inp[r].note] = None]
    /\ Go(r, "done")
    /\ UNCHANGED <<courses, users, homeworks, judgestates, inp, locals>>

-----------------------------------------------------------------------------
(* [0] of no rows, a refusal, or list.remove of a homework not listed.     *)
Useless(r, row) ==
    IF row = None THEN TRUE
    ELSE CASE inp[r].kind = "delete" -> ~MayDelete(r, row)
           [] inp[r].kind = "hwdelete" -> inp[r].hw \notin row.homeworks
           [] OTHER -> FALSE

GivesUp(r) ==
    /\ \/ pc[r] = "caller" /\ ~Permitted(r)
       \/ pc[r] = "readcourse" /\ Useless(r, courses[inp[r].course])
       \/ pc[r] = "readspell" /\ ~HasSpell(courses[inp[r].course])
       \/ pc[r] = "readhw" /\ homeworks[inp[r].hw] = None
       \/ pc[r] = "find" /\ Alike(r) = {}
       \/ pc[r] = "findnotice" /\ Like(r) = {}
    /\ Fail(r)

Serve(r) ==
    \/ Caller(r) \/ GivesUp(r)
    \/ InsertCourse(r) \/ FindCourse(r) \/ ReadCourse(r) \/ SaveCourse(r)
    \/ RemoveCourse(r) \/ Pull(r)
    \/ ReadUser(r) \/ ReadOwnRow(r) \/ SaveUser(r)
    \/ ReadSpell(r) \/ InsertInUser(r) \/ InsertInCourse(r)
    \/ InsertHw(r) \/ ReadHw(r) \/ SaveHw(r) \/ DeleteHw(r)
    \/ CreateState(r) \/ DeleteState(r)
    \/ InsertNotice(r) \/ FindNotice(r) \/ DeleteNotice(r)

Rest == (\A r \in Reqs : Done(r)) /\ UNCHANGED vars

Next == (\E r \in Reqs : (\E c \in Inputs : Arrive(r, c)) \/ Serve(r)) \/ Rest

Spec == Init /\ [][Next]_vars

-----------------------------------------------------------------------------
(* Properties.                                                             *)

Labels == {"new", "done", "caller", "insert", "find", "readcourse", "savecourse",
           "remove", "pull", "user", "saveuser", "readspell", "insuser", "inscourse",
           "inserthw", "readhw", "savehw", "deletehw", "states",
           "insertnotice", "findnotice", "deletenotice"}
UserRows == [Sides -> [CourseIds -> Nat]]
Tasks == [user : Users, side : Sides, op : {"add", "drop", "sub", "pull"}]

(* Every variable has its shape: tables by id, and for each request its    *)
(* input, the rows it holds and what its loops have left.                  *)
TypeOK ==
    /\ courses \in [CourseIds -> Rows \cup {None}]
    /\ users \in [Users -> UserRows]
    /\ homeworks \in [HwIds -> HwRows \cup {None}]
    /\ notices \in [Reqs -> [course : CourseIds, text : Names] \cup {None}]
    /\ judgestates \in [HwIds -> [Problems -> Nat]]
    /\ pc \in [Reqs -> Labels]
    /\ inp \in [Reqs -> Inputs \cup {None}]
    /\ crow \in [Reqs -> [id : CourseIds, row : Rows] \cup {None}]
    /\ urow \in [Reqs -> [id : Users, row : UserRows] \cup {None}]
    /\ hrow \in [Reqs -> HwRows \cup {None}]
    /\ todo \in [Reqs -> SUBSET Tasks]
    /\ states \in [Reqs -> [create : SUBSET Problems, delete : SUBSET Problems]]
    /\ answer \in [Reqs -> {"ok", "failed", None}]
===============================================================================
