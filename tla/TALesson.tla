------------------------------- MODULE TALesson -------------------------------
(***************************************************************************)
(* The course page of an assistant: class-component/TA-lesson.js with the  *)
(* notices, homework cards and the homework form of                        *)
(* TA-lesson-component.js.                                                 *)
(*                                                                         *)
(* A load asks for the course, then for its notices and homeworks, then    *)
(* for the problems of each homework and their judge states: a tree of     *)
(* requests whose answers come in any order and are added to lists in the  *)
(* state of the page.  Every successful change loads again.  An answer is  *)
(* computed by the backend at some moment between the request and the      *)
(* arrival: hist is the sequence of the states of the tables, and a read   *)
(* may answer with any of them since it was sent.                          *)
(***************************************************************************)
EXTENDS Naturals, Sequences, FiniteSets

CONSTANTS
    Homeworks, Problems, Notices,
    Html,        \* problems judged by hand
    FirstDb,     \* what the tables hold at the start
    MaxClicks,   \* bounds the clicks that send a change or leave a form, and the mishaps
    MaxChanges,  \* bounds the changes of the tables
    None

Rows == [problems : SUBSET Problems, deadline : 0..1, score_openness : 0..1, submitable : 0..1]
Tables == [homeworks : [Homeworks -> Rows \cup {None}], notices : SUBSET Notices,
           judging : [Homeworks \X Problems -> 0..2]]

(* A homework form: how often it lists each problem, the deadline it began *)
(* with, and the load after which it was mounted; for the properties the   *)
(* problems that the homework had (base), those deleted since, and those   *)
(* that the page had not heard of when the form was mounted (missing).     *)
FormStates == [problems : [Problems -> Nat], deadline : 0..1, base : SUBSET Problems,
               removed : SUBSET Problems, load : Nat, missing : SUBSET Problems]

ASSUME LessonAssumption ==
    /\ Html \subseteq Problems /\ FirstDb \in Tables
    /\ MaxClicks \in Nat /\ MaxChanges \in Nat
    /\ None \notin Rows \cup FormStates /\ {"no", "new"} \cap Homeworks = {}
    /\ IsFiniteSet(Notices) /\ IsFiniteSet(Homeworks)

VARIABLES
    hist,           \* the tables, after every change
    now,            \* the time of the last render: 1 when the deadlines 0 have passed
    known,          \* props.id is that of the assistant (and not -1)
    infoitems, homeworkitems, problemitems,  \* state of the page
    selected,       \* current_selected: the panel
    newnotice,      \* clickNewnotice
    newhomework,    \* clickNewhomework: "no", "new" or the homework
    form,           \* state of the mounted homework form, or None
    net,            \* requests under way
    loads, clicks,
    crashed,        \* an exception in render took the page down
    overlapped, lost, others,  \* history, for the properties
    doubled         \* history: problems that were being added twice

pageVars == <<infoitems, homeworkitems, problemitems>>
uiVars == <<known, selected, newnotice, newhomework>>
ghosts == <<overlapped, lost, others, doubled>>
vars == <<hist, now, pageVars, uiVars, form, net, loads, clicks, crashed, ghosts>>

Db == hist[Len(hist)]
Existing(d) == {h \in Homeworks : d.homeworks[h] # None}
Reads == {"course", "notice", "homework", "problem", "judgestate"}

(* A problem of the page: what is known of it, and the shown judge state.  *)
Absent == [row |-> FALSE, status |-> None]
Shown(p) == problemitems[p] # Absent

Read(r, api, id) == [api |-> api, id |-> id, load |-> r.load, at |-> Len(hist)]
Write(api, id, arg) == [api |-> api, id |-> id, arg |-> arg, n |-> clicks]

Init ==
    /\ hist = <<FirstDb>> /\ now = 0
    /\ known = FALSE /\ selected \in {"1", "2", "4", "5"}
    /\ infoitems = {} /\ homeworkitems = {} /\ problemitems = [p \in Problems |-> Absent]
    /\ newnotice = FALSE /\ newhomework = "no" /\ form = None
    /\ net = {} /\ loads = 0 /\ clicks = 0 /\ crashed = FALSE
    /\ overlapped = FALSE /\ lost = FALSE /\ others = FALSE /\ doubled = {}

-----------------------------------------------------------------------------
(* query_data: empty lists and a new question for the course.  `rest` is   *)
(* what is under way besides.                                              *)
Load(rest) ==
    /\ loads' = loads + 1
    /\ infoitems' = {} /\ homeworkitems' = {} /\ problemitems' = [p \in Problems |-> Absent]
    /\ net' = rest \cup {Read([load |-> loads + 1], "course", None)}
    /\ overlapped' = (overlapped \/ \E r \in rest : r.api \in Reads)

(* render mounts the form when the homework that is edited is in the list. *)
(* The form takes its problems from the page then and never again; a list  *)
(* without the homework unmounts it.  Its table maps over the languages of *)
(* each problem: one of which only the judge state is known has none.      *)
NewForm == [problems |-> [p \in Problems |-> 0], deadline |-> 1, base |-> {},
            removed |-> {}, load |-> loads', missing |-> {}]

Unheard == IF lost THEN Problems ELSE {r.id : r \in {q \in net' : q.api = "problem"}}

EditForm(row, items) ==
    LET has == {p \in row.problems : items[p] # Absent}
    IN  [problems |-> [p \in Problems |-> IF p \in has THEN 1 ELSE 0],
         deadline |-> row.deadline, base |-> row.problems,
         removed |-> {}, load |-> loads', missing |-> Unheard]

Render ==
    LET edited == {i \in homeworkitems' : i.id = newhomework'}
        gone == edited = {} /\ newhomework' # "new"
    IN  /\ form' \in IF gone THEN {None}
                     ELSE IF form # None THEN {form}
                     ELSE IF newhomework' = "new" THEN {NewForm}
                     ELSE {EditForm(i.row, problemitems') : i \in edited}
        /\ crashed' = (form = None /\ form' # None
                       /\ \E p \in Problems : form'.problems[p] > 0 /\ ~problemitems'[p].row)

-----------------------------------------------------------------------------
(* The id of the assistant arrives: componentWillUpdate loads.             *)
Restored ==
    /\ ~known /\ known' = TRUE /\ Load(net)
    /\ UNCHANGED <<hist, now, selected, newnotice, newhomework, clicks, lost, others, doubled>>
    /\ Render

Answer(r, api) ==
    /\ r.api = api
    /\ UNCHANGED <<hist, now, uiVars, loads, clicks, overlapped, lost, others, doubled>>

Ask(r, asked) == net' = (net \ {r}) \cup asked

CourseAnswer(r, d) ==
    /\ Answer(r, "course") /\ UNCHANGED <<pageVars, form, crashed>>
    /\ Ask(r, {Read(r, "notice", n) : n \in d.notices}
              \cup {Read(r, "homework", h) : h \in Existing(d)})

(* The answer joins the list the page has now, whatever load asked.        *)
NoticeAnswer(r, d) ==
    /\ Answer(r, "notice") /\ Ask(r, {})
    /\ infoitems' = infoitems \cup {[id |-> r.id, load |-> r.load]}
    /\ UNCHANGED <<homeworkitems, problemitems, form, crashed>>

HomeworkAnswer(r, d) ==
    /\ Answer(r, "homework")
    /\ IF d.homeworks[r.id] = None THEN Ask(r, {}) /\ UNCHANGED homeworkitems
       ELSE LET row == d.homeworks[r.id] IN
            /\ homeworkitems' = homeworkitems \cup {[id |-> r.id, load |-> r.load, row |-> row]}
            /\ Ask(r, {Read(r, "problem", p) : p \in row.problems}
                      \cup {Read(r, "judgestate", <<r.id, p>>) : p \in row.problems})
    /\ UNCHANGED <<infoitems, problemitems>>
    /\ Render

ProblemAnswer(r, d) ==
    /\ Answer(r, "problem") /\ Ask(r, {})
    /\ problemitems' = [problemitems EXCEPT ![r.id].row = TRUE]
    /\ UNCHANGED <<infoitems, homeworkitems, form, crashed>>

(* The row of judgestates goes when the problem leaves the homework; the   *)
(* callback then raises, and does nothing.                                 *)
StateAnswer(r, d) ==
    /\ r.api = "judgestate" /\ Answer(r, "judgestate") /\ Ask(r, {})
    /\ LET h == r.id[1]  p == r.id[2]
           there == d.homeworks[h] # None /\ p \in d.homeworks[h].problems
       IN  problemitems' = IF there THEN [problemitems EXCEPT ![p].status = d.judging[r.id]]
                           ELSE problemitems
    /\ UNCHANGED <<infoitems, homeworkitems, form, crashed>>

-----------------------------------------------------------------------------
(* Clicks.                                                                 *)
Idle == UNCHANGED <<hist, now, pageVars, loads, overlapped, lost, others>>
Send(r) == clicks < MaxClicks /\ clicks' = clicks + 1 /\ net' = net \cup {r}
Over(row) == row.deadline < now
Panel(k) == newhomework = "no" /\ selected = k

(* The cards of a panel: homeworks before, after and whatever the deadline.*)
Cards ==
    {i \in homeworkitems :
        /\ newhomework = "no"
        /\ \/ selected = "1" /\ ~Over(i.row)
           \/ selected = "2" /\ Over(i.row)
           \/ selected = "3"}

Menu(k) ==
    /\ selected' = k /\ k # selected /\ Idle
    /\ UNCHANGED <<known, newnotice, newhomework, form, net, clicks, crashed, doubled>>

ClickNewNotice ==
    /\ Panel("4") /\ newnotice' = ~newnotice /\ Idle  \* or cancel it
    /\ UNCHANGED <<known, selected, newhomework, form, net, clicks, crashed, doubled>>

PostNotice(n) ==
    /\ Panel("4") /\ newnotice /\ n \notin Db.notices
    /\ Send(Write("create_notice", n, None)) /\ Idle
    /\ UNCHANGED <<uiVars, form, crashed, doubled>>

ClickNewHomework ==
    /\ Panel("1") \/ Panel("3")
    /\ newhomework' = "new" /\ Idle
    /\ UNCHANGED <<known, selected, newnotice, net, clicks, doubled>>
    /\ Render

ClickEdit(i) ==
    /\ i \in Cards /\ ~Over(i.row) /\ newhomework' = i.id /\ Idle
    /\ net' = net
    /\ UNCHANGED <<known, selected, newnotice, clicks, doubled>>
    /\ Render

(* FAULT: the value is counted up.                                         *)
ToggleFault(i, field) ==
    /\ i \in Cards /\ Over(i.row) /\ Idle
    /\ Send(Write(field, i.id, 1 + i.row[field]))
    /\ UNCHANGED <<uiVars, form, crashed, doubled>>

(* The two buttons under a card that is over: the request says what the    *)
(* button says.                                                            *)
Toggle(i, field) ==
    /\ i \in Cards /\ Over(i.row) /\ Idle
    /\ Send(Write(field, i.id, 1 - i.row[field]))
    /\ UNCHANGED <<uiVars, form, crashed, doubled>>

(* Offered unless the page knows that the problem is judged by hand, or    *)
(* being judged.                                                           *)
JudgeAll(i, p) ==
    /\ i \in Cards /\ Over(i.row) /\ p \in i.row.problems /\ Idle
    /\ problemitems[p].status \in {0, 2} /\ ~(problemitems[p].row /\ p \in Html)
    /\ Send(Write("judge_all", <<i.id, p>>, None))
    /\ UNCHANGED <<uiVars, form, crashed, doubled>>

(* For the properties.                                                     *)
AddedAlready(p) == \E r \in net : r.api = "add" /\ r.id = p /\ r.arg = form.load

(* FAULT: a problem is added whatever the list holds.                      *)
AddProblemFault(p) ==
    /\ form # None /\ Idle
    /\ doubled' = IF AddedAlready(p) THEN doubled \cup {p} ELSE doubled
    /\ Send(Write("add", p, form.load))
    /\ UNCHANGED <<uiVars, form, crashed>>

(* Enter in the form: the list is looked at now and added to later.        *)
AddProblem(p) ==
    /\ form # None /\ form.problems[p] = 0 /\ Idle
    /\ doubled' = IF AddedAlready(p) THEN doubled \cup {p} ELSE doubled
    /\ Send(Write("add", p, form.load))
    /\ UNCHANGED <<uiVars, form, crashed>>

DeleteProblem(p) ==
    /\ form # None /\ form.problems[p] > 0 /\ Idle
    /\ form' = [[form EXCEPT !.problems[p] = 0] EXCEPT !.removed = form.removed \cup {p}]
    /\ UNCHANGED <<uiVars, net, clicks, crashed, doubled>>

Listed(f) == {p \in Problems : f.problems[p] > 0}

SaveHomework(h, deadline) ==
    /\ form # None /\ Listed(form) # {} /\ Idle
    /\ IF newhomework = "new" THEN Db.homeworks[h] = None ELSE h = newhomework
    /\ Send(Write(IF newhomework = "new" THEN "create_homework" ELSE "update_homework", h,
                  [form |-> form, deadline |-> deadline]))
    /\ UNCHANGED <<uiVars, form, crashed, doubled>>

(* clickHomeworkCallback: load again and leave the form.                   *)
CancelForm ==
    /\ newhomework # "no" /\ form # None
    /\ clicks < MaxClicks /\ clicks' = clicks + 1
    /\ newhomework' = "no" /\ Load(net)
    /\ UNCHANGED <<hist, now, known, selected, newnotice, lost, others, doubled>>
    /\ Render

-----------------------------------------------------------------------------
(* The backend handles a change, or refuses it.                            *)
Changed(d) == Len(hist) <= MaxChanges /\ hist' = Append(hist, d)
Judged(d, h, ps) == [x \in DOMAIN d.judging |->
                        IF x[1] = h /\ x[2] \notin ps THEN 0 ELSE d.judging[x]]

Rewritten(d, h, row) ==
    [[d EXCEPT !.homeworks[h] = row] EXCEPT !.judging = Judged(d, h, row.problems)]

After(r, d) ==
    LET h == r.id IN
        CASE r.api = "create_notice" -> [d EXCEPT !.notices = d.notices \cup {r.id}]
          [] r.api = "judge_all" -> [d EXCEPT !.judging[r.id] = 1]
          [] r.api = "create_homework" ->
                Rewritten(d, h, [problems |-> Listed(r.arg.form), deadline |-> r.arg.deadline,
                                 score_openness |-> 0, submitable |-> 0])
          [] r.api = "update_homework" ->
                Rewritten(d, h, [[d.homeworks[h] EXCEPT !.problems = Listed(r.arg.form)]
                                    EXCEPT !.deadline = r.arg.deadline])
          [] OTHER -> [d EXCEPT !.homeworks[h][r.api] = r.arg]

Writes == {"create_notice", "judge_all", "create_homework", "update_homework",
           "score_openness", "submitable"}

Handle(r) ==
    /\ r.api \in Writes
    /\ r.api \in {"update_homework", "score_openness", "submitable"} => Db.homeworks[r.id] # None
    /\ r.api = "create_homework" => Db.homeworks[r.id] = None
    /\ r.api = "judge_all" => r.id[1] \in Existing(Db) /\ r.id[2] \in Db.homeworks[r.id[1]].problems
    /\ Changed(After(r, Db)) /\ Ask(r, {[api |-> "done", to |-> r.api, n |-> r.n]})
    /\ UNCHANGED <<now, pageVars, uiVars, form, loads, clicks, crashed, ghosts>>

(* Refused, failed, or lost on the way: a message at most.                 *)
Fail(r) ==
    /\ r.api \notin Reads /\ net' = net \ {r}
    /\ lost' = (lost \/ r.api = "done")
    /\ UNCHANGED <<hist, now, pageVars, uiVars, form, loads, clicks, crashed,
                   overlapped, others, doubled>>

Lose(r) ==
    /\ r.api \in Reads /\ ~lost /\ lost' = TRUE /\ net' = net \ {r}
    /\ UNCHANGED <<hist, now, pageVars, uiVars, form, loads, clicks, crashed,
                   overlapped, others, doubled>>

(* FAULT: the buttons of a card do not load again.                         *)
DoneFault(r) ==
    /\ r.api = "done"
    /\ newnotice' = (newnotice /\ r.to # "create_notice")
    /\ newhomework' = IF r.to \in {"create_homework", "update_homework"} THEN "no" ELSE newhomework
    /\ IF r.to \in {"score_openness", "submitable", "judge_all"}
       THEN net' = net \ {r} /\ UNCHANGED <<pageVars, loads, overlapped>>
       ELSE Load(net \ {r})
    /\ UNCHANGED <<hist, now, known, selected, clicks, lost, others, doubled>>
    /\ Render

(* The callbacks of a change that was made; a homework form, whichever it  *)
(* is by now, is left.                                                     *)
Done(r) ==
    /\ r.api = "done" /\ Load(net \ {r})
    /\ newnotice' = (newnotice /\ r.to # "create_notice")
    /\ newhomework' = IF r.to \in {"create_homework", "update_homework"} THEN "no" ELSE newhomework
    /\ UNCHANGED <<hist, now, known, selected, clicks, lost, others, doubled>>
    /\ Render

(* FAULT: the list becomes the problem.                                    *)
AddAnswerFault(r) ==
    /\ r.api = "add" /\ net' = net \ {r}
    /\ form' = IF form = None THEN form
               ELSE [form EXCEPT !.problems = [p \in Problems |-> IF p = r.id THEN 1 ELSE 0]]
    /\ UNCHANGED <<hist, now, pageVars, uiVars, loads, clicks, crashed, ghosts>>

(* The problem is appended to the list of the form that asked, if it is    *)
(* still there.                                                            *)
AddAnswer(r) ==
    /\ r.api = "add" /\ net' = net \ {r}
    /\ form' = IF form = None THEN form
               ELSE IF form.load # r.arg THEN form ELSE [form EXCEPT !.problems[r.id] = form.problems[r.id] + 1]
    /\ UNCHANGED <<hist, now, pageVars, uiVars, loads, clicks, crashed, ghosts>>

(* Time passes, and the page is rendered; judging goes on; another assistant changes a homework.     *)
Deadline ==
    /\ now = 0 /\ now' = 1
    /\ UNCHANGED <<hist, pageVars, uiVars, form, net, loads, clicks, crashed, ghosts>>

Other ==
    /\ \/ \E x \in DOMAIN Db.judging : Db.judging[x] = 1 /\ Changed([Db EXCEPT !.judging[x] = 2])
       \/ \E h \in Existing(Db) : \E row \in {None, [Db.homeworks[h] EXCEPT !.score_openness = 1 - Db.homeworks[h].score_openness]} :
             Changed([Db EXCEPT !.homeworks[h] = row])
       \/ \E h \in Existing(Db), ps \in SUBSET Problems \ {{}} :
             Changed(Rewritten(Db, h, [Db.homeworks[h] EXCEPT !.problems = ps]))
    /\ others' = TRUE
    /\ UNCHANGED <<now, pageVars, uiVars, form, net, loads, clicks, crashed,
                   overlapped, lost, doubled>>

Click ==
    \/ \E k \in {"1", "2", "3", "4"} : Menu(k)
    \/ ClickNewNotice \/ ClickNewHomework \/ CancelForm
    \/ \E n \in Notices : PostNotice(n)
    \/ \E i \in homeworkitems :
          \/ ClickEdit(i) \/ Toggle(i, "score_openness") \/ Toggle(i, "submitable")
          \/ \E p \in Problems : JudgeAll(i, p)
    \/ \E p \in Problems : AddProblem(p) \/ DeleteProblem(p)
    \/ \E h \in Homeworks, t \in 0..1 : SaveHomework(h, t)

Arrive(r) ==
    \/ \E d \in {hist[v] : v \in (IF r.api \in Reads THEN r.at..Len(hist) ELSE {})} :
          CourseAnswer(r, d) \/ NoticeAnswer(r, d) \/ HomeworkAnswer(r, d)
          \/ ProblemAnswer(r, d) \/ StateAnswer(r, d)
    \/ Handle(r) \/ Fail(r) \/ Lose(r) \/ Done(r) \/ AddAnswer(r)

(* What may go wrong besides.                                              *)
Mishaps == Cardinality({k \in 1..3 : <<overlapped, lost, others>>[k]})

Next ==
    /\ ~crashed
    /\ Restored \/ Click \/ (\E r \in net : Arrive(r)) \/ Deadline \/ Other
    /\ clicks' + Mishaps' <= MaxClicks

Spec == Init /\ [][Next]_vars

-----------------------------------------------------------------------------
Kinds == Reads \cup Writes \cup {"add", "done"}

(* Every variable has its type.                                            *)
TypeOK ==
    /\ hist \in Seq(Tables) /\ now \in 0..1 /\ selected \in {"1", "2", "3", "4", "5"}
    /\ {known, newnotice, crashed, overlapped, lost, others} \subseteq BOOLEAN
    /\ doubled \subseteq Problems
    /\ \A i \in homeworkitems : i.id \in Homeworks /\ i.row \in Rows
    /\ \A i \in infoitems : i.id \in Notices
    /\ problemitems \in [Problems -> [row : BOOLEAN, status : 0..2 \cup {None}]]
    /\ newhomework \in {"no", "new"} \cup Homeworks
    /\ form # None => newhomework # "no" /\ form \in FormStates
    /\ \A r \in net : r.api \in Kinds
    /\ loads \in Nat /\ clicks \in 0..MaxClicks

Ids(items) == {i.id : i \in items}

(* When the answers of a load are all there, the page lists every notice   *)
(* and every homework once, as they are in the tables, and of every        *)
(* problem in them its row and the judge state it has in one of its        *)
(* homeworks: also after its own changes, whatever was being loaded when   *)
(* they were made.  Not so if a load begins before the answers of another  *)
(* have come (they join the new lists), if one is lost, or if someone else *)
(* changes the course.                                                     *)
PageSettles ==
    known /\ net = {} /\ ~overlapped /\ ~lost /\ ~others =>
        /\ Ids(infoitems) = Db.notices /\ Cardinality(infoitems) = Cardinality(Db.notices)
        /\ Ids(homeworkitems) = Existing(Db)
        /\ Cardinality(homeworkitems) = Cardinality(Existing(Db))
        /\ \A i \in homeworkitems :
              /\ i.row = Db.homeworks[i.id]
              /\ \A p \in i.row.problems : problemitems[p].row
        /\ \A p \in Problems : Shown(p) =>
              \E h \in Existing(Db) : /\ p \in Db.homeworks[h].problems
                                      /\ problemitems[p].status = Db.judging[<<h, p>>]

(* Saving a homework takes out of it only what was deleted in the form,    *)
(* what had not come when the form was opened, and what was put into the   *)
(* homework since: mHomeworkForm sends the list it has.  So a form that is *)
(* opened early, or saved over a change, loses those problems and no other *)
(* one.                                                                    *)
SavesKeepProblems ==
    [][\A r \in net \ net' :
        (r.api = "update_homework" /\ hist' # hist) =>
            LET old == Db.homeworks[r.id].problems
                f == r.arg.form
            IN  old \ Db'.homeworks[r.id].problems
                    \subseteq f.removed \cup f.missing \cup (old \ f.base)]_vars

(* The page only breaks over a problem that had not come when the form was *)
(* opened: the languages of an entry made by the answer about its judge    *)
(* state are undefined.                                                    *)
BreaksOnlyEarly == crashed => \E p \in form.missing : form.problems[p] > 0

(* A form lists no problem twice, unless Enter was pressed again for it    *)
(* before the answer to the first.                                         *)
FormListsOnce == form # None => \A p \in Problems \ doubled : form.problems[p] <= 1

(* The form of a homework can be used: it stays, and lists problems once.  *)
FormSound == BreaksOnlyEarly /\ FormListsOnce
==============================================================================
