----------------------------- MODULE StudentLesson -----------------------------
(***************************************************************************)
(* The course page of a student, class-component/student-lesson.js: the    *)
(* notices, the assistants, and the homeworks with what the student has    *)
(* turned in.                                                              *)
(*                                                                         *)
(* Every click in the menu asks for the course, then for the parts that    *)
(* the panel which is selected by then needs.  The answers of one load are *)
(* collected in a list of that load; the page shows the list that an       *)
(* answer gave it last, as it was when something last was rendered.        *)
(***************************************************************************)
EXTENDS Naturals, Sequences, FiniteSets

CONSTANTS
    Homeworks, Problems,
    Notices, Assistants,
    FirstDb,      \* what the tables hold at the start
    MaxLoads,     \* bounds the loads of the page
    MaxChanges,   \* bounds the changes of the tables
    MaxMishaps,   \* bounds how many kinds of disturbance there are in a run
    None

Rows == [problems : SUBSET Problems, deadline : 0..1, submitable : BOOLEAN, score_openness : BOOLEAN]

(* A homework as it is shown: of each problem None, or what was turned in. *)
Card == [row : Rows, problems : [Problems -> 0..2 \cup {None}]]

(* turned: 0 nothing was turned in, 1 turned in, 2 judged.                 *)
Tables == [homeworks : [Homeworks -> Rows \cup {None}], turned : [Homeworks \X Problems -> 0..2],
           notices : SUBSET Notices, tas : SUBSET Assistants]

(* What the constants may be.                                              *)
LessonAssumption ==
    /\ FirstDb \in Tables /\ MaxLoads \in Nat \ {0} /\ MaxChanges \in Nat /\ MaxMishaps \in Nat
    /\ None \notin Rows \cup Card \cup {0, 1, 2}

VARIABLES
    hist,     \* the tables, after every change
    now,      \* 1 when the deadlines 0 have passed
    known,    \* props.id is that of the student (and not -1)
    selected, \* current_selected
    lists,    \* the lists of each load: homework_items, info_list, ta_list
    ref,      \* the load whose homework_items are in the state, or 0
    infoitems, course_info,
    view,     \* the homeworks as they were rendered last
    net, loads,
    overlapped, lost, others, stranger  \* history, for the properties

ghosts == <<overlapped, lost, others, stranger>>
vars == <<hist, now, known, selected, lists, ref, infoitems, course_info, view, net, loads, ghosts>>

Db == hist[Len(hist)]
Reads == {"course", "notice", "user", "homework", "problem", "record"}
Empty == [homeworks |-> [h \in Homeworks |-> None], notices |-> {}, tas |-> {}]
Over(row) == row.deadline < now

Query(r, api, id) == [api |-> api, id |-> id, load |-> r.load, at |-> Len(hist), user |-> known]
Ask(r, asked) == net' = (net \ {r}) \cup asked
Render == view' = IF ref' = 0 THEN Empty.homeworks ELSE lists'[ref'].homeworks

Init ==
    /\ hist = <<FirstDb>> /\ now \in 0..1 /\ known \in BOOLEAN /\ selected \in {"1", "5", "6"}
    /\ lists = [n \in 1..MaxLoads |-> Empty] /\ ref = 0 /\ infoitems = {} /\ course_info = {}
    /\ view = Empty.homeworks /\ loads = 1
    /\ net = {[api |-> "course", id |-> None, load |-> 1, at |-> 1, user |-> known]}
    /\ overlapped = FALSE /\ lost = FALSE /\ others = FALSE /\ stranger = FALSE

(* The load of a request gets a card for a homework; what a card says of a *)
(* problem.                                                                *)
Put(r, h, card) == lists' = [lists EXCEPT ![r.load].homeworks[h] = card]
Saying(r, x) == [lists[r.load].homeworks[r.id[1]] EXCEPT !.problems[r.id[2]] = x]

-----------------------------------------------------------------------------
Fits(row, panel) ==
    \/ panel = "1" /\ ~Over(row)
    \/ panel = "2" /\ Over(row)
    \/ panel = "3"

(* FAULT: the cards of the last panel stay until the answers come.         *)
MenuFault(k) ==
    /\ loads < MaxLoads /\ loads' = loads + 1
    /\ selected' = k /\ ref' = ref
    /\ overlapped' = (overlapped \/ net # {})
    /\ net' = net \cup {Query([load |-> loads'], "course", None)}
    /\ UNCHANGED <<hist, now, known, lists, infoitems, course_info, lost, others, stranger>>
    /\ Render

(* A click in the menu, on the panel that is open too.                     *)
Menu(k) ==
    /\ loads < MaxLoads /\ loads' = loads + 1
    /\ selected' = k /\ ref' = 0
    /\ overlapped' = (overlapped \/ net # {})
    /\ net' = net \cup {Query([load |-> loads'], "course", None)}
    /\ UNCHANGED <<hist, now, known, lists, infoitems, course_info, lost, others, stranger>>
    /\ Render

(* The user becomes known to App; this page does not ask again.            *)
Restored ==
    /\ ~known /\ known' = TRUE
    /\ UNCHANGED <<hist, now, selected, lists, ref, infoitems, course_info, net, loads, ghosts>>
    /\ Render

-----------------------------------------------------------------------------
Answer(r, api) ==
    r.api = api /\ UNCHANGED <<hist, now, known, selected, loads, overlapped, lost, others>>

CourseAnswer(r, d) ==
    /\ Answer(r, "course")
    /\ Ask(r, CASE selected = "5" -> {Query(r, "notice", n) : n \in d.notices}
                [] selected = "6" -> {Query(r, "user", u) : u \in d.tas}
                [] OTHER -> {Query(r, "homework", h) : h \in {x \in Homeworks : d.homeworks[x] # None}})
    /\ UNCHANGED <<lists, ref, infoitems, course_info, stranger>>
    /\ Render

NoticeAnswer(r) ==
    /\ Answer(r, "notice") /\ Ask(r, {})
    /\ lists' = [lists EXCEPT ![r.load].notices = @ \cup {r.id}]
    /\ infoitems' = lists'[r.load].notices
    /\ UNCHANGED <<ref, course_info, stranger>>
    /\ Render

UserAnswer(r) ==
    /\ Answer(r, "user") /\ Ask(r, {})
    /\ lists' = [lists EXCEPT ![r.load].tas = @ \cup {r.id}]
    /\ course_info' = lists'[r.load].tas
    /\ UNCHANGED <<ref, infoitems, stranger>>
    /\ Render

(* Of a homework of the panel that is selected by now: to the list, which  *)
(* is not rendered for it.                                                 *)
HomeworkAnswer(r, d) ==
    /\ Answer(r, "homework")
    /\ LET row == d.homeworks[r.id] IN
       IF (IF row = None THEN TRUE ELSE ~Fits(row, selected)) THEN Ask(r, {}) /\ UNCHANGED lists
       ELSE /\ Put(r, r.id, [row |-> row, problems |-> [p \in Problems |-> None]])
            /\ Ask(r, {Query(r, "problem", <<r.id, p>>) : p \in row.problems})
    /\ UNCHANGED <<ref, infoitems, course_info, view, stranger>>

(* result_type = -1.  The questions for records of type 2 and 4 are one.   *)
ProblemAnswer(r) ==
    /\ Answer(r, "problem")
    /\ Put(r, r.id[1], Saying(r, 0))
    /\ Ask(r, {Query(r, "record", r.id)})
    /\ stranger' = (stranger \/ ~known)
    /\ UNCHANGED <<ref, infoitems, course_info, view>>

(* There are no records of the user -1.                                    *)
RecordAnswer(r, d) ==
    /\ Answer(r, "record") /\ Ask(r, {})
    /\ IF r.user /\ d.turned[r.id] > 0 THEN Put(r, r.id[1], Saying(r, d.turned[r.id]))
       ELSE UNCHANGED lists
    /\ ref' = r.load
    /\ UNCHANGED <<infoitems, course_info, stranger>>
    /\ Render

Lose(r) ==
    /\ lost' = TRUE /\ net' = net \ {r}
    /\ UNCHANGED <<hist, now, known, selected, lists, ref, infoitems, course_info, view, loads,
                   overlapped, others, stranger>>

-----------------------------------------------------------------------------
(* Time passes; judging goes on, an assistant opens the scores, deletes a  *)
(* homework or puts up a notice; the student turns in in another tab.      *)
Other ==
    /\ \/ now = 0 /\ now' = 1 /\ UNCHANGED hist
       \/ /\ Len(hist) <= MaxChanges /\ UNCHANGED now
          /\ \/ \E x \in DOMAIN Db.turned : \E s \in {1, 2} :
                   hist' = Append(hist, [Db EXCEPT !.turned[x] = s])
             \/ \E h \in Homeworks :
                \E row \in {None, [Db.homeworks[h] EXCEPT !.score_openness = TRUE]} :
                   Db.homeworks[h] # None /\ hist' = Append(hist, [Db EXCEPT !.homeworks[h] = row])
             \/ \E n \in Notices : hist' = Append(hist, [Db EXCEPT !.notices = @ \cup {n}])
    /\ others' = TRUE
    /\ UNCHANGED <<known, selected, lists, ref, infoitems, course_info, view, net, loads,
                   overlapped, lost, stranger>>

Arrive(r) ==
    \/ \E d \in {hist[v] : v \in r.at..Len(hist)} :
          CourseAnswer(r, d) \/ HomeworkAnswer(r, d) \/ RecordAnswer(r, d)
    \/ NoticeAnswer(r) \/ UserAnswer(r) \/ ProblemAnswer(r) \/ Lose(r)

Mishaps == Cardinality({k \in 1..3 : <<overlapped, lost, others>>[k]})

Next ==
    /\ \/ Restored \/ Other
       \/ \E k \in {"1", "2", "3", "5", "6"} : Menu(k)
       \/ \E r \in net : Arrive(r)
    /\ Mishaps' <= MaxMishaps

Spec == Init /\ [][Next]_vars

-----------------------------------------------------------------------------
(* What a card says of a problem.                                          *)
Status(card, p) ==
    LET submitted == card.problems[p] # 0 IN
    CASE ~submitted /\ ~Over(card.row) -> "missing"
      [] submitted /\ ~Over(card.row) -> "turned_in"
      [] ~submitted /\ Over(card.row) -> IF card.row.submitable THEN "missing" ELSE "closed"
      [] OTHER -> IF card.row.score_openness THEN "result" ELSE "turned_in"

(* Every variable has its type.                                            *)
Cards == [Homeworks -> {None} \cup Card]
TypeOK ==
    /\ hist \in Seq(Tables) /\ now \in 0..1 /\ loads \in 1..MaxLoads /\ ref \in 0..loads
    /\ {known, overlapped, lost, others, stranger} \subseteq BOOLEAN
    /\ selected \in {"1", "2", "3", "5", "6"}
    /\ \A n \in DOMAIN lists : lists[n].homeworks \in Cards
    /\ view \in Cards /\ infoitems \subseteq Notices /\ course_info \subseteq Assistants
    /\ \A r \in net : r.api \in Reads

(* When all answers are there, the panel shows what the tables hold for it,*)
(* and of every problem what was turned in: unless another click was made  *)
(* before they were there, one was lost, something changed, or the page    *)
(* asked before it knew the student.  A homework without problems is only  *)
(* shown if something else is rendered after its answer.                   *)
ShownSettles ==
    net = {} /\ ~overlapped /\ ~lost /\ ~others /\ ~stranger =>
        CASE selected = "5" -> infoitems = Db.notices
          [] selected = "6" -> course_info = Db.tas
          [] OTHER -> \A h \in Homeworks :
                LET row == Db.homeworks[h] IN
                IF (IF row = None THEN TRUE ELSE ~Fits(row, selected)) THEN view[h] = None
                ELSE IF row.problems = {} THEN TRUE
                ELSE view[h] = [row |-> row, problems |->
                        [p \in Problems |-> IF p \in row.problems THEN Db.turned[<<h, p>>] ELSE None]]

(* A panel only shows homeworks that belong to it, while it is loaded, and *)
(* whatever was open before: also when answers of an earlier click come    *)
(* late, unless one of them made the page show the list of that click.     *)
(* Time and the tables may go on beside the cards.                         *)
CardsFitPanel ==
    ~others /\ (overlapped => ref \in {0, loads}) =>
        \A h \in Homeworks : view[h] # None => Fits(view[h].row, selected)

(* A problem that was turned in is not shown as missing or closed: the     *)
(* card decides by whether a query finds a record.  Not so on a page that  *)
(* was reloaded: it asks before it knows the student, and not again.       *)
TurnedInIsNotMissing ==
    net = {} /\ ~overlapped /\ ~lost /\ ~others /\ ~stranger =>
        \A h \in Homeworks, p \in Problems :
            view[h] # None /\ view[h].problems[p] # None /\ Db.turned[<<h, p>>] # 0
                => Status(view[h], p) \notin {"missing", "closed"}
==============================================================================
