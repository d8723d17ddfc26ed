------------------------------- MODULE Marking -------------------------------
(***************************************************************************)
(* The pages on which an assistant looks at what was turned in for a       *)
(* problem of a homework, class-component/TA-judge.js, and marks the pages *)
(* that were turned in for a problem judged by hand,                       *)
(* problem-component/problem-judge-html.js.  The second asks the backend   *)
(* to judge everything when it is opened (that unpacks the files), which   *)
(* takes back every mark there was.                                        *)
(*                                                                         *)
(* One of the pages is mounted; each asks for what it needs once.  A read  *)
(* may answer with any state of the tables since it was sent.              *)
(***************************************************************************)
EXTENDS Naturals, Sequences, FiniteSets, FiniteSetsExt

CONSTANTS
    Students, Scores,
    Members,     \* the students of the course
    FirstMarks,  \* who has turned in, and the mark of it
    Testers,     \* who has also the record of a test
    MaxClicks,   \* bounds the clicks that send something or mount a page
    MaxChanges,  \* bounds the changes of the tables
    Unmarked, None

Marks == Scores \cup {Unmarked, None}   \* None: nothing was turned in; elsewhere also ''
Kinds == {"turn_in", "test"}
Records == [kind : Kinds, mark : Scores \cup {Unmarked}]

(* What the constants may be.                                              *)
MarkingAssumption ==
    /\ Members \subseteq Students /\ Testers \subseteq Students
    /\ FirstMarks \in [Students -> Marks] /\ {Unmarked, None} \cap Scores = {}
    /\ MaxClicks \in Nat /\ MaxChanges \in Nat /\ None # Unmarked

VARIABLES
    html,         \* judge_method = 2
    hist,         \* marks and judge state, after every change
    known,        \* props.id is that of the assistant (and not -1)
    page,         \* "list" or "html"
    records,      \* state: the record shown for each student
    student_info, \* state: whose data have come
    loaded,       \* state: which of "homework", "problem", "states", "uri" have come
    current_key, current_selected, current_score, confirm,
    net, clicks, crashed,
    at,           \* history: the state of the tables in which the records were asked for
    scored, lost, changed  \* history: whose score it is; what the properties except

data == <<records, student_info, loaded>>
choice == <<current_key, current_selected, current_score, confirm>>
ghosts == <<at, scored, lost, changed>>
vars == <<html, hist, known, page, data, choice, net, clicks, crashed, ghosts>>

Db == hist[Len(hist)]
Listed == {u \in Students : records[u] # None}
Blank == [u \in Students |-> None]

(* The rows a read of the records may give for a student: the turn-in, and *)
(* on the page of the list also a test; the last one of them is taken.     *)
Rows(u, d, p) ==
    LET turn_in == IF d.mark[u] = None THEN {} ELSE {[kind |-> "turn_in", mark |-> d.mark[u]]}
        test == IF p = "list" /\ ~html /\ u \in Testers
                THEN {[kind |-> "test", mark |-> Unmarked]} ELSE {}
    IN  IF turn_in \cup test = {} THEN {None} ELSE turn_in \cup test

-----------------------------------------------------------------------------
Read(api) == [api |-> api, at |-> Len(hist), page |-> page']

(* fetchData of the two pages.                                             *)
Fetch ==
    IF page' = "list"
    THEN {Read(api) : api \in {"query_judgestates", "query_homework", "query_problem",
                               "query_course", "query_record"}}
    ELSE {Read("query_record"), [api |-> "judge_all", from |-> "html", n |-> clicks']}

(* A page is mounted; the answers to what the other one asked find nobody. *)
Mount(p, u) ==
    /\ page' = p /\ records' = Blank /\ student_info' = {} /\ loaded' = {}
    /\ current_key' = "1" /\ current_selected' = u /\ current_score' = None /\ confirm' = None
    /\ scored' = None /\ lost' = FALSE /\ at' = Len(hist) /\ changed' = FALSE
    /\ LET writes == {r \in net : r.api \in {"judge_all", "judge_one", "judge_html"}} IN
       net' = IF known THEN writes \cup Fetch ELSE writes

Init ==
    /\ html \in BOOLEAN /\ known \in BOOLEAN /\ page = "list"
    /\ hist = <<[mark |-> FirstMarks, judged |-> 0, total |-> 0]>>
    /\ records = Blank /\ student_info = {} /\ loaded = {}
    /\ current_key = "1" /\ current_selected = None /\ current_score = None /\ confirm = None
    /\ net = IF ~known THEN {}
             ELSE {[api |-> api, at |-> 1, page |-> "list"] :
                      api \in {"query_judgestates", "query_homework", "query_problem",
                               "query_course", "query_record"}}
    /\ clicks = 0 /\ crashed = FALSE
    /\ at = 1 /\ scored = None /\ lost = FALSE /\ changed = FALSE

Restored ==
    /\ ~known /\ known' = TRUE /\ UNCHANGED <<page, clicks>>
    /\ net' = net \cup Fetch /\ at' = Len(hist) /\ changed' = FALSE
    /\ UNCHANGED <<html, hist, data, choice, crashed, scored, lost>>

-----------------------------------------------------------------------------
(* The page that marks selects the first row when none was asked for, and  *)
(* cannot be rendered for a student who is not in the list.  The panel of  *)
(* the statistics needs the judge state.                                   *)
Broken == IF page = "list" THEN current_key' = "9" /\ "query_judgestates" \notin loaded'
          ELSE records' # Blank /\ current_selected' # None /\ records'[current_selected'] = None

Score(record) == IF record.mark = Unmarked THEN None ELSE record.mark
Still == UNCHANGED <<html, hist, known, page>>

Select(u) == current_selected' = u /\ current_score' = Score(records[u]) /\ scored' = u

DataAnswer(r) ==
    /\ r.api \in {"query_homework", "query_problem", "query_judgestates"} /\ net' = net \ {r}
    /\ loaded' = loaded \cup {r.api}
    /\ Still /\ UNCHANGED <<records, student_info, choice, clicks, crashed, ghosts>>

CourseAnswer(r) ==
    /\ r.api = "query_course"
    /\ net' = (net \ {r}) \cup {[api |-> "query_user", id |-> u, page |-> page] : u \in Members}
    /\ Still /\ UNCHANGED <<data, choice, clicks, crashed, ghosts>>

(* The list of the page that marks starts with a student: the one whose    *)
(* button brought the assistant here, or any.                              *)
RecordsAnswer(r) ==
    /\ r.api = "query_record"
    /\ \E d \in {hist[v] : v \in r.at..Len(hist)} :
          records' \in {rows \in [Students -> Records \cup {None}] :
                           \A u \in Students : rows[u] \in Rows(u, d, page)}
    /\ net' = (net \ {r}) \cup
                 IF page = "list" THEN {}
                 ELSE {[api |-> "query_user", id |-> u, page |-> page] :
                          u \in {x \in Students : records'[x] # None}}
    /\ IF page = "html" /\ records' # Blank
       THEN \/ /\ current_selected = None
               /\ \E u \in Students : /\ records'[u] # None /\ current_selected' = u
                                      /\ current_score' = Score(records'[u]) /\ scored' = u
            \/ /\ current_selected # None /\ UNCHANGED current_selected
               /\ LET record == records'[current_selected] IN
                  IF record = None THEN UNCHANGED <<current_score, scored>>
                  ELSE IF record.mark = Unmarked THEN UNCHANGED <<current_score, scored>>
                  ELSE current_score' = record.mark /\ scored' = current_selected
       ELSE UNCHANGED <<current_selected, current_score, scored>>
    /\ Still /\ UNCHANGED <<student_info, loaded, current_key, confirm, clicks, at, lost, changed>>
    /\ crashed' = Broken

UserAnswer(r) ==
    /\ r.api = "query_user" /\ net' = net \ {r}
    /\ student_info' = student_info \cup {r.id}
    /\ Still /\ UNCHANGED <<records, loaded, choice, clicks, crashed, ghosts>>

(* An answer is lost, or a change is refused.                              *)
Lose(r) ==
    /\ net' = net \ {r}
    /\ lost' = (lost \/ r.api \notin {"uri", "judge_all", "judge_one", "judge_html"})
    /\ Still /\ UNCHANGED <<data, choice, clicks, crashed, at, scored, changed>>

UriAnswer(r) ==
    /\ r.api = "uri" /\ net' = net \ {r} /\ loaded' = loaded \cup {"uri"}
    /\ Still /\ UNCHANGED <<records, student_info, choice, clicks, crashed, ghosts>>

-----------------------------------------------------------------------------
Counted == clicks < MaxClicks /\ clicks' = clicks + 1
Free == confirm = None

Menu(k) ==
    /\ page = "list" /\ k # current_key /\ current_key' = k
    /\ crashed' = (k = "9" /\ "query_judgestates" \notin loaded)
    /\ Still /\ UNCHANGED <<data, current_selected, current_score, confirm, net, clicks, ghosts>>

(* The rows of a panel: in time or late, by what is known of the deadline, *)
(* all of them, or those without a record.                                 *)
Panel(k) == CASE k \in {"1", "4"} -> Listed
              [] k = "7" -> Members \ Listed
              [] k = "8" -> Members
              [] OTHER -> {}

(* The button of a row: the page that marks, or judge_one.  Until the      *)
(* problem is loaded it is judge_one for every problem.                    *)
JudgeRow(u) ==
    /\ page = "list" /\ u \in Panel(current_key) \cap Listed /\ Counted
    /\ IF html /\ "query_problem" \in loaded
       THEN Mount("html", u) /\ UNCHANGED <<html, hist, known, crashed>>
       ELSE /\ net' = net \cup {[api |-> "judge_one", id |-> u, kind |-> records[u].kind, n |-> clicks]}
            /\ Still /\ UNCHANGED <<data, choice, crashed, ghosts>>

OpenPage(p) ==
    /\ Free /\ Counted /\ page # p /\ (p = "html" => html) /\ Mount(p, None)
    /\ UNCHANGED <<html, hist, known, crashed>>

JudgeAll ==
    /\ page = "list" /\ current_key = "9" /\ Counted
    /\ net' = net \cup {[api |-> "judge_all", from |-> "list", n |-> clicks]}
    /\ Still /\ UNCHANGED <<data, choice, crashed, ghosts>>

ClickStudent(u) ==
    /\ page = "html" /\ Free /\ u \in Listed /\ Select(u)
    /\ Still /\ UNCHANGED <<data, current_key, confirm, net, clicks, crashed, at, lost, changed>>

Type(s) ==
    /\ page = "html" /\ Free /\ Listed # {} /\ current_score' = s /\ scored' = current_selected
    /\ Still
    /\ UNCHANGED <<data, current_key, current_selected, confirm, net, clicks, crashed, at, lost, changed>>

Marking(u, s, yes) ==
    [api |-> "judge_html", id |-> u, score |-> s, confirmed |-> yes, at |-> at, n |-> clicks]

(* Over a mark that the page shows only after a question.  What is sent is *)
(* what there was before it.  The answer changes nothing on the page.      *)
ClickSubmit ==
    /\ page = "html" /\ Free /\ Listed # {} /\ current_score # None /\ Counted
    /\ IF records[current_selected].mark # Unmarked
       THEN confirm' = Marking(current_selected, current_score, TRUE) /\ UNCHANGED net
       ELSE net' = net \cup {Marking(current_selected, current_score, FALSE)} /\ UNCHANGED confirm
    /\ Still /\ UNCHANGED <<data, current_key, current_selected, current_score, crashed, ghosts>>

Confirm(yes) ==
    /\ ~Free /\ confirm' = None
    /\ net' = IF yes THEN net \cup {confirm} ELSE net
    /\ Still /\ UNCHANGED <<data, current_key, current_selected, current_score, clicks, crashed, ghosts>>

-----------------------------------------------------------------------------
(* The backend.  judge_all takes back every mark, also of problems judged  *)
(* by hand; judge_one only takes turn-ins of other problems.               *)
Changed(d) == Len(hist) <= MaxChanges /\ hist' = Append(hist, d) /\ changed' = TRUE
TurnedIn == {u \in Students : Db.mark[u] # None}

HandleJudgeAll(r) ==
    /\ r.api = "judge_all"
    /\ Changed([mark |-> [u \in Students |-> IF u \in TurnedIn THEN Unmarked ELSE None],
                judged |-> 0, total |-> Cardinality(TurnedIn)])
    /\ net' = (net \ {r}) \cup IF r.from = page /\ page = "html" THEN {[api |-> "uri"]} ELSE {}
    /\ UNCHANGED <<html, known, page, data, choice, clicks, crashed, at, scored, lost>>

(* The new count of judged records is never stored: the save of it is not  *)
(* awaited.                                                                *)
HandleJudgeOne(r) ==
    /\ r.api = "judge_one" /\ net' = net \ {r}
    /\ IF r.kind = "turn_in" /\ ~html /\ Db.mark[r.id] # None
       THEN Changed([Db EXCEPT !.mark[r.id] = Unmarked])
       ELSE UNCHANGED <<hist, changed>>
    /\ UNCHANGED <<html, known, page, data, choice, clicks, crashed, at, scored, lost>>

HandleJudgeHtml(r) ==
    /\ r.api = "judge_html" /\ net' = net \ {r} /\ Changed([Db EXCEPT !.mark[r.id] = r.score])
    /\ UNCHANGED <<html, known, page, data, choice, clicks, crashed, at, scored, lost>>

(* The judger returns a result.                                            *)
Result(u, s) ==
    /\ ~html /\ Db.mark[u] = Unmarked /\ Changed([Db EXCEPT !.mark[u] = s, !.judged = @ + 1])
    /\ UNCHANGED <<html, known, page, data, choice, net, clicks, crashed, at, scored, lost>>

Handle(r) == HandleJudgeAll(r) \/ HandleJudgeOne(r) \/ HandleJudgeHtml(r)

Arrive(r) ==
    DataAnswer(r) \/ CourseAnswer(r) \/ RecordsAnswer(r) \/ UserAnswer(r) \/ UriAnswer(r)
    \/ Lose(r) \/ Handle(r)

Click ==
    \/ \E k \in {"1", "4", "7", "8", "9"} : Menu(k)
    \/ \E p \in {"list", "html"} : OpenPage(p)
    \/ \E u \in Students : JudgeRow(u) \/ ClickStudent(u)
    \/ \E s \in Scores : Type(s)
    \/ JudgeAll \/ ClickSubmit
    \/ \E yes \in BOOLEAN : Confirm(yes)

Next ==
    /\ ~crashed
    /\ Restored \/ Click \/ (\E r \in net : Arrive(r)) \/ \E u \in Students, s \in Scores : Result(u, s)

Spec == Init /\ [][Next]_vars

-----------------------------------------------------------------------------
(* Every variable has its type.                                            *)
TypeOK ==
    /\ {html, known, crashed, lost, changed} \subseteq BOOLEAN /\ page \in {"list", "html"}
    /\ \A v \in DOMAIN hist : hist[v].mark \in [Students -> Marks]
    /\ records \in [Students -> Records \cup {None}] /\ student_info \subseteq Students
    /\ current_key \in {"1", "4", "7", "8", "9"} /\ current_selected \in Students \cup {None}
    /\ current_score \in Scores \cup {None} /\ at \in 1..Len(hist)

(* The score in the box was typed for the student whose page is shown, or  *)
(* is the mark of that student.                                            *)
ScoreIsOfSelected == page = "html" /\ current_score # None => scored = current_selected

(* A mark is only replaced without a question by one that the page did not *)
(* know: there was none when the page asked for the records, or it was     *)
(* taken back between that and the answer.                                 *)
AsksFirst ==
    \A r \in net \ net' :
        r.api = "judge_html" /\ hist' # hist /\ ~r.confirmed =>
            \E v \in r.at..Len(hist) : hist[v].mark[r.id] = Unmarked

(* When all answers are there and nothing has changed since they were      *)
(* asked for, a student is listed if and only if there is a turn-in, with  *)
(* the mark of it; for a problem of code one who has also tested may be    *)
(* listed for the test.                                                    *)
Settling == IF html THEN Students ELSE Students \ Testers

ListSettles ==
    (\A r \in net : r.api \notin {"query_record", "query_user", "query_course"})
        /\ known /\ ~lost /\ ~changed =>
        /\ \A u \in Settling :
              records[u] = IF Db.mark[u] = None THEN None ELSE [kind |-> "turn_in", mark |-> Db.mark[u]]
        /\ page = "list" => Members \subseteq student_info

(* A mark that was given is only lost or replaced after a question: the    *)
(* question of the page itself says that it would be overwritten.          *)
MarksOnlyAfterQuestion ==
    [][\A u \in Students :
        html /\ Db.mark[u] \in Scores /\ Db'.mark[u] # Db.mark[u] =>
            \E r \in net \ net' : r.api = "judge_html" /\ r.confirmed]_vars
==============================================================================
