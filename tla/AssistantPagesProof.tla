-------------------------- MODULE AssistantPagesProof --------------------------
(***************************************************************************)
(* Proofs about the pages that an assistant uses, for any users, courses,  *)
(* problems, tables of marks and bounds.  Each page has an inductive       *)
(* invariant that says of every request under way what it carries and what *)
(* was true when it was made; only the page that is shown takes steps.     *)
(***************************************************************************)
EXTENDS AssistantPages, TLAPS

(* The form of a course.  The saves, and what the requests carry.          *)
CourseSaves == {"update_course", "create_course", "saved"}

CourseRequests ==
    /\ hist # <<>> /\ hist[1] = FirstCourse
    /\ \A r \in net :
          /\ r.api = "query_course" => r.at \in Nat \ {0}
          /\ r.api = "query_user" => r.user \in Users /\ r.list \in C!Lists
          /\ r.api \in {"update_course", "create_course"} =>
                /\ r.members \in [C!Lists -> SUBSET (Users \cup {Unknown})]
                /\ r.members["students"] \subseteq Users

(* Until a form is mounted again, there is one save, of the form that is   *)
(* shown.                                                                  *)
CourseOneSave ==
    ~again =>
        /\ \A r \in net : r.api \in CourseSaves => r.from = kind /\ C!Editable
        /\ \A r, q \in net : r.api \in CourseSaves /\ q.api \in CourseSaves => r = q

(* A member all the time.                                                  *)
Stays(u, l) == \A v \in DOMAIN hist : u \in hist[v][l]

(* Who is a member all the time is in the form, was deleted there, or the  *)
(* form has not heard of it.                                               *)
CourseLoads ==
    kind \in {"edit", "show", "modify"} =>
        \A l \in C!Lists, u \in Users : Stays(u, l) =>
            lists[l][u] > 0 \/ u \in removed[l] \/ u \in C!Missing(l)

(* A save names all of them but those, or they were deleted.               *)
CourseSavesComplete ==
    \A r \in net : r.api = "update_course" =>
        \A l \in C!Lists, u \in Users : Stays(u, l) =>
            u \in r.members[l] \/ u \in r.removed[l] \/ u \in r.missing[l]

CourseInv ==
    C!TypeOK /\ CourseRequests /\ C!ListedOnce /\ CourseOneSave /\ C!AtFormAskedFor
      /\ CourseLoads /\ CourseSavesComplete

(* The marking pages.                                                      *)
MarkSizes == {0} \cup {M!Cardinality(S) : S \in SUBSET Students}
MarkTables == [mark : [Students -> M!Marks], judged : Nat, total : MarkSizes]

(* The requests and the question, and that nothing was asked yet.          *)
MarkRequests ==
    /\ hist \in Seq(MarkTables) /\ hist # <<>>
    /\ \A r \in net :
          /\ r.api = "query_record" => known /\ r.at = at
          /\ r.api = "query_user" => r.id \in Students
          /\ r.api = "judge_html" => r.id \in Students /\ r.score \in Scores /\ r.at \in Nat \ {0}
    /\ confirm # None =>
          /\ confirm.api = "judge_html" /\ confirm.confirmed = TRUE
          /\ confirm.id \in Students /\ confirm.score \in Scores /\ confirm.at \in Nat \ {0}
    /\ ~known => records = M!Blank

(* The student who is selected has a row.                                  *)
MarkSelected ==
    page = "html" /\ ~crashed /\ M!Listed # {} =>
        current_selected \in M!Listed

WasUnmarked(u, from) == \E v \in from..Len(hist) : hist[v].mark[u] = Unmarked

(* What is shown as unmarked was unmarked when it was read.                *)
MarkShown ==
    page = "html" =>
        \A u \in Students : records[u] # None /\ records[u].mark = Unmarked => WasUnmarked(u, at)

(* A score that is sent without a question is for an unmarked row.         *)
MarkUnasked ==
    \A r \in net : r.api = "judge_html" /\ ~r.confirmed => WasUnmarked(r.id, r.at)

(* The answers that are missing are under way.                             *)
MarkLoads ==
    /\ ~changed => at = Len(hist)
    /\ known /\ ~lost /\ ~changed =>
          /\ \/ \E r \in net : r.api = "query_record"
             \/ \A u \in M!Settling :
                   records[u] = IF M!Db.mark[u] = None THEN None
                                ELSE [kind |-> "turn_in", mark |-> M!Db.mark[u]]
          /\ page = "list" =>
                \/ \E r \in net : r.api = "query_course"
                \/ \A u \in Members :
                      u \in student_info \/ \E r \in net : r.api = "query_user" /\ r.id = u

MarkInv ==
    M!TypeOK /\ MarkRequests /\ MarkSelected /\ M!ScoreIsOfSelected /\ MarkShown /\ MarkUnasked
      /\ MarkLoads

(* The form of a problem.  Its fields.                                     *)
FormFields ==
    /\ saves \in Nat /\ files \in 0..MaxFiles /\ chosen \in [F!Slots -> 0..MaxFiles]
    /\ isEditing => rows # <<>> /\ DOMAIN rows = {1} /\ rows[1].method = FirstRow.method
    /\ picked => method \in 0..2 /\ (isEditing => method = FirstRow.method)
    /\ method \in {0, 1} => language \subseteq F!Options(method) /\ code_lang \in language \cup {None}
    /\ \A s \in F!Slots : upload[s] # None => upload[s].n = chosen[s]

(* What a save says.                                                       *)
FormSaid(r) ==
    /\ r.method \in 0..2 /\ r.text \in {"stored", "typed"} /\ r.openness \in 0..1
    /\ r.language \subseteq Languages /\ r.test_language \in Languages \cup {None}
    /\ r.method # 2 => r.test_language \in r.language /\ r.language \subseteq F!Options(r.method)
    /\ isEditing => r.method = FirstRow.method
    /\ DOMAIN r.files \subseteq F!Slots /\ DOMAIN r.shown = DOMAIN r.files
    /\ r.method = 2 => DOMAIN r.files = {}
    /\ ~isEditing => \A s \in F!Slots : F!Place(r.method, s) => s \in DOMAIN r.files
    /\ \A s \in DOMAIN r.files : r.files[s] \in 0..MaxFiles \cup {None}
    /\ ~r.busy => \A s \in DOMAIN r.files : r.files[s] = r.shown[s] /\ r.files[s] # None

(* The requests under way.                                                 *)
FormRequests ==
    \A r \in net :
        /\ r.api = "query_problem" => isEditing
        /\ r.api = "upload" => r.slot \in F!Slots /\ r.n \in 0..MaxFiles
        /\ r.api = "save" => FormSaid(r)
        /\ r.api = "answer" => DOMAIN r.shown \subseteq F!Slots
        /\ r.api \in {"save", "answer"} => r.n \in 0..saves

(* The last save, when nothing was under way beside it.                    *)
Last(r) == r.alone /\ r.n = saves

FormAlone == \A r, q \in F!Saves : Last(r) => q = r

(* The problem has the files that were in the form.                        *)
Stored(a) == a.row \in DOMAIN rows /\ \A s \in DOMAIN a.shown : rows[a.row].files[s] = a.shown[s]

FormAnswers ==
    \A a \in net : a.api = "answer" /\ a.ok /\ Last(a) /\ ~a.busy => Stored(a)

FormTold ==
    told # None =>
        /\ told.n \in 0..saves /\ DOMAIN told.shown \subseteq F!Slots
        /\ Last(told) => F!Saves = {} /\ (~told.busy => Stored(told))

FormInv ==
    /\ F!TypeOK /\ FormFields /\ F!LanguageFits /\ F!NothingSwallowed
    /\ FormRequests /\ FormAlone /\ FormAnswers /\ FormTold

(* The page that is shown is in its invariant.                             *)
Inv ==
    /\ which \in {"course", "form", "marking"}
    /\ which = "course" => CourseInv
    /\ which = "form" => FormInv
    /\ which = "marking" => MarkInv

-----------------------------------------------------------------------------
USE DEF M!Settling

(* What is assumed of the constants of the marking pages.                  *)
LEMMA MarkConstants ==
    /\ Members \subseteq Students /\ FirstMarks \in [Students -> M!Marks] /\ None \notin Scores
BY ConstantsFit DEF M!MarkingAssumption

(* A sequence of tables that is not empty has a last one.                  *)
LEMMA MarkLength ==
    ASSUME hist \in Seq(MarkTables), hist # <<>>
    PROVE  Len(hist) \in Nat \ {0} /\ DOMAIN hist = 1..Len(hist)
OBVIOUS

(* The marking pages begin in their invariant.                             *)
LEMMA MarkBegins == ASSUME M!Init PROVE MarkInv
<1>1. M!Blank \in [Students -> M!Records \cup {None}]
  BY DEF M!Blank
<1>2. hist \in Seq(MarkTables) /\ hist # <<>> /\ Len(hist) = 1 /\ hist[1].mark = FirstMarks
  <2>1. PICK d : d = [mark |-> FirstMarks, judged |-> 0, total |-> 0]
    OBVIOUS
  <2>2. d \in MarkTables /\ d.mark = FirstMarks /\ hist = <<d>>
    BY <2>1, MarkConstants DEF M!Init, MarkTables, MarkSizes
  <2> QED BY <2>2
<1>3. M!TypeOK
  <2>1. /\ html \in BOOLEAN /\ known \in BOOLEAN /\ crashed = FALSE /\ lost = FALSE /\ changed = FALSE
        /\ page = "list" /\ student_info = {} /\ current_key = "1" /\ current_selected = None
        /\ current_score = None /\ at = 1 /\ records \in [Students -> M!Records \cup {None}]
    BY <1>1 DEF M!Init
  <2>2. \A v \in DOMAIN hist : hist[v].mark \in [Students -> M!Marks]
    BY <1>2, MarkConstants, MarkLength
  <2>3. at \in 1..Len(hist)
    BY <1>2, <2>1
  <2> QED BY <2>1, <2>2, <2>3 DEF M!TypeOK
<1>4. MarkRequests
  <2>1. confirm = None /\ records = M!Blank /\ at = 1
    BY DEF M!Init
  <2>2. \A r \in net : known /\ r.at = 1 /\ r.api # "query_user" /\ r.api # "judge_html"
    BY DEF M!Init
  <2> QED BY <1>2, <2>1, <2>2 DEF MarkRequests
<1>5. MarkSelected /\ M!ScoreIsOfSelected /\ MarkShown /\ MarkUnasked
  <2>1. \A r \in net : r.api # "judge_html"
    BY DEF M!Init
  <2>2. page = "list"
    BY DEF M!Init
  <2> QED BY <2>1, <2>2 DEF MarkSelected, M!ScoreIsOfSelected, MarkShown, MarkUnasked
<1>6. MarkLoads
  <2>1. ~changed => at = Len(hist)
    BY <1>2 DEF M!Init
  <2>2. known => /\ \E r \in net : r.api = "query_record"
                 /\ \E r \in net : r.api = "query_course"
    <3>1. known => /\ [api |-> "query_record", at |-> 1, page |-> "list"] \in net
                   /\ [api |-> "query_course", at |-> 1, page |-> "list"] \in net
      BY DEF M!Init
    <3> QED BY <3>1
  <2> QED BY <2>1, <2>2 DEF MarkLoads
<1> QED BY <1>3, <1>4, <1>5, <1>6 DEF MarkInv

(* The sequence of the tables grows at its end.                            *)
LEMMA MarkGrows ==
    ASSUME NEW d \in MarkTables, hist \in Seq(MarkTables), M!Changed(d)
    PROVE  /\ hist' \in Seq(MarkTables) /\ hist' # <<>> /\ changed' = TRUE
           /\ Len(hist') \in Nat /\ Len(hist) \in Nat /\ Len(hist') = Len(hist) + 1
           /\ \A v \in 1..Len(hist) : hist'[v] = hist[v]
           /\ \A u : \A from \in Nat \ {0} : WasUnmarked(u, from) => WasUnmarked(u, from)'
<1>1. hist' = Append(hist, d) /\ changed' = TRUE
  BY DEF M!Changed
<1>2. Len(hist) \in Nat /\ Len(hist') = Len(hist) + 1
  BY <1>1
<1>3. \A v \in 1..Len(hist) : hist'[v] = hist[v]
  BY <1>1
<1>4. \A u : \A from \in Nat \ {0} : WasUnmarked(u, from) => WasUnmarked(u, from)'
  BY <1>2, <1>3 DEF WasUnmarked
<1> QED BY <1>1, <1>2, <1>3, <1>4

(* A mark is one of the marks.                                             *)
LEMMA MarkUpdate ==
    ASSUME NEW d \in MarkTables, NEW x, NEW m \in M!Marks
    PROVE  /\ [d EXCEPT !.mark[x] = m] \in MarkTables
           /\ [d EXCEPT !.mark[x] = m, !.judged = @ + 1] \in MarkTables
<1>1. PICK marks \in [Students -> M!Marks] : marks = [d.mark EXCEPT ![x] = m]
  BY DEF MarkTables
<1>2. /\ [d EXCEPT !.mark[x] = m] = [d EXCEPT !.mark = marks]
      /\ [d EXCEPT !.mark[x] = m, !.judged = @ + 1] = [d EXCEPT !.mark = marks, !.judged = d.judged + 1]
  BY <1>1 DEF MarkTables
<1>3. d.judged + 1 \in Nat
  BY DEF MarkTables
<1> QED BY <1>1, <1>2, <1>3 DEF MarkTables

(* What the backend makes of the tables.                                   *)
LEMMA MarkChanges ==
    ASSUME M!TypeOK, MarkRequests
    PROVE  /\ M!Db \in MarkTables
           /\ \A r \in net : M!HandleJudgeAll(r) \/ M!HandleJudgeOne(r) \/ M!HandleJudgeHtml(r) =>
                 (hist' = hist /\ changed' = changed) \/ \E d \in MarkTables : M!Changed(d)
           /\ \A u \in Students, s \in Scores : M!Result(u, s) => \E d \in MarkTables : M!Changed(d)
<1>1. M!Db \in MarkTables
  BY DEF M!Db, MarkRequests
<1>2. ASSUME NEW r \in net, M!HandleJudgeAll(r) PROVE \E d \in MarkTables : M!Changed(d)
  <2>1. [mark |-> [u \in Students |-> IF u \in M!TurnedIn THEN Unmarked ELSE None],
                judged |-> 0, total |-> M!Cardinality(M!TurnedIn)] \in MarkTables
    <3>1. [u \in Students |-> IF u \in M!TurnedIn THEN Unmarked ELSE None] \in [Students -> M!Marks]
      BY DEF M!Marks
    <3>2. M!Cardinality(M!TurnedIn) \in MarkSizes
      BY DEF MarkSizes, M!TurnedIn
    <3> QED BY <3>1, <3>2 DEF MarkTables
  <2>2. M!Changed([mark |-> [u \in Students |-> IF u \in M!TurnedIn THEN Unmarked ELSE None],
                judged |-> 0, total |-> M!Cardinality(M!TurnedIn)])
    BY <1>2 DEF M!HandleJudgeAll
  <2> QED BY <2>1, <2>2
<1>3. ASSUME NEW r \in net, M!HandleJudgeOne(r)
      PROVE  (hist' = hist /\ changed' = changed) \/ \E d \in MarkTables : M!Changed(d)
  <2>1. PICK d \in MarkTables : d = M!Db
    BY <1>1
  <2>2. [d EXCEPT !.mark[r.id] = Unmarked] \in MarkTables
    BY MarkUpdate DEF M!Marks
  <2> QED BY <1>3, <2>1, <2>2 DEF M!HandleJudgeOne
<1>4. ASSUME NEW r \in net, M!HandleJudgeHtml(r) PROVE \E d \in MarkTables : M!Changed(d)
  <2>1. [M!Db EXCEPT !.mark[r.id] = r.score] \in MarkTables
    BY <1>1, <1>4, MarkUpdate DEF M!Marks, M!HandleJudgeHtml, MarkRequests
  <2> QED BY <1>4, <2>1 DEF M!HandleJudgeHtml
<1>5. ASSUME NEW u \in Students, NEW s \in Scores, M!Result(u, s)
      PROVE  \E d \in MarkTables : M!Changed(d)
  <2>1. PICK d \in MarkTables : d = M!Db
    BY <1>1
  <2>2. [d EXCEPT !.mark[u] = s, !.judged = @ + 1] \in MarkTables
    BY MarkUpdate DEF M!Marks
  <2> QED BY <1>5, <2>1, <2>2 DEF M!Result
<1> QED BY <1>1, <1>2, <1>3, <1>4, <1>5

(* A page that is mounted has everything to come.                          *)
LEMMA MarkMounts ==
    ASSUME MarkInv, NEW p \in {"list", "html"}, NEW u \in Students \cup {None}, M!Mount(p, u),
           UNCHANGED <<html, hist, known, crashed>>
    PROVE  MarkInv'
<1> USE DEF MarkInv
<1>1. M!Blank \in [Students -> M!Records \cup {None}]
  BY DEF M!Blank
<1>2. Len(hist) \in Nat \ {0}
  BY MarkLength DEF MarkRequests
<1>3. M!TypeOK'
  <2>1. /\ page' = p /\ records' = M!Blank /\ student_info' = {} /\ current_key' = "1"
        /\ current_selected' = u /\ current_score' = None /\ lost' = FALSE /\ changed' = FALSE
        /\ at' = Len(hist)
    BY DEF M!Mount
  <2>2. at' \in 1..Len(hist)'
    BY <1>2, <2>1
  <2> QED BY <1>1, <2>1, <2>2 DEF M!TypeOK
<1>4. \A r \in net' : \/ (r \in net /\ r.api \in {"judge_all", "judge_one", "judge_html"})
                      \/ (known /\ r.api = "judge_all")
                      \/ /\ known /\ r.api # "judge_html" /\ r.api # "query_user"
                         /\ r.at = Len(hist)
  <2>1. \A r \in M!Fetch : \/ r.api = "judge_all"
                         \/ (r.api # "judge_html" /\ r.api # "query_user" /\ r.at = Len(hist))
    BY DEF M!Fetch, M!Read
  <2>2. \A r \in net' : \/ (r \in net /\ r.api \in {"judge_all", "judge_one", "judge_html"})
                       \/ (known /\ r \in M!Fetch)
    BY DEF M!Mount
  <2> QED BY <2>1, <2>2
<1>5. MarkRequests'
  BY <1>4 DEF M!Mount, MarkRequests
<1>6. MarkSelected' /\ M!ScoreIsOfSelected' /\ MarkShown'
  BY DEF M!Mount, MarkSelected, M!ScoreIsOfSelected, MarkShown, M!Listed, M!Blank
<1>7. MarkUnasked'
  BY <1>4 DEF MarkUnasked, WasUnmarked
<1>8. MarkLoads'
  <2>1. known => \E r \in net' : r.api = "query_record"
    <3>1. known => M!Read("query_record") \in net'
      BY DEF M!Mount, M!Fetch
    <3> QED BY <3>1 DEF M!Read
  <2>2. known /\ page' = "list" => \E r \in net' : r.api = "query_course"
    <3>1. known /\ page' = "list" => M!Read("query_course") \in net'
      BY DEF M!Mount, M!Fetch
    <3> QED BY <3>1 DEF M!Read
  <2>3. at' = Len(hist')
    BY DEF M!Mount
  <2> QED BY <2>1, <2>2, <2>3 DEF MarkLoads
<1> QED BY <1>3, <1>5, <1>6, <1>7, <1>8

(* What a step that changes neither rows nor tables leaves as it was.      *)
LEMMA MarkKept ==
    ASSUME MarkInv, UNCHANGED <<hist, at, page, records>>
    PROVE  /\ MarkShown'
           /\ \A u, from : WasUnmarked(u, from) => WasUnmarked(u, from)'
           /\ UNCHANGED <<current_selected>> /\ (~crashed' => ~crashed) => MarkSelected'
           /\ UNCHANGED <<current_selected, current_score, scored>> => M!ScoreIsOfSelected'
BY DEF MarkInv, MarkShown, WasUnmarked, MarkSelected, M!ScoreIsOfSelected, M!Listed

(* Answers about the homework, the course and the students.                *)
LEMMA MarkDataAnswers ==
    ASSUME MarkInv, NEW r \in net,
           M!DataAnswer(r) \/ M!CourseAnswer(r) \/ M!UserAnswer(r) \/ M!UriAnswer(r)
    PROVE  MarkInv'
<1> USE DEF MarkInv
<1>1. /\ UNCHANGED <<html, hist, known, page, records, current_key, current_selected, current_score,
                     confirm, clicks, crashed, at, scored, lost, changed>>
  BY DEF M!DataAnswer, M!CourseAnswer, M!UserAnswer, M!UriAnswer, M!Still, M!choice, M!data, M!ghosts
<1>2. /\ \A q \in net' : q \in net \/ (q.api = "query_user" /\ q.id \in Members)
      /\ \A q \in net : q \in net' \/ q = r
      /\ r.api # "query_record"
  BY DEF M!DataAnswer, M!CourseAnswer, M!UserAnswer, M!UriAnswer
<1>3. student_info' \subseteq Students /\ student_info \subseteq student_info'
  BY DEF M!DataAnswer, M!CourseAnswer, M!UserAnswer, M!UriAnswer, M!TypeOK, MarkRequests, M!data
<1>4. M!TypeOK'
  BY <1>1, <1>3 DEF M!TypeOK
<1>5. MarkRequests'
  BY <1>1, <1>2, MarkConstants DEF MarkRequests, M!Blank
<1>6. MarkSelected' /\ M!ScoreIsOfSelected' /\ MarkShown' /\ MarkUnasked'
  BY <1>1, <1>2, MarkKept DEF MarkUnasked
<1>7. MarkLoads'
  <2>1. r.api = "query_course" =>
            \A u \in Members : \E q \in net' : q.api = "query_user" /\ q.id = u
    <3>1. r.api = "query_course" => \A u \in Members :
              [api |-> "query_user", id |-> u, page |-> page] \in net'
      BY DEF M!DataAnswer, M!CourseAnswer, M!UserAnswer, M!UriAnswer
    <3> QED BY <3>1
  <2>2. r.api = "query_user" => r.id \in student_info'
    BY DEF M!DataAnswer, M!CourseAnswer, M!UserAnswer, M!UriAnswer
  <2>3. \A u \in Members : (u \in student_info \/ \E q \in net : q.api = "query_user" /\ q.id = u) =>
            (u \in student_info' \/ \E q \in net' : q.api = "query_user" /\ q.id = u)
    BY <1>2, <1>3, <2>2
  <2>4. M!Db' = M!Db
    BY <1>1 DEF M!Db
  <2> QED BY <1>1, <1>2, <2>1, <2>3, <2>4 DEF MarkLoads
<1> QED BY <1>4, <1>5, <1>6, <1>7

(* A click that sends something, asks or answers the question.             *)
LEMMA MarkClicks ==
    ASSUME MarkInv, ~crashed,
           \/ M!JudgeAll \/ M!ClickSubmit
           \/ \E k \in {"1", "4", "7", "8", "9"} : M!Menu(k)
           \/ \E yes \in BOOLEAN : M!Confirm(yes)
           \/ \E u \in Students : M!JudgeRow(u) /\ ~M!Mount("html", u)
    PROVE  MarkInv'
<1> USE DEF MarkInv
<1>1. UNCHANGED <<html, hist, known, page, records, student_info, loaded, current_selected,
                  current_score, at, scored, lost, changed>>
  BY DEF M!JudgeAll, M!ClickSubmit, M!Menu, M!Confirm, M!JudgeRow, M!Still, M!choice, M!data, M!ghosts
<1>2. /\ \A q \in net : q \in net'
      /\ \A q \in net' : \/ q \in net \/ q.api \in {"judge_all", "judge_one"}
                         \/ (q = confirm /\ confirm # None) \/ M!ClickSubmit
  <2>1. CASE M!JudgeAll
    BY <2>1 DEF M!JudgeAll
  <2>2. CASE \E k \in {"1", "4", "7", "8", "9"} : M!Menu(k)
    BY <2>2 DEF M!Menu
  <2>3. CASE \E yes \in BOOLEAN : M!Confirm(yes)
    BY <2>3 DEF M!Confirm, M!Free
  <2>4. CASE \E u \in Students : M!JudgeRow(u) /\ ~M!Mount("html", u)
    BY <2>4 DEF M!JudgeRow
  <2>5. CASE M!ClickSubmit
    BY <2>5 DEF M!ClickSubmit
  <2> QED BY <2>1, <2>2, <2>3, <2>4, <2>5
<1>3. ASSUME M!ClickSubmit, records[current_selected].mark = Unmarked
      PROVE  /\ confirm' = confirm /\ current_selected \in Students /\ current_score \in Scores
             /\ net' = net \cup {M!Marking(current_selected, current_score, FALSE)}
             /\ WasUnmarked(current_selected, at)
  <2>1. page = "html" /\ current_selected \in M!Listed /\ current_score \in Scores
    BY <1>3 DEF M!ClickSubmit, MarkSelected, M!TypeOK
  <2> QED BY <1>3, <2>1 DEF M!ClickSubmit, M!Listed, MarkShown
<1>4. ASSUME M!ClickSubmit, records[current_selected].mark # Unmarked
      PROVE  /\ net' = net /\ current_selected \in Students /\ current_score \in Scores
             /\ confirm' = M!Marking(current_selected, current_score, TRUE)
  BY <1>4 DEF M!ClickSubmit, MarkSelected, M!TypeOK, M!Listed
<1>5. at \in Nat \ {0}
  BY MarkLength DEF M!TypeOK, MarkRequests
<1>6. ~M!ClickSubmit => confirm' \in {None, confirm}
  BY DEF M!JudgeAll, M!Menu, M!Confirm, M!JudgeRow, M!choice
<1>7. M!TypeOK'
  <2>1. current_key' \in {"1", "4", "7", "8", "9"} /\ crashed' \in BOOLEAN
    BY DEF M!JudgeAll, M!ClickSubmit, M!Menu, M!Confirm, M!JudgeRow, M!choice, M!TypeOK
  <2> QED BY <1>1, <2>1 DEF M!TypeOK
<1>8. MarkRequests'
  <2>1. CASE M!ClickSubmit /\ records[current_selected].mark = Unmarked
    BY <1>1, <1>3, <1>5, <2>1 DEF MarkRequests, M!Marking, M!Blank
  <2>2. CASE M!ClickSubmit /\ records[current_selected].mark # Unmarked
    BY <1>1, <1>4, <1>5, <2>2 DEF MarkRequests, M!Marking, M!Blank
  <2>3. CASE ~M!ClickSubmit
    BY <1>1, <1>2, <1>6, <2>3 DEF MarkRequests, M!Blank
  <2> QED BY <2>1, <2>2, <2>3
<1>9. MarkSelected' /\ M!ScoreIsOfSelected' /\ MarkShown'
  BY <1>1, MarkKept
<1>10. MarkUnasked'
  <2>1. CASE M!ClickSubmit /\ records[current_selected].mark = Unmarked
    BY <1>1, <1>3, <2>1, MarkKept DEF MarkUnasked, M!Marking
  <2>2. CASE M!ClickSubmit /\ records[current_selected].mark # Unmarked
    BY <1>1, <1>4, <2>2, MarkKept DEF MarkUnasked
  <2>3. CASE ~M!ClickSubmit
    BY <1>1, <1>2, <1>6, <2>3, MarkKept DEF MarkUnasked, MarkRequests
  <2> QED BY <2>1, <2>2, <2>3
<1>11. MarkLoads'
  BY <1>1, <1>2 DEF MarkLoads, M!Db
<1> QED BY <1>7, <1>8, <1>9, <1>10, <1>11

(* Another student, or another score.                                      *)
LEMMA MarkChoices ==
    ASSUME MarkInv,
           \/ \E u \in Students : M!ClickStudent(u)
           \/ \E s \in Scores : M!Type(s)
    PROVE  MarkInv'
<1> USE DEF MarkInv
<1>1. UNCHANGED <<html, hist, known, page, records, student_info, loaded, current_key, confirm, net,
                  clicks, crashed, at, lost, changed>>
  BY DEF M!ClickStudent, M!Type, M!Still, M!data
<1>2. current_selected' \in Students \cup {None} /\ current_score' \in Scores \cup {None}
  BY DEF M!ClickStudent, M!Type, M!Select, M!Score, M!TypeOK, M!Records, M!Listed
<1>3. scored' = current_selected'
  BY DEF M!ClickStudent, M!Type, M!Select
<1>4. current_selected' \in {current_selected} \cup M!Listed
  BY DEF M!ClickStudent, M!Type, M!Select
<1>5. M!TypeOK' /\ MarkRequests'
  BY <1>1, <1>2 DEF M!TypeOK, MarkRequests, M!Blank
<1>6. MarkSelected' /\ M!ScoreIsOfSelected'
  BY <1>1, <1>3, <1>4 DEF MarkSelected, M!ScoreIsOfSelected, M!Listed
<1>7. MarkShown' /\ MarkUnasked'
  BY <1>1, MarkKept DEF MarkUnasked
<1>8. MarkLoads'
  BY <1>1 DEF MarkLoads, M!Db, M!Settling
<1> QED BY <1>5, <1>6, <1>7, <1>8

(* The rows came.                                                          *)
LEMMA MarkRecords ==
    ASSUME MarkInv, ~crashed, NEW r \in net, M!RecordsAnswer(r)
    PROVE  MarkInv'
<1> USE DEF MarkInv
<1>1. /\ UNCHANGED <<html, hist, known, page, student_info, loaded, current_key, confirm, clicks, at,
                     lost, changed>>
      /\ r.api = "query_record" /\ known /\ r.at = at
  BY DEF M!RecordsAnswer, M!Still, MarkRequests
<1>2. PICK v \in at..Len(hist) :
          /\ records' \in [Students -> M!Records \cup {None}]
          /\ \A u \in Students : records'[u] \in M!Rows(u, hist[v], page)
  BY <1>1 DEF M!RecordsAnswer
<1>3. /\ \A q \in net' : (q \in net /\ q # r) \/ (page = "html" /\ q.api = "query_user" /\ q.id \in Students)
      /\ \A q \in net : q \in net' \/ q = r
  BY DEF M!RecordsAnswer, M!TypeOK
<1>4. v \in DOMAIN hist /\ at \in Nat \ {0}
  BY <1>2, MarkLength DEF MarkRequests, M!TypeOK
<1> DEFINE Shows == page = "html" /\ records' # M!Blank
<1>5. ASSUME ~Shows PROVE M!TypeOK' /\ MarkSelected' /\ M!ScoreIsOfSelected'
  <2>1. UNCHANGED <<current_selected, current_score, scored>>
    BY <1>5 DEF M!RecordsAnswer
  <2>2. crashed' \in BOOLEAN
    BY DEF M!RecordsAnswer, M!Broken
  <2>3. M!TypeOK'
    BY <1>1, <1>2, <2>1, <2>2 DEF M!TypeOK
  <2>4. MarkSelected'
    BY <1>1, <1>5 DEF MarkSelected, M!Listed, M!Blank
  <2>5. M!ScoreIsOfSelected'
    BY <1>1, <2>1 DEF M!ScoreIsOfSelected
  <2> QED BY <2>3, <2>4, <2>5
<1>6. ASSUME Shows PROVE M!TypeOK' /\ MarkSelected' /\ M!ScoreIsOfSelected'
  <2>1. CASE current_selected = None
    <3>1. PICK u \in Students : /\ records'[u] # None /\ current_selected' = u
                                /\ current_score' = M!Score(records'[u]) /\ scored' = u
      BY <1>6, <2>1 DEF M!RecordsAnswer
    <3>2. current_score' \in Scores \cup {None}
      BY <1>2, <3>1 DEF M!Score, M!Records
    <3>3. crashed' \in BOOLEAN
      BY DEF M!RecordsAnswer, M!Broken
    <3>4. M!TypeOK'
      BY <1>1, <1>2, <3>1, <3>2, <3>3 DEF M!TypeOK
    <3>5. MarkSelected' /\ M!ScoreIsOfSelected'
      BY <3>1 DEF MarkSelected, M!Listed, M!ScoreIsOfSelected
    <3> QED BY <3>4, <3>5
  <2>2. CASE current_selected # None
    <3>1. /\ current_selected' = current_selected
          /\ \/ UNCHANGED <<current_score, scored>>
             \/ /\ records'[current_selected] # None /\ records'[current_selected].mark # Unmarked
                /\ current_score' = records'[current_selected].mark /\ scored' = current_selected
      BY <1>6, <2>2 DEF M!RecordsAnswer
    <3>2. current_score' \in Scores \cup {None}
      BY <1>2, <2>2, <3>1 DEF M!Records, M!TypeOK
    <3>3. crashed' = (records'[current_selected] = None)
      BY <1>1, <1>6, <2>2, <3>1 DEF M!RecordsAnswer, M!Broken
    <3>4. M!TypeOK'
      BY <1>1, <1>2, <3>1, <3>2, <3>3 DEF M!TypeOK
    <3>5. MarkSelected'
      BY <2>2, <3>1, <3>3 DEF MarkSelected, M!Listed, M!TypeOK
    <3>6. M!ScoreIsOfSelected'
      BY <1>1, <3>1 DEF M!ScoreIsOfSelected
    <3> QED BY <3>4, <3>5, <3>6
  <2> QED BY <2>1, <2>2
<1>7. M!TypeOK' /\ MarkSelected' /\ M!ScoreIsOfSelected'
  BY <1>5, <1>6
<1>8. MarkRequests'
  BY <1>1, <1>3 DEF MarkRequests
<1>9. MarkShown'
  <2>1. ASSUME page = "html", NEW u \in Students, records'[u] # None, records'[u].mark = Unmarked
        PROVE  hist[v].mark[u] = Unmarked
    BY <1>2, <2>1 DEF M!Rows
  <2> QED BY <1>1, <1>2, <2>1 DEF MarkShown, WasUnmarked
<1>10. MarkUnasked'
  BY <1>1, <1>3 DEF MarkUnasked, WasUnmarked
<1>11. MarkLoads'
  <2>1. M!Db' = M!Db
    BY <1>1 DEF M!Db
  <2>2. ~changed => v = Len(hist) /\ hist[v] = M!Db
    BY <1>2, <1>4 DEF MarkLoads, M!Db
  <2>3. ~changed => \A u \in M!Settling :
            records'[u] = IF M!Db.mark[u] = None THEN None
                          ELSE [kind |-> "turn_in", mark |-> M!Db.mark[u]]
    BY <1>2, <2>2 DEF M!Rows
  <2> QED BY <1>1, <1>3, <2>1, <2>3 DEF MarkLoads
<1> QED BY <1>7, <1>8, <1>9, <1>10, <1>11

(* An answer that never comes, and a page that is loaded again.            *)
LEMMA MarkLosesAndRestores ==
    ASSUME MarkInv, M!Restored \/ \E r \in net : M!Lose(r)
    PROVE  MarkInv'
<1> USE DEF MarkInv
<1>1. ASSUME NEW r \in net, M!Lose(r) PROVE MarkInv'
  <2>1. /\ UNCHANGED <<html, hist, known, page, records, student_info, loaded, current_key,
                       current_selected, current_score, confirm, clicks, crashed, at, scored, changed>>
        /\ net' = net \ {r}
    BY <1>1 DEF M!Lose, M!Still, M!data, M!choice
  <2>2. lost' \in BOOLEAN /\ (~lost' => ~lost /\ r.api \in {"uri", "judge_all", "judge_one", "judge_html"})
    BY <1>1 DEF M!Lose, M!TypeOK
  <2>3. M!TypeOK' /\ MarkRequests'
    BY <2>1, <2>2 DEF M!TypeOK, MarkRequests, M!Blank
  <2>4. MarkSelected' /\ M!ScoreIsOfSelected' /\ MarkShown' /\ MarkUnasked'
    BY <2>1, MarkKept DEF MarkUnasked
  <2>5. MarkLoads'
    BY <2>1, <2>2 DEF MarkLoads, M!Db
  <2> QED BY <2>3, <2>4, <2>5
<1>2. ASSUME M!Restored PROVE MarkInv'
  <2>1. /\ UNCHANGED <<html, hist, page, records, student_info, loaded, current_key, current_selected,
                       current_score, confirm, clicks, crashed, scored, lost>>
        /\ ~known /\ known' = TRUE /\ net' = net \cup M!Fetch /\ at' = Len(hist) /\ changed' = FALSE
    BY <1>2 DEF M!Restored, M!data, M!choice
  <2>2. Len(hist) \in Nat \ {0}
    BY MarkLength DEF MarkRequests
  <2>3. \A q \in M!Fetch : q.api = "judge_all" \/ (q.api # "judge_html" /\ q.api # "query_user" /\ q.at = Len(hist))
    BY DEF M!Fetch, M!Read
  <2>4. M!TypeOK'
    <3>1. at' \in 1..Len(hist')
      BY <2>1, <2>2
    <3> QED BY <2>1, <3>1 DEF M!TypeOK
  <2>5. MarkRequests'
    BY <2>1, <2>3 DEF MarkRequests
  <2>6. MarkSelected' /\ M!ScoreIsOfSelected' /\ MarkShown'
    BY <2>1 DEF MarkSelected, M!ScoreIsOfSelected, MarkShown, M!Listed, MarkRequests, M!Blank
  <2>7. MarkUnasked'
    BY <2>1, <2>3 DEF MarkUnasked, WasUnmarked
  <2>8. MarkLoads'
    <3>1. M!Read("query_record") \in net' /\ (page' = "list" => M!Read("query_course") \in net')
      BY <2>1 DEF M!Fetch
    <3>2. (\E q \in net' : q.api = "query_record") /\ (page' = "list" => \E q \in net' : q.api = "query_course")
      BY <3>1 DEF M!Read
    <3> QED BY <2>1, <3>2 DEF MarkLoads
  <2> QED BY <2>4, <2>5, <2>6, <2>7, <2>8
<1> QED BY <1>1, <1>2

(* The tables change.                                                      *)
LEMMA MarkBackend ==
    ASSUME MarkInv,
           \/ \E r \in net : M!Handle(r)
           \/ \E u \in Students, s \in Scores : M!Result(u, s)
    PROVE  MarkInv'
<1> USE DEF MarkInv
<1>1. UNCHANGED <<html, known, page, records, student_info, loaded, current_key, current_selected,
                  current_score, confirm, clicks, crashed, at, scored, lost>>
  BY DEF M!Handle, M!HandleJudgeAll, M!HandleJudgeOne, M!HandleJudgeHtml, M!Result, M!data, M!choice
<1>2. /\ \A q \in net' : q \in net \/ q.api = "uri"
      /\ \A q \in net : q \in net' \/ q.api \in {"judge_all", "judge_one", "judge_html"}
  <2>1. CASE \E r \in net : M!Handle(r)
    <3>1. PICK r \in net : M!Handle(r)
      BY <2>1
    <3>2. CASE M!HandleJudgeAll(r)
      BY <3>2 DEF M!HandleJudgeAll
    <3>3. CASE M!HandleJudgeOne(r) \/ M!HandleJudgeHtml(r)
      BY <3>3 DEF M!HandleJudgeOne, M!HandleJudgeHtml
    <3> QED BY <3>1, <3>2, <3>3 DEF M!Handle
  <2>2. CASE \E u \in Students, s \in Scores : M!Result(u, s)
    BY <2>2 DEF M!Result
  <2> QED BY <2>1, <2>2
<1>3. (hist' = hist /\ changed' = changed) \/ \E d \in MarkTables : M!Changed(d)
  BY MarkChanges DEF M!Handle
<1>4. /\ hist' \in Seq(MarkTables) /\ hist' # <<>> /\ changed' \in BOOLEAN
      /\ Len(hist) \in Nat \ {0} /\ Len(hist') \in Nat /\ Len(hist) <= Len(hist')
      /\ \A u : \A from \in Nat \ {0} : WasUnmarked(u, from) => WasUnmarked(u, from)'
      /\ hist' # hist => changed'
  <2>1. CASE hist' = hist /\ changed' = changed
    BY <2>1, MarkLength DEF MarkRequests, M!TypeOK, WasUnmarked
  <2>2. CASE \E d \in MarkTables : M!Changed(d)
    <3>1. PICK d \in MarkTables : M!Changed(d)
      BY <2>2
    <3>2. hist \in Seq(MarkTables) /\ Len(hist) \in Nat \ {0}
      BY MarkLength DEF MarkRequests
    <3>3. /\ hist' \in Seq(MarkTables) /\ hist' # <<>> /\ changed' = TRUE
          /\ Len(hist') \in Nat /\ Len(hist') = Len(hist) + 1
      BY <3>1, <3>2, MarkGrows
    <3>4. \A u : \A from \in Nat \ {0} : WasUnmarked(u, from) => WasUnmarked(u, from)'
      BY <3>1, <3>2, MarkGrows
    <3> QED BY <3>2, <3>3, <3>4
  <2> QED BY <1>3, <2>1, <2>2
<1>5. at \in Nat \ {0}
  BY <1>4 DEF M!TypeOK
<1>6. M!TypeOK'
  <2>1. \A v \in DOMAIN hist' : hist'[v].mark \in [Students -> M!Marks]
    <3>1. \A v \in DOMAIN hist' : hist'[v] \in MarkTables
      BY <1>4
    <3> QED BY <3>1 DEF MarkTables
  <2>2. at' \in 1..Len(hist')
    BY <1>1, <1>4 DEF M!TypeOK
  <2> QED BY <1>1, <1>4, <2>1, <2>2 DEF M!TypeOK
<1>7. MarkRequests'
  BY <1>1, <1>2, <1>4 DEF MarkRequests, M!Blank
<1>8. MarkSelected' /\ M!ScoreIsOfSelected'
  BY <1>1 DEF MarkSelected, M!ScoreIsOfSelected, M!Listed
<1>9. MarkShown'
  BY <1>1, <1>4, <1>5 DEF MarkShown
<1>10. MarkUnasked'
  BY <1>2, <1>4 DEF MarkUnasked, MarkRequests
<1>11. MarkLoads'
  <2>1. ~changed' => ~changed /\ hist' = hist
    BY <1>3 DEF M!Changed
  <2> QED BY <1>1, <1>2, <2>1 DEF MarkLoads, M!Db
<1> QED BY <1>6, <1>7, <1>8, <1>9, <1>10, <1>11

(* Every step of the marking pages keeps their invariant.                  *)
LEMMA MarkStep == ASSUME MarkInv, M!Next PROVE MarkInv'
<1>1. ASSUME NEW p \in {"list", "html"}, M!OpenPage(p) PROVE MarkInv'
  BY <1>1, MarkMounts DEF M!OpenPage
<1>2. ASSUME NEW u \in Students, M!JudgeRow(u) PROVE MarkInv'
  <2>1. CASE M!Mount("html", u)
    <3>1. UNCHANGED <<html, hist, known, crashed>>
      BY <1>2 DEF M!JudgeRow, M!Still
    <3> QED BY <2>1, <3>1, MarkMounts
  <2>2. CASE ~M!Mount("html", u)
    BY <1>2, <2>2, MarkClicks DEF M!Next
  <2> QED BY <2>1, <2>2
<1> QED
  BY <1>1, <1>2, MarkDataAnswers, MarkClicks, MarkChoices, MarkRecords, MarkLosesAndRestores, MarkBackend
  DEF M!Next, M!Click, M!Arrive, M!Handle

(* A score that replaces another was asked about, or the table said        *)
(* unmarked at some time since the page was loaded.                        *)
LEMMA MarkAsksFirst == ASSUME MarkInv, M!Next PROVE M!AsksFirst
<1> SUFFICES ASSUME NEW r \in net \ net', r.api = "judge_html", hist' # hist, ~r.confirmed
             PROVE  \E v \in r.at..Len(hist) : hist[v].mark[r.id] = Unmarked
  BY DEF M!AsksFirst
<1> QED BY DEF MarkInv, MarkUnasked, WasUnmarked

(* When nothing is under way, the rows are those of the table.             *)
LEMMA MarkSettles == ASSUME MarkInv PROVE M!ListSettles
<1> SUFFICES ASSUME \A r \in net : r.api \notin {"query_record", "query_user", "query_course"},
                    known, ~lost, ~changed
             PROVE  /\ \A u \in M!Settling :
                          records[u] = IF M!Db.mark[u] = None THEN None
                                       ELSE [kind |-> "turn_in", mark |-> M!Db.mark[u]]
                    /\ page = "list" => Members \subseteq student_info
  BY DEF M!ListSettles
<1> QED BY DEF MarkInv, MarkLoads

HIDE DEF M!Settling

-----------------------------------------------------------------------------
USE DEF C!Lists, C!Kinds, C!Courses, C!Reads, CourseSaves

(* What is assumed of the constants of the course form.                    *)
LEMMA CourseConstants ==
    /\ Me \in Users /\ Unknown \notin Users /\ FirstCourse \in C!Courses
    /\ \A l \in C!Lists : \A u \in FirstCourse[l] : C!Fits(u, l)
BY ConstantsFit DEF C!FormAssumption, C!Fits

(* An empty form is a form.                                                *)
LEMMA CourseEmpty ==
    C!Empty \in [C!Lists -> [Users -> Nat]] /\ [l \in C!Lists |-> {}] \in C!Courses
BY DEF C!Empty

(* Every page begins in its invariant: the form of a course.               *)
LEMMA CourseBegins == ASSUME C!Init PROVE CourseInv
<1>1. C!TypeOK
  <2>1. hist \in Seq(C!Courses)
    BY CourseConstants DEF C!Init
  <2>2. lists \in [C!Lists -> [Users -> Nat]] /\ removed \in C!Courses
    BY CourseEmpty DEF C!Init
  <2> QED BY <2>1, <2>2 DEF C!Init, C!TypeOK
<1>2. CourseRequests /\ C!ListedOnce /\ CourseOneSave /\ C!AtFormAskedFor /\ CourseSavesComplete
  <2>1. C!ListedOnce
    BY DEF C!Init, C!ListedOnce, C!Empty
  <2>2. CourseOneSave /\ C!AtFormAskedFor
    BY ConstantsFit DEF C!Init, CourseOneSave, C!AtFormAskedFor, C!FormAssumption
  <2>3. CourseRequests /\ CourseSavesComplete
    BY DEF C!Init, CourseRequests, CourseSavesComplete
  <2> QED BY <2>1, <2>2, <2>3
<1>3. CourseLoads
  BY ConstantsFit DEF C!Init, CourseLoads, C!FormAssumption
<1> QED BY <1>1, <1>2, <1>3 DEF CourseInv

(* The list of the tables only grows.                                      *)
LEMMA CourseGrows ==
    ASSUME NEW c \in C!Courses, hist \in Seq(C!Courses), C!Changed(c)
    PROVE  /\ hist' \in Seq(C!Courses)
           /\ hist # <<>> => hist' # <<>> /\ hist'[1] = hist[1]
           /\ \A l, u : Stays(u, l)' => Stays(u, l)
           /\ C!Course' = c
<1>1. hist' = Append(hist, c)
  BY DEF C!Changed
<1> QED BY <1>1 DEF C!Course, Stays

(* What a form is when it has just been mounted.                           *)
LEMMA CourseMounts ==
    ASSUME C!TypeOK, CourseRequests, NEW k \in C!Kinds \cup {None}, NEW rest, rest \subseteq net,
           C!Mount(k, rest)
    PROVE  /\ kind' = k /\ lists' \in [C!Lists -> [Users -> Nat]] /\ removed' \in C!Courses
           /\ filled' = FALSE /\ unheard' \in C!Courses
           /\ \A r \in net' : \/ (r \in net /\ r \in rest /\ r.api \notin C!Reads)
                             \/ (r.api = "query_course" /\ r.at \in Nat \ {0})
<1>1. kind' = k /\ lists' \in [C!Lists -> [Users -> Nat]] /\ filled' = FALSE
  BY CourseEmpty DEF C!Mount
<1>2. removed' \in C!Courses /\ unheard' \in C!Courses
  BY CourseEmpty DEF C!Mount
<1>3. Len(hist) \in Nat \ {0}
  BY DEF C!TypeOK, CourseRequests
<1>4. \A r \in net' : \/ (r \in net /\ r \in rest /\ r.api \notin C!Reads)
                     \/ (r.api = "query_course" /\ r.at \in Nat \ {0})
  BY <1>3 DEF C!Mount, C!CourseQuery
<1> QED BY <1>1, <1>2, <1>4

(* One more entry for a user.                                              *)
LEMMA CoursePushes ==
    ASSUME NEW f \in [C!Lists -> [Users -> Nat]], NEW l \in C!Lists, NEW u \in Users
    PROVE  [f EXCEPT ![l][u] = @ + 1] \in [C!Lists -> [Users -> Nat]]
<1>1. PICK row : row = [f[l] EXCEPT ![u] = f[l][u] + 1]
  OBVIOUS
<1>2. row \in [Users -> Nat]
  <2>1. f[l] \in [Users -> Nat]
    OBVIOUS
  <2>2. f[l][u] + 1 \in Nat
    BY <2>1
  <2> QED BY <1>1, <2>1, <2>2
<1>3. [f EXCEPT ![l][u] = @ + 1] = [f EXCEPT ![l] = row]
  BY <1>1
<1> QED BY <1>2, <1>3

(* The types, and the fields of the requests.                              *)
LEMMA CourseTypes ==
    ASSUME C!TypeOK, CourseRequests, C!Next
    PROVE  C!TypeOK' /\ CourseRequests'
<1> USE CourseConstants, CourseEmpty
<1>1. ASSUME NEW k \in {"create", "edit", "show"}, C!Visit(k) PROVE C!TypeOK' /\ CourseRequests'
  BY <1>1, CourseMounts DEF C!Visit, C!TypeOK, CourseRequests, C!Saving
<1>2. ASSUME C!Restored PROVE C!TypeOK' /\ CourseRequests'
  BY <1>2 DEF C!Restored, C!TypeOK, CourseRequests, C!CourseQuery
<1>3. ASSUME C!Type PROVE C!TypeOK' /\ CourseRequests'
  BY <1>3 DEF C!Type, C!TypeOK, CourseRequests
<1>4. ASSUME C!ClickModify PROVE C!TypeOK' /\ CourseRequests'
  BY <1>4, CourseMounts DEF C!ClickModify, C!Toggle, C!TypeOK, CourseRequests
<1>5. ASSUME C!Cancel PROVE C!TypeOK' /\ CourseRequests'
  BY <1>5, CourseMounts DEF C!Cancel, C!Editable, C!Toggle, C!TypeOK, CourseRequests, C!Saving
<1>6. ASSUME C!Save PROVE C!TypeOK' /\ CourseRequests'
  <2>1. C!TypeOK'
    BY <1>6 DEF C!Save, C!SaveRequest, C!TypeOK
  <2>2. C!SaveRequest.members \in [C!Lists -> SUBSET (Users \cup {Unknown})]
    BY DEF C!SaveRequest, C!Listed, C!TypeOK
  <2>3. C!SaveRequest.members["students"] \subseteq Users /\ C!SaveRequest.api \notin C!Reads
    BY DEF C!SaveRequest, C!Listed
  <2> QED BY <1>6, <2>1, <2>2, <2>3 DEF C!Save, CourseRequests
<1>7. ASSUME NEW u \in Users, NEW l \in C!Lists, C!Search(u, l) \/ C!Delete(u, l)
      PROVE  C!TypeOK' /\ CourseRequests'
  <2>1. CASE C!Search(u, l)
    BY <2>1 DEF C!Search, C!UserQuery, C!TypeOK, CourseRequests
  <2>2. CASE C!Delete(u, l)
    <3>1. lists' \in [C!Lists -> [Users -> Nat]] /\ removed' \in C!Courses
      BY <2>2 DEF C!Delete, C!TypeOK
    <3> QED BY <2>2, <3>1 DEF C!Delete, C!TypeOK, CourseRequests
  <2> QED BY <1>7, <2>1, <2>2
<1>8. ASSUME NEW r \in net, C!CourseAnswer(r) PROVE C!TypeOK' /\ CourseRequests'
  <2>1. PICK v \in r.at..Len(hist) :
            net' = (net \ {r}) \cup {C!UserQuery(x, "tas") : x \in hist[v]["tas"]}
                               \cup {C!UserQuery(x, "students") : x \in hist[v]["students"]}
    BY <1>8 DEF C!CourseAnswer
  <2>2. r.api = "query_course" /\ hist[v] \in C!Courses
    BY <1>8 DEF C!CourseAnswer, CourseRequests, C!TypeOK
  <2>3. \A q \in net' : q \in net \/ (q.api = "query_user" /\ q.user \in Users /\ q.list \in C!Lists)
    BY <2>1, <2>2 DEF C!UserQuery
  <2>4. C!TypeOK'
    BY <1>8, <2>3 DEF C!CourseAnswer, C!TypeOK
  <2>5. hist' = hist
    BY <1>8 DEF C!CourseAnswer
  <2> QED BY <2>3, <2>4, <2>5 DEF CourseRequests
<1>9. ASSUME NEW r \in net, C!UserAnswer(r) PROVE C!TypeOK' /\ CourseRequests'
  <2>1. lists' \in [C!Lists -> [Users -> Nat]]
    <3>1. lists' = lists \/ C!Push(r.user, r.list)
      BY <1>9 DEF C!UserAnswer
    <3>2. r.list \in C!Lists /\ r.user \in Users
      BY <1>9 DEF C!UserAnswer, CourseRequests
    <3>3. lists \in [C!Lists -> [Users -> Nat]]
      BY DEF C!TypeOK
    <3> QED BY <3>1, <3>2, <3>3, CoursePushes DEF C!Push
  <2> QED BY <1>9, <2>1 DEF C!UserAnswer, C!TypeOK, CourseRequests
<1>10. ASSUME NEW r \in net, C!Lose(r) \/ C!Fail(r) PROVE C!TypeOK' /\ CourseRequests'
  <2>1. CASE C!Lose(r)
    <3>1. \A l \in C!Lists : C!About(r, l) \subseteq Users
      BY DEF C!About, CourseRequests
    <3>2. unheard' \in C!Courses
      BY <2>1, <3>1 DEF C!Lose, C!TypeOK
    <3> QED BY <2>1, <3>2 DEF C!Lose, C!TypeOK, CourseRequests
  <2>2. CASE C!Fail(r)
    BY <2>2 DEF C!Fail, C!TypeOK, CourseRequests
  <2> QED BY <1>10, <2>1, <2>2
<1>11. ASSUME NEW r \in net, C!Handle(r) PROVE C!TypeOK' /\ CourseRequests'
  <2>1. r.members \in C!Courses
    BY <1>11 DEF C!Handle, CourseRequests
  <2>2. hist' \in Seq(C!Courses) /\ hist' # <<>> /\ hist'[1] = FirstCourse
    BY <1>11, <2>1, CourseGrows DEF C!Handle, CourseRequests, C!TypeOK
  <2> QED BY <1>11, <2>2 DEF C!Handle, C!TypeOK, CourseRequests
<1>12. ASSUME NEW r \in net, C!Saved(r) PROVE C!TypeOK' /\ CourseRequests'
  <2> DEFINE next == IF r.from = "modify" THEN C!Toggle(kind) ELSE None
  <2>1. CASE next = kind
    BY <1>12, <2>1 DEF C!Saved, C!TypeOK, CourseRequests
  <2>2. CASE next # kind
    <3>1. next \in C!Kinds \cup {None} /\ C!Mount(next, net \ {r})
      BY <1>12, <2>2 DEF C!Saved, C!Toggle, C!TypeOK
    <3> HIDE DEF next
    <3> QED BY <1>12, <3>1, CourseMounts DEF C!Saved, C!TypeOK, CourseRequests
  <2> QED BY <2>1, <2>2
<1>13. ASSUME NEW u \in Users, C!Enrol(u) PROVE C!TypeOK' /\ CourseRequests'
  <2>1. C!Course \in C!Courses
    BY DEF C!Course, C!TypeOK, CourseRequests
  <2>2. PICK s \in {C!Course["students"] \cup {u}, C!Course["students"] \ {u}} :
            C!Changed([C!Course EXCEPT !["students"] = s])
    BY <1>13 DEF C!Enrol
  <2>3. [C!Course EXCEPT !["students"] = s] \in C!Courses
    BY <2>1
  <2>4. hist' \in Seq(C!Courses) /\ hist' # <<>> /\ hist'[1] = FirstCourse
    BY <2>2, <2>3, CourseGrows DEF CourseRequests, C!TypeOK
  <2> QED BY <1>13, <2>4 DEF C!Enrol, C!TypeOK, CourseRequests
<1> QED
  BY <1>1, <1>2, <1>3, <1>4, <1>5, <1>6, <1>7, <1>8, <1>9, <1>10, <1>11, <1>12, <1>13
  DEF C!Next, C!Answer

(* The list of a form does not list anyone twice: a search and the answer  *)
(* about a member both look at who is there.                               *)
LEMMA CourseListsOnce ==
    ASSUME C!TypeOK, CourseRequests, C!ListedOnce, C!Next
    PROVE  C!ListedOnce'
<1>1. ASSUME NEW k, NEW rest, C!Mount(k, rest) PROVE C!ListedOnce'
  BY <1>1 DEF C!Mount, C!ListedOnce, C!Empty
<1>2. ASSUME lists' = lists PROVE C!ListedOnce'
  BY <1>2 DEF C!ListedOnce
<1>3. ASSUME NEW r \in net, C!UserAnswer(r) PROVE C!ListedOnce'
  <2>1. CASE C!Fits(r.user, r.list) /\ r.user \notin C!Listed(r.list)
    <3>1. r.user \in Users /\ r.list \in C!Lists
      BY <1>3 DEF C!UserAnswer, CourseRequests
    <3>2. lists[r.list][r.user] = 0
      BY <2>1, <3>1 DEF C!Listed, C!TypeOK
    <3>3. \A l \in C!Lists, u \in Users : lists'[l][u] = lists[l][u] \/ lists'[l][u] = 1
      BY <1>3, <2>1, <3>1, <3>2 DEF C!UserAnswer, C!Push, C!TypeOK
    <3> QED BY <3>3 DEF C!ListedOnce
  <2>2. CASE ~(C!Fits(r.user, r.list) /\ r.user \notin C!Listed(r.list))
    BY <1>2, <1>3, <2>2 DEF C!UserAnswer
  <2> QED BY <2>1, <2>2
<1>4. ASSUME NEW u \in Users, NEW l \in C!Lists, C!Delete(u, l) PROVE C!ListedOnce'
  BY <1>4 DEF C!Delete, C!TypeOK, C!ListedOnce
<1>5. ASSUME NEW r \in net, C!Saved(r) PROVE C!ListedOnce'
  BY <1>1, <1>2, <1>5 DEF C!Saved
<1>6. ASSUME NEW r \in net, C!CourseAnswer(r) \/ C!Lose(r) \/ C!Handle(r) \/ C!Fail(r)
      PROVE  C!ListedOnce'
  BY <1>2, <1>6 DEF C!CourseAnswer, C!Lose, C!Handle, C!Fail
<1>7. ASSUME NEW k \in {"create", "edit", "show"}, C!Visit(k) PROVE C!ListedOnce'
  BY <1>1, <1>7 DEF C!Visit
<1>8. ASSUME C!ClickModify \/ C!Cancel PROVE C!ListedOnce'
  BY <1>1, <1>8 DEF C!ClickModify, C!Cancel
<1>9. ASSUME C!Restored \/ C!Type \/ C!Save PROVE C!ListedOnce'
  BY <1>2, <1>9 DEF C!Restored, C!Type, C!Save
<1>10. ASSUME NEW u \in Users, NEW l \in C!Lists, C!Search(u, l) PROVE C!ListedOnce'
  BY <1>2, <1>10 DEF C!Search
<1>11. ASSUME NEW u \in Users, C!Enrol(u) PROVE C!ListedOnce'
  BY <1>2, <1>11 DEF C!Enrol
<1> QED
  BY <1>3, <1>4, <1>5, <1>6, <1>7, <1>8, <1>9, <1>10, <1>11
  DEF C!Next, C!Answer

(* While no second save was sent, the save that is under way is that of    *)
(* the form which is mounted.                                              *)
LEMMA CourseFormAskedFor ==
    ASSUME C!TypeOK, CourseOneSave, C!AtFormAskedFor, C!Next
    PROVE  CourseOneSave' /\ C!AtFormAskedFor'
<1> DEFINE Q == CourseOneSave /\ C!AtFormAskedFor
<1> USE DEF C!Editable
<1>0. None \notin C!Kinds
  BY ConstantsFit DEF C!FormAssumption
<1>1. ASSUME NEW k \in {"create", "edit", "show"}, C!Visit(k) PROVE Q'
  <2>1. \A q \in net' : q.api \in CourseSaves => q \in net
    BY <1>1 DEF C!Visit, C!Mount, C!CourseQuery
  <2>2. ~again' => \A q \in net : q.api \notin CourseSaves
    BY <1>1 DEF C!Visit, C!Saving
  <2>3. kind' # "modify" /\ ~modifying'
    BY <1>1 DEF C!Visit, C!Mount
  <2> QED BY <2>1, <2>2, <2>3 DEF CourseOneSave, C!AtFormAskedFor
<1>2. ASSUME C!Restored PROVE Q'
  BY <1>2 DEF C!Restored, C!CourseQuery, C!TypeOK, CourseOneSave, C!AtFormAskedFor
<1>3. ASSUME C!Type PROVE Q'
  BY <1>3 DEF C!Type, CourseOneSave, C!AtFormAskedFor
<1>4. ASSUME C!ClickModify PROVE Q'
  BY <1>4 DEF C!ClickModify, C!Toggle, C!Mount, C!CourseQuery, C!TypeOK, CourseOneSave, C!AtFormAskedFor
<1>5. ASSUME C!Cancel PROVE Q'
  <2>1. \A q \in net' : q.api \in CourseSaves => q \in net
    BY <1>5 DEF C!Cancel, C!Mount, C!CourseQuery
  <2>2. ~again' => \A q \in net : q.api \notin CourseSaves
    BY <1>5 DEF C!Cancel, C!Saving
  <2>3. kind' # "modify" /\ ~modifying'
    BY <1>0, <1>5 DEF C!Cancel, C!Mount, C!Toggle
  <2> QED BY <2>1, <2>2, <2>3 DEF CourseOneSave, C!AtFormAskedFor
<1>6. ASSUME C!Save PROVE Q'
  <2>1. ~again' => ~again /\ \A q \in net : q.api \notin CourseSaves
    BY <1>6 DEF C!Save, C!Saving
  <2>2. C!SaveRequest.from = kind
    BY DEF C!SaveRequest
  <2>3. net' = net \cup {C!SaveRequest} /\ kind' = kind /\ C!Editable /\ modifying' = modifying
    BY <1>6 DEF C!Save
  <2> QED BY <2>1, <2>2, <2>3 DEF CourseOneSave, C!AtFormAskedFor
<1>7. ASSUME NEW u \in Users, NEW l \in C!Lists, C!Search(u, l) \/ C!Delete(u, l) PROVE Q'
  BY <1>7 DEF C!Search, C!Delete, C!UserQuery, CourseOneSave, C!AtFormAskedFor
<1>8. ASSUME NEW r \in net, C!CourseAnswer(r) PROVE Q'
  BY <1>8 DEF C!CourseAnswer, C!UserQuery, CourseOneSave, C!AtFormAskedFor
<1>9. ASSUME NEW r \in net, C!UserAnswer(r) \/ C!Lose(r) \/ C!Fail(r) PROVE Q'
  BY <1>9 DEF C!UserAnswer, C!Lose, C!Fail, CourseOneSave, C!AtFormAskedFor
<1>10. ASSUME NEW r \in net, C!Handle(r) PROVE Q'
  BY <1>10 DEF C!Handle, CourseOneSave, C!AtFormAskedFor
<1>11. ASSUME NEW r \in net, C!Saved(r) PROVE Q'
  <2>1. CASE again
    BY <1>11, <2>1 DEF C!Saved, C!TypeOK, CourseOneSave, C!AtFormAskedFor
  <2>2. CASE ~again
    <3>1. r.from = kind /\ C!Editable /\ \A q \in net \ {r} : q.api \notin CourseSaves
      BY <1>11, <2>2 DEF C!Saved, CourseOneSave
    <3>2. CASE kind = "modify"
      BY <1>11, <2>2, <3>1, <3>2 DEF C!Saved, C!Toggle, C!Mount, C!CourseQuery, CourseOneSave, C!AtFormAskedFor
    <3>3. CASE kind # "modify"
      BY <1>0, <1>11, <2>2, <3>1, <3>3 DEF C!Saved, C!Mount, C!CourseQuery, CourseOneSave, C!AtFormAskedFor
    <3> QED BY <3>2, <3>3
  <2> QED BY <2>1, <2>2
<1>12. ASSUME NEW u \in Users, C!Enrol(u) PROVE Q'
  BY <1>12 DEF C!Enrol, CourseOneSave, C!AtFormAskedFor
<1> QED
  BY <1>1, <1>2, <1>3, <1>4, <1>5, <1>6, <1>7, <1>8, <1>9, <1>10, <1>11, <1>12
  DEF C!Next, C!Answer

(* An answer about a member that was a member all the time is never wrong. *)
LEMMA CourseFormLoads ==
    ASSUME C!TypeOK, CourseRequests, CourseLoads, CourseSavesComplete, C!Next
    PROVE  CourseLoads' /\ CourseSavesComplete'
<1> DEFINE Q == CourseLoads /\ CourseSavesComplete
<1>0. \A l \in C!Lists, u \in Users : Stays(u, l) => C!Fits(u, l)
  BY CourseConstants DEF CourseRequests, Stays, C!TypeOK
<1>1. ASSUME NEW k \in C!Kinds \cup {None}, NEW rest, rest \subseteq net, C!Mount(k, rest),
             hist' = hist, id' = id
      PROVE  Q'
  <2>1. CourseLoads'
    <3>1. kind' \in {"edit", "show", "modify"} /\ id' # Unknown => C!CourseQuery \in net'
      BY <1>1 DEF C!Mount
    <3>2. \A l : C!About(C!CourseQuery, l) = Users
      BY DEF C!CourseQuery, C!About
    <3>3. kind' \in {"edit", "show", "modify"} => \A l : Users \subseteq C!Missing(l)'
      BY <3>1, <3>2 DEF C!Missing, C!About
    <3> QED BY <3>3 DEF CourseLoads
  <2>2. \A r \in net' : r.api = "update_course" => r \in net
    BY <1>1 DEF C!Mount, C!CourseQuery
  <2>3. \A u, l : Stays(u, l)' => Stays(u, l)
    BY <1>1 DEF Stays
  <2>4. CourseSavesComplete'
    BY <2>2, <2>3 DEF CourseSavesComplete
  <2> QED BY <2>1, <2>4
<1>2. \A u, l : hist' = hist => (Stays(u, l)' => Stays(u, l))
  BY DEF Stays
<1>18. ASSUME NEW r, net \ {r} \subseteq net', UNCHANGED <<id, unheard>>, NEW l
      PROVE  C!Missing(l) \ C!About(r, l) \subseteq C!Missing(l)'
  BY <1>18 DEF C!Missing, C!About
<1>19. ASSUME NEW r, r.api \notin C!Reads, net \ {r} \subseteq net', UNCHANGED <<id, unheard>>
      PROVE  \A l : C!Missing(l) \subseteq C!Missing(l)'
  BY <1>18, <1>19 DEF C!About
<1>20. ASSUME net \subseteq net', UNCHANGED <<id, unheard>>
      PROVE  \A l : C!Missing(l) \subseteq C!Missing(l)'
  BY <1>20 DEF C!Missing, C!About
<1>3. ASSUME NEW k \in {"create", "edit", "show"}, C!Visit(k) PROVE Q'
  <2>1. hist' = hist /\ id' = id /\ C!Mount(k, net)
    BY <1>3 DEF C!Visit
  <2> QED BY <1>1, <2>1
<1>4. ASSUME C!Restored PROVE Q'
  <2>1. kind' \in {"edit", "show", "modify"} => C!CourseQuery \in net'
    BY <1>4 DEF C!Restored
  <2>2. C!CourseQuery.api = "query_course" /\ hist' = hist /\ net' \subseteq net \cup {C!CourseQuery}
    BY <1>4 DEF C!Restored, C!CourseQuery
  <2>3. kind' \in {"edit", "show", "modify"} => \A l : Users \subseteq C!Missing(l)'
    BY <2>1, <2>2 DEF C!Missing, C!About
  <2> QED BY <1>2, <2>2, <2>3 DEF CourseLoads, CourseSavesComplete
<1>5. ASSUME C!Type PROVE Q'
  BY <1>2, <1>5, <1>20 DEF C!Type, CourseLoads, CourseSavesComplete
<1>6. ASSUME C!ClickModify \/ C!Cancel PROVE Q'
  <2>1. PICK k \in C!Kinds \cup {None} : hist' = hist /\ id' = id /\ C!Mount(k, net)
    BY <1>6 DEF C!ClickModify, C!Cancel, C!Toggle
  <2> QED BY <1>1, <2>1
<1>7. ASSUME C!Save PROVE Q'
  <2>1. /\ net' = net \cup {C!SaveRequest} /\ C!Editable
        /\ UNCHANGED <<hist, id, kind, lists, removed, unheard>>
    BY <1>7 DEF C!Save
  <2>2. CourseLoads'
    BY <1>2, <1>20, <2>1 DEF CourseLoads
  <2>3. ASSUME C!SaveRequest.api = "update_course",
               NEW l \in C!Lists, NEW u \in Users, Stays(u, l)
        PROVE  \/ u \in C!SaveRequest.members[l] \/ u \in C!SaveRequest.removed[l]
               \/ u \in C!SaveRequest.missing[l]
    <3>1. kind \in {"edit", "show", "modify"}
      BY <2>1, <2>3 DEF C!SaveRequest, C!Editable
    <3>2. lists[l][u] > 0 \/ u \in removed[l] \/ u \in C!Missing(l)
      BY <2>3, <3>1 DEF CourseLoads
    <3> QED BY <3>2 DEF C!SaveRequest, C!Listed
  <2>4. CourseSavesComplete'
    BY <1>2, <2>1, <2>3 DEF CourseSavesComplete
  <2> QED BY <2>2, <2>4
<1>8. ASSUME NEW u \in Users, NEW l \in C!Lists, C!Search(u, l) PROVE Q'
  BY <1>2, <1>8, <1>20 DEF C!Search, C!UserQuery, CourseLoads, CourseSavesComplete
<1>9. ASSUME NEW u \in Users, NEW l \in C!Lists, C!Delete(u, l) PROVE Q'
  <2>1. \A m \in C!Lists, x \in Users :
            lists[m][x] > 0 \/ x \in removed[m] => lists'[m][x] > 0 \/ x \in removed'[m]
    BY <1>9 DEF C!Delete, C!TypeOK
  <2>2. UNCHANGED <<hist, id, kind, net, unheard>>
    BY <1>9 DEF C!Delete
  <2> QED BY <1>2, <1>20, <2>1, <2>2 DEF CourseLoads, CourseSavesComplete
<1>10. ASSUME NEW r \in net, C!CourseAnswer(r) PROVE Q'
  <2>1. PICK v \in r.at..Len(hist) :
            net' = (net \ {r}) \cup {C!UserQuery(x, "tas") : x \in hist[v]["tas"]}
                               \cup {C!UserQuery(x, "students") : x \in hist[v]["students"]}
    BY <1>10 DEF C!CourseAnswer
  <2>2. r.api = "query_course" /\ UNCHANGED <<hist, id, kind, lists, removed, unheard>>
    BY <1>10 DEF C!CourseAnswer
  <2>3. v \in DOMAIN hist
    BY <1>10, <2>2 DEF CourseRequests, C!TypeOK
  <2>4. \A l \in C!Lists, u \in Users : Stays(u, l)' => C!UserQuery(u, l) \in net'
    BY <2>1, <2>2, <2>3 DEF Stays, C!UserQuery
  <2>7. \A l \in C!Lists, u \in Users : u \in C!About(C!UserQuery(u, l), l)
    BY DEF C!About, C!UserQuery
  <2>8. \A l \in C!Lists, u \in Users : Stays(u, l)' => u \in C!Missing(l)'
    BY <2>4, <2>7 DEF C!Missing, C!About
  <2>5. CourseLoads'
    BY <2>8 DEF CourseLoads
  <2>6. \A q \in net' : q.api = "update_course" => q \in net
    BY <2>1 DEF C!UserQuery
  <2> QED BY <1>2, <2>2, <2>5, <2>6 DEF CourseSavesComplete
<1>11. ASSUME NEW r \in net, C!UserAnswer(r) PROVE Q'
  <2>1. net' = net \ {r} /\ r.api = "query_user" /\ UNCHANGED <<hist, id, kind, removed, unheard>>
    BY <1>11 DEF C!UserAnswer
  <2>2. \A l \in C!Lists, u \in Users : lists[l][u] > 0 => lists'[l][u] > 0
    BY <1>11 DEF C!UserAnswer, C!Push, C!TypeOK
  <2>3. \A l \in C!Lists, u \in Users : C!Fits(u, l) /\ u \in C!About(r, l) => lists'[l][u] > 0
    BY <1>11 DEF C!UserAnswer, C!Push, C!Listed, C!About, C!TypeOK
  <2>5. \A l : C!Missing(l) \ C!About(r, l) \subseteq C!Missing(l)'
    BY <1>18, <2>1
  <2>4. CourseLoads'
    BY <1>0, <1>2, <2>1, <2>2, <2>3, <2>5 DEF CourseLoads
  <2> QED BY <1>2, <2>1, <2>4 DEF CourseSavesComplete
<1>12. ASSUME NEW r \in net, C!Lose(r) PROVE Q'
  <2>1. net' = net \ {r} /\ UNCHANGED <<hist, id, kind, lists, removed>>
    BY <1>12 DEF C!Lose
  <2>2. \A l \in C!Lists : C!Missing(l) \subseteq C!Missing(l)'
    BY <1>12, <2>1 DEF C!Lose, C!Missing
  <2> QED BY <1>2, <2>1, <2>2 DEF CourseLoads, CourseSavesComplete
<1>13. ASSUME NEW r \in net, C!Fail(r) PROVE Q'
  BY <1>2, <1>13, <1>19 DEF C!Fail, CourseLoads, CourseSavesComplete
<1>14. ASSUME NEW r \in net, C!Handle(r) PROVE Q'
  <2>1. \A u, l : Stays(u, l)' => Stays(u, l)
    <3>1. CASE hist' = hist
      BY <1>2, <3>1
    <3>2. CASE hist' # hist
      <4>1. r.members \in C!Courses /\ C!Changed(r.members)
        BY <1>14, <3>2 DEF C!Handle, CourseRequests
      <4> QED BY <4>1, CourseGrows DEF C!TypeOK
    <3> QED BY <3>1, <3>2
  <2>2. /\ r.api \notin C!Reads /\ UNCHANGED <<id, kind, lists, removed, unheard>>
        /\ \E q : q.api = "saved" /\ net' = (net \ {r}) \cup {q}
    BY <1>14 DEF C!Handle
  <2>3. CourseLoads'
    BY <1>19, <2>1, <2>2 DEF CourseLoads
  <2> QED BY <2>1, <2>2, <2>3 DEF CourseSavesComplete
<1>15. ASSUME NEW r \in net, C!Saved(r) PROVE Q'
  <2> DEFINE next == IF r.from = "modify" THEN C!Toggle(kind) ELSE None
  <2>0. hist' = hist /\ id' = id /\ r.api = "saved"
    BY <1>15 DEF C!Saved
  <2>1. CASE next = kind
    <3>1. r.api \notin C!Reads /\ net' = net \ {r} /\ UNCHANGED <<id, kind, lists, removed, unheard>>
      BY <1>15, <2>1 DEF C!Saved
    <3> QED BY <1>2, <1>19, <2>0, <3>1 DEF CourseLoads, CourseSavesComplete
  <2>2. CASE next # kind
    <3>1. next \in C!Kinds \cup {None} /\ C!Mount(next, net \ {r})
      BY <1>15, <2>2 DEF C!Saved, C!Toggle, C!TypeOK
    <3> HIDE DEF next
    <3> QED BY <1>1, <2>0, <3>1
  <2> QED BY <2>1, <2>2
<1>16. ASSUME NEW u \in Users, C!Enrol(u) PROVE Q'
  <2>1. C!Course \in C!Courses
    BY DEF C!Course, C!TypeOK, CourseRequests
  <2>2. PICK s \in {C!Course["students"] \cup {u}, C!Course["students"] \ {u}} :
            C!Changed([C!Course EXCEPT !["students"] = s])
    BY <1>16 DEF C!Enrol
  <2>3. [C!Course EXCEPT !["students"] = s] \in C!Courses
    BY <2>1
  <2>4. \A x, l : Stays(x, l)' => Stays(x, l)
    BY <2>2, <2>3, CourseGrows DEF C!TypeOK
  <2> QED BY <1>16, <1>20, <2>4 DEF C!Enrol, CourseLoads, CourseSavesComplete
<1> HIDE DEF Q
<1>17. Q'
  BY <1>3, <1>4, <1>5, <1>6, <1>7, <1>8, <1>9, <1>10, <1>11, <1>12, <1>13, <1>14, <1>15, <1>16
  DEF C!Next, C!Answer
<1> QED BY <1>17 DEF Q

(* A save that is handled takes out only what was deleted in the form.     *)
LEMMA CourseKeeps ==
    ASSUME C!TypeOK, CourseRequests, CourseSavesComplete, C!Next
    PROVE  C!KeepsMembers
<1> SUFFICES ASSUME NEW r \in net \ net', r.api = "update_course", hist' # hist,
                    NEW l \in C!Lists, NEW u \in C!Course[l] \ C!Course'[l],
                    u \notin r.removed[l], u \notin r.missing[l]
             PROVE  C!Joined(u, l)
  BY DEF C!KeepsMembers
<1>1. C!Handle(r)
  <2>1. ASSUME NEW k, NEW rest, C!Mount(k, rest), rest = net PROVE FALSE
    BY <2>1 DEF C!Mount
  <2>2. C!Answer(r)
    BY <2>1 DEF C!Next, C!Visit, C!Restored, C!Type, C!ClickModify, C!Cancel, C!Save, C!Search,
       C!Delete, C!Enrol, C!Answer, C!CourseAnswer, C!UserAnswer, C!Lose, C!Handle, C!Fail, C!Saved
  <2> QED BY <2>2 DEF C!Answer, C!CourseAnswer, C!UserAnswer, C!Lose, C!Fail, C!Saved
<1>2. r.members \in C!Courses /\ C!Changed(r.members)
  BY <1>1 DEF C!Handle, CourseRequests
<1>3. C!Course' = r.members
  BY <1>2, CourseGrows DEF C!TypeOK
<1>4. u \in Users
  BY DEF C!Course, C!TypeOK, CourseRequests
<1>5. ~Stays(u, l)
  BY <1>3, <1>4 DEF CourseSavesComplete
<1> QED BY <1>5 DEF Stays, C!Joined

HIDE DEF C!Lists, C!Kinds, C!Courses, C!Reads, CourseSaves

-----------------------------------------------------------------------------
USE DEF F!Slots

(* What is assumed of the constants of the form of a problem.              *)
LEMMA FormConstants ==
    /\ FirstRow \in F!Rows /\ F!Complete(FirstRow) /\ MaxFiles \in Nat /\ None \notin Languages /\ None \notin Nat
    /\ None \notin [n : 0..MaxFiles, uri : BOOLEAN] /\ None \notin {"stored", "typed"}
    /\ FirstRow.method # 2 => /\ FirstRow.test_language \in FirstRow.language
                              /\ FirstRow.language \subseteq F!Options(FirstRow.method)
BY ConstantsFit DEF F!FormAssumption

(* The form of a problem begins in its invariant.                          *)
LEMMA FormBegins == ASSUME F!Init PROVE FormInv
<1>1. rows \in Seq(F!Rows) /\ F!LanguageFits /\ F!NothingSwallowed
  <2>1. CASE isEditing
    <3>1. rows \in Seq(F!Rows) /\ DOMAIN rows = {1} /\ rows[1] = FirstRow
      BY <2>1, FormConstants DEF F!Init
    <3> QED BY <3>1, FormConstants DEF F!LanguageFits, F!NothingSwallowed
  <2>2. CASE ~isEditing
    BY <2>2 DEF F!Init, F!LanguageFits, F!NothingSwallowed
  <2> QED BY <2>1, <2>2
<1>2. upload \in [F!Slots -> {None} \cup [n : 0..MaxFiles, uri : BOOLEAN]]
  BY FormConstants DEF F!Init, F!Nothing
<1>3. F!TypeOK
  <2>1. /\ isEditing \in BOOLEAN /\ picked = FALSE /\ filled = FALSE /\ validated = FALSE
        /\ at = "form" /\ method \in {0, None} /\ language = {} /\ code_lang = None /\ switch = None
        /\ mde_description = None /\ valued = {} /\ reupload = {} /\ used = {}
    BY DEF F!Init
  <2>2. {isEditing, picked, filled, validated} \subseteq BOOLEAN
    BY <2>1
  <2>3. /\ at \in {"form", "left"} /\ method \in 0..2 \cup {None} /\ language \subseteq Languages
        /\ code_lang \in Languages \cup {None} /\ switch \in {None, "on", "off", "0", "1"}
        /\ mde_description \in {None, "stored", "typed"} /\ valued \subseteq F!Slots
        /\ reupload \subseteq F!Slots /\ used \subseteq 0..MaxFiles
    BY <2>1
  <2> QED BY <1>1, <1>2, <2>2, <2>3 DEF F!TypeOK
<1>4. FormFields
  BY FormConstants DEF F!Init, FormFields, F!Nothing
<1>5. \A r \in net : r.api = "query_problem" /\ isEditing
  BY DEF F!Init
<1>6. FormRequests /\ FormAlone /\ FormAnswers
  BY <1>5 DEF FormRequests, FormAlone, FormAnswers, F!Saves
<1>7. FormTold
  BY DEF F!Init, FormTold
<1> QED BY <1>1, <1>3, <1>4, <1>6, <1>7 DEF FormInv

(* A step that changes no problem and sends no save.                       *)
LEMMA FormKept ==
    ASSUME FormInv, UNCHANGED <<rows, isEditing, saves, told>>,
           \A q \in net' : q \in net \/ (q.api = "upload" /\ q.slot \in F!Slots /\ q.n \in 0..MaxFiles)
    PROVE  /\ F!LanguageFits' /\ F!NothingSwallowed'
           /\ FormRequests' /\ FormAlone' /\ FormAnswers' /\ FormTold'
<1> USE DEF FormInv
<1>1. F!LanguageFits' /\ F!NothingSwallowed'
  BY DEF F!LanguageFits, F!NothingSwallowed
<1>2. FormRequests'
  BY DEF FormRequests, FormSaid
<1>3. FormAlone' /\ FormAnswers'
  BY DEF FormAlone, FormAnswers, F!Saves, Last, Stored
<1>4. FormTold'
  BY DEF FormTold, F!Saves, Last, Stored
<1> QED BY <1>1, <1>2, <1>3, <1>4

(* The fields that are picked.                                             *)
LEMMA FormPicks ==
    ASSUME FormInv,
           \/ F!Type \/ F!Toggle
           \/ \E m \in 0..2 : F!PickMethod(m)
           \/ \E L \in SUBSET F!Options(method) : F!PickLanguages(L)
           \/ \E l \in language : F!PickLanguage(l)
           \/ \E s \in F!Slots : F!Reupload(s)
    PROVE  FormInv'
<1> USE DEF FormInv
<1>1. /\ UNCHANGED <<rows, isEditing, at, upload, validated, valued, saves, files, used, told, chosen>>
      /\ \A q \in net' : q \in net
  BY DEF F!Type, F!Toggle, F!PickMethod, F!PickLanguages, F!PickLanguage, F!Reupload, F!form, F!fields,
     F!counts, F!ghosts
<1>2. /\ picked' \in BOOLEAN /\ filled' \in BOOLEAN /\ method' \in 0..2 \cup {None}
      /\ switch' \in {None, "on", "off", "0", "1"} /\ mde_description' \in {None, "stored", "typed"}
      /\ reupload' \subseteq F!Slots
  BY DEF F!Type, F!Toggle, F!PickMethod, F!PickLanguages, F!PickLanguage, F!Reupload, F!form, F!fields,
     F!TypeOK
<1>3. language' \subseteq Languages /\ code_lang' \in Languages \cup {None}
  BY DEF F!Type, F!Toggle, F!PickMethod, F!PickLanguages, F!PickLanguage, F!Reupload, F!form, F!fields,
     F!TypeOK, F!Options
<1>4. F!TypeOK'
  BY <1>1, <1>2, <1>3 DEF F!TypeOK
<1>5. /\ picked' => method' \in 0..2 /\ (isEditing => method' = FirstRow.method)
      /\ method' \in {0, 1} => language' \subseteq F!Options(method') /\ code_lang' \in language' \cup {None}
  <2>1. CASE \E m \in 0..2 : F!PickMethod(m)
    BY <2>1 DEF F!PickMethod
  <2>2. CASE \E L \in SUBSET F!Options(method) : F!PickLanguages(L)
    BY <2>2 DEF F!PickLanguages, F!form, FormFields
  <2>3. CASE \E l \in language : F!PickLanguage(l)
    BY <2>3 DEF F!PickLanguage, F!form, FormFields
  <2>4. CASE F!Type \/ F!Toggle \/ \E s \in F!Slots : F!Reupload(s)
    BY <2>4 DEF F!Type, F!Toggle, F!Reupload, F!form, F!fields, FormFields
  <2> QED BY <2>1, <2>2, <2>3, <2>4
<1>6. FormFields'
  BY <1>1, <1>5 DEF FormFields
<1> QED BY <1>1, <1>4, <1>6, FormKept

(* The files.                                                              *)
LEMMA FormFiles ==
    ASSUME FormInv,
           \/ \E s \in F!Slots : F!Choose(s) \/ F!Remove(s)
           \/ \E r \in net : F!Uploaded(r)
    PROVE  FormInv'
<1> USE DEF FormInv
<1> DEFINE File == [n : 0..MaxFiles, uri : BOOLEAN]
<1>1. /\ UNCHANGED <<rows, isEditing, at, method, picked, filled, language, code_lang, switch,
                     mde_description, reupload, validated, saves, used, told>>
      /\ \A q \in net' : q \in net \/ (q.api = "upload" /\ q.slot \in F!Slots /\ q.n \in 0..MaxFiles)
  <2>1. ASSUME NEW s \in F!Slots, F!Choose(s)
        PROVE  \A q \in net' : q \in net \/ (q.api = "upload" /\ q.slot \in F!Slots /\ q.n \in 0..MaxFiles)
    BY <2>1, FormConstants DEF F!Choose, FormFields
  <2>2. \A q \in net' : q \in net \/ (q.api = "upload" /\ q.slot \in F!Slots /\ q.n \in 0..MaxFiles)
    BY <2>1 DEF F!Remove, F!Uploaded
  <2> QED BY <2>2 DEF F!Choose, F!Remove, F!Uploaded, F!counts, F!ghosts
<1> DEFINE Fit == /\ upload' \in [F!Slots -> {None} \cup File] /\ valued' \subseteq F!Slots
                  /\ files' \in 0..MaxFiles /\ chosen' \in [F!Slots -> 0..MaxFiles]
                  /\ \A s \in F!Slots : upload'[s] # None => upload'[s].n = chosen'[s]
<1>2. ASSUME NEW s \in F!Slots, F!Choose(s) PROVE Fit
  <2>1. PICK f \in File : f = [n |-> files', uri |-> FALSE] /\ f.n = files' /\ files' \in 0..MaxFiles
    <3>1. files' \in 0..MaxFiles
      BY <1>2, FormConstants DEF F!Choose, FormFields
    <3>2. [n |-> files', uri |-> FALSE] \in File
      BY <3>1
    <3> QED BY <3>1, <3>2
  <2>2. upload' = [upload EXCEPT ![s] = f] /\ chosen' = [chosen EXCEPT ![s] = files'] /\ valued' = valued \cup {s}
    BY <1>2, <2>1 DEF F!Choose
  <2>3. upload \in [F!Slots -> {None} \cup File] /\ valued \subseteq F!Slots
    BY DEF F!TypeOK
  <2> QED BY <2>1, <2>2, <2>3 DEF FormFields
<1>3. ASSUME NEW s \in F!Slots, F!Remove(s) PROVE Fit
  <2>1. /\ upload' = [upload EXCEPT ![s] = None] /\ chosen' = chosen /\ valued' \subseteq valued
        /\ files' = files
    BY <1>3 DEF F!Remove, F!counts, F!ghosts
  <2>2. upload \in [F!Slots -> {None} \cup File] /\ valued \subseteq F!Slots
    BY DEF F!TypeOK
  <2> QED BY <2>1, <2>2 DEF FormFields
<1>4. ASSUME NEW r \in net, F!Uploaded(r) PROVE Fit
  <2>1. r.slot \in F!Slots
    BY <1>4 DEF F!Uploaded, FormRequests
  <2>2. upload \in [F!Slots -> {None} \cup File] /\ valued \subseteq F!Slots
    BY DEF F!TypeOK
  <2>3. PICK f : /\ upload' = [upload EXCEPT ![r.slot] = f] /\ valued' \in {valued, valued \cup {r.slot}}
                 /\ \/ f = None \/ f = upload[r.slot]
                    \/ (upload[r.slot] = [n |-> r.n, uri |-> FALSE] /\ f = [n |-> r.n, uri |-> TRUE])
    BY <1>4 DEF F!Uploaded
  <2>4. ASSUME upload[r.slot] = [n |-> r.n, uri |-> FALSE], f = [n |-> r.n, uri |-> TRUE]
        PROVE  f \in {None} \cup File /\ (f # None => f.n = chosen[r.slot])
    <3>1. r.n \in 0..MaxFiles
      BY <1>4 DEF F!Uploaded, FormRequests
    <3>2. upload[r.slot] # None
      <4>1. [n |-> r.n, uri |-> FALSE] \in [n : 0..MaxFiles, uri : BOOLEAN]
        BY <3>1
      <4> QED BY <2>4, <4>1, FormConstants
    <3>3. r.n = chosen[r.slot]
      BY <2>1, <2>4, <3>2 DEF FormFields
    <3> QED BY <2>4, <3>1, <3>3
  <2>5. f \in {None} \cup File /\ (f # None => f.n = chosen[r.slot])
    BY <2>1, <2>2, <2>3, <2>4 DEF FormFields
  <2>6. chosen' = chosen /\ files' = files
    BY <1>4 DEF F!Uploaded, F!counts, F!ghosts
  <2> QED BY <2>1, <2>2, <2>3, <2>5, <2>6 DEF FormFields
<1> HIDE DEF File
<1>5. Fit
  BY <1>2, <1>3, <1>4
<1>6. F!TypeOK'
  BY <1>1, <1>5 DEF F!TypeOK, File
<1>7. FormFields'
  BY <1>1, <1>5 DEF FormFields
<1> QED BY <1>1, <1>6, <1>7, FormKept

(* The problem that is edited comes.                                       *)
LEMMA FormLoads == ASSUME FormInv, NEW r \in net, F!Load(r) PROVE FormInv'
<1> USE DEF FormInv
<1>1. isEditing /\ rows # <<>> /\ rows[1].method = FirstRow.method /\ rows[1] \in F!Rows /\ 1 \in DOMAIN rows
  BY DEF F!Load, FormRequests, FormFields, F!TypeOK
<1>2. /\ UNCHANGED <<rows, isEditing, at, upload, reupload, saves, files, used, told, chosen>>
      /\ \A q \in net' : q \in net
  BY DEF F!Load, F!counts, F!ghosts
<1>3. /\ method' = rows[1].method /\ language' = rows[1].language /\ code_lang' = rows[1].test_language
      /\ switch' \in {"0", "1"} /\ mde_description' = rows[1].text
      /\ picked' = TRUE /\ filled' = TRUE /\ valued' = {} /\ validated' = FALSE
  BY DEF F!Load
<1>4. /\ method' \in 0..2 /\ language' \subseteq Languages /\ code_lang' \in Languages \cup {None}
      /\ mde_description' \in {None, "stored", "typed"}
  BY <1>1, <1>3 DEF F!Rows
<1>5. F!TypeOK'
  BY <1>2, <1>3, <1>4 DEF F!TypeOK
<1>6. method' # 2 => language' \subseteq F!Options(method') /\ code_lang' \in language'
  BY <1>1, <1>3 DEF F!LanguageFits
<1>7. FormFields'
  BY <1>1, <1>2, <1>3, <1>4, <1>6 DEF FormFields
<1> QED BY <1>2, <1>5, <1>7, FormKept

(* What is sent is what the form holds, and it was checked.                *)
LEMMA FormSends ==
    ASSUME FormInv, F!Valid, \A s \in F!Sent : upload[s] # None, saves' \in Nat
    PROVE  /\ FormSaid(F!Data) /\ F!Data.api = "save" /\ F!Data.n = saves'
           /\ F!Data.alone <=> F!Saves = {}
<1> USE DEF FormInv
<1>1. /\ method \in 0..2 /\ mde_description \in {"stored", "typed"}
      /\ language \subseteq Languages /\ code_lang \in Languages \cup {None}
      /\ isEditing => method = FirstRow.method
  BY DEF F!Valid, F!TypeOK, FormFields
<1>2. method # 2 => code_lang \in language /\ language \subseteq F!Options(method)
  BY <1>1 DEF F!Valid, FormFields
<1>3. F!Sent \subseteq F!Slots /\ (method = 2 => F!Sent = {})
  <2>1. F!Sent \subseteq F!Slots
    BY DEF F!Sent
  <2>2. method = 2 => ~F!Place(method, "code") /\ ~F!Place(method, "case") /\ ~F!Place(method, "script")
    BY DEF F!Place
  <2>3. method = 2 => \A s \in F!Slots : ~F!Rendered(method, s)
    BY <2>2 DEF F!Rendered
  <2> QED BY <2>1, <2>3 DEF F!Sent
<1>10. ~isEditing => \A s \in F!Slots : F!Place(method, s) => s \in F!Sent
  BY DEF F!Sent, F!Rendered
<1>4. \A s \in F!Sent : upload[s].n = chosen[s] /\ upload[s].n \in 0..MaxFiles
  BY <1>3 DEF F!TypeOK, FormFields
<1>5. PICK d : d = F!Data
  OBVIOUS
<1>6. /\ d.api = "save" /\ d.method = method /\ d.text = mde_description /\ d.language = language
      /\ d.test_language = code_lang /\ d.openness \in 0..1 /\ d.n = saves'
      /\ d.files = [s \in F!Sent |-> IF upload[s].uri THEN upload[s].n ELSE None]
      /\ d.shown = [s \in F!Sent |-> chosen[s]]
      /\ d.busy <=> \E s \in F!Sent : ~upload[s].uri
      /\ d.alone <=> F!Saves = {}
  <2>1. /\ d.api = "save" /\ d.method = method /\ d.text = mde_description /\ d.language = language
        /\ d.test_language = code_lang /\ d.n = saves'
    BY <1>5 DEF F!Data
  <2>2. d.openness \in 0..1
    <3>1. d.openness = IF F!On(switch) THEN 1 ELSE 0
      BY <1>5 DEF F!Data
    <3> QED BY <3>1
  <2>3. d.files = [s \in F!Sent |-> IF upload[s].uri THEN upload[s].n ELSE None]
    BY <1>5 DEF F!Data
  <2>4. d.shown = [s \in F!Sent |-> chosen[s]]
    BY <1>5 DEF F!Data
  <2>5. d.busy <=> \E s \in F!Sent : ~upload[s].uri
    BY <1>5, Zenon DEF F!Data
  <2>6. d.alone <=> F!Saves = {}
    BY <1>5, Zenon DEF F!Data
  <2> QED BY <2>1, <2>2, <2>3, <2>4, <2>5, <2>6
<1>7. /\ DOMAIN d.files = F!Sent /\ DOMAIN d.shown = F!Sent
      /\ \A s \in F!Sent : d.files[s] \in 0..MaxFiles \cup {None}
  BY <1>4, <1>6
<1>8. ~d.busy => \A s \in F!Sent : d.files[s] = d.shown[s] /\ d.files[s] # None
  BY <1>4, <1>6, FormConstants
<1>9. FormSaid(d)
  BY <1>1, <1>2, <1>3, <1>6, <1>7, <1>8, <1>10 DEF FormSaid
<1> QED BY <1>5, <1>6, <1>9

(* A save is sent.                                                         *)
LEMMA FormSaves == ASSUME FormInv, F!Save PROVE FormInv'
<1> USE DEF FormInv
<1>1. /\ UNCHANGED <<rows, isEditing, at, picked, filled, language, code_lang, switch, valued, method,
                     upload, reupload, files, used, told, chosen>>
      /\ validated' = TRUE
  BY DEF F!Save, F!fields, F!ghosts
<1>2. mde_description' \in {None, "stored", "typed"}
  BY FormConstants DEF F!Save, F!TypeOK, F!Rows
<1>3. F!TypeOK'
  BY <1>1, <1>2 DEF F!TypeOK
<1>4. CASE UNCHANGED <<saves, net>>
  <2>1. FormFields'
    BY <1>1, <1>4 DEF FormFields
  <2> QED BY <1>1, <1>3, <1>4, <2>1, FormKept
<1>5. CASE F!Valid /\ (\A s \in F!Sent : upload[s] # None) /\ saves' = saves + 1 /\ net' = net \cup {F!Data}
  <2>1. FormFields'
    BY <1>1, <1>5 DEF FormFields
  <2>2. saves \in Nat /\ saves' \in Nat
    BY <1>5 DEF FormFields
  <2>3. PICK d : d = F!Data
    OBVIOUS
  <2>4. FormSaid(d) /\ d.api = "save" /\ d.n = saves + 1 /\ (d.alone <=> F!Saves = {}) /\ net' = net \cup {d}
    BY <1>5, <2>2, <2>3, FormSends
  <2>5. F!LanguageFits' /\ F!NothingSwallowed'
    BY <1>1 DEF F!LanguageFits, F!NothingSwallowed
  <2>6. FormRequests'
    BY <1>1, <1>5, <2>2, <2>4 DEF FormRequests, FormSaid
  <2>7. \A q \in net : q.api \in {"save", "answer"} => ~(q.n = saves + 1)
    BY <2>2 DEF FormRequests
  <2>8. FormAlone'
    BY <1>5, <2>4, <2>7 DEF FormAlone, Last, F!Saves
  <2>9. FormAnswers'
    BY <1>5, <2>4, <2>7 DEF FormAnswers, Last
  <2>10. FormTold'
    BY <1>1, <1>5, <2>2 DEF FormTold, Last
  <2> QED BY <1>3, <2>1, <2>5, <2>6, <2>8, <2>9, <2>10
<1> QED BY <1>4, <1>5 DEF F!Save

(* The form is left.                                                       *)
LEMMA FormLeaves ==
    ASSUME FormInv, NEW pending, pending \subseteq net, F!Leave(pending),
           UNCHANGED <<rows, isEditing, files, saves, types, used>>
    PROVE  F!TypeOK' /\ FormFields' /\ \A q \in net' : q \in pending /\ q.api \in {"save", "answer"}
<1> USE DEF FormInv
<1>1. upload' \in [F!Slots -> {None} \cup [n : 0..MaxFiles, uri : BOOLEAN]]
  BY FormConstants DEF F!Leave, F!Nothing
<1>2. /\ at' = "left" /\ method' = None /\ picked' = FALSE /\ filled' = FALSE /\ language' = {}
      /\ code_lang' = None /\ switch' = None /\ mde_description' = None /\ valued' = {} /\ reupload' = {}
      /\ validated' = FALSE
  BY DEF F!Leave
<1>3. F!TypeOK'
  BY <1>1, <1>2 DEF F!TypeOK
<1>4. FormFields'
  BY <1>2, FormConstants DEF F!Leave, F!Nothing, FormFields
<1> QED BY <1>3, <1>4 DEF F!Leave

(* The form is left, by the assistant or when a save is answered.          *)
LEMMA FormEnds ==
    ASSUME FormInv, F!GiveUp \/ \E r \in net : F!Saved(r)
    PROVE  FormInv'
<1> USE DEF FormInv
<1>1. CASE F!GiveUp
  <2>1. UNCHANGED <<rows, isEditing, files, saves, types, used, told>> /\ F!Leave(net)
    BY <1>1 DEF F!GiveUp, F!counts
  <2> QED BY <2>1, FormLeaves, FormKept
<1>2. ASSUME NEW r \in net, F!Saved(r), r.ok PROVE FormInv'
  <2>1. /\ UNCHANGED <<rows, isEditing, files, saves, types, used>> /\ F!Leave(net \ {r}) /\ told' = r
        /\ r.api = "answer"
    BY <1>2 DEF F!Saved, F!counts
  <2>2. F!TypeOK' /\ FormFields' /\ \A q \in net' : q \in net \ {r} /\ q.api \in {"save", "answer"}
    BY <2>1, FormLeaves
  <2>3. F!LanguageFits' /\ F!NothingSwallowed' /\ FormRequests' /\ FormAlone' /\ FormAnswers'
    BY <2>1, <2>2 DEF F!LanguageFits, F!NothingSwallowed, FormRequests, FormSaid, FormAlone, FormAnswers, F!Saves, Last, Stored
  <2>4. r.n \in 0..saves /\ DOMAIN r.shown \subseteq F!Slots
    BY <2>1 DEF FormRequests
  <2>5. Last(r) => \A q \in net : q.api \in {"save", "answer"} => q = r
    BY <2>1 DEF FormAlone, F!Saves
  <2>6. Last(r) /\ ~r.busy => Stored(r)
    BY <1>2, <2>1 DEF FormAnswers
  <2>7. FormTold'
    BY <2>1, <2>2, <2>4, <2>5, <2>6 DEF FormTold, Last, Stored, F!Saves
  <2> QED BY <2>2, <2>3, <2>7
<1>3. ASSUME NEW r \in net, F!Saved(r), ~r.ok PROVE FormInv'
  <2>1. /\ UNCHANGED <<rows, isEditing, files, saves, types, used, told, chosen>> /\ net' = net \ {r}
        /\ UNCHANGED <<at, picked, filled, language, code_lang, switch, valued, method, mde_description,
                       upload, reupload, validated>>
    BY <1>3 DEF F!Saved, F!counts, F!fields, F!form
  <2>2. F!TypeOK' /\ FormFields'
    BY <2>1 DEF F!TypeOK, FormFields
  <2> QED BY <2>1, <2>2, FormKept
<1> QED BY <1>1, <1>2, <1>3

(* A save is answered: nothing else of the form was under way beside it if *)
(* it was alone, so only its own answer has to be true.                    *)
LEMMA FormAnswered ==
    ASSUME FormInv, NEW r \in net, r.api = "save", NEW ok, NEW row, F!Answer(r, ok, row),
           UNCHANGED <<isEditing, at, F!fields, F!form, F!counts, F!ghosts>>,
           rows' \in Seq(F!Rows), used' \subseteq 0..MaxFiles, F!LanguageFits', F!NothingSwallowed',
           isEditing => rows' # <<>> /\ DOMAIN rows' = {1} /\ rows'[1].method = FirstRow.method,
           ok /\ ~r.busy => /\ row \in DOMAIN rows'
                            /\ \A s \in DOMAIN r.files : rows'[row].files[s] = r.files[s]
    PROVE  FormInv'
<1> USE DEF FormInv
<1>1. /\ UNCHANGED <<isEditing, at, picked, filled, language, code_lang, switch, valued, method,
                     mde_description, upload, reupload, validated, files, saves, types, told, chosen>>
  BY DEF F!fields, F!form, F!counts, F!ghosts
<1>2. F!TypeOK'
  BY <1>1 DEF F!TypeOK
<1>3. FormFields'
  BY <1>1 DEF FormFields
<1>4. PICK a : /\ a.api = "answer" /\ a.row = row /\ a.n = r.n /\ a.shown = r.shown
               /\ (a.ok <=> ok) /\ (a.busy <=> r.busy) /\ (a.alone <=> r.alone)
               /\ net' = (net \ {r}) \cup {a}
  <2>1. PICK a : a = [api |-> "answer", ok |-> ok, row |-> row, n |-> r.n, shown |-> r.shown,
                      busy |-> r.busy, alone |-> r.alone]
    OBVIOUS
  <2>2. a.api = "answer" /\ a.row = row /\ a.n = r.n /\ a.shown = r.shown
    BY <2>1
  <2>3. a.ok = ok /\ a.busy = r.busy /\ a.alone = r.alone
    BY <2>1
  <2>4. net' = (net \ {r}) \cup {a}
    BY <2>1 DEF F!Answer
  <2> QED BY <2>2, <2>3, <2>4
<1>5. FormSaid(r) /\ r.n \in 0..saves
  BY DEF FormRequests
<1>6. FormRequests'
  BY <1>1, <1>4, <1>5 DEF FormRequests, FormSaid
<1>7. r \in F!Saves /\ \A q \in F!Saves : q.api \in {"save", "answer"} /\ q \in net
  BY DEF F!Saves
<1>8. FormAlone'
  BY <1>1, <1>4, <1>7 DEF FormAlone, Last, F!Saves
<1>9. FormAnswers'
  <2>1. ASSUME NEW q \in net', q.api = "answer", q.ok, Last(q)', ~q.busy PROVE Stored(q)'
    <3>1. CASE q = a
      <4>1. ok /\ ~r.busy
        BY <1>4, <2>1, <3>1
      <4>2. DOMAIN r.shown = DOMAIN r.files /\ \A s \in DOMAIN r.files : r.files[s] = r.shown[s]
        BY <1>5, <4>1 DEF FormSaid
      <4> QED BY <1>4, <3>1, <4>1, <4>2 DEF Stored
    <3>2. CASE q # a
      <4>1. q \in net /\ Last(q) /\ q # r
        BY <1>1, <1>4, <2>1, <3>2 DEF Last
      <4>2. q \in F!Saves
        BY <2>1, <4>1 DEF F!Saves
      <4> QED BY <1>7, <4>1, <4>2 DEF FormAlone
    <3> QED BY <3>1, <3>2
  <2> QED BY <2>1 DEF FormAnswers
<1>10. FormTold'
  BY <1>1, <1>7 DEF FormTold, Last
<1> QED BY <1>2, <1>3, <1>6, <1>8, <1>9, <1>10

(* One row of a table is replaced.                                         *)
LEMMA FormReplaces ==
    ASSUME NEW S, NEW before \in Seq(S), NEW i \in DOMAIN before, NEW x \in S, NEW after,
           after = [before EXCEPT ![i] = x]
    PROVE  /\ after \in Seq(S) /\ Len(after) = Len(before) /\ DOMAIN after = DOMAIN before
           /\ after[i] = x /\ \A k \in DOMAIN before : k # i => after[k] = before[k]
<1>1. Len(before) \in Nat /\ DOMAIN before = 1..Len(before) /\ before \in [1..Len(before) -> S]
  OBVIOUS
<1>2. after \in [1..Len(before) -> S]
  BY <1>1
<1>3. after \in Seq(S) /\ Len(after) = Len(before)
  BY <1>1, <1>2
<1> QED BY <1>1, <1>2, <1>3

(* A problem is made: its row is put behind the others, and one that is    *)
(* like it gets the text and the files.                                    *)
LEMMA FormMakes ==
    ASSUME FormInv, NEW r, FormSaid(r), ~isEditing, ~F!Refused(r),
           NEW i \in F!FoundFor(Append(rows, F!NewRow(r))),
           rows' = [Append(rows, F!NewRow(r)) EXCEPT ![i] = F!WithFiles(@, r)]
    PROVE  /\ rows' \in Seq(F!Rows) /\ F!LanguageFits' /\ F!NothingSwallowed'
           /\ i \in DOMAIN rows' /\ \A s \in DOMAIN r.files : rows'[i].files[s] = r.files[s]
           /\ \A s \in DOMAIN r.files : r.files[s] \in 0..MaxFiles
<1> USE DEF FormInv
<1> DEFINE table == Append(rows, F!NewRow(r))
           last == Len(rows) + 1
<1>1. /\ r.method \in 0..2 /\ r.text \in {"stored", "typed"} /\ DOMAIN r.files \subseteq F!Slots
      /\ r.method # 2 => r.test_language \in r.language /\ r.language \subseteq F!Options(r.method)
      /\ \A s \in F!Slots : F!Place(r.method, s) => s \in DOMAIN r.files
  BY DEF FormSaid
<1>2. \A s \in DOMAIN r.files : r.files[s] \in 0..MaxFiles /\ r.files[s] # None
  BY FormConstants DEF FormSaid, F!Refused
<1>3. F!NewRow(r) \in F!Rows
  <2>1. [s \in F!Slots |-> None] \in [F!Slots -> 0..MaxFiles \cup {None}]
    OBVIOUS
  <2>2. (IF r.method = 2 THEN 0 ELSE r.openness) \in 0..1
    BY DEF FormSaid
  <2> QED BY <2>1, <2>2 DEF FormSaid, F!NewRow, F!Rows
<1>4. PICK new \in F!Rows : new = F!NewRow(r)
  BY <1>3
<1>5. new.method = r.method /\ new.language = r.language /\ new.test_language = r.test_language
  BY <1>4 DEF F!NewRow
<1>6. /\ rows \in Seq(F!Rows) /\ table \in Seq(F!Rows) /\ Len(table) = last /\ DOMAIN table = 1..last
      /\ table[last] = new /\ \A k \in DOMAIN rows : table[k] = rows[k] /\ k < last
      /\ DOMAIN rows = 1..Len(rows) /\ Len(rows) \in Nat
  BY <1>3, <1>4 DEF F!TypeOK
<1>7. /\ i \in DOMAIN table /\ rows' = [table EXCEPT ![i] = F!WithFiles(table[i], r)]
      /\ i = last \/ (r.method # 2 /\ F!Alike(table[i], new))
  BY <1>5, <1>6 DEF F!FoundFor
<1> HIDE DEF table
<1>8. table[i] \in F!Rows /\ table[i].method = r.method
  BY <1>5, <1>6, <1>7 DEF F!Alike
<1>9. PICK got : got = F!WithFiles(table[i], r)
  OBVIOUS
<1>10. [s \in F!Slots |-> IF s \in DOMAIN r.files THEN r.files[s] ELSE table[i].files[s]]
          \in [F!Slots -> 0..MaxFiles \cup {None}]
  BY <1>2, <1>8 DEF F!Rows
<1>11. /\ got.method = table[i].method /\ got.language = table[i].language
       /\ got.test_language = table[i].test_language /\ got.openness = table[i].openness
       /\ got.text = r.text /\ \A s \in DOMAIN r.files : got.files[s] = r.files[s]
       /\ got \in F!Rows
  BY <1>1, <1>8, <1>9, <1>10 DEF F!WithFiles, F!Rows
<1>12. F!Complete(got)
  BY <1>1, <1>2, <1>8, <1>11, FormConstants DEF F!Complete
<1>13. /\ rows' \in Seq(F!Rows) /\ DOMAIN rows' = 1..last /\ rows'[i] = got
       /\ \A k \in 1..last : k # i => rows'[k] = table[k]
  <2>1. rows' = [table EXCEPT ![i] = got]
    BY <1>7, <1>9
  <2>2. /\ rows' \in Seq(F!Rows) /\ DOMAIN rows' = DOMAIN table /\ rows'[i] = got
        /\ \A k \in DOMAIN table : k # i => rows'[k] = table[k]
    <3>1. table \in Seq(F!Rows) /\ i \in DOMAIN table /\ got \in F!Rows
      BY <1>6, <1>7, <1>11
    <3> QED BY <2>1, <3>1, FormReplaces
  <2> QED BY <1>6, <2>2
<1>14. F!LanguageFits'
  <2>1. ASSUME NEW k \in 1..last, table[k].method # 2
        PROVE  table[k].test_language \in table[k].language /\ table[k].language \subseteq F!Options(table[k].method)
    BY <1>1, <1>5, <1>6, <2>1 DEF F!LanguageFits
  <2>2. ASSUME NEW k \in DOMAIN rows', rows'[k].method # 2
        PROVE  rows'[k].test_language \in rows'[k].language /\ rows'[k].language \subseteq F!Options(rows'[k].method)
    BY <1>6, <1>7, <1>11, <1>13, <2>1, <2>2
  <2> QED BY <2>2 DEF F!LanguageFits, F!Options
<1>15. F!NothingSwallowed'
  <2>1. SUFFICES ASSUME NEW k \in DOMAIN rows', ~F!Complete(rows'[k])
                 PROVE  \E j \in DOMAIN rows' : j < k /\ F!Complete(rows'[j]) /\ F!Alike(rows'[j], rows'[k])
    BY DEF F!NothingSwallowed, F!Complete, F!Alike, F!Place
  <2>2. k # i /\ rows'[k] = table[k]
    BY <1>12, <1>13, <2>1
  <2>3. CASE k = last
    BY <1>6, <1>7, <1>11, <1>12, <1>13, <2>2, <2>3 DEF F!Alike
  <2>4. CASE k \in DOMAIN rows
    <3>1. PICK j \in DOMAIN rows : j < k /\ F!Complete(rows[j]) /\ F!Alike(rows[j], rows[k])
      BY <1>6, <2>1, <2>2, <2>4 DEF F!NothingSwallowed
    <3>2. CASE j = i
      BY <1>6, <1>11, <1>12, <1>13, <2>2, <2>4, <3>1, <3>2 DEF F!Alike
    <3>3. CASE j # i
      BY <1>6, <1>13, <2>2, <2>4, <3>1, <3>3
    <3> QED BY <3>2, <3>3
  <2> QED BY <1>6, <1>13, <2>3, <2>4
<1> QED BY <1>2, <1>6, <1>7, <1>11, <1>13, <1>14, <1>15

(* The backend makes a problem of what was sent.                           *)
LEMMA FormCreates == ASSUME FormInv, NEW r \in net, F!Create(r) PROVE FormInv'
<1> USE DEF FormInv
<1>1. /\ r.api = "save" /\ FormSaid(r) /\ ~isEditing
      /\ UNCHANGED <<isEditing, at, F!fields, F!form, F!counts, F!ghosts>>
  BY DEF F!Create, FormRequests
<1>2. rows \in Seq(F!Rows) /\ used \subseteq 0..MaxFiles
  BY DEF F!TypeOK
<1>3. CASE r.method # 2 /\ F!Answer(r, FALSE, 0) /\ UNCHANGED <<rows, used>>
  <2>1. F!LanguageFits' /\ F!NothingSwallowed'
    BY <1>3 DEF F!LanguageFits, F!NothingSwallowed
  <2>2. rows' \in Seq(F!Rows) /\ used' \subseteq 0..MaxFiles
    BY <1>2, <1>3
  <2> QED BY <1>1, <1>3, <2>1, <2>2, FormAnswered
<1>4. ASSUME ~F!Refused(r), NEW i \in F!FoundFor(Append(rows, F!NewRow(r))),
             rows' = [Append(rows, F!NewRow(r)) EXCEPT ![i] = F!WithFiles(@, r)],
             \/ F!Answer(r, TRUE, i) /\ used' = used \cup {r.files[s] : s \in DOMAIN r.files}
             \/ r.method # 2 /\ F!Answer(r, FALSE, 0) /\ used' = used
      PROVE  FormInv'
  <2>1. /\ rows' \in Seq(F!Rows) /\ F!LanguageFits' /\ F!NothingSwallowed'
        /\ i \in DOMAIN rows' /\ \A s \in DOMAIN r.files : rows'[i].files[s] = r.files[s]
        /\ \A s \in DOMAIN r.files : r.files[s] \in 0..MaxFiles
    BY <1>1, <1>4, FormMakes
  <2>2. used' \subseteq 0..MaxFiles
    <3>1. used' = used \cup {r.files[s] : s \in DOMAIN r.files} \/ used' = used
      BY <1>4
    <3> QED BY <1>2, <2>1, <3>1
  <2>3. CASE F!Answer(r, TRUE, i)
    BY <1>1, <2>1, <2>2, <2>3, FormAnswered
  <2>4. CASE F!Answer(r, FALSE, 0)
    BY <1>1, <2>1, <2>2, <2>4, FormAnswered
  <2> QED BY <1>4, <2>3, <2>4
<1> QED BY <1>3, <1>4 DEF F!Create

(* The backend changes the problem that is edited.                         *)
LEMMA FormUpdates == ASSUME FormInv, NEW r \in net, F!Update(r) PROVE FormInv'
<1> USE DEF FormInv
<1>1. /\ r.api = "save" /\ FormSaid(r) /\ isEditing
      /\ UNCHANGED <<isEditing, at, F!fields, F!form, F!counts, F!ghosts>>
  BY DEF F!Update, FormRequests
<1>2. /\ rows \in Seq(F!Rows) /\ used \subseteq 0..MaxFiles /\ rows # <<>> /\ rows[1].method = FirstRow.method
      /\ rows[1] \in F!Rows /\ DOMAIN rows = {1}
  BY <1>1 DEF F!TypeOK, FormFields
<1>9. F!Complete(rows[1])
  BY <1>2 DEF F!NothingSwallowed
<1>3. r.method = rows[1].method
  BY <1>1, <1>2 DEF FormSaid
<1> DEFINE named == {s \in DOMAIN r.files : r.files[s] # None}
           archive == named \ {"code"}
<1>4. named \subseteq F!Slots /\ \A s \in named : r.files[s] \in 0..MaxFiles
  BY <1>1 DEF FormSaid
<1>10. \A row : row.method = rows[1].method /\ row.text = r.text
               /\ (\A s \in F!Slots : row.files[s] = rows[1].files[s] \/ (row.files[s] \in 0..MaxFiles))
               => F!Complete(row)
  BY <1>1, <1>9, FormConstants DEF FormSaid, F!Complete
<1> HIDE DEF named
(* The first row is replaced by one with the same method.                  *)
<1>5. ASSUME NEW row \in F!Rows, rows' = [rows EXCEPT ![1] = row], row.method = rows[1].method,
             row.method # 2 => row.test_language \in row.language /\ row.language \subseteq F!Options(row.method),
             F!Complete(row)
      PROVE  /\ rows' \in Seq(F!Rows) /\ F!LanguageFits' /\ F!NothingSwallowed' /\ rows' # <<>>
             /\ DOMAIN rows' = {1} /\ rows'[1] = row /\ rows'[1].method = FirstRow.method
  <2>1. rows' \in Seq(F!Rows) /\ Len(rows') = Len(rows) /\ rows' # <<>> /\ rows'[1] = row
        /\ DOMAIN rows' = DOMAIN rows
        /\ \A i \in DOMAIN rows : i # 1 => rows'[i] = rows[i]
    <3>1. 1 \in DOMAIN rows
      BY <1>2
    <3>2. /\ rows' \in Seq(F!Rows) /\ Len(rows') = Len(rows) /\ DOMAIN rows' = DOMAIN rows
          /\ rows'[1] = row /\ \A k \in DOMAIN rows : k # 1 => rows'[k] = rows[k]
      BY <1>2, <1>5, <3>1, FormReplaces
    <3> QED BY <1>2, <3>1, <3>2
  <2>2. F!LanguageFits'
    BY <1>2, <1>5, <2>1 DEF F!LanguageFits, F!Options
  <2>3. F!NothingSwallowed'
    <3>1. \A k \in DOMAIN rows' : F!Complete(rows'[k])
      BY <1>2, <1>5, <2>1
    <3> QED BY <3>1 DEF F!NothingSwallowed, F!Complete, F!Place
  <2> QED BY <1>2, <1>5, <2>1, <2>2, <2>3
<1>6. ASSUME NEW copied \in SUBSET {s \in archive : r.files[s] \notin used},
             rows' = [rows EXCEPT ![1] =
                    [rows[1] EXCEPT !.text = r.text, !.files = F!Replaced(r, copied)]],
             r.method = 2 \/ archive # {}, F!Answer(r, r.method = 2, 1), used' = used
      PROVE  FormInv'
  <2>1. PICK row : row = [rows[1] EXCEPT !.text = r.text, !.files = F!Replaced(r, copied)]
    OBVIOUS
  <2>2. F!Replaced(r, copied) \in [F!Slots -> 0..MaxFiles \cup {None}]
    BY <1>2, <1>4 DEF F!Rows, F!Replaced
  <2>3. row \in F!Rows /\ row.method = rows[1].method /\ row.test_language = rows[1].test_language
        /\ row.language = rows[1].language /\ row.text = r.text /\ row.files = F!Replaced(r, copied)
    BY <1>1, <1>2, <2>1, <2>2 DEF F!Rows, FormSaid
  <2>8. F!Complete(row)
    BY <1>4, <1>6, <1>10, <2>3 DEF F!Replaced
  <2>4. rows' = [rows EXCEPT ![1] = row]
    BY <1>6, <2>1
  <2>5. row.method # 2 => row.test_language \in row.language /\ row.language \subseteq F!Options(row.method)
    BY <1>2, <2>3 DEF F!LanguageFits
  <2>6. /\ rows' \in Seq(F!Rows) /\ F!LanguageFits' /\ F!NothingSwallowed' /\ rows' # <<>>
        /\ DOMAIN rows' = {1} /\ rows'[1] = row /\ rows'[1].method = FirstRow.method
    BY <1>5, <2>3, <2>4, <2>5, <2>8
  <2>7. r.method = 2 => DOMAIN r.files = {}
    BY <1>1 DEF FormSaid
  <2> QED BY <1>1, <1>2, <1>6, <2>6, <2>7, FormAnswered
<1>7. ASSUME r.method # 2, F!Zip(r) \cap used = {},
             rows' = [rows EXCEPT ![1] =
                 [rows[1] EXCEPT !.text = r.text, !.language = r.language, !.openness = r.openness,
                                 !.test_language = r.test_language, !.files = F!Replaced(r, named)]],
             NEW ok \in BOOLEAN, F!Answer(r, ok, 1), used' = used \cup (F!Zip(r) \ {None})
      PROVE  FormInv'
  <2>1. PICK row : row = [rows[1] EXCEPT !.text = r.text, !.language = r.language, !.openness = r.openness,
                 !.test_language = r.test_language, !.files = F!Replaced(r, named)]
    OBVIOUS
  <2>2. /\ F!Replaced(r, named) \in [F!Slots -> 0..MaxFiles \cup {None}]
        /\ \A s \in named : F!Replaced(r, named)[s] = r.files[s]
    BY <1>2, <1>4 DEF F!Rows, F!Replaced
  <2>3. row \in F!Rows /\ row.method = rows[1].method /\ row.test_language = r.test_language
        /\ row.language = r.language /\ row.text = r.text /\ row.files = F!Replaced(r, named)
        /\ \A s \in named : row.files[s] = r.files[s]
    BY <1>1, <1>2, <1>4, <2>1, <2>2 DEF F!Rows, FormSaid
  <2>10. F!Complete(row)
    BY <1>4, <1>10, <2>3 DEF F!Replaced
  <2>4. rows' = [rows EXCEPT ![1] = row]
    BY <1>7, <2>1
  <2>5. row.test_language \in row.language /\ row.language \subseteq F!Options(row.method)
    BY <1>1, <1>3, <1>7, <2>3 DEF FormSaid
  <2>6. /\ rows' \in Seq(F!Rows) /\ F!LanguageFits' /\ F!NothingSwallowed' /\ rows' # <<>>
        /\ DOMAIN rows' = {1} /\ rows'[1] = row /\ rows'[1].method = FirstRow.method
    BY <1>5, <2>3, <2>4, <2>5, <2>10
  <2>7. used' \subseteq 0..MaxFiles
    BY <1>1, <1>2, <1>7 DEF FormSaid, F!Zip
  <2>8. ~r.busy => \A s \in DOMAIN r.files : s \in named
    BY <1>1 DEF FormSaid, named
  <2>9. ok /\ ~r.busy => /\ 1 \in DOMAIN rows'
                         /\ \A s \in DOMAIN r.files : rows'[1].files[s] = r.files[s]
    BY <2>3, <2>6, <2>8
  <2> QED BY <1>1, <1>7, <2>6, <2>7, <2>9, FormAnswered
<1>8. \/ /\ r.method = 2 \/ archive # {}
         /\ \E copied \in SUBSET {s \in archive : r.files[s] \notin used} :
               rows' = [rows EXCEPT ![1] =
                   [rows[1] EXCEPT !.text = r.text, !.files = F!Replaced(r, copied)]]
         /\ F!Answer(r, r.method = 2, 1) /\ used' = used
      \/ /\ r.method # 2 /\ F!Zip(r) \cap used = {}
         /\ rows' = [rows EXCEPT ![1] =
                [rows[1] EXCEPT !.text = r.text, !.language = r.language, !.openness = r.openness,
                                !.test_language = r.test_language, !.files = F!Replaced(r, named)]]
         /\ \E ok \in BOOLEAN : F!Answer(r, ok, 1)
         /\ used' = used \cup (F!Zip(r) \ {None})
  BY DEF F!Update, named
<1> QED BY <1>6, <1>7, <1>8

(* Every step of the form of a problem keeps its invariant.                *)
LEMMA FormStep == ASSUME FormInv, F!Next PROVE FormInv'
<1>1. CASE F!Save
  BY <1>1, FormSaves
<1>2. CASE F!GiveUp \/ \E r \in net : F!Saved(r)
  BY <1>2, FormEnds
<1>3. CASE \/ F!Type \/ F!Toggle
           \/ \E m \in 0..2 : F!PickMethod(m)
           \/ \E L \in SUBSET F!Options(method) : F!PickLanguages(L)
           \/ \E l \in language : F!PickLanguage(l)
           \/ \E s \in F!Slots : F!Reupload(s)
  BY <1>3, FormPicks
<1>4. CASE \/ \E s \in F!Slots : F!Choose(s) \/ F!Remove(s)
           \/ \E r \in net : F!Uploaded(r)
  BY <1>4, FormFiles
<1>5. CASE \E r \in net : F!Load(r)
  BY <1>5, FormLoads
<1>6. CASE \E r \in net : F!Create(r)
  BY <1>6, FormCreates
<1>7. CASE \E r \in net : F!Update(r)
  BY <1>7, FormUpdates
<1> QED BY <1>1, <1>2, <1>3, <1>4, <1>5, <1>6, <1>7 DEF F!Next

(* What was reported as saved is stored as it was chosen.                  *)
LEMMA FormSaved == ASSUME FormInv PROVE F!SavedAsChosen
BY DEF FormInv, FormTold, F!SavedAsChosen, Last, Stored

HIDE DEF F!Slots

-----------------------------------------------------------------------------
(* Every step of the form of a course keeps its invariant.                 *)
LEMMA CourseStep == ASSUME CourseInv, C!Next PROVE CourseInv'
<1> USE DEF CourseInv
<1>1. C!TypeOK' /\ CourseRequests'
  BY CourseTypes
<1>2. C!ListedOnce'
  BY CourseListsOnce
<1>3. CourseOneSave' /\ C!AtFormAskedFor'
  BY CourseFormAskedFor
<1>4. CourseLoads' /\ CourseSavesComplete'
  BY CourseFormLoads
<1> QED BY <1>1, <1>2, <1>3, <1>4

(* The invariants do not depend on anything but the variables of the page. *)
LEMMA CourseStays == ASSUME CourseInv, UNCHANGED vars PROVE CourseInv'
<1> USE DEF CourseInv
<1>1. UNCHANGED <<hist, filled, net, id, kind, lists, posts, mounts, removed, unheard, modifying, again>>
  BY DEF vars, ofCourse
<1>2. C!TypeOK' /\ CourseRequests'
  BY <1>1 DEF C!TypeOK, CourseRequests
<1>3. C!ListedOnce'
  BY <1>1 DEF C!ListedOnce
<1>4. CourseOneSave' /\ C!AtFormAskedFor'
  BY <1>1 DEF CourseOneSave, C!AtFormAskedFor, C!Editable, C!Course
<1>5. CourseLoads'
  BY <1>1 DEF CourseLoads, Stays, C!Missing, C!About
<1>6. CourseSavesComplete'
  BY <1>1 DEF CourseSavesComplete, Stays
<1> QED BY <1>2, <1>3, <1>4, <1>5, <1>6

(* The same for the marking pages.                                         *)
LEMMA MarkStays == ASSUME MarkInv, UNCHANGED vars PROVE MarkInv'
<1> USE DEF MarkInv
<1>1. UNCHANGED <<hist, net, at, html, known, page, records, student_info, loaded, current_key,
        current_selected, current_score, confirm, clicks, crashed, scored, lost, changed>>
  BY DEF vars, ofMarking
<1>2. M!TypeOK'
  BY <1>1 DEF M!TypeOK
<1>3. MarkRequests' /\ MarkSelected' /\ M!ScoreIsOfSelected'
  BY <1>1 DEF MarkRequests, MarkSelected, M!ScoreIsOfSelected, M!Listed
<1>4. MarkShown' /\ MarkUnasked'
  BY <1>1 DEF MarkShown, MarkUnasked, WasUnmarked
<1>5. MarkLoads'
  BY <1>1 DEF MarkLoads, M!Db, M!Settling
<1> QED BY <1>2, <1>3, <1>4, <1>5

(* The same for the form of a problem.                                     *)
LEMMA FormStays == ASSUME FormInv, UNCHANGED vars PROVE FormInv'
<1> USE DEF FormInv
<1>1. UNCHANGED <<at, net, rows, isEditing, method, picked, filled, language, code_lang, switch,
        mde_description, valued, upload, reupload, files, saves, types, validated, used, told, chosen>>
  BY DEF vars, ofForm
<1>2. F!TypeOK' /\ FormFields'
  BY <1>1 DEF F!TypeOK, FormFields
<1> QED BY <1>1, <1>2, FormKept

(* The pages together begin in the invariant of the one that is shown.     *)
LEMMA InvBegins == Init => Inv
BY CourseBegins, FormBegins, MarkBegins DEF Init, Inv

(* Only the page that is shown takes steps.                                *)
LEMMA InvStep == Inv /\ [Next]_vars => Inv'
<1> SUFFICES ASSUME Inv, [Next]_vars PROVE Inv'
  OBVIOUS
<1>1. which' = which
  BY DEF Next, vars
<1>2. CASE which = "course"
  <2>1. C!Next \/ UNCHANGED vars
    BY <1>2 DEF Next
  <2> QED BY <1>1, <1>2, <2>1, CourseStep, CourseStays DEF Inv
<1>3. CASE which = "form"
  <2>1. F!Next \/ UNCHANGED vars
    BY <1>3 DEF Next
  <2> QED BY <1>1, <1>3, <2>1, FormStep, FormStays DEF Inv
<1>4. CASE which = "marking"
  <2>1. M!Next \/ UNCHANGED vars
    BY <1>4 DEF Next
  <2> QED BY <1>1, <1>4, <2>1, MarkStep, MarkStays DEF Inv
<1> QED BY <1>2, <1>3, <1>4 DEF Inv

(* The invariant of the page that is shown always holds.                   *)
THEOREM InvHolds == Spec => []Inv
BY InvBegins, InvStep, PTL DEF Spec

(* The variables of every page always have their types.                    *)
THEOREM TypesCorrect == Spec => []TypesOK
<1>1. Inv => TypesOK
  BY DEF Inv, TypesOK, CourseInv, FormInv, MarkInv
<1> QED BY <1>1, InvHolds, PTL

(* What a page holds always belongs together: the form of a course is the  *)
(* one that was asked for and lists nobody twice, the score in the box is  *)
(* that of the student who is shown, and the rows settle on those of the   *)
(* table.                                                                  *)
THEOREM PagesCorrect == Spec => []PagesFit
<1>1. Inv => PagesFit
  BY MarkSettles DEF Inv, PagesFit, CourseInv, MarkInv
<1> QED BY <1>1, InvHolds, PTL

(* A problem that was saved is the one in the form, and it is judged in a  *)
(* language that its students may use.                                     *)
THEOREM ProblemCorrect == Spec => []ProblemIsForm
<1>1. Inv => ProblemIsForm
  BY FormSaved DEF Inv, ProblemIsForm, FormInv
<1> QED BY <1>1, InvHolds, PTL

(* No save of a course takes out a member who was not deleted in the form, *)
(* and no mark is replaced without a question unless the page took it for  *)
(* unmarked.                                                               *)
THEOREM NothingIsLost == Spec => NothingLost
<1> DEFINE Kept == /\ which = "course" => C!KeepsMembers
                   /\ which = "marking" => M!AsksFirst
<1>1. Inv /\ [Next]_vars => [Kept]_vars
  <2> SUFFICES ASSUME Inv, Next PROVE Kept
    OBVIOUS
  <2>1. which = "course" => C!KeepsMembers
    BY CourseKeeps DEF Inv, Next, CourseInv
  <2>2. which = "marking" => M!AsksFirst
    BY MarkAsksFirst DEF Inv, Next
  <2> QED BY <2>1, <2>2
<1> QED BY <1>1, InvHolds, PTL DEF Spec, NothingLost
=============================================================================
