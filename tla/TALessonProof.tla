---------------------------- MODULE TALessonProof ----------------------------
(***************************************************************************)
(* Theorems about TALesson, for every course, every number of clicks and   *)
(* changes, and every order of answers.  The invariant has three parts:    *)
(* the types of requests and forms; what keeps a homework form sound       *)
(* (which additions are under way for it, what it has deleted, which rows  *)
(* it was mounted with); and what a calm page is still waiting for: each   *)
(* notice, homework, problem and judge state of the tables is in the lists *)
(* of the page or asked for.                                               *)
(***************************************************************************)
EXTENDS TALesson, FiniteSetTheorems, TLAPS

(* What the requests under way ask for.                                    *)
Request(r, n) ==
    /\ r.api \in Kinds
    /\ r.api \in Reads => r.at \in 1..n /\ r.load \in Nat
    /\ r.api \in {"notice", "create_notice"} => r.id \in Notices
    /\ r.api \in {"homework", "create_homework", "update_homework",
                  "score_openness", "submitable"} => r.id \in Homeworks
    /\ r.api \in {"problem", "add"} => r.id \in Problems
    /\ r.api \in {"judgestate", "judge_all"} => r.id \in Homeworks \X Problems
    /\ r.api = "add" => r.arg \in Nat
    /\ r.api \in {"score_openness", "submitable"} => r.arg \in 0..1
    /\ r.api \in {"create_homework", "update_homework"} =>
          r.arg.form \in FormStates /\ r.arg.deadline \in 0..1

(* The types, part by part.                                                *)
TablesTyped == hist \in Seq(Tables) /\ Len(hist) > 0
NetTyped == \A r \in net : Request(r, Len(hist))
ListsTyped ==
    /\ infoitems \subseteq [id : Notices, load : Nat]
    /\ homeworkitems \subseteq [id : Homeworks, load : Nat, row : Rows]
    /\ problemitems \in [Problems -> [row : BOOLEAN, status : 0..2 \cup {None}]]
FlagsTyped ==
    /\ now \in 0..1 /\ selected \in {"1", "2", "3", "4", "5"}
    /\ {known, newnotice, crashed, overlapped, lost, others} \subseteq BOOLEAN /\ doubled \subseteq Problems
    /\ newhomework \in {"no", "new"} \cup Homeworks
    /\ loads \in Nat /\ clicks \in 0..MaxClicks
FormTyped == form = None \/ form \in FormStates
Typed == TablesTyped /\ NetTyped /\ ListsTyped /\ FlagsTyped /\ FormTyped

(* A form is of the homework that is edited, which the list shows.         *)
FormPlace == form # None => newhomework = "new" \/ \E i \in homeworkitems : i.id = newhomework

(* Additions under way are of the mounted form or of earlier ones.         *)
FormLoads ==
    /\ form # None => form.load <= loads
    /\ \A r \in net : r.api = "add" =>
          /\ form = None => r.arg < loads
          /\ form # None => r.arg <= form.load

(* What is being added is not listed, and is being added once.             *)
FormOnce ==
    form # None =>
        /\ \A p \in Problems \ doubled : form.problems[p] <= 1
        /\ \A r \in net : r.api = "add" /\ r.arg = form.load /\ r.id \notin doubled =>
              /\ form.problems[r.id] = 0
              /\ \A q \in net : q.api = "add" /\ q.arg = form.load /\ q.id = r.id => q = r

(* What the homework had and the form, or a save of it, does not list was  *)
(* deleted there, or had not come.                                         *)
Kept(f) == f.base \ Listed(f) \subseteq f.removed \cup f.missing
FormKeeps ==
    /\ form # None => Kept(form)
    /\ \A r \in net : r.api = "update_homework" => Kept(r.arg.form)

(* Of a problem of a shown homework the row is there or asked for.         *)
RowsLoad ==
    ~lost => \A i \in homeworkitems : \A p \in i.row.problems :
                problemitems[p].row \/ \E r \in net : r.api = "problem" /\ r.id = p

(* The page breaks while it mounts a form with a problem that had not come.*)
Breaks == crashed => form # None /\ \E p \in form.missing : form.problems[p] > 0

FormInv == FormPlace /\ FormLoads /\ FormOnce /\ FormKeeps /\ RowsLoad /\ Breaks

(* No load is outstanding, and nothing went wrong.                         *)
Calm == loads > 0 /\ ~overlapped /\ ~lost /\ ~others /\ \A r \in net : r.api # "done"

(* Any state an answer may still hold is the present one.                  *)
Current == \A r \in net : r.api \in Reads => r.load = loads /\ \A v \in r.at..Len(hist) : hist[v] = Db
Asked(api, id) == \E r \in net : r.api = api /\ r.id = id

(* Each notice is listed or asked for, and so is each homework.            *)
NoticesSettle ==
    /\ \A i \in infoitems : i.load = loads /\ i.id \in Db.notices
    /\ \A r \in net : r.api = "notice" => r.id \in Db.notices
    /\ Asked("course", None) \/ \A n \in Db.notices : Asked("notice", n) \/ n \in Ids(infoitems)

HomeworksSettle ==
    /\ \A i \in homeworkitems : i.load = loads /\ i.id \in Existing(Db) /\ i.row = Db.homeworks[i.id]
    /\ \A r \in net : r.api = "homework" => r.id \in Existing(Db)
    /\ Asked("course", None) \/ \A h \in Existing(Db) : Asked("homework", h) \/ h \in Ids(homeworkitems)

(* A problem that is shown, or asked for, has a judge state of one of its  *)
(* homeworks, or one is on its way.                                        *)
Member(x) == x[1] \in Existing(Db) /\ x[2] \in Db.homeworks[x[1]].problems
Settled(p) == \E h \in Homeworks : Member(<<h, p>>) /\ problemitems[p].status = Db.judging[<<h, p>>]
StateAsked(p) == \E r \in net : r.api = "judgestate" /\ r.id[2] = p
ProblemsSettle ==
    /\ \A r \in net : r.api = "judgestate" => Member(r.id)
    /\ \A p \in Problems : Shown(p) \/ Asked("problem", p) => Settled(p) \/ StateAsked(p)

Settle == Calm => Current /\ NoticesSettle /\ HomeworksSettle /\ ProblemsSettle
KnownLoads == known => loads > 0

Inv == Typed /\ FormInv /\ KnownLoads /\ Settle

(* A request stays typed when the tables change.                           *)
LEMMA Earlier ==
    ASSUME NEW r, NEW m \in Nat, NEW n \in Nat, m <= n, Request(r, m)
    PROVE  Request(r, n)
<1>1. r.api \in Reads => r.at \in 1..n /\ r.load \in Nat
  BY DEF Request
<1> QED BY <1>1 DEF Request

(* The tables now, and at every moment before, are tables.                 *)
LEMMA DbTyped ==
    ASSUME TablesTyped
    PROVE  /\ Db \in Tables /\ Len(hist) \in Nat /\ Len(hist) > 0
           /\ \A v \in 1..Len(hist) : hist[v] \in Tables
  BY DEF TablesTyped, Db

(* The fields of a question.                                               *)
LEMMA ReadIs ==
    ASSUME NEW r, NEW api, NEW id
    PROVE  /\ Read(r, api, id).api = api /\ Read(r, api, id).id = id
           /\ Read(r, api, id).load = r.load /\ Read(r, api, id).at = Len(hist)
  BY DEF Read

(* A question about a thing of the right kind is typed.                    *)
LEMMA ReadTyped ==
    ASSUME TablesTyped, NEW r, NEW api \in Reads, NEW id, r.load \in Nat,
           api = "notice" => id \in Notices,
           api = "homework" => id \in Homeworks,
           api = "problem" => id \in Problems,
           api = "judgestate" => id \in Homeworks \X Problems
    PROVE  /\ Request(Read(r, api, id), Len(hist))
           /\ Read(r, api, id).api = api /\ Read(r, api, id).id = id
           /\ Read(r, api, id).load = r.load /\ Read(r, api, id).at = Len(hist)
<1> PICK l : l = r.load
  OBVIOUS
<1> PICK n : n = Len(hist)
  OBVIOUS
<1>1. Read(r, api, id) = [api |-> api, id |-> id, load |-> l, at |-> n]
  BY DEF Read
<1>2. l \in Nat /\ n \in 1..n
  BY DbTyped
<1> QED BY <1>1, <1>2 DEF Request, Reads, Kinds, Writes

(* An answer that asks typed questions leaves the requests typed.          *)
LEMMA AskTyped ==
    ASSUME NetTyped, TablesTyped, NEW r, NEW asked, Ask(r, asked), hist' = hist,
           \A q \in asked : Request(q, Len(hist))
    PROVE  NetTyped'
  BY DEF NetTyped, Ask

(* A load empties the lists and asks for the course.                       *)
LEMMA LoadTyped ==
    ASSUME Typed, NEW rest, \A r \in rest : Request(r, Len(hist)), Load(rest), hist' = hist
    PROVE  /\ ListsTyped' /\ NetTyped' /\ loads' \in Nat /\ overlapped' \in BOOLEAN
<1> DEFINE q == [load |-> loads + 1]
<1>1. q.load \in Nat
  BY DEF Typed, FlagsTyped
<1>2. Request(Read(q, "course", None), Len(hist))
  BY <1>1, ReadTyped DEF Typed, Reads
<1>3. NetTyped'
  BY <1>2 DEF NetTyped, Load
<1>4. overlapped' \in BOOLEAN
  BY DEF Typed, FlagsTyped, Load
<1>5. ListsTyped'
  BY DEF Load, ListsTyped, Absent
<1> QED BY <1>1, <1>3, <1>4, <1>5 DEF Load

(* What render does with the form.                                         *)
LEMMA RenderForm ==
    ASSUME Render
    PROVE  /\ \/ form' = None
              \/ form # None /\ form' = form
                 /\ (newhomework' = "new" \/ \E i \in homeworkitems' : i.id = newhomework')
              \/ form = None /\ newhomework' = "new" /\ form' = NewForm
              \/ form = None /\ \E i \in homeworkitems' :
                    i.id = newhomework' /\ form' = EditForm(i.row, problemitems')
           /\ crashed' = (form = None /\ form' # None
                          /\ \E p \in Problems : form'.problems[p] > 0 /\ ~problemitems'[p].row)
           /\ form # None /\ (newhomework' = "new" \/ \E i \in homeworkitems' : i.id = newhomework')
                 => form' = form
  BY DEF Render

(* The form of a new homework lists nothing.                               *)
LEMMA NewFormTyped ==
    ASSUME loads' \in Nat
    PROVE  /\ NewForm \in FormStates /\ NewForm.load = loads' /\ NewForm.base = {}
           /\ \A p \in Problems : NewForm.problems[p] = 0
  BY DEF NewForm, FormStates

(* The form of a homework lists the problems that the page has.            *)
LEMMA EditFormIs ==
    ASSUME NEW row \in Rows, NEW items, loads' \in Nat, Unheard \subseteq Problems
    PROVE  /\ EditForm(row, items) \in FormStates
           /\ EditForm(row, items).load = loads' /\ EditForm(row, items).base = row.problems
           /\ EditForm(row, items).removed = {}
           /\ EditForm(row, items).missing = Unheard
           /\ \A p \in Problems : EditForm(row, items).problems[p] =
                                      IF p \in row.problems /\ items[p] # Absent THEN 1 ELSE 0
<1> PICK e \in SUBSET Problems : e = Unheard
  OBVIOUS
<1> PICK ps : ps = [p \in Problems |-> IF p \in row.problems /\ items[p] # Absent THEN 1 ELSE 0]
  OBVIOUS
<1> PICK l \in Nat : l = loads'
  OBVIOUS
<1> PICK b \in SUBSET Problems, t \in 0..1 : b = row.problems /\ t = row.deadline
  BY DEF Rows
<1>1. ps = [p \in Problems |-> IF p \in {q \in row.problems : items[q] # Absent} THEN 1 ELSE 0]
  OBVIOUS
<1>2. EditForm(row, items) = [problems |-> ps, deadline |-> t, base |-> b,
                              removed |-> {}, load |-> l, missing |-> e]
  BY <1>1, Zenon DEF EditForm
<1>3. ps \in [Problems -> Nat]
  OBVIOUS
<1> QED BY <1>2, <1>3 DEF FormStates

(* The problems that had not come are problems.                            *)
LEMMA UnheardTyped ==
    ASSUME NetTyped'
    PROVE  Unheard \subseteq Problems
  BY DEF NetTyped, Request, Unheard

(* render keeps the type of the form.                                      *)
LEMMA RenderTyped ==
    ASSUME FormTyped, Render, ListsTyped', NetTyped', loads' \in Nat
    PROVE  FormTyped' /\ crashed' \in BOOLEAN
<1>1. crashed' \in BOOLEAN
  BY RenderForm
<1>2. CASE form' = None
  BY <1>1, <1>2 DEF FormTyped
<1>3. CASE form # None /\ form' = form
  BY <1>1, <1>3 DEF FormTyped
<1>4. CASE form' = NewForm
  BY <1>1, <1>4, NewFormTyped DEF FormTyped
<1>5. CASE \E i \in homeworkitems' : i.id = newhomework' /\ form' = EditForm(i.row, problemitems')
  <2> PICK i \in homeworkitems' : form' = EditForm(i.row, problemitems')
    BY <1>5
  <2> PICK row \in Rows : row = i.row
    BY DEF ListsTyped
  <2> QED BY <1>1, EditFormIs, UnheardTyped DEF FormTyped
<1> QED BY <1>2, <1>3, <1>4, <1>5, RenderForm

(* Tables with another row of a homework.                                  *)
LEMMA HomeworksTyped ==
    ASSUME NEW d \in Tables, NEW h \in Homeworks, NEW row \in Rows \cup {None}
    PROVE  /\ [d EXCEPT !.homeworks[h] = row] \in Tables
           /\ [d EXCEPT !.homeworks[h] = row].homeworks[h] = row
<1> PICK a \in [Homeworks -> Rows \cup {None}], b \in SUBSET Notices, c \in [Homeworks \X Problems -> 0..2] :
        d = [homeworks |-> a, notices |-> b, judging |-> c]
  BY DEF Tables
<1>1. [d EXCEPT !.homeworks[h] = row] = [homeworks |-> [a EXCEPT ![h] = row], notices |-> b, judging |-> c]
  OBVIOUS
<1>2. [a EXCEPT ![h] = row] \in [Homeworks -> Rows \cup {None}] /\ [a EXCEPT ![h] = row][h] = row
  OBVIOUS
<1> QED BY <1>1, <1>2 DEF Tables

(* Tables with other notices.                                              *)
LEMMA NoticesTyped ==
    ASSUME NEW d \in Tables, NEW m \in SUBSET Notices
    PROVE  [d EXCEPT !.notices = m] \in Tables
<1> PICK a \in [Homeworks -> Rows \cup {None}], b \in SUBSET Notices, c \in [Homeworks \X Problems -> 0..2] :
        d = [homeworks |-> a, notices |-> b, judging |-> c]
  BY DEF Tables
<1>1. [d EXCEPT !.notices = m] = [homeworks |-> a, notices |-> m, judging |-> c]
  OBVIOUS
<1> QED BY <1>1 DEF Tables

(* Tables with other judge states.                                         *)
LEMMA JudgingsTyped ==
    ASSUME NEW d \in Tables, NEW j \in [Homeworks \X Problems -> 0..2]
    PROVE  [d EXCEPT !.judging = j] \in Tables /\ [d EXCEPT !.judging = j].homeworks = d.homeworks
<1> PICK a \in [Homeworks -> Rows \cup {None}], b \in SUBSET Notices, c \in [Homeworks \X Problems -> 0..2] :
        d = [homeworks |-> a, notices |-> b, judging |-> c]
  BY DEF Tables
<1>1. [d EXCEPT !.judging = j] = [homeworks |-> a, notices |-> b, judging |-> j]
  OBVIOUS
<1> QED BY <1>1 DEF Tables

(* Tables with another judge state of a problem.                           *)
LEMMA OneJudgingTyped ==
    ASSUME NEW d \in Tables, NEW x \in Homeworks \X Problems, NEW s \in 0..2
    PROVE  [d EXCEPT !.judging[x] = s] \in Tables
<1> PICK a \in [Homeworks -> Rows \cup {None}], b \in SUBSET Notices, c \in [Homeworks \X Problems -> 0..2] :
        d = [homeworks |-> a, notices |-> b, judging |-> c]
  BY DEF Tables
<1>1. [d EXCEPT !.judging[x] = s] = [homeworks |-> a, notices |-> b, judging |-> [c EXCEPT ![x] = s]]
  OBVIOUS
<1>2. [c EXCEPT ![x] = s] \in [Homeworks \X Problems -> 0..2]
  OBVIOUS
<1> QED BY <1>1, <1>2 DEF Tables

(* A row with other problems.                                              *)
LEMMA ProblemsSaved ==
    ASSUME NEW row \in Rows, NEW ps \in SUBSET Problems
    PROVE  [row EXCEPT !.problems = ps] \in Rows /\ [row EXCEPT !.problems = ps].problems = ps
<1> PICK a \in SUBSET Problems, b \in 0..1, c \in 0..1, e \in 0..1 :
        row = [problems |-> a, deadline |-> b, score_openness |-> c, submitable |-> e]
  BY DEF Rows
<1>1. [row EXCEPT !.problems = ps]
          = [problems |-> ps, deadline |-> b, score_openness |-> c, submitable |-> e]
  OBVIOUS
<1> QED BY <1>1 DEF Rows

(* A row with another deadline.                                            *)
LEMMA DeadlineSaved ==
    ASSUME NEW row \in Rows, NEW t \in 0..1
    PROVE  [row EXCEPT !.deadline = t] \in Rows /\ [row EXCEPT !.deadline = t].problems = row.problems
<1> PICK a \in SUBSET Problems, b \in 0..1, c \in 0..1, e \in 0..1 :
        row = [problems |-> a, deadline |-> b, score_openness |-> c, submitable |-> e]
  BY DEF Rows
<1>1. [row EXCEPT !.deadline = t]
          = [problems |-> a, deadline |-> t, score_openness |-> c, submitable |-> e]
  OBVIOUS
<1> QED BY <1>1 DEF Rows

(* A row with another value of a switch.                                   *)
LEMMA RowToggled ==
    ASSUME NEW row \in Rows, NEW v \in 0..1
    PROVE  /\ [row EXCEPT !["score_openness"] = v] \in Rows
           /\ [row EXCEPT !["submitable"] = v] \in Rows
<1> PICK a \in SUBSET Problems, b \in 0..1, c \in 0..1, e \in 0..1 :
        row = [problems |-> a, deadline |-> b, score_openness |-> c, submitable |-> e]
  BY DEF Rows
<1>1. [row EXCEPT !["score_openness"] = v]
          = [problems |-> a, deadline |-> b, score_openness |-> v, submitable |-> e]
  OBVIOUS
<1>2. [row EXCEPT !["submitable"] = v]
          = [problems |-> a, deadline |-> b, score_openness |-> c, submitable |-> v]
  OBVIOUS
<1> QED BY <1>1, <1>2 DEF Rows

(* The values the buttons of a card ask for.                               *)
LEMMA RowToggles ==
    ASSUME NEW row \in Rows
    PROVE  1 - row["score_openness"] \in 0..1 /\ 1 - row["submitable"] \in 0..1
  BY DEF Rows

(* Judge states without those of the problems that left a homework.        *)
LEMMA JudgedTyped ==
    ASSUME NEW d \in Tables, NEW h, NEW ps
    PROVE  Judged(d, h, ps) \in [Homeworks \X Problems -> 0..2]
<1> PICK c \in [Homeworks \X Problems -> 0..2] : d.judging = c
  BY DEF Tables
<1>1. Judged(d, h, ps) = [x \in Homeworks \X Problems |-> IF x[1] = h /\ x[2] \notin ps THEN 0 ELSE c[x]]
  BY DEF Judged
<1>2. \A x \in Homeworks \X Problems : (IF x[1] = h /\ x[2] \notin ps THEN 0 ELSE c[x]) \in 0..2
  OBVIOUS
<1> QED BY <1>1, <1>2

(* A change is the new end of the history.                                 *)
LEMMA AppendTyped ==
    ASSUME TablesTyped, NEW d \in Tables, Changed(d)
    PROVE  /\ TablesTyped' /\ Len(hist') = Len(hist) + 1 /\ Db' = d
           /\ \A v \in 1..Len(hist) : hist'[v] = hist[v]
<1>1. hist' = Append(hist, d) /\ hist \in Seq(Tables)
  BY DEF Changed, TablesTyped
<1>2. Len(hist') = Len(hist) + 1 /\ hist' \in Seq(Tables) /\ Len(hist) \in Nat
  BY <1>1
<1>3. hist'[Len(hist')] = d
  BY <1>1, <1>2
<1>4. \A v \in 1..Len(hist) : hist'[v] = hist[v]
  BY <1>1
<1> QED BY <1>2, <1>3, <1>4 DEF TablesTyped, Db

(* A homework that is saved with other problems.                           *)
LEMMA RewrittenTyped ==
    ASSUME NEW d \in Tables, NEW h \in Homeworks, NEW row \in Rows
    PROVE  Rewritten(d, h, row) \in Tables /\ Rewritten(d, h, row).homeworks[h] = row
<1>1. PICK j \in [Homeworks \X Problems -> 0..2] : j = Judged(d, h, row.problems)
  BY JudgedTyped
<1>2. PICK e : e = [d EXCEPT !.homeworks[h] = row]
  OBVIOUS
<1>3. Rewritten(d, h, row) = [e EXCEPT !.judging = j]
  BY <1>1, <1>2 DEF Rewritten
<1>4. e \in Tables /\ e.homeworks[h] = row
  BY <1>2, HomeworksTyped
<1>5. [e EXCEPT !.judging = j] \in Tables /\ [e EXCEPT !.judging = j].homeworks = e.homeworks
  BY <1>4, JudgingsTyped, Zenon
<1> QED BY <1>3, <1>4, <1>5

(* The tables after a change are tables, and an update of a homework       *)
(* stores what its form lists.                                             *)
LEMMA AfterTyped ==
    ASSUME NEW d \in Tables, NEW r, NEW n \in Nat, Request(r, n), r.api \in Writes,
           r.api \in {"update_homework", "score_openness", "submitable"} => d.homeworks[r.id] # None
    PROVE  /\ After(r, d) \in Tables
           /\ r.api = "update_homework" => After(r, d).homeworks[r.id].problems = Listed(r.arg.form)
<1>1. CASE r.api = "create_notice"
  <2> PICK x \in Notices : x = r.id
    BY <1>1 DEF Request
  <2>3. PICK m \in SUBSET Notices : m = d.notices \cup {x}
    BY DEF Tables
  <2>1. After(r, d) = [d EXCEPT !.notices = m]
    BY <1>1, <2>3 DEF After
  <2>2. [d EXCEPT !.notices = m] \in Tables
    BY NoticesTyped
  <2> QED BY <1>1, <2>1, <2>2
<1>2. CASE r.api = "judge_all"
  <2> PICK x \in Homeworks \X Problems : x = r.id
    BY <1>2 DEF Request
  <2>1. After(r, d) = [d EXCEPT !.judging[x] = 1]
    BY <1>2 DEF After
  <2> PICK one \in 0..2 : one = 1
    OBVIOUS
  <2>2. [d EXCEPT !.judging[x] = one] \in Tables
    BY OneJudgingTyped
  <2> QED BY <1>2, <2>1, <2>2
<1>3. CASE r.api \in {"create_homework", "update_homework"}
  <2> PICK h \in Homeworks, ps \in SUBSET Problems, t \in 0..1 :
         h = r.id /\ ps = Listed(r.arg.form) /\ t = r.arg.deadline
    BY <1>3 DEF Request, Listed
  <2>9. PICK row : row = IF r.api = "create_homework"
                       THEN [problems |-> ps, deadline |-> t, score_openness |-> 0, submitable |-> 0]
                       ELSE [[d.homeworks[h] EXCEPT !.problems = ps] EXCEPT !.deadline = t]
    OBVIOUS
  <2>2. [problems |-> ps, deadline |-> t, score_openness |-> 0, submitable |-> 0] \in Rows
    BY DEF Rows
  <2>3. r.api = "update_homework" => d.homeworks[h] \in Rows
    BY DEF Tables
  <2>4. row \in Rows /\ row.problems = ps
    <3>1. CASE r.api = "create_homework"
      BY <3>1, <2>2, <2>9
    <3>2. CASE r.api = "update_homework"
      <4>1. PICK old \in Rows : old = d.homeworks[h]
        BY <2>3, <3>2
      <4>2. PICK new : new = [old EXCEPT !.problems = ps]
        OBVIOUS
      <4>3. new \in Rows /\ new.problems = ps
        BY <4>2, ProblemsSaved
      <4>4. row = [new EXCEPT !.deadline = t]
        BY <2>9, <3>2, <4>1, <4>2
      <4>5. [new EXCEPT !.deadline = t] \in Rows /\ [new EXCEPT !.deadline = t].problems = new.problems
        BY <4>3, DeadlineSaved
      <4> QED BY <4>3, <4>4, <4>5, Zenon
    <3> QED BY <1>3, <3>1, <3>2
  <2>5. After(r, d) = Rewritten(d, h, row)
    BY <1>3, <2>9 DEF After
  <2> QED BY <2>4, <2>5, RewrittenTyped
<1>4. CASE r.api \in {"score_openness", "submitable"}
  <2> PICK h \in Homeworks, v \in 0..1 : h = r.id /\ v = r.arg
    BY <1>4 DEF Request
  <2> PICK old \in Rows : old = d.homeworks[h]
    BY <1>4 DEF Tables
  <2> PICK f : f = r.api
    OBVIOUS
  <2>1. After(r, d) = [d EXCEPT !.homeworks[h] = [old EXCEPT ![f] = v]]
    <3>1. After(r, d) = [d EXCEPT !.homeworks[r.id][r.api] = r.arg]
      BY <1>4 DEF After
    <3> QED BY <3>1 DEF Tables
  <2>2. [old EXCEPT ![f] = v] \in Rows
    BY <1>4, RowToggled
  <2>3. [d EXCEPT !.homeworks[h] = [old EXCEPT ![f] = v]] \in Tables
    BY <2>2, HomeworksTyped
  <2> QED BY <1>4, <2>1, <2>3
<1> QED BY <1>1, <1>2, <1>3, <1>4 DEF Writes

(* The fields of a change.                                                 *)
LEMMA WriteIs ==
    ASSUME NEW api, NEW id, NEW arg
    PROVE  /\ Write(api, id, arg).api = api /\ Write(api, id, arg).id = id
           /\ Write(api, id, arg).arg = arg
  BY DEF Write

(* A click that sends a typed request.                                     *)
LEMMA SendTyped ==
    ASSUME Typed, NEW q, Send(q), Request(q, Len(hist)), hist' = hist
    PROVE  NetTyped' /\ clicks' \in 0..MaxClicks
<1>1. NetTyped'
  BY DEF Send, Typed, NetTyped
<1>2. clicks \in 0..MaxClicks /\ clicks < MaxClicks /\ clicks' = clicks + 1
  BY DEF Send, Typed, FlagsTyped
<1>3. MaxClicks \in Nat
  BY LessonAssumption
<1> QED BY <1>1, <1>2, <1>3

(* A click leaves the tables and the lists.                                *)
LEMMA IdleTyped ==
    ASSUME Typed, Idle
    PROVE  TablesTyped' /\ ListsTyped' /\ loads' \in Nat
  BY DEF Typed, Idle, pageVars, TablesTyped, ListsTyped, FlagsTyped

(* Every click keeps the types.                                            *)
LEMMA ClickTyped ==
    ASSUME Typed, Click
    PROVE  Typed'
<1>1. ASSUME NEW k \in {"1", "2", "3", "4"}, Menu(k) PROVE Typed'
  <2>1. NetTyped' /\ FormTyped'
    BY <1>1 DEF Menu, Idle, Typed, NetTyped, FormTyped
  <2>2. FlagsTyped'
    BY <1>1 DEF Menu, Idle, Typed, FlagsTyped
  <2> QED BY <1>1, <2>1, <2>2, IdleTyped DEF Menu, Typed
<1>2. CASE ClickNewNotice
  <2>1. NetTyped' /\ FormTyped'
    BY <1>2 DEF ClickNewNotice, Idle, Typed, NetTyped, FormTyped
  <2>2. FlagsTyped'
    BY <1>2 DEF ClickNewNotice, Idle, Typed, FlagsTyped
  <2> QED BY <1>2, <2>1, <2>2, IdleTyped DEF ClickNewNotice, Typed
<1>3. CASE ClickNewHomework
  <2>1. NetTyped'
    BY <1>3 DEF ClickNewHomework, Idle, Typed, NetTyped
  <2>2. FormTyped' /\ crashed' \in BOOLEAN
    BY <1>3, <2>1, IdleTyped, RenderTyped DEF ClickNewHomework, Typed
  <2>3. FlagsTyped'
    BY <1>3, <2>2 DEF ClickNewHomework, Idle, Typed, FlagsTyped
  <2> QED BY <1>3, <2>1, <2>2, <2>3, IdleTyped DEF ClickNewHomework, Typed
<1>4. CASE CancelForm
  <2>1. Load(net) /\ hist' = hist /\ Render
    BY <1>4 DEF CancelForm
  <2>2. ListsTyped' /\ NetTyped' /\ loads' \in Nat /\ overlapped' \in BOOLEAN
    BY <2>1, LoadTyped DEF Typed, NetTyped
  <2>3. FormTyped' /\ crashed' \in BOOLEAN
    BY <2>1, <2>2, RenderTyped DEF Typed
  <2>4. clicks' \in 0..MaxClicks
    BY <1>4, LessonAssumption DEF CancelForm, Typed, FlagsTyped
  <2>5. FlagsTyped'
    BY <1>4, <2>2, <2>3, <2>4 DEF CancelForm, Typed, FlagsTyped
  <2>6. TablesTyped'
    BY <2>1 DEF Typed, TablesTyped
  <2> QED BY <2>2, <2>3, <2>5, <2>6 DEF Typed
<1>5. ASSUME NEW n \in Notices, PostNotice(n) PROVE Typed'
  <2>1. PICK q : q = Write("create_notice", n, None)
    OBVIOUS
  <2>2. Request(q, Len(hist))
    BY <2>1, WriteIs DEF Request, Kinds, Reads, Writes
  <2>3. NetTyped' /\ clicks' \in 0..MaxClicks
    BY <1>5, <2>1, <2>2, SendTyped DEF PostNotice, Idle
  <2>4. FormTyped' /\ FlagsTyped'
    BY <1>5, <2>3 DEF PostNotice, Idle, uiVars, Typed, FormTyped, FlagsTyped
  <2> QED BY <1>5, <2>3, <2>4, IdleTyped DEF PostNotice, Typed
<1>6. ASSUME NEW i \in homeworkitems, ClickEdit(i) PROVE Typed'
  <2>1. NetTyped'
    BY <1>6 DEF ClickEdit, Idle, Typed, NetTyped
  <2>2. FormTyped' /\ crashed' \in BOOLEAN
    BY <1>6, <2>1, IdleTyped, RenderTyped DEF ClickEdit, Typed
  <2>3. i.id \in Homeworks
    BY DEF Typed, ListsTyped
  <2>4. FlagsTyped'
    BY <1>6, <2>2, <2>3 DEF ClickEdit, Idle, Typed, FlagsTyped
  <2> QED BY <1>6, <2>1, <2>2, <2>4, IdleTyped DEF ClickEdit, Typed
<1>7. ASSUME NEW i \in homeworkitems, NEW f \in {"score_openness", "submitable"}, Toggle(i, f) PROVE Typed'
  <2>1. PICK q : q = Write(f, i.id, 1 - i.row[f])
    OBVIOUS
  <2>2. i.id \in Homeworks /\ i.row \in Rows
    BY DEF Typed, ListsTyped
  <2>3. 1 - i.row[f] \in 0..1
    <3>1. PICK row \in Rows : row = i.row
      BY <2>2
    <3> QED BY <3>1, RowToggles
  <2>4. Request(q, Len(hist))
    BY <2>1, <2>2, <2>3, WriteIs DEF Request, Kinds, Reads, Writes
  <2>5. NetTyped' /\ clicks' \in 0..MaxClicks
    BY <1>7, <2>1, <2>4, SendTyped DEF Toggle, Idle
  <2>6. FormTyped' /\ FlagsTyped'
    BY <1>7, <2>5 DEF Toggle, Idle, uiVars, Typed, FormTyped, FlagsTyped
  <2> QED BY <1>7, <2>5, <2>6, IdleTyped DEF Toggle, Typed
<1>8. ASSUME NEW i \in homeworkitems, NEW p \in Problems, JudgeAll(i, p) PROVE Typed'
  <2>1. PICK q : q = Write("judge_all", <<i.id, p>>, None)
    OBVIOUS
  <2>2. i.id \in Homeworks
    BY DEF Typed, ListsTyped
  <2>3. Request(q, Len(hist))
    BY <2>1, <2>2, WriteIs DEF Request, Kinds, Reads, Writes
  <2>4. NetTyped' /\ clicks' \in 0..MaxClicks
    BY <1>8, <2>1, <2>3, SendTyped DEF JudgeAll, Idle
  <2>5. FormTyped' /\ FlagsTyped'
    BY <1>8, <2>4 DEF JudgeAll, Idle, uiVars, Typed, FormTyped, FlagsTyped
  <2> QED BY <1>8, <2>4, <2>5, IdleTyped DEF JudgeAll, Typed
<1>9. ASSUME NEW p \in Problems, AddProblem(p) PROVE Typed'
  <2>1. PICK q : q = Write("add", p, form.load)
    OBVIOUS
  <2>2. form.load \in Nat
    BY <1>9 DEF AddProblem, Typed, FormTyped, FormStates
  <2>3. Request(q, Len(hist))
    BY <2>1, <2>2, WriteIs DEF Request, Kinds, Reads, Writes
  <2>4. NetTyped' /\ clicks' \in 0..MaxClicks
    BY <1>9, <2>1, <2>3, SendTyped DEF AddProblem, Idle
  <2>5. doubled' \subseteq Problems
    BY <1>9 DEF AddProblem, Typed, FlagsTyped
  <2>6. FormTyped' /\ FlagsTyped'
    BY <1>9, <2>4, <2>5 DEF AddProblem, Idle, uiVars, Typed, FormTyped, FlagsTyped
  <2> QED BY <1>9, <2>4, <2>6, IdleTyped DEF AddProblem, Typed
<1>10. ASSUME NEW p \in Problems, DeleteProblem(p) PROVE Typed'
  <2>1. NetTyped' /\ FlagsTyped'
    BY <1>10 DEF DeleteProblem, Idle, uiVars, Typed, NetTyped, FlagsTyped
  <2>2. PICK a \in [Problems -> Nat], b \in 0..1, c \in SUBSET Problems, d \in SUBSET Problems,
             e \in Nat, g \in SUBSET Problems :
             form = [problems |-> a, deadline |-> b, base |-> c, removed |-> d, load |-> e, missing |-> g]
    BY <1>10 DEF DeleteProblem, Typed, FormTyped, FormStates
  <2>3. form' = [problems |-> [a EXCEPT ![p] = 0], deadline |-> b, base |-> c,
                 removed |-> d \cup {p}, load |-> e, missing |-> g]
    BY <1>10, <2>2 DEF DeleteProblem
  <2>4. [a EXCEPT ![p] = 0] \in [Problems -> Nat]
    OBVIOUS
  <2>5. FormTyped'
    BY <2>3, <2>4 DEF FormTyped, FormStates
  <2> QED BY <1>10, <2>1, <2>5, IdleTyped DEF DeleteProblem, Typed
<1>11. ASSUME NEW h \in Homeworks, NEW t \in 0..1, SaveHomework(h, t) PROVE Typed'
  <2>1. PICK api : api = IF newhomework = "new" THEN "create_homework" ELSE "update_homework"
    OBVIOUS
  <2>2. PICK q : q = Write(api, h, [form |-> form, deadline |-> t])
    OBVIOUS
  <2>3. form \in FormStates
    BY <1>11 DEF SaveHomework, Typed, FormTyped
  <2>4. Request(q, Len(hist))
    BY <2>1, <2>2, <2>3, WriteIs DEF Request, Kinds, Reads, Writes
  <2>5. NetTyped' /\ clicks' \in 0..MaxClicks
    BY <1>11, <2>1, <2>2, <2>4, SendTyped DEF SaveHomework, Idle
  <2>6. FormTyped' /\ FlagsTyped'
    BY <1>11, <2>5 DEF SaveHomework, Idle, uiVars, Typed, FormTyped, FlagsTyped
  <2> QED BY <1>11, <2>5, <2>6, IdleTyped DEF SaveHomework, Typed
<1> QED BY <1>1, <1>2, <1>3, <1>4, <1>5, <1>6, <1>7, <1>8, <1>9, <1>10, <1>11 DEF Click

(* What may answer a question is a state of the tables.                    *)
LEMMA AnswerTyped ==
    ASSUME Typed, NEW r \in net, NEW api \in Reads, Answer(r, api)
    PROVE  /\ TablesTyped' /\ loads' \in Nat /\ r.load \in Nat
           /\ r.at \in 1..Len(hist) /\ \A v \in r.at..Len(hist) : hist[v] \in Tables
<1>1. Request(r, Len(hist)) /\ r.api \in Reads /\ hist' = hist /\ loads' = loads
  BY DEF Typed, NetTyped, Answer
<1>2. r.load \in Nat /\ r.at \in 1..Len(hist)
  BY <1>1 DEF Request
<1>3. \A v \in r.at..Len(hist) : hist[v] \in Tables
  BY <1>2, DbTyped DEF Typed
<1> QED BY <1>1, <1>2, <1>3 DEF Typed, TablesTyped, FlagsTyped

(* Every answer of a load keeps the types.                                 *)
LEMMA AnswersTyped ==
    ASSUME Typed, NEW r \in net, r.api \in Reads, NEW v \in r.at..Len(hist), NEW d, d = hist[v],
           CourseAnswer(r, d) \/ NoticeAnswer(r, d) \/ HomeworkAnswer(r, d)
           \/ ProblemAnswer(r, d) \/ StateAnswer(r, d)
    PROVE  Typed'
<1>1. CASE CourseAnswer(r, d)
  <2>1. Answer(r, "course") /\ UNCHANGED <<pageVars, form, crashed>>
    BY <1>1 DEF CourseAnswer
  <2>2. /\ TablesTyped' /\ r.load \in Nat /\ d \in Tables
    BY <2>1, AnswerTyped DEF Reads
  <2>3. PICK asked : asked = {Read(r, "notice", n) : n \in d.notices}
                             \cup {Read(r, "homework", h) : h \in Existing(d)}
    OBVIOUS
  <2>4. \A q \in asked : Request(q, Len(hist))
    <3>1. ASSUME NEW n \in d.notices PROVE Request(Read(r, "notice", n), Len(hist))
      BY <2>2, ReadTyped DEF Tables, Reads, Typed
    <3>2. ASSUME NEW h \in Existing(d) PROVE Request(Read(r, "homework", h), Len(hist))
      BY <2>2, ReadTyped DEF Existing, Reads, Typed
    <3> QED BY <2>3, <3>1, <3>2
  <2>5. NetTyped'
    BY <1>1, <2>1, <2>3, <2>4, AskTyped DEF CourseAnswer, Answer, Typed
  <2>6. ListsTyped' /\ FormTyped' /\ FlagsTyped'
    BY <2>1 DEF Answer, uiVars, pageVars, Typed, ListsTyped, FormTyped, FlagsTyped
  <2> QED BY <2>2, <2>5, <2>6 DEF Typed
<1>2. CASE NoticeAnswer(r, d)
  <2>1. Answer(r, "notice") /\ UNCHANGED <<homeworkitems, problemitems, form, crashed>>
        /\ infoitems' = infoitems \cup {[id |-> r.id, load |-> r.load]} /\ Ask(r, {})
    BY <1>2 DEF NoticeAnswer
  <2>2. /\ TablesTyped' /\ r.load \in Nat
    BY <2>1, AnswerTyped DEF Reads
  <2>3. r.id \in Notices
    BY <2>1 DEF Answer, Typed, NetTyped, Request
  <2>4. ListsTyped'
    BY <2>1, <2>2, <2>3 DEF Typed, ListsTyped
  <2>5. NetTyped'
    BY <2>1, AskTyped DEF Answer, Typed
  <2>6. FormTyped' /\ FlagsTyped'
    BY <2>1 DEF Answer, uiVars, Typed, FormTyped, FlagsTyped
  <2> QED BY <2>2, <2>4, <2>5, <2>6 DEF Typed
<1>3. CASE HomeworkAnswer(r, d)
  <2>1. Answer(r, "homework") /\ Render /\ infoitems' = infoitems /\ problemitems' = problemitems
    BY <1>3 DEF HomeworkAnswer
  <2>2. TablesTyped' /\ loads' \in Nat /\ r.load \in Nat /\ d \in Tables
    BY <2>1, AnswerTyped DEF Reads
  <2>3. r.id \in Homeworks
    BY <2>1 DEF Answer, Typed, NetTyped, Request
  <2>4. NetTyped' /\ ListsTyped'
    <3>1. CASE d.homeworks[r.id] = None
      <4>1. Ask(r, {}) /\ homeworkitems' = homeworkitems
        BY <1>3, <3>1 DEF HomeworkAnswer
      <4> QED BY <2>1, <4>1, AskTyped DEF Answer, Typed, ListsTyped
    <3>2. CASE d.homeworks[r.id] # None
      <4>1. PICK row \in Rows : row = d.homeworks[r.id]
        BY <2>2, <2>3, <3>2 DEF Tables
      <4>2. PICK asked : asked = {Read(r, "problem", p) : p \in row.problems}
                      \cup {Read(r, "judgestate", <<r.id, p>>) : p \in row.problems}
        OBVIOUS
      <4>3. Ask(r, asked) /\ homeworkitems' = homeworkitems \cup {[id |-> r.id, load |-> r.load, row |-> row]}
        BY <1>3, <3>2, <4>1, <4>2 DEF HomeworkAnswer
      <4>4. \A q \in asked : Request(q, Len(hist))
        <5>1. ASSUME NEW p \in row.problems
              PROVE  /\ Request(Read(r, "problem", p), Len(hist))
                     /\ Request(Read(r, "judgestate", <<r.id, p>>), Len(hist))
          <6>1. p \in Problems /\ <<r.id, p>> \in Homeworks \X Problems
            BY <2>3 DEF Rows
          <6>2. Request(Read(r, "problem", p), Len(hist))
            BY <2>2, <6>1, ReadTyped DEF Reads, Typed
          <6>3. PICK x \in Homeworks \X Problems : x = <<r.id, p>>
            BY <6>1
          <6>4. Request(Read(r, "judgestate", x), Len(hist))
            BY <2>2, ReadTyped DEF Reads, Typed
          <6> QED BY <6>2, <6>3, <6>4
        <5> QED BY <4>2, <5>1
      <4>5. NetTyped'
        BY <2>1, <4>3, <4>4, AskTyped DEF Answer, Typed
      <4>6. ListsTyped'
        BY <2>1, <2>2, <2>3, <4>3 DEF Typed, ListsTyped
      <4> QED BY <4>5, <4>6
    <3> QED BY <3>1, <3>2
  <2>5. FormTyped' /\ crashed' \in BOOLEAN
    BY <2>1, <2>2, <2>4, RenderTyped DEF Typed
  <2>6. FlagsTyped'
    BY <2>1, <2>5 DEF Answer, uiVars, Typed, FlagsTyped
  <2> QED BY <2>2, <2>4, <2>5, <2>6 DEF Typed
<1>4. CASE ProblemAnswer(r, d)
  <2>1. Answer(r, "problem") /\ UNCHANGED <<infoitems, homeworkitems, form, crashed>>
        /\ problemitems' = [problemitems EXCEPT ![r.id].row = TRUE] /\ Ask(r, {})
    BY <1>4 DEF ProblemAnswer
  <2>2. TablesTyped'
    BY <2>1, AnswerTyped DEF Reads
  <2>3. r.id \in Problems
    BY <2>1 DEF Answer, Typed, NetTyped, Request
  <2>4. ListsTyped'
    <3>1. PICK b \in BOOLEAN : b = TRUE
      OBVIOUS
    <3>2. problemitems' = [problemitems EXCEPT ![r.id] = [problemitems[r.id] EXCEPT !.row = b]]
      BY <2>1, <2>3, <3>1 DEF Typed, ListsTyped
    <3>3. [problemitems[r.id] EXCEPT !.row = b] \in [row : BOOLEAN, status : 0..2 \cup {None}]
      BY <2>3 DEF Typed, ListsTyped
    <3>4. problemitems' \in [Problems -> [row : BOOLEAN, status : 0..2 \cup {None}]]
      BY <2>3, <3>2, <3>3 DEF Typed, ListsTyped
    <3> QED BY <2>1, <3>4 DEF Typed, ListsTyped
  <2>5. NetTyped'
    BY <2>1, AskTyped DEF Answer, Typed
  <2>6. FormTyped' /\ FlagsTyped'
    BY <2>1 DEF Answer, uiVars, Typed, FormTyped, FlagsTyped
  <2> QED BY <2>2, <2>4, <2>5, <2>6 DEF Typed
<1>5. CASE StateAnswer(r, d)
  <2>1. Answer(r, "judgestate") /\ UNCHANGED <<infoitems, homeworkitems, form, crashed>> /\ Ask(r, {})
    BY <1>5 DEF StateAnswer
  <2>2. TablesTyped' /\ d \in Tables
    BY <2>1, AnswerTyped DEF Reads
  <2>3. r.id \in Homeworks \X Problems
    BY <2>1 DEF Answer, Typed, NetTyped, Request
  <2>4. PICK p \in Problems, s \in 0..2 : p = r.id[2] /\ s = d.judging[r.id]
    BY <2>2, <2>3 DEF Tables
  <2>5. problemitems' = problemitems \/ problemitems' = [problemitems EXCEPT ![p].status = s]
    BY <1>5, <2>4 DEF StateAnswer
  <2>6. ListsTyped'
    <3>2. [problemitems EXCEPT ![p].status = s] = [problemitems EXCEPT ![p] = [problemitems[p] EXCEPT !.status = s]]
      BY DEF Typed, ListsTyped
    <3>3. [problemitems[p] EXCEPT !.status = s] \in [row : BOOLEAN, status : 0..2 \cup {None}]
      BY DEF Typed, ListsTyped
    <3>4. problemitems' \in [Problems -> [row : BOOLEAN, status : 0..2 \cup {None}]]
      BY <2>5, <3>2, <3>3 DEF Typed, ListsTyped
    <3> QED BY <2>1, <3>4 DEF Typed, ListsTyped
  <2>7. NetTyped'
    BY <2>1, AskTyped DEF Answer, Typed
  <2>8. FormTyped' /\ FlagsTyped'
    BY <2>1 DEF Answer, uiVars, Typed, FormTyped, FlagsTyped
  <2> QED BY <2>2, <2>6, <2>7, <2>8 DEF Typed
<1> QED BY <1>1, <1>2, <1>3, <1>4, <1>5

(* So does every other arrival.                                            *)
LEMMA ArrivalTyped ==
    ASSUME Typed, NEW r \in net, Handle(r) \/ Fail(r) \/ Lose(r) \/ Done(r) \/ AddAnswer(r)
    PROVE  Typed'
<1>0. Request(r, Len(hist))
  BY DEF Typed, NetTyped
<1>1. CASE Handle(r)
  <2>1. Changed(After(r, Db)) /\ Ask(r, {[api |-> "done", to |-> r.api, n |-> r.n]})
    BY <1>1 DEF Handle
  <2>2. Db \in Tables /\ Len(hist) \in Nat
    BY DbTyped DEF Typed
  <2>3. After(r, Db) \in Tables
    BY <1>0, <1>1, <2>2, AfterTyped DEF Handle
  <2>4. TablesTyped' /\ Len(hist') = Len(hist) + 1
    BY <2>1, <2>3, AppendTyped DEF Typed
  <2>5. \A q \in net' : q \in net \/ q = [api |-> "done", to |-> r.api, n |-> r.n]
    BY <2>1 DEF Ask
  <2>6. \A q \in net : Request(q, Len(hist'))
    BY <2>2, <2>4, Earlier DEF Typed, NetTyped
  <2>7. Request([api |-> "done", to |-> r.api, n |-> r.n], Len(hist'))
    BY DEF Request, Kinds, Reads, Writes
  <2>8. NetTyped'
    BY <2>5, <2>6, <2>7 DEF NetTyped
  <2>9. ListsTyped' /\ FormTyped' /\ FlagsTyped'
    BY <1>1 DEF Handle, uiVars, pageVars, ghosts, Typed, ListsTyped, FormTyped, FlagsTyped
  <2> QED BY <2>4, <2>8, <2>9 DEF Typed
<1>2. CASE Fail(r) \/ Lose(r)
  <2>1. TablesTyped' /\ NetTyped' /\ ListsTyped' /\ FormTyped'
    BY <1>2 DEF Fail, Lose, pageVars, Typed, TablesTyped, NetTyped, ListsTyped, FormTyped
  <2>2. lost' \in BOOLEAN
    BY <1>2 DEF Fail, Lose, Typed, FlagsTyped
  <2>3. FlagsTyped'
    BY <1>2, <2>2 DEF Fail, Lose, uiVars, Typed, FlagsTyped
  <2> QED BY <2>1, <2>3 DEF Typed
<1>3. CASE Done(r)
  <2>1. Load(net \ {r}) /\ hist' = hist /\ Render
    BY <1>3 DEF Done
  <2>2. ListsTyped' /\ NetTyped' /\ loads' \in Nat /\ overlapped' \in BOOLEAN
    <3>1. \A q \in net \ {r} : Request(q, Len(hist))
      BY DEF Typed, NetTyped
    <3> QED BY <2>1, <3>1, LoadTyped
  <2>3. FormTyped' /\ crashed' \in BOOLEAN
    BY <2>1, <2>2, RenderTyped DEF Typed
  <2>4. newnotice' \in BOOLEAN /\ newhomework' \in {"no", "new"} \cup Homeworks
    BY <1>3 DEF Done, Typed, FlagsTyped
  <2>5. FlagsTyped'
    BY <1>3, <2>2, <2>3, <2>4 DEF Done, Typed, FlagsTyped
  <2>6. TablesTyped'
    BY <2>1 DEF Typed, TablesTyped
  <2> QED BY <2>2, <2>3, <2>5, <2>6 DEF Typed
<1>4. CASE AddAnswer(r)
  <2>1. TablesTyped' /\ NetTyped' /\ ListsTyped' /\ FlagsTyped'
    BY <1>4 DEF AddAnswer, pageVars, uiVars, ghosts, Typed, TablesTyped, NetTyped, ListsTyped, FlagsTyped
  <2>2. FormTyped'
    <3>1. CASE form' = form
      BY <3>1 DEF Typed, FormTyped
    <3>2. CASE form # None /\ form' = [form EXCEPT !.problems[r.id] = form.problems[r.id] + 1]
      <4>1. PICK p \in Problems : p = r.id
        BY <1>0, <1>4 DEF AddAnswer, Request
      <4>2. PICK a \in [Problems -> Nat], b \in 0..1, c \in SUBSET Problems, d \in SUBSET Problems,
                 e \in Nat, g \in SUBSET Problems :
                 form = [problems |-> a, deadline |-> b, base |-> c, removed |-> d, load |-> e, missing |-> g]
        BY <3>2 DEF Typed, FormTyped, FormStates
      <4>3. PICK k \in Nat : k = a[p] + 1
        OBVIOUS
      <4>4. form' = [form EXCEPT !.problems[p] = k]
        BY <3>2, <4>1, <4>2, <4>3
      <4>5. form' = [problems |-> [a EXCEPT ![p] = k], deadline |-> b, base |-> c,
                     removed |-> d, load |-> e, missing |-> g]
        BY <4>2, <4>4
      <4>6. [a EXCEPT ![p] = k] \in [Problems -> Nat]
        OBVIOUS
      <4> QED BY <4>5, <4>6 DEF FormTyped, FormStates
    <3> QED BY <1>4, <3>1, <3>2 DEF AddAnswer
  <2> QED BY <2>1, <2>2 DEF Typed
<1> QED BY <1>1, <1>2, <1>3, <1>4

(* What others change leaves tables.                                       *)
LEMMA OtherIs ==
    ASSUME Typed, Other
    PROVE  \E d \in Tables : Changed(d)
<1>1. Db \in Tables
  BY DbTyped DEF Typed
<1>2. ASSUME NEW x \in DOMAIN Db.judging, Changed([Db EXCEPT !.judging[x] = 2])
      PROVE  \E d \in Tables : Changed(d)
  <2>1. PICK two \in 0..2 : two = 2
    OBVIOUS
  <2>2. x \in Homeworks \X Problems
    BY <1>1, <1>2 DEF Tables
  <2>3. [Db EXCEPT !.judging[x] = two] \in Tables
    BY <1>1, <2>2, OneJudgingTyped
  <2> QED BY <1>2, <2>1, <2>3
<1>3. ASSUME NEW h \in Existing(Db),
             NEW row \in {None, [Db.homeworks[h] EXCEPT !.score_openness = 1 - Db.homeworks[h].score_openness]},
             Changed([Db EXCEPT !.homeworks[h] = row])
      PROVE  \E d \in Tables : Changed(d)
  <2>1. PICK old \in Rows : old = Db.homeworks[h]
    BY <1>1 DEF Existing, Tables
  <2>2. PICK v \in 0..1 : v = 1 - old.score_openness
    BY RowToggles
  <2>3. PICK new : new = [old EXCEPT !.score_openness = v]
    OBVIOUS
  <2>4. new \in Rows
    BY <2>3, RowToggled
  <2>5. row = None \/ row = new
    BY <1>3, <2>1, <2>2, <2>3
  <2>6. [Db EXCEPT !.homeworks[h] = row] \in Tables
    BY <1>1, <2>4, <2>5, HomeworksTyped DEF Existing
  <2> QED BY <1>3, <2>6
<1>4. ASSUME NEW h \in Existing(Db), NEW ps \in SUBSET Problems,
             Changed(Rewritten(Db, h, [Db.homeworks[h] EXCEPT !.problems = ps]))
      PROVE  \E d \in Tables : Changed(d)
  <2>1. PICK old \in Rows : old = Db.homeworks[h]
    BY <1>1 DEF Existing, Tables
  <2>2. PICK new : new = [old EXCEPT !.problems = ps]
    OBVIOUS
  <2>3. new \in Rows
    BY <2>2, ProblemsSaved
  <2>4. Rewritten(Db, h, new) \in Tables
    BY <1>1, <2>3, RewrittenTyped DEF Existing
  <2> QED BY <1>4, <2>1, <2>2, <2>4
<1> QED BY <1>2, <1>3, <1>4 DEF Other

(* Every step keeps the types.                                             *)
LEMMA TypedStep ==
    ASSUME Typed, Next
    PROVE  Typed'
<1>1. CASE Restored
  <2>1. Load(net) /\ hist' = hist /\ Render
    BY <1>1 DEF Restored
  <2>2. ListsTyped' /\ NetTyped' /\ loads' \in Nat /\ overlapped' \in BOOLEAN
    BY <2>1, LoadTyped DEF Typed, NetTyped
  <2>3. FormTyped' /\ crashed' \in BOOLEAN
    BY <2>1, <2>2, RenderTyped DEF Typed
  <2>4. FlagsTyped'
    BY <1>1, <2>2, <2>3 DEF Restored, Typed, FlagsTyped
  <2>5. TablesTyped'
    BY <2>1 DEF Typed, TablesTyped
  <2> QED BY <2>2, <2>3, <2>4, <2>5 DEF Typed
<1>2. CASE Click
  BY <1>2, ClickTyped
<1>3. ASSUME NEW r \in net, Arrive(r) PROVE Typed'
  <2>1. CASE Handle(r) \/ Fail(r) \/ Lose(r) \/ Done(r) \/ AddAnswer(r)
    BY <2>1, ArrivalTyped
  <2>2. CASE \E d \in {hist[v] : v \in (IF r.api \in Reads THEN r.at..Len(hist) ELSE {})} :
                CourseAnswer(r, d) \/ NoticeAnswer(r, d) \/ HomeworkAnswer(r, d)
                \/ ProblemAnswer(r, d) \/ StateAnswer(r, d)
    BY <2>2, AnswersTyped
  <2> QED BY <1>3, <2>1, <2>2 DEF Arrive
<1>4. CASE Deadline
  <2>1. TablesTyped' /\ NetTyped' /\ ListsTyped' /\ FormTyped'
    BY <1>4 DEF Deadline, pageVars, Typed, TablesTyped, NetTyped, ListsTyped, FormTyped
  <2>2. FlagsTyped'
    BY <1>4 DEF Deadline, uiVars, ghosts, Typed, FlagsTyped
  <2> QED BY <2>1, <2>2 DEF Typed
<1>5. CASE Other
  <2>1. PICK d \in Tables : Changed(d)
    BY <1>5, OtherIs
  <2>2. TablesTyped' /\ Len(hist') = Len(hist) + 1 /\ Len(hist) \in Nat
    BY <2>1, AppendTyped, DbTyped DEF Typed
  <2>3. NetTyped'
    BY <1>5, <2>2, Earlier DEF Other, Typed, NetTyped
  <2>4. ListsTyped' /\ FormTyped' /\ FlagsTyped'
    BY <1>5 DEF Other, uiVars, pageVars, Typed, ListsTyped, FormTyped, FlagsTyped
  <2> QED BY <2>2, <2>3, <2>4 DEF Typed
<1> QED BY <1>1, <1>2, <1>3, <1>4, <1>5 DEF Next

(* The page begins with them.                                              *)
LEMMA TypedInit == Init => Typed
<1> SUFFICES ASSUME Init PROVE Typed
  OBVIOUS
<1>1. FirstDb \in Tables /\ hist = <<FirstDb>>
  BY LessonAssumption DEF Init
<1>2. TablesTyped
  BY <1>1 DEF TablesTyped
<1>3. ListsTyped
  BY DEF Init, ListsTyped, Absent
<1>4. FlagsTyped
  <2>1. clicks \in 0..MaxClicks /\ loads \in Nat
    BY LessonAssumption DEF Init
  <2>2. {known, newnotice, crashed, overlapped, lost, others} \subseteq BOOLEAN /\ doubled \subseteq Problems
    BY DEF Init
  <2>3. now \in 0..1 /\ newhomework \in {"no", "new"} \cup Homeworks
    BY DEF Init
  <2>4. selected \in {"1", "2", "3", "4", "5"}
    BY DEF Init
  <2> QED BY <2>1, <2>2, <2>3, <2>4 DEF FlagsTyped
<1> QED BY <1>2, <1>3, <1>4 DEF Init, Typed, NetTyped, FormTyped

(* They are stronger than the type invariant.                              *)
LEMMA TypedTypes == Typed /\ FormPlace => TypeOK
<1> SUFFICES ASSUME Typed, FormPlace PROVE TypeOK
  OBVIOUS
<1>1. hist \in Seq(Tables) /\ loads \in Nat /\ clicks \in 0..MaxClicks
  BY DEF Typed, TablesTyped, FlagsTyped
<1>2. \A i \in homeworkitems : i.id \in Homeworks /\ i.row \in Rows
  BY DEF Typed, ListsTyped
<1>3. \A i \in infoitems : i.id \in Notices
  BY DEF Typed, ListsTyped
<1>4. form # None => newhomework # "no" /\ form \in FormStates
  <2>1. form # None => newhomework # "no"
    BY <1>2, LessonAssumption DEF FormPlace
  <2> QED BY <2>1 DEF Typed, FormTyped
<1>5. \A r \in net : r.api \in Kinds
  BY DEF Typed, NetTyped, Request
<1> QED BY <1>1, <1>2, <1>3, <1>4, <1>5 DEF TypeOK, Typed, ListsTyped, FlagsTyped

FormParts == FormPlace /\ FormLoads /\ FormOnce /\ FormKeeps

(* A form that render mounts lists the problems of the homework that had   *)
(* come, with their languages.                                             *)
LEMMA EditFormSound ==
    ASSUME Typed', RowsLoad', lost' = lost,
           NEW i \in homeworkitems', form' = EditForm(i.row, problemitems')
    PROVE  /\ form'.load = loads' /\ Kept(form')
           /\ \A p \in Problems : form'.problems[p] <= 1
           /\ \A p \in Problems : form'.problems[p] > 0 => problemitems'[p].row \/ p \in form'.missing
<1>1. PICK row \in Rows : row = i.row
  BY DEF Typed, ListsTyped
<1>2. loads' \in Nat /\ Unheard \subseteq Problems
  BY UnheardTyped DEF Typed, FlagsTyped
<1>3. /\ form'.load = loads' /\ form'.base = row.problems /\ form'.missing = Unheard
      /\ \A p \in Problems : form'.problems[p] =
                                 IF p \in row.problems /\ problemitems'[p] # Absent THEN 1 ELSE 0
  <2>1. PICK items : items = problemitems'
    OBVIOUS
  <2>2. form' = EditForm(row, items)
    BY <1>1, <2>1
  <2> QED BY <1>2, <2>1, <2>2, EditFormIs
<1>4. row.problems \subseteq Problems
  BY DEF Rows
<1>5. ASSUME NEW p \in row.problems PROVE problemitems'[p].row \/ p \in form'.missing
  <2>1. CASE lost
    BY <1>3, <1>4, <2>1 DEF Unheard
  <2>2. CASE ~lost'
    BY <1>1, <1>3, <2>2 DEF RowsLoad, Unheard
  <2> QED BY <2>1, <2>2
<1>6. ASSUME NEW p \in row.problems PROVE problemitems'[p] # Absent \/ p \in form'.missing
  BY <1>5 DEF Absent
<1>7. Kept(form')
  BY <1>3, <1>4, <1>6 DEF Kept, Listed
<1> QED BY <1>3, <1>5, <1>7

(* render keeps what is said of the form: in a load, when an answer joins  *)
(* the lists, and when a form is opened.                                   *)
LEMMA RenderSound ==
    ASSUME Typed, Typed', FormParts, RowsLoad', Render, lost' = lost, doubled' = doubled,
           \A q \in net' : q.api \in {"add", "update_homework"} => q \in net,
           \/ loads' = loads + 1
           \/ loads' = loads /\ homeworkitems \subseteq homeworkitems' /\ newhomework' = newhomework
           \/ loads' = loads /\ form = None
    PROVE  FormParts' /\ Breaks'
<1> USE DEF FormParts
<1>1. /\ loads \in Nat /\ loads' \in Nat /\ loads <= loads' /\ loads' \in {loads, loads + 1}
      /\ \A q \in net : q.api = "add" => q.arg \in Nat
      /\ form # None => form.load \in Nat
  BY DEF Typed, FlagsTyped, NetTyped, Request, FormTyped, FormStates
<1>2. form = None => \A q \in net' : q.api = "add" => q.arg < loads'
  BY <1>1 DEF FormLoads
<1>3. \A q \in net' : q.api = "update_homework" => Kept(q.arg.form)
  BY DEF FormKeeps
<1>4. CASE form' = None
  <2>1. form # None => loads' = loads + 1
    BY <1>4, RenderForm DEF FormPlace
  <2>2. \A q \in net' : q.api = "add" => q.arg < loads'
    BY <1>1, <1>2, <2>1 DEF FormLoads
  <2>3. FormPlace' /\ FormLoads' /\ FormOnce'
    BY <1>4, <2>2 DEF FormPlace, FormLoads, FormOnce
  <2>4. FormKeeps'
    BY <1>3, <1>4 DEF FormKeeps
  <2>5. ~crashed'
    BY <1>4, RenderForm
  <2> QED BY <2>3, <2>4, <2>5 DEF Breaks
<1>5. CASE form # None /\ form' = form
           /\ (newhomework' = "new" \/ \E i \in homeworkitems' : i.id = newhomework')
  <2>1. FormPlace'
    BY <1>5 DEF FormPlace
  <2>2. FormLoads'
    BY <1>1, <1>5 DEF FormLoads
  <2>3. FormOnce'
    BY <1>5 DEF FormOnce
  <2>4. FormKeeps'
    BY <1>3, <1>5 DEF FormKeeps
  <2>5. ~crashed'
    BY <1>5, RenderForm
  <2> QED BY <2>1, <2>2, <2>3, <2>4, <2>5 DEF Breaks
<1>6. CASE form = None /\ newhomework' = "new" /\ form' = NewForm
  <2>1. form'.load = loads' /\ form'.base = {} /\ \A p \in Problems : form'.problems[p] = 0
    BY <1>1, <1>6, NewFormTyped
  <2>2. FormPlace'
    BY <1>6 DEF FormPlace
  <2>3. FormLoads'
    BY <1>1, <1>2, <1>6, <2>1 DEF FormLoads
  <2>4. FormOnce'
    BY <1>1, <1>2, <1>6, <2>1 DEF FormOnce
  <2>5. FormKeeps'
    BY <1>3, <2>1 DEF FormKeeps, Kept
  <2>6. ~crashed'
    <3>1. \A p \in Problems : ~(form'.problems[p] > 0)
      BY <2>1
    <3>2. crashed' => \E p \in Problems : form'.problems[p] > 0
      BY RenderForm
    <3> QED BY <3>1, <3>2
  <2> QED BY <2>2, <2>3, <2>4, <2>5, <2>6 DEF Breaks
<1>7. CASE form = None /\ \E i \in homeworkitems' :
              i.id = newhomework' /\ form' = EditForm(i.row, problemitems')
  <2>1. PICK i \in homeworkitems' : i.id = newhomework' /\ form' = EditForm(i.row, problemitems')
    BY <1>7
  <2>2. /\ form'.load = loads' /\ Kept(form')
        /\ \A p \in Problems : form'.problems[p] <= 1
        /\ \A p \in Problems : form'.problems[p] > 0 => problemitems'[p].row \/ p \in form'.missing
    BY <2>1, EditFormSound
  <2>3. FormPlace'
    BY <2>1 DEF FormPlace
  <2>4. FormLoads'
    BY <1>1, <1>2, <1>7, <2>2 DEF FormLoads
  <2>5. FormOnce'
    BY <1>1, <1>2, <1>7, <2>2 DEF FormOnce
  <2>6. FormKeeps'
    BY <1>3, <2>2 DEF FormKeeps
  <2>7. Breaks'
    BY <2>2, RenderForm DEF Breaks
  <2> QED BY <2>3, <2>4, <2>5, <2>6, <2>7
<1> QED BY <1>4, <1>5, <1>6, <1>7, RenderForm

(* A step that leaves the form and sends neither an addition nor a save.   *)
LEMMA FormStays ==
    ASSUME FormParts, ~crashed', form' = form, newhomework' = newhomework,
           homeworkitems \subseteq homeworkitems', loads' = loads, doubled' = doubled,
           \A q \in net' : q.api \in {"add", "update_homework"} => q \in net
    PROVE  FormParts' /\ Breaks'
<1> USE DEF FormParts
<1>1. FormPlace'
  BY DEF FormPlace
<1>2. FormLoads'
  BY DEF FormLoads
<1>3. FormOnce'
  BY DEF FormOnce
<1>4. FormKeeps'
  BY DEF FormKeeps
<1> QED BY <1>1, <1>2, <1>3, <1>4 DEF Breaks

(* A step that leaves the homeworks and the problems of the page.          *)
LEMMA RowsStay ==
    ASSUME RowsLoad, homeworkitems' = homeworkitems, problemitems' = problemitems, lost => lost',
           \A q \in net : q.api = "problem" => q \in net'
    PROVE  RowsLoad'
  BY DEF RowsLoad

(* A load leaves nothing to say about rows.                                *)
LEMMA RowsAnew ==
    ASSUME NEW rest, Load(rest)
    PROVE  RowsLoad' /\ loads' = loads + 1
           /\ \A q \in net' : q \in rest \/ q.api = "course"
  BY DEF RowsLoad, Load, Read

FormSafe == FormParts /\ RowsLoad /\ Breaks

(* A click sends one request.                                              *)
LEMMA WriteOnly ==
    ASSUME NEW q, Send(q)
    PROVE  \A r \in net' : r \in net \/ r = q
  BY DEF Send

(* Clicks keep what is said of the form.                                   *)
LEMMA FormClick ==
    ASSUME Typed, Typed', FormSafe, ~crashed, Click
    PROVE  FormSafe'
<1>0. FormParts /\ RowsLoad
  BY DEF FormSafe
<1>1. ASSUME \/ ClickNewNotice \/ \E k \in {"1", "2", "3", "4"} : Menu(k)
      PROVE  FormSafe'
  <2>1. /\ Idle /\ net' = net /\ form' = form /\ newhomework' = newhomework
        /\ crashed' = crashed /\ doubled' = doubled
    BY <1>1 DEF Menu, ClickNewNotice
  <2>2. RowsLoad'
    BY <1>0, <2>1, RowsStay DEF Idle, pageVars
  <2> QED BY <1>0, <2>1, <2>2, FormStays DEF Idle, pageVars, FormSafe
<1>2. ASSUME NEW q, q.api \notin {"add", "update_homework"}, Send(q), Idle,
             UNCHANGED <<uiVars, form, crashed, doubled>>
      PROVE  FormSafe'
  <2>1. \A r \in net' : r \in net \/ r = q
    BY <1>2, WriteOnly
  <2>2. RowsLoad'
    BY <1>0, <1>2, RowsStay DEF Idle, pageVars, Send
  <2>3. \A r \in net' : r.api \in {"add", "update_homework"} => r \in net
    BY <1>2, <2>1
  <2> QED BY <1>0, <1>2, <2>2, <2>3, FormStays DEF Idle, pageVars, uiVars, FormSafe
<1>3. ASSUME NEW n \in Notices, PostNotice(n) PROVE FormSafe'
  BY <1>2, <1>3, WriteIs DEF PostNotice
<1>4. ASSUME NEW i \in homeworkitems, NEW f \in {"score_openness", "submitable"}, Toggle(i, f)
      PROVE  FormSafe'
  BY <1>2, <1>4, WriteIs DEF Toggle
<1>5. ASSUME NEW i \in homeworkitems, NEW p \in Problems, JudgeAll(i, p) PROVE FormSafe'
  BY <1>2, <1>5, WriteIs DEF JudgeAll
<1>6. ASSUME ClickNewHomework \/ \E i \in homeworkitems : ClickEdit(i) PROVE FormSafe'
  <2>1. Render /\ Idle /\ net' = net /\ doubled' = doubled /\ newhomework = "no"
    BY <1>6 DEF ClickNewHomework, ClickEdit, Panel, Cards
  <2>2. form = None
    BY <1>0, <2>1, LessonAssumption DEF FormParts, FormPlace, Typed, ListsTyped
  <2>3. RowsLoad'
    BY <1>0, <2>1, RowsStay DEF Idle, pageVars
  <2>4. FormParts' /\ Breaks'
    BY <1>0, <2>1, <2>2, <2>3, RenderSound DEF Idle
  <2> QED BY <2>3, <2>4 DEF FormSafe
<1>7. CASE CancelForm
  <2>1. Load(net) /\ Render /\ lost' = lost /\ doubled' = doubled
    BY <1>7 DEF CancelForm
  <2>2. RowsLoad' /\ loads' = loads + 1 /\ \A q \in net' : q \in net \/ q.api = "course"
    BY <2>1, RowsAnew
  <2>3. FormParts' /\ Breaks'
    BY <1>0, <2>1, <2>2, RenderSound
  <2> QED BY <2>2, <2>3 DEF FormSafe
<1>8. ASSUME NEW p \in Problems, AddProblem(p) PROVE FormSafe'
  <2>1. PICK q : q = Write("add", p, form.load)
    OBVIOUS
  <2>2. /\ form # None /\ form.problems[p] = 0 /\ Idle /\ UNCHANGED <<uiVars, form, crashed>>
        /\ doubled \subseteq doubled'
        /\ (\E r \in net : r.api = "add" /\ r.id = p /\ r.arg = form.load) => p \in doubled'
        /\ net' = net \cup {q}
    BY <1>8, <2>1 DEF AddProblem, AddedAlready, Send
  <2>3. q.api = "add" /\ q.id = p /\ q.arg = form.load
    BY <2>1, WriteIs
  <2>4. RowsLoad'
    BY <1>0, <2>2, RowsStay DEF Idle, pageVars
  <2>5. FormPlace' /\ FormKeeps'
    BY <1>0, <2>2, <2>3 DEF FormParts, FormPlace, FormKeeps, Idle, pageVars, uiVars
  <2>6. FormLoads'
    <3>1. form.load \in Nat
      BY <2>2 DEF Typed, FormTyped, FormStates
    <3> QED BY <1>0, <2>2, <2>3, <3>1 DEF FormParts, FormLoads, Idle
  <2>7. FormOnce'
    BY <1>0, <2>2, <2>3 DEF FormParts, FormOnce
  <2>8. Breaks'
    BY <2>2 DEF Breaks
  <2> QED BY <2>4, <2>5, <2>6, <2>7, <2>8 DEF FormSafe, FormParts
<1>9. ASSUME NEW p \in Problems, DeleteProblem(p) PROVE FormSafe'
  <2>1. /\ form # None /\ Idle /\ UNCHANGED <<uiVars, net, clicks, crashed, doubled>>
        /\ form' = [[form EXCEPT !.problems[p] = 0] EXCEPT !.removed = form.removed \cup {p}]
    BY <1>9 DEF DeleteProblem
  <2>2. PICK a \in [Problems -> Nat], b \in 0..1, c \in SUBSET Problems, d \in SUBSET Problems,
             e \in Nat, g \in SUBSET Problems :
             form = [problems |-> a, deadline |-> b, base |-> c, removed |-> d, load |-> e, missing |-> g]
    BY <2>1 DEF Typed, FormTyped, FormStates
  <2>3. form' = [problems |-> [a EXCEPT ![p] = 0], deadline |-> b, base |-> c,
                 removed |-> d \cup {p}, load |-> e, missing |-> g]
    BY <2>1, <2>2
  <2>4. /\ form'.load = form.load /\ form'.missing = form.missing /\ form'.base = form.base
        /\ form'.removed = form.removed \cup {p}
        /\ \A x \in Problems : form'.problems[x] = IF x = p THEN 0 ELSE form.problems[x]
    BY <2>2, <2>3
  <2>5. RowsLoad'
    BY <1>0, <2>1, RowsStay DEF Idle, pageVars
  <2>6. FormPlace'
    BY <1>0, <2>1 DEF FormParts, FormPlace, Idle, pageVars, uiVars
  <2>7. FormLoads'
    <3>1. form' # None
      <4>1. [a EXCEPT ![p] = 0] \in [Problems -> Nat]
        OBVIOUS
      <4>2. form' \in FormStates
        BY <2>3, <4>1 DEF FormStates
      <4> QED BY <4>2, LessonAssumption
    <3> QED BY <1>0, <2>1, <2>4, <3>1 DEF FormParts, FormLoads, Idle
  <2>8. FormOnce'
    <3>1. \A r \in net : r.api = "add" => r.id \in Problems
      BY DEF Typed, NetTyped, Request
    <3> QED BY <1>0, <2>1, <2>4, <3>1 DEF FormParts, FormOnce
  <2>9. FormKeeps'
    <3>1. Kept(form) => Kept(form')
      BY <2>4 DEF Kept, Listed
    <3> QED BY <1>0, <2>1, <3>1 DEF FormParts, FormKeeps
  <2>10. Breaks'
    BY <2>1 DEF Breaks
  <2> QED BY <2>5, <2>6, <2>7, <2>8, <2>9, <2>10 DEF FormSafe, FormParts
<1>10. ASSUME NEW h \in Homeworks, NEW t \in 0..1, SaveHomework(h, t) PROVE FormSafe'
  <2>1. PICK api \in {"create_homework", "update_homework"} :
            api = IF newhomework = "new" THEN "create_homework" ELSE "update_homework"
    OBVIOUS
  <2>2. PICK q : q = Write(api, h, [form |-> form, deadline |-> t])
    OBVIOUS
  <2>3. /\ form # None /\ Idle /\ UNCHANGED <<uiVars, form, crashed, doubled>>
        /\ net' = net \cup {q}
    BY <1>10, <2>1, <2>2 DEF SaveHomework, Send
  <2>4. q.api = api /\ q.arg.form = form
    BY <2>2, WriteIs
  <2>5. RowsLoad'
    BY <1>0, <2>3, RowsStay DEF Idle, pageVars
  <2>6. FormPlace' /\ FormLoads' /\ FormOnce'
    BY <1>0, <2>1, <2>3, <2>4 DEF FormParts, FormPlace, FormLoads, FormOnce, Idle, pageVars, uiVars
  <2>7. FormKeeps'
    BY <1>0, <2>3, <2>4 DEF FormParts, FormKeeps
  <2>8. Breaks'
    BY <2>3 DEF Breaks
  <2> QED BY <2>5, <2>6, <2>7, <2>8 DEF FormSafe, FormParts
<1> QED BY <1>1, <1>3, <1>4, <1>5, <1>6, <1>7, <1>8, <1>9, <1>10 DEF Click

(* Answers of a load keep what is said of the form: a homework that joins  *)
(* the list asks for its problems at once.                                 *)
LEMMA FormAnswers ==
    ASSUME Typed, Typed', FormSafe, ~crashed, NEW r \in net, NEW d,
           CourseAnswer(r, d) \/ NoticeAnswer(r, d) \/ HomeworkAnswer(r, d)
           \/ ProblemAnswer(r, d) \/ StateAnswer(r, d)
    PROVE  FormSafe'
<1>0. FormParts /\ RowsLoad
  BY DEF FormSafe
<1>1. CASE CourseAnswer(r, d)
  <2>1. /\ Answer(r, "course") /\ UNCHANGED <<pageVars, form, crashed>>
        /\ Ask(r, {Read(r, "notice", n) : n \in d.notices} \cup {Read(r, "homework", h) : h \in Existing(d)})
    BY <1>1 DEF CourseAnswer
  <2>2. \A q \in net' : q \in net \/ q.api \in {"notice", "homework"}
    BY <2>1 DEF Ask, Read
  <2>3. \A q \in net : q.api = "problem" => q \in net'
    BY <2>1 DEF Ask, Answer
  <2>4. RowsLoad'
    BY <1>0, <2>1, <2>3, RowsStay DEF Answer, pageVars
  <2> QED BY <1>0, <2>1, <2>2, <2>4, FormStays DEF Answer, pageVars, uiVars, FormSafe
<1>2. CASE NoticeAnswer(r, d)
  <2>1. /\ Answer(r, "notice") /\ UNCHANGED <<homeworkitems, problemitems, form, crashed>> /\ net' = net \ {r}
    BY <1>2 DEF NoticeAnswer, Ask
  <2>2. RowsLoad'
    BY <1>0, <2>1, RowsStay DEF Answer
  <2> QED BY <1>0, <2>1, <2>2, FormStays DEF Answer, uiVars, FormSafe
<1>3. CASE HomeworkAnswer(r, d)
  <2>1. /\ Answer(r, "homework") /\ problemitems' = problemitems /\ Render
    BY <1>3 DEF HomeworkAnswer
  <2>2. CASE d.homeworks[r.id] = None
    <3>1. net' = net \ {r} /\ homeworkitems' = homeworkitems
      BY <1>3, <2>2 DEF HomeworkAnswer, Ask
    <3>2. RowsLoad'
      BY <1>0, <2>1, <3>1, RowsStay DEF Answer
    <3>3. FormParts' /\ Breaks'
      BY <1>0, <2>1, <3>1, <3>2, RenderSound DEF Answer, uiVars
    <3> QED BY <3>2, <3>3 DEF FormSafe
  <2>3. CASE d.homeworks[r.id] # None
    <3>1. PICK row : row = d.homeworks[r.id]
      OBVIOUS
    <3>2. /\ homeworkitems' = homeworkitems \cup {[id |-> r.id, load |-> r.load, row |-> row]}
          /\ Ask(r, {Read(r, "problem", p) : p \in row.problems}
                     \cup {Read(r, "judgestate", <<r.id, p>>) : p \in row.problems})
      BY <1>3, <2>3, <3>1 DEF HomeworkAnswer
    <3>3. \A q \in net' : q \in net \/ q.api \in {"problem", "judgestate"}
      BY <3>2 DEF Ask, Read
    <3>4. \A q \in net : q.api = "problem" => q \in net'
      BY <2>1, <3>2 DEF Ask, Answer
    <3>5. \A p \in row.problems : \E q \in net' : q.api = "problem" /\ q.id = p
      <4>1. ASSUME NEW p \in row.problems PROVE \E q \in net' : q.api = "problem" /\ q.id = p
        <5>1. PICK q : q = Read(r, "problem", p)
          OBVIOUS
        <5>2. q \in net'
          BY <3>2, <5>1 DEF Ask
        <5> QED BY <5>1, <5>2, ReadIs
      <4> QED BY <4>1
    <3>6. RowsLoad'
      BY <1>0, <2>1, <3>2, <3>4, <3>5 DEF RowsLoad, Answer
    <3>7. homeworkitems \subseteq homeworkitems'
      BY <3>2
    <3>8. FormParts' /\ Breaks'
      BY <1>0, <2>1, <3>3, <3>6, <3>7, RenderSound DEF Answer, uiVars
    <3> QED BY <3>6, <3>8 DEF FormSafe
  <2> QED BY <2>2, <2>3
<1>4. CASE ProblemAnswer(r, d)
  <2>1. /\ Answer(r, "problem") /\ UNCHANGED <<infoitems, homeworkitems, form, crashed>> /\ net' = net \ {r}
        /\ problemitems' = [problemitems EXCEPT ![r.id].row = TRUE]
    BY <1>4 DEF ProblemAnswer, Ask
  <2>2. \A p \in Problems : problemitems'[p].row = (p = r.id \/ problemitems[p].row)
    BY <2>1 DEF Typed, ListsTyped
  <2>3. \A i \in homeworkitems : i.row.problems \subseteq Problems
    BY DEF Typed, ListsTyped, Rows
  <2>4. RowsLoad'
    BY <1>0, <2>1, <2>2, <2>3 DEF RowsLoad, Answer
  <2> QED BY <1>0, <2>1, <2>4, FormStays DEF Answer, uiVars, FormSafe
<1>5. CASE StateAnswer(r, d)
  <2>1. /\ Answer(r, "judgestate") /\ UNCHANGED <<infoitems, homeworkitems, form, crashed>> /\ net' = net \ {r}
    BY <1>5 DEF StateAnswer, Ask
  <2>2. \A p \in Problems : problemitems'[p].row = problemitems[p].row
    <3>1. PICK x, s : problemitems' = problemitems \/ problemitems' = [problemitems EXCEPT ![x].status = s]
      BY <1>5 DEF StateAnswer
    <3> QED BY <3>1 DEF Typed, ListsTyped
  <2>3. \A i \in homeworkitems : i.row.problems \subseteq Problems
    BY DEF Typed, ListsTyped, Rows
  <2>4. RowsLoad'
    BY <1>0, <2>1, <2>2, <2>3 DEF RowsLoad, Answer
  <2> QED BY <1>0, <2>1, <2>4, FormStays DEF Answer, uiVars, FormSafe
<1> QED BY <1>1, <1>2, <1>3, <1>4, <1>5

(* So do the other arrivals: an addition that comes back is of a problem   *)
(* the form does not list, unless Enter was pressed twice.                 *)
LEMMA FormArrivals ==
    ASSUME Typed, Typed', FormSafe, ~crashed, NEW r \in net,
           Handle(r) \/ Fail(r) \/ Lose(r) \/ Done(r) \/ AddAnswer(r)
    PROVE  FormSafe'
<1>0. FormParts /\ RowsLoad
  BY DEF FormSafe
<1>1. CASE Handle(r)
  <2>1. /\ UNCHANGED <<pageVars, uiVars, form, loads, crashed, ghosts>>
        /\ net' = (net \ {r}) \cup {[api |-> "done", to |-> r.api, n |-> r.n]}
        /\ r.api # "problem"
    BY <1>1 DEF Handle, Ask, Writes
  <2>2. RowsLoad'
    BY <1>0, <2>1, RowsStay DEF pageVars, ghosts
  <2>3. \A q \in net' : q.api \in {"add", "update_homework"} => q \in net
    BY <2>1
  <2> QED BY <1>0, <2>1, <2>2, <2>3, FormStays DEF pageVars, uiVars, ghosts, FormSafe
<1>2. CASE Fail(r) \/ Lose(r)
  <2>1. /\ UNCHANGED <<pageVars, uiVars, form, loads, crashed, doubled>>
        /\ net' = net \ {r} /\ (lost => lost') /\ (r.api = "problem" => lost')
    BY <1>2 DEF Fail, Lose, Reads
  <2>2. RowsLoad'
    BY <1>0, <2>1 DEF RowsLoad, pageVars
  <2> QED BY <1>0, <2>1, <2>2, FormStays DEF pageVars, uiVars, FormSafe
<1>3. CASE Done(r)
  <2>1. Load(net \ {r}) /\ Render /\ lost' = lost /\ doubled' = doubled
    BY <1>3 DEF Done
  <2>2. RowsLoad' /\ loads' = loads + 1 /\ \A q \in net' : q \in net \/ q.api = "course"
    BY <2>1, RowsAnew
  <2>3. FormParts' /\ Breaks'
    BY <1>0, <2>1, <2>2, RenderSound
  <2> QED BY <2>2, <2>3 DEF FormSafe
<1>4. CASE AddAnswer(r)
  <2>1. /\ UNCHANGED <<pageVars, uiVars, loads, crashed, ghosts>> /\ net' = net \ {r} /\ r.api = "add"
    BY <1>4 DEF AddAnswer
  <2>2. RowsLoad'
    BY <1>0, <2>1, RowsStay DEF pageVars, ghosts
  <2>3. CASE form' = form
    BY <1>0, <2>1, <2>2, <2>3, FormStays DEF pageVars, uiVars, ghosts, FormSafe
  <2>4. CASE form # None /\ form.load = r.arg /\ form' = [form EXCEPT !.problems[r.id] = form.problems[r.id] + 1]
    <3>1. PICK p \in Problems : p = r.id
      BY <2>1 DEF Typed, NetTyped, Request
    <3>2. PICK a \in [Problems -> Nat], b \in 0..1, c \in SUBSET Problems, e \in SUBSET Problems,
               l \in Nat, g \in SUBSET Problems :
               form = [problems |-> a, deadline |-> b, base |-> c, removed |-> e, load |-> l, missing |-> g]
      BY <2>4 DEF Typed, FormTyped, FormStates
    <3>3. PICK k \in Nat : k = a[p] + 1
      OBVIOUS
    <3>4. form' = [problems |-> [a EXCEPT ![p] = k], deadline |-> b, base |-> c,
                   removed |-> e, load |-> l, missing |-> g]
      <4>1. form' = [form EXCEPT !.problems[p] = k]
        BY <2>4, <3>1, <3>2, <3>3
      <4> QED BY <3>2, <4>1
    <3>5. /\ form'.load = form.load /\ form'.missing = form.missing /\ form'.base = form.base
          /\ form'.removed = form.removed
          /\ \A x \in Problems : form'.problems[x] = IF x = p THEN form.problems[x] + 1 ELSE form.problems[x]
          /\ \A x \in Problems : form.problems[x] \in Nat
      BY <3>2, <3>3, <3>4
    <3>6. form' # None
      <4>1. [a EXCEPT ![p] = k] \in [Problems -> Nat]
        OBVIOUS
      <4>2. form' \in FormStates
        BY <3>4, <4>1 DEF FormStates
      <4> QED BY <4>2, LessonAssumption
    <3>7. FormPlace'
      BY <1>0, <2>1, <2>4 DEF FormParts, FormPlace, pageVars, uiVars
    <3>8. FormLoads'
      BY <1>0, <2>1, <2>4, <3>5, <3>6 DEF FormParts, FormLoads
    <3>9. FormOnce'
      <4>1. \A q \in net : q.api = "add" => q.id \in Problems
        BY DEF Typed, NetTyped, Request
      <4>2. p \notin doubled => /\ form.problems[p] = 0
                               /\ \A q \in net' : q.api = "add" /\ q.arg = form.load => q.id # p
        BY <1>0, <2>1, <2>4, <3>1 DEF FormParts, FormOnce
      <4>3. \A x \in Problems \ doubled : form'.problems[x] <= 1
        BY <1>0, <2>1, <2>4, <3>5, <4>2 DEF FormParts, FormOnce
      <4>4. \A q \in net' : q.api = "add" /\ q.arg = form'.load /\ q.id \notin doubled => form'.problems[q.id] = 0
        BY <1>0, <2>1, <2>4, <3>5, <4>1, <4>2 DEF FormParts, FormOnce
      <4>5. \A q \in net' : q.api = "add" /\ q.arg = form'.load /\ q.id \notin doubled =>
                  \A s \in net' : s.api = "add" /\ s.arg = form'.load /\ s.id = q.id => s = q
        BY <1>0, <2>1, <2>4, <3>5 DEF FormParts, FormOnce
      <4>6. doubled' = doubled
        BY <2>1 DEF ghosts
      <4> QED BY <4>3, <4>4, <4>5, <4>6 DEF FormOnce
    <3>10. FormKeeps'
      <4>1. Kept(form) => Kept(form')
        BY <3>5 DEF Kept, Listed
      <4> QED BY <1>0, <2>1, <2>4, <4>1 DEF FormParts, FormKeeps
    <3>11. Breaks'
      BY <2>1 DEF Breaks
    <3> QED BY <2>2, <3>7, <3>8, <3>9, <3>10, <3>11 DEF FormSafe, FormParts
  <2> QED BY <1>4, <2>3, <2>4 DEF AddAnswer
<1> QED BY <1>1, <1>2, <1>3, <1>4

(* So does every step.                                                     *)
LEMMA FormStep ==
    ASSUME Typed, Typed', FormSafe, Next
    PROVE  FormSafe'
<1>0. FormParts /\ RowsLoad /\ ~crashed
  BY DEF FormSafe, Next
<1>1. CASE Restored
  <2>1. Load(net) /\ Render /\ lost' = lost /\ doubled' = doubled
    BY <1>1 DEF Restored
  <2>2. RowsLoad' /\ loads' = loads + 1 /\ \A q \in net' : q \in net \/ q.api = "course"
    BY <2>1, RowsAnew
  <2>3. FormParts' /\ Breaks'
    BY <1>0, <2>1, <2>2, RenderSound
  <2> QED BY <2>2, <2>3 DEF FormSafe
<1>2. CASE Click
  BY <1>0, <1>2, FormClick
<1>3. ASSUME NEW r \in net, Arrive(r) PROVE FormSafe'
  BY <1>0, <1>3, FormAnswers, FormArrivals DEF Arrive
<1>4. CASE Deadline \/ Other
  <2>1. UNCHANGED <<pageVars, uiVars, form, net, loads, crashed, lost, doubled>>
    BY <1>4 DEF Deadline, Other, ghosts
  <2>2. RowsLoad'
    BY <1>0, <2>1, RowsStay DEF pageVars
  <2> QED BY <1>0, <2>1, <2>2, FormStays DEF pageVars, uiVars, FormSafe
<1> QED BY <1>1, <1>2, <1>3, <1>4 DEF Next

(* After a load that overlaps nothing everything is still to be asked for. *)
LEMMA SettleAnew ==
    ASSUME Typed, NEW rest, Load(rest), hist' = hist
    PROVE  Settle'
<1> SUFFICES ASSUME Calm' PROVE Current' /\ NoticesSettle' /\ HomeworksSettle' /\ ProblemsSettle'
  BY DEF Settle
<1>1. PICK q : q = Read([load |-> loads + 1], "course", None)
  OBVIOUS
<1>2. /\ q.api = "course" /\ q.id = None /\ q.load = loads' /\ q.at = Len(hist)
  BY <1>1, ReadIs DEF Load
<1>3. /\ \A r \in net' : r.api \in Reads => r = q
      /\ q \in net'
  BY <1>1 DEF Load, Calm
<1>4. Len(hist) \in Nat /\ Db' = Db /\ Db = hist[Len(hist)]
  BY DbTyped DEF Typed, Db
<1>5. Current'
  <2>1. \A v \in q.at..Len(hist) : hist[v] = Db
    BY <1>2, <1>4
  <2> QED BY <1>2, <1>3, <1>4, <2>1 DEF Current
<1>6. infoitems' = {} /\ homeworkitems' = {} /\ \A p \in Problems : problemitems'[p] = Absent
  BY DEF Load
<1>7. Asked("course", None)'
  BY <1>2, <1>3 DEF Asked
<1>8. NoticesSettle' /\ HomeworksSettle'
  BY <1>2, <1>3, <1>6, <1>7 DEF NoticesSettle, HomeworksSettle, Reads
<1>9. ProblemsSettle'
  <2>1. \A r \in net' : r.api \notin {"judgestate", "problem"}
    BY <1>2, <1>3 DEF Reads
  <2>2. \A p \in Problems : ~Shown(p)' /\ ~Asked("problem", p)'
    BY <1>6, <2>1 DEF Shown, Asked
  <2> QED BY <2>1, <2>2 DEF ProblemsSettle
<1> QED BY <1>5, <1>8, <1>9

(* A step that leaves the lists and the questions.                         *)
LEMMA SettleStays ==
    ASSUME Settle, hist' = hist, UNCHANGED <<pageVars, loads, overlapped, others>>, lost => lost',
           \A q \in net' : q.api \in Reads => q \in net,
           \A q \in net : q.api \in Reads \cup {"done"} => q \in net'
    PROVE  Settle'
<1> SUFFICES ASSUME Calm' PROVE Current' /\ NoticesSettle' /\ HomeworksSettle' /\ ProblemsSettle'
  BY DEF Settle
<1>1. Calm
  BY DEF Calm
<1>2. Current /\ NoticesSettle /\ HomeworksSettle /\ ProblemsSettle
  BY <1>1 DEF Settle
<1>3. Db' = Db /\ infoitems' = infoitems /\ homeworkitems' = homeworkitems /\ problemitems' = problemitems
  BY DEF Db, pageVars
<1>4. \A api \in Reads : \A id : Asked(api, id)' <=> Asked(api, id)
  BY DEF Asked
<1>5. Current'
  BY <1>2, <1>3 DEF Current
<1>6. NoticesSettle'
  BY <1>2, <1>3, <1>4 DEF NoticesSettle, Reads
<1>7. HomeworksSettle'
  BY <1>2, <1>3, <1>4 DEF HomeworksSettle, Reads
<1>8. ProblemsSettle'
  <2>1. \A r \in net' : r.api = "judgestate" => Member(r.id)'
    BY <1>2, <1>3 DEF ProblemsSettle, Member, Reads
  <2>2. \A p \in Problems : (Shown(p)' <=> Shown(p)) /\ (Settled(p) => Settled(p)')
                            /\ (StateAsked(p) => StateAsked(p)')
    BY <1>3 DEF Shown, Settled, Member, StateAsked, Reads
  <2>3. \A p \in Problems : Asked("problem", p)' <=> Asked("problem", p)
    BY <1>4 DEF Reads
  <2> QED BY <1>2, <2>1, <2>2, <2>3 DEF ProblemsSettle
<1> QED BY <1>5, <1>6, <1>7, <1>8

(* The answer of a calm page is what the tables hold.                      *)
LEMMA CalmAnswer ==
    ASSUME Typed, Settle, Calm', NEW r \in net, r.api \in Reads, NEW v \in r.at..Len(hist),
           NEW d, d = hist[v], NEW asked, Answer(r, r.api), Ask(r, asked),
           \A q \in asked : q.api \in Reads /\ q.load = r.load /\ q.at = Len(hist)
    PROVE  /\ Current /\ NoticesSettle /\ HomeworksSettle /\ ProblemsSettle
           /\ d = Db /\ Db' = Db /\ Db \in Tables /\ r.load = loads /\ loads' = loads
           /\ Current'
           /\ \A q : q \in net' <=> (q \in net /\ q # r) \/ q \in asked
<1>1. \A q : q \in net' <=> (q \in net /\ q # r) \/ q \in asked
  BY DEF Ask
<1>2. Calm
  <2>1. r.api # "done"
    BY DEF Reads
  <2> QED BY <1>1, <2>1 DEF Calm, Answer
<1>3. Current /\ NoticesSettle /\ HomeworksSettle /\ ProblemsSettle
  BY <1>2 DEF Settle
<1>4. d = Db /\ r.load = loads
  BY <1>3 DEF Current
<1>5. Db' = Db /\ hist' = hist /\ loads' = loads /\ Len(hist) \in Nat /\ Db = hist[Len(hist)] /\ Db \in Tables
  BY DbTyped DEF Answer, Db, Typed
<1>6. \A w \in Len(hist)..Len(hist) : hist[w] = Db
  BY <1>5
<1>7. Current'
  BY <1>1, <1>3, <1>4, <1>5, <1>6 DEF Current
<1> QED BY <1>1, <1>3, <1>4, <1>5, <1>7

(* The course asks for every notice and homework there is.                 *)
LEMMA SettleCourse ==
    ASSUME Typed, Settle, NEW r \in net, r.api \in Reads, NEW v \in r.at..Len(hist),
           NEW d, d = hist[v], CourseAnswer(r, d)
    PROVE  Settle'
<1> SUFFICES ASSUME Calm' PROVE Current' /\ NoticesSettle' /\ HomeworksSettle' /\ ProblemsSettle'
  BY DEF Settle
<1>1. PICK asked : asked = {Read(r, "notice", n) : n \in d.notices} \cup {Read(r, "homework", h) : h \in Existing(d)}
  OBVIOUS
<1>2. Answer(r, "course") /\ UNCHANGED pageVars /\ Ask(r, asked) /\ r.api = "course"
  BY <1>1 DEF CourseAnswer, Answer
<1>3. \A q \in asked : /\ q.api \in {"notice", "homework"} /\ q.load = r.load /\ q.at = Len(hist)
                       /\ q.api = "notice" => q.id \in d.notices
                       /\ q.api = "homework" => q.id \in Existing(d)
  BY <1>1, ReadIs
<1>4. /\ Current /\ NoticesSettle /\ HomeworksSettle /\ ProblemsSettle
      /\ d = Db /\ Db' = Db /\ r.load = loads /\ loads' = loads
      /\ Current'
      /\ \A q : q \in net' <=> (q \in net /\ q # r) \/ q \in asked
  BY <1>2, <1>3, CalmAnswer DEF Reads
<1>5. infoitems' = infoitems /\ homeworkitems' = homeworkitems /\ problemitems' = problemitems
  BY <1>2 DEF pageVars
<1>6. ASSUME NEW n \in d.notices PROVE Asked("notice", n)'
  <2>1. PICK q \in asked : q = Read(r, "notice", n)
    BY <1>1
  <2> QED BY <1>4, <2>1, ReadIs DEF Asked
<1>7. ASSUME NEW h \in Existing(d) PROVE Asked("homework", h)'
  <2>1. PICK q \in asked : q = Read(r, "homework", h)
    BY <1>1
  <2> QED BY <1>4, <2>1, ReadIs DEF Asked
<1>8. NoticesSettle'
  BY <1>3, <1>4, <1>5, <1>6 DEF NoticesSettle
<1>9. HomeworksSettle'
  BY <1>3, <1>4, <1>5, <1>7 DEF HomeworksSettle
<1>10. ProblemsSettle'
  <2>1. \A q \in net' : q.api = "judgestate" => Member(q.id)'
    BY <1>3, <1>4 DEF ProblemsSettle, Member
  <2>2. \A p \in Problems : (Shown(p)' => Shown(p)) /\ (Settled(p) => Settled(p)')
    BY <1>4, <1>5 DEF Shown, Settled, Member
  <2>3. \A p \in Problems : (Asked("problem", p)' => Asked("problem", p)) /\ (StateAsked(p) => StateAsked(p)')
    BY <1>2, <1>3, <1>4 DEF Asked, StateAsked
  <2> QED BY <1>4, <2>1, <2>2, <2>3 DEF ProblemsSettle
<1> QED BY <1>4, <1>8, <1>9, <1>10

(* A notice that is answered joins the list.                               *)
LEMMA SettleNotice ==
    ASSUME Typed, Settle, NEW r \in net, r.api \in Reads, NEW v \in r.at..Len(hist),
           NEW d, d = hist[v], NoticeAnswer(r, d)
    PROVE  Settle'
<1> SUFFICES ASSUME Calm' PROVE Current' /\ NoticesSettle' /\ HomeworksSettle' /\ ProblemsSettle'
  BY DEF Settle
<1>2. /\ Answer(r, "notice") /\ homeworkitems' = homeworkitems /\ problemitems' = problemitems
      /\ infoitems' = infoitems \cup {[id |-> r.id, load |-> r.load]}
      /\ Ask(r, {}) /\ r.api = "notice"
  BY DEF NoticeAnswer, Answer
<1>4. /\ Current /\ NoticesSettle /\ HomeworksSettle /\ ProblemsSettle
      /\ d = Db /\ Db' = Db /\ r.load = loads /\ loads' = loads
      /\ Current'
      /\ \A q : q \in net' <=> (q \in net /\ q # r)
  BY <1>2, CalmAnswer
<1>5. NoticesSettle'
  <2>1. \A i \in infoitems' : i.load = loads' /\ i.id \in Db'.notices
    BY <1>2, <1>4 DEF NoticesSettle
  <2>2. \A q \in net' : q.api = "notice" => q.id \in Db'.notices
    BY <1>4 DEF NoticesSettle
  <2>3. Asked("course", None) => Asked("course", None)'
    BY <1>2, <1>4 DEF Asked
  <2>4. ASSUME NEW n \in Db.notices, Asked("notice", n) \/ n \in Ids(infoitems)
        PROVE  Asked("notice", n)' \/ n \in Ids(infoitems')
    BY <1>2, <1>4, <2>4 DEF Asked, Ids
  <2>5. Asked("course", None)' \/ \A n \in Db'.notices : Asked("notice", n)' \/ n \in Ids(infoitems')
    BY <1>4, <2>3, <2>4 DEF NoticesSettle
  <2> QED BY <2>1, <2>2, <2>5 DEF NoticesSettle
<1>6. HomeworksSettle'
  <2>1. \A h : Asked("homework", h) => Asked("homework", h)'
    BY <1>2, <1>4 DEF Asked
  <2>2. Asked("course", None) => Asked("course", None)'
    BY <1>2, <1>4 DEF Asked
  <2> QED BY <1>2, <1>4, <2>1, <2>2 DEF HomeworksSettle
<1>7. ProblemsSettle'
  <2>1. \A q \in net' : q.api = "judgestate" => Member(q.id)'
    BY <1>4 DEF ProblemsSettle, Member
  <2>2. \A p \in Problems : (Shown(p)' => Shown(p)) /\ (Settled(p) => Settled(p)')
    BY <1>2, <1>4 DEF Shown, Settled, Member
  <2>3. \A p \in Problems : (Asked("problem", p)' => Asked("problem", p)) /\ (StateAsked(p) => StateAsked(p)')
    BY <1>2, <1>4 DEF Asked, StateAsked
  <2> QED BY <1>4, <2>1, <2>2, <2>3 DEF ProblemsSettle
<1> QED BY <1>4, <1>5, <1>6, <1>7

(* A homework that is answered joins the list as it is, and asks for each  *)
(* of its problems and their judge states.                                 *)
LEMMA SettleHomework ==
    ASSUME Typed, Settle, NEW r \in net, r.api \in Reads, NEW v \in r.at..Len(hist),
           NEW d, d = hist[v], HomeworkAnswer(r, d)
    PROVE  Settle'
<1> SUFFICES ASSUME Calm' PROVE Current' /\ NoticesSettle' /\ HomeworksSettle' /\ ProblemsSettle'
  BY DEF Settle
<1>1. Answer(r, "homework") /\ r.api = "homework" /\ infoitems' = infoitems /\ problemitems' = problemitems
  BY DEF HomeworkAnswer, Answer
<1>2. r.id \in Existing(d)
  <2>1. CASE d.homeworks[r.id] = None
    <3>1. Ask(r, {})
      BY <2>1 DEF HomeworkAnswer
    <3>2. HomeworksSettle /\ d = Db
      BY <1>1, <3>1, CalmAnswer
    <3> QED BY <1>1, <3>2 DEF HomeworksSettle
  <2>2. CASE d.homeworks[r.id] # None
    BY <1>1, <2>2 DEF Existing, Typed, NetTyped, Request
  <2> QED BY <2>1, <2>2
<1>3. PICK row : row = d.homeworks[r.id]
  OBVIOUS
<1>4. PICK asked : asked = {Read(r, "problem", p) : p \in row.problems}
                           \cup {Read(r, "judgestate", <<r.id, p>>) : p \in row.problems}
  OBVIOUS
<1>5. Ask(r, asked) /\ homeworkitems' = homeworkitems \cup {[id |-> r.id, load |-> r.load, row |-> row]}
  BY <1>2, <1>3, <1>4 DEF HomeworkAnswer, Existing
<1>6. \A q \in asked : /\ q.api \in {"problem", "judgestate"} /\ q.load = r.load /\ q.at = Len(hist)
                       /\ q.api = "problem" => q.id \in row.problems
                       /\ q.api = "judgestate" => q.id[1] = r.id /\ q.id[2] \in row.problems
  <2>1. ASSUME NEW q, NEW p \in row.problems, q = Read(r, "problem", p)
        PROVE  q.api = "problem" /\ q.load = r.load /\ q.at = Len(hist) /\ q.id \in row.problems
    BY <2>1, ReadIs
  <2>2. ASSUME NEW q, NEW p \in row.problems, q = Read(r, "judgestate", <<r.id, p>>)
        PROVE  /\ q.api = "judgestate" /\ q.load = r.load /\ q.at = Len(hist)
               /\ q.id[1] = r.id /\ q.id[2] \in row.problems
    <3>1. q.id = <<r.id, p>>
      BY <2>2, ReadIs
    <3>2. q.api = "judgestate" /\ q.load = r.load /\ q.at = Len(hist)
      BY <2>2, ReadIs
    <3> QED BY <3>1, <3>2
  <2>3. \A q \in asked : (\E p \in row.problems : q = Read(r, "problem", p))
                        \/ (\E p \in row.problems : q = Read(r, "judgestate", <<r.id, p>>))
    BY <1>4
  <2> QED BY <2>1, <2>2, <2>3
<1>7. /\ Current /\ NoticesSettle /\ HomeworksSettle /\ ProblemsSettle
      /\ d = Db /\ Db' = Db /\ r.load = loads /\ loads' = loads
      /\ Current'
      /\ \A q : q \in net' <=> (q \in net /\ q # r) \/ q \in asked
  BY <1>1, <1>5, <1>6, CalmAnswer DEF Reads
<1>8. NoticesSettle'
  <2>1. \A n : Asked("notice", n) => Asked("notice", n)'
    BY <1>1, <1>7 DEF Asked
  <2>2. Asked("course", None) => Asked("course", None)'
    BY <1>1, <1>7 DEF Asked
  <2> QED BY <1>1, <1>6, <1>7, <2>1, <2>2 DEF NoticesSettle
<1>9. HomeworksSettle'
  <2>1. \A i \in homeworkitems' : i.load = loads' /\ i.id \in Existing(Db)' /\ i.row = Db'.homeworks[i.id]
    BY <1>2, <1>3, <1>5, <1>7 DEF HomeworksSettle, Existing
  <2>2. \A q \in net' : q.api = "homework" => q.id \in Existing(Db)'
    BY <1>6, <1>7 DEF HomeworksSettle, Existing
  <2>3. Asked("course", None) => Asked("course", None)'
    BY <1>1, <1>7 DEF Asked
  <2>4. ASSUME NEW h \in Existing(Db), Asked("homework", h) \/ h \in Ids(homeworkitems)
        PROVE  Asked("homework", h)' \/ h \in Ids(homeworkitems')
    <3>1. CASE h = r.id
      <4>1. PICK i \in homeworkitems' : i = [id |-> r.id, load |-> r.load, row |-> row]
        BY <1>5
      <4>2. i.id = h
        BY <3>1, <4>1
      <4> QED BY <4>2 DEF Ids
    <3>2. CASE h # r.id /\ Asked("homework", h)
      BY <1>7, <3>2 DEF Asked
    <3>3. CASE h \in Ids(homeworkitems)
      BY <1>5, <3>3 DEF Ids
    <3> QED BY <2>4, <3>1, <3>2, <3>3
  <2>5. Asked("course", None)' \/ \A h \in Existing(Db)' : Asked("homework", h)' \/ h \in Ids(homeworkitems')
    <3>1. Existing(Db)' = Existing(Db)
      BY <1>7 DEF Existing
    <3> QED BY <1>7, <2>3, <2>4, <3>1 DEF HomeworksSettle
  <2> QED BY <2>1, <2>2, <2>5 DEF HomeworksSettle
<1>10. ProblemsSettle'
  <2>1. \A q \in net' : q.api = "judgestate" => Member(q.id)'
    <3>1. \A q \in asked : q.api = "judgestate" => Member(q.id)
      BY <1>2, <1>3, <1>6, <1>7 DEF Member
    <3>2. \A q \in net : q.api = "judgestate" => Member(q.id)
      BY <1>7 DEF ProblemsSettle
    <3> QED BY <1>7, <3>1, <3>2 DEF Member, Existing
  <2>2. \A p \in Problems : (Shown(p)' => Shown(p)) /\ (Settled(p) => Settled(p)')
    BY <1>1, <1>7 DEF Shown, Settled, Member, Existing
  <2>3. \A p \in Problems : StateAsked(p) => StateAsked(p)'
    BY <1>1, <1>7 DEF StateAsked
  <2>4. ASSUME NEW p \in Problems, Asked("problem", p)', ~Asked("problem", p) PROVE StateAsked(p)'
    <3>1. p \in row.problems
      BY <1>6, <1>7, <2>4 DEF Asked
    <3>2. PICK q \in asked : q = Read(r, "judgestate", <<r.id, p>>)
      BY <1>4, <3>1
    <3>3. q \in net' /\ q.api = "judgestate" /\ q.id[2] = p
      BY <1>7, <3>2, ReadIs
    <3> QED BY <3>3 DEF StateAsked
  <2> QED BY <1>7, <2>1, <2>2, <2>3, <2>4 DEF ProblemsSettle
<1> QED BY <1>7, <1>8, <1>9, <1>10

(* A problem that is answered has its row; its judge state is there or     *)
(* asked for.                                                              *)
LEMMA SettleProblem ==
    ASSUME Typed, Settle, NEW r \in net, r.api \in Reads, NEW v \in r.at..Len(hist),
           NEW d, d = hist[v], ProblemAnswer(r, d)
    PROVE  Settle'
<1> SUFFICES ASSUME Calm' PROVE Current' /\ NoticesSettle' /\ HomeworksSettle' /\ ProblemsSettle'
  BY DEF Settle
<1>1. /\ Answer(r, "problem") /\ homeworkitems' = homeworkitems /\ infoitems' = infoitems
      /\ problemitems' = [problemitems EXCEPT ![r.id].row = TRUE]
      /\ Ask(r, {}) /\ r.api = "problem"
  BY DEF ProblemAnswer, Answer
<1>2. /\ Current /\ NoticesSettle /\ HomeworksSettle /\ ProblemsSettle
      /\ d = Db /\ Db' = Db /\ r.load = loads /\ loads' = loads
      /\ Current'
      /\ \A q : q \in net' <=> (q \in net /\ q # r)
  BY <1>1, CalmAnswer
<1>3. Asked("course", None) => Asked("course", None)'
  BY <1>1, <1>2 DEF Asked
<1>4. NoticesSettle'
  <2>1. \A n : Asked("notice", n) => Asked("notice", n)'
    BY <1>1, <1>2 DEF Asked
  <2> QED BY <1>1, <1>2, <1>3, <2>1 DEF NoticesSettle
<1>5. HomeworksSettle'
  <2>1. \A h : Asked("homework", h) => Asked("homework", h)'
    BY <1>1, <1>2 DEF Asked
  <2> QED BY <1>1, <1>2, <1>3, <2>1 DEF HomeworksSettle
<1>6. ProblemsSettle'
  <2>1. \A q \in net' : q.api = "judgestate" => Member(q.id)'
    BY <1>2 DEF ProblemsSettle, Member
  <2>2. \A p \in Problems : /\ problemitems'[p].status = problemitems[p].status
                            /\ p # r.id => problemitems'[p] = problemitems[p]
    BY <1>1 DEF Typed, ListsTyped
  <2>3. \A p \in Problems : (Shown(p)' => Shown(p) \/ Asked("problem", p)) /\ (Settled(p) => Settled(p)')
    BY <1>1, <1>2, <2>2 DEF Shown, Settled, Member, Asked
  <2>4. \A p \in Problems : (Asked("problem", p)' => Asked("problem", p)) /\ (StateAsked(p) => StateAsked(p)')
    BY <1>1, <1>2 DEF Asked, StateAsked
  <2> QED BY <1>2, <2>1, <2>3, <2>4 DEF ProblemsSettle
<1> QED BY <1>2, <1>4, <1>5, <1>6

(* A judge state that is answered is that of a problem of the homework.    *)
LEMMA SettleState ==
    ASSUME Typed, Settle, NEW r \in net, r.api \in Reads, NEW v \in r.at..Len(hist),
           NEW d, d = hist[v], StateAnswer(r, d)
    PROVE  Settle'
<1> SUFFICES ASSUME Calm' PROVE Current' /\ NoticesSettle' /\ HomeworksSettle' /\ ProblemsSettle'
  BY DEF Settle
<1>1. /\ Answer(r, "judgestate") /\ homeworkitems' = homeworkitems /\ infoitems' = infoitems
      /\ Ask(r, {}) /\ r.api = "judgestate"
  BY DEF StateAnswer, Answer
<1>2. /\ Current /\ NoticesSettle /\ HomeworksSettle /\ ProblemsSettle
      /\ d = Db /\ Db' = Db /\ Db \in Tables /\ r.load = loads /\ loads' = loads
      /\ Current'
      /\ \A q : q \in net' <=> (q \in net /\ q # r)
  BY <1>1, CalmAnswer
<1>3. PICK h \in Homeworks, p \in Problems : r.id = <<h, p>>
  BY <1>1 DEF Typed, NetTyped, Request
<1>4. Member(<<h, p>>)
  BY <1>1, <1>2, <1>3 DEF ProblemsSettle
<1>5. PICK s : s = Db.judging[<<h, p>>]
  OBVIOUS
<1>6. problemitems' = [problemitems EXCEPT ![p].status = s]
  <2>1. r.id[1] = h /\ r.id[2] = p
    BY <1>3
  <2>2. d.homeworks[h] # None /\ p \in d.homeworks[h].problems
    BY <1>2, <1>4 DEF Member, Existing
  <2> QED BY <1>2, <1>3, <1>5, <2>1, <2>2 DEF StateAnswer
<1>7. /\ problemitems'[p].status = s
      /\ \A x \in Problems : x # p => problemitems'[x] = problemitems[x]
  BY <1>6 DEF Typed, ListsTyped
<1>8. Asked("course", None) => Asked("course", None)'
  BY <1>1, <1>2 DEF Asked
<1>9. NoticesSettle'
  <2>1. \A n : Asked("notice", n) => Asked("notice", n)'
    BY <1>1, <1>2 DEF Asked
  <2> QED BY <1>1, <1>2, <1>8, <2>1 DEF NoticesSettle
<1>10. HomeworksSettle'
  <2>1. \A x : Asked("homework", x) => Asked("homework", x)'
    BY <1>1, <1>2 DEF Asked
  <2> QED BY <1>1, <1>2, <1>8, <2>1 DEF HomeworksSettle
<1>11. ProblemsSettle'
  <2>1. \A q \in net' : q.api = "judgestate" => Member(q.id)'
    BY <1>2 DEF ProblemsSettle, Member
  <2>2. Settled(p)'
    BY <1>2, <1>4, <1>5, <1>7 DEF Settled, Member, Existing
  <2>3. \A x \in Problems : x # p => (Shown(x)' => Shown(x)) /\ (Settled(x) => Settled(x)')
    BY <1>2, <1>7 DEF Shown, Settled, Member
  <2>4. \A x \in Problems : x # p => (StateAsked(x) => StateAsked(x)')
    BY <1>2, <1>3 DEF StateAsked
  <2>5. \A x \in Problems : Asked("problem", x)' => Asked("problem", x)
    BY <1>2 DEF Asked
  <2> QED BY <1>2, <2>1, <2>2, <2>3, <2>4, <2>5 DEF ProblemsSettle
<1> QED BY <1>2, <1>9, <1>10, <1>11

(* Every step keeps what is on its way to the page.                        *)
LEMMA SettleStep ==
    ASSUME Typed, Settle, KnownLoads, Next
    PROVE  Settle' /\ KnownLoads'
<1>0. loads \in Nat
  BY DEF Typed, FlagsTyped
<1>1. CASE Restored
  BY <1>0, <1>1, SettleAnew DEF Restored, Load, KnownLoads
<1>2. CASE CancelForm
  BY <1>0, <1>2, SettleAnew DEF CancelForm, Load, KnownLoads
<1>3. ASSUME NEW r \in net, Done(r) PROVE Settle' /\ KnownLoads'
  <2>1. Load(net \ {r}) /\ hist' = hist
    BY <1>3 DEF Done
  <2>2. Settle'
    BY <2>1, SettleAnew
  <2>3. loads' = loads + 1
    BY <2>1 DEF Load
  <2> QED BY <1>0, <2>2, <2>3 DEF KnownLoads
<1>4. ASSUME NEW q, q.api \in Writes \cup {"add"}, Send(q), Idle, known' = known
      PROVE  Settle' /\ KnownLoads'
  <2>1. net' = net \cup {q}
    BY <1>4 DEF Send
  <2>2. Settle'
    BY <1>4, <2>1, SettleStays DEF Idle, Reads, Writes
  <2> QED BY <1>4, <2>2 DEF Idle, KnownLoads
<1>5. ASSUME net' = net, Idle, known' = known PROVE Settle' /\ KnownLoads'
  BY <1>5, SettleStays DEF Idle, KnownLoads
<1>6. ASSUME Click, ~CancelForm PROVE Settle' /\ KnownLoads'
  <2>1. ASSUME NEW n \in Notices, PostNotice(n) PROVE Settle' /\ KnownLoads'
    BY <1>4, <2>1, WriteIs DEF PostNotice, uiVars, Writes
  <2>2. ASSUME NEW i, NEW f \in {"score_openness", "submitable"}, Toggle(i, f) PROVE Settle' /\ KnownLoads'
    BY <1>4, <2>2, WriteIs DEF Toggle, uiVars, Writes
  <2>3. ASSUME NEW i, NEW p, JudgeAll(i, p) PROVE Settle' /\ KnownLoads'
    BY <1>4, <2>3, WriteIs DEF JudgeAll, uiVars, Writes
  <2>4. ASSUME NEW p, AddProblem(p) PROVE Settle' /\ KnownLoads'
    BY <1>4, <2>4, WriteIs DEF AddProblem, uiVars
  <2>5. ASSUME NEW h, NEW t, SaveHomework(h, t) PROVE Settle' /\ KnownLoads'
    <3>1. PICK api \in {"create_homework", "update_homework"} :
              api = IF newhomework = "new" THEN "create_homework" ELSE "update_homework"
      OBVIOUS
    <3>2. PICK q : q = Write(api, h, [form |-> form, deadline |-> t])
      OBVIOUS
    <3>3. q.api \in Writes /\ Send(q) /\ Idle /\ known' = known
      BY <2>5, <3>1, <3>2, WriteIs DEF SaveHomework, uiVars, Writes
    <3> QED BY <1>4, <3>3
  <2>6. ASSUME \/ ClickNewNotice \/ ClickNewHomework \/ \E k \in {"1", "2", "3", "4"} : Menu(k)
               \/ \E i \in homeworkitems : ClickEdit(i)
               \/ \E p \in Problems : DeleteProblem(p)
        PROVE  Settle' /\ KnownLoads'
    BY <1>5, <2>6 DEF ClickNewNotice, ClickNewHomework, Menu, ClickEdit, DeleteProblem, uiVars
  <2> QED BY <1>6, <2>1, <2>2, <2>3, <2>4, <2>5, <2>6 DEF Click
<1>7. ASSUME NEW r \in net, r.api \in Reads, NEW v \in r.at..Len(hist), NEW d, d = hist[v],
             CourseAnswer(r, d) \/ NoticeAnswer(r, d) \/ HomeworkAnswer(r, d)
             \/ ProblemAnswer(r, d) \/ StateAnswer(r, d)
      PROVE  Settle' /\ KnownLoads'
  <2>1. known' = known /\ loads' = loads
    BY <1>7 DEF CourseAnswer, NoticeAnswer, HomeworkAnswer, ProblemAnswer, StateAnswer, Answer, uiVars
  <2>2. Settle'
    BY <1>7, SettleCourse, SettleNotice, SettleHomework, SettleProblem, SettleState
  <2> QED BY <2>1, <2>2 DEF KnownLoads
<1>8. ASSUME NEW r \in net, Handle(r) PROVE Settle' /\ KnownLoads'
  <2>1. PICK q : q = [api |-> "done", to |-> r.api, n |-> r.n]
    OBVIOUS
  <2>2. q \in net' /\ q.api = "done"
    BY <1>8, <2>1 DEF Handle, Ask
  <2>3. ~Calm'
    BY <2>2 DEF Calm
  <2> QED BY <1>8, <2>3 DEF Settle, Handle, uiVars, KnownLoads
<1>9. ASSUME NEW r \in net, Fail(r) PROVE Settle' /\ KnownLoads'
  <2>1. /\ hist' = hist /\ UNCHANGED <<pageVars, uiVars, loads, overlapped, others>> /\ net' = net \ {r}
        /\ lost' = (lost \/ r.api = "done") /\ r.api \notin Reads
    BY <1>9 DEF Fail
  <2>2. CASE r.api = "done"
    BY <2>1, <2>2 DEF Settle, Calm, uiVars, KnownLoads
  <2>3. CASE r.api # "done"
    <3>1. Settle'
      BY <2>1, <2>3, SettleStays
    <3> QED BY <2>1, <3>1 DEF uiVars, KnownLoads
  <2> QED BY <2>2, <2>3
<1>10. ASSUME NEW r \in net, Lose(r) PROVE Settle' /\ KnownLoads'
  BY <1>10 DEF Lose, Settle, Calm, uiVars, KnownLoads
<1>11. ASSUME NEW r \in net, AddAnswer(r) PROVE Settle' /\ KnownLoads'
  <2>1. /\ hist' = hist /\ UNCHANGED <<pageVars, uiVars, loads, overlapped, others, lost>> /\ net' = net \ {r}
        /\ r.api = "add"
    BY <1>11 DEF AddAnswer, ghosts
  <2>2. Settle'
    BY <2>1, SettleStays DEF Reads
  <2> QED BY <2>1, <2>2 DEF uiVars, KnownLoads
<1>12. ASSUME NEW r \in net, Arrive(r) PROVE Settle' /\ KnownLoads'
  <2>1. CASE \E d \in {hist[v] : v \in (IF r.api \in Reads THEN r.at..Len(hist) ELSE {})} :
                CourseAnswer(r, d) \/ NoticeAnswer(r, d) \/ HomeworkAnswer(r, d)
                \/ ProblemAnswer(r, d) \/ StateAnswer(r, d)
    BY <1>7, <2>1
  <2> QED BY <1>3, <1>8, <1>9, <1>10, <1>11, <1>12, <2>1 DEF Arrive
<1>13. CASE Deadline
  BY <1>13, SettleStays DEF Deadline, uiVars, ghosts, KnownLoads
<1>14. CASE Other
  BY <1>14 DEF Other, Settle, Calm, uiVars, KnownLoads
<1> QED BY <1>1, <1>2, <1>6, <1>12, <1>13, <1>14 DEF Next

(* Sets with a bijection between them, the first finite, have as many      *)
(* members.                                                                *)
LEMMA SameNumber ==
    ASSUME NEW S, NEW T, IsFiniteSet(S), NEW f \in [S -> T],
           \A x, y \in S : f[x] = f[y] => x = y,
           \A t \in T : \E x \in S : f[x] = t
    PROVE  Cardinality(T) = Cardinality(S)
<1>1. f \in Bijection(S, T)
  BY DEF Bijection, Injection, Surjection, IsInjective
<1> QED BY <1>1, FS_Bijection DEF ExistsBijection

(* When nothing is under way any more the page shows the tables.           *)
LEMMA PageSettled == Inv => PageSettles
<1> SUFFICES ASSUME Inv, known, net = {}, ~overlapped, ~lost, ~others
             PROVE  /\ Ids(infoitems) = Db.notices /\ Cardinality(infoitems) = Cardinality(Db.notices)
                    /\ Ids(homeworkitems) = Existing(Db)
                    /\ Cardinality(homeworkitems) = Cardinality(Existing(Db))
                    /\ \A i \in homeworkitems :
                          /\ i.row = Db.homeworks[i.id]
                          /\ \A p \in i.row.problems : problemitems[p].row
                    /\ \A p \in Problems : Shown(p) =>
                          \E h \in Existing(Db) : /\ p \in Db.homeworks[h].problems
                                                  /\ problemitems[p].status = Db.judging[<<h, p>>]
  BY DEF PageSettles
<1>1. NoticesSettle /\ HomeworksSettle /\ ProblemsSettle
  BY DEF Inv, KnownLoads, Calm, Settle
<1>2. \A api : \A id : ~Asked(api, id)
  BY DEF Asked
<1>3. Db \in Tables
  BY DbTyped DEF Inv, Typed
<1>4. Ids(infoitems) = Db.notices
  BY <1>1, <1>2 DEF NoticesSettle, Ids
<1>5. Cardinality(infoitems) = Cardinality(Db.notices)
  <2>1. IsFiniteSet(Db.notices)
    BY <1>3, LessonAssumption, FS_Subset DEF Tables
  <2>2. infoitems \subseteq [id : Notices, load : Nat]
    BY DEF Inv, Typed, ListsTyped
  <2>3. PICK f : f = [n \in Db.notices |-> [id |-> n, load |-> loads]]
    OBVIOUS
  <2>4. \A i \in infoitems : i = [id |-> i.id, load |-> loads] /\ i.id \in Db.notices
    BY <1>1, <2>2 DEF NoticesSettle
  <2>5. \A n \in Db.notices : [id |-> n, load |-> loads] \in infoitems
    BY <1>4, <2>4 DEF Ids
  <2>6. f \in [Db.notices -> infoitems]
    BY <2>3, <2>5
  <2>7. \A x, y \in Db.notices : f[x] = f[y] => x = y
    BY <2>3
  <2>8. \A t \in infoitems : \E x \in Db.notices : f[x] = t
    BY <2>3, <2>4
  <2> QED BY <2>1, <2>6, <2>7, <2>8, SameNumber
<1>6. Ids(homeworkitems) = Existing(Db)
  BY <1>1, <1>2 DEF HomeworksSettle, Ids
<1>7. Cardinality(homeworkitems) = Cardinality(Existing(Db))
  <2>1. IsFiniteSet(Existing(Db))
    BY LessonAssumption, FS_Subset DEF Existing
  <2>2. homeworkitems \subseteq [id : Homeworks, load : Nat, row : Rows]
    BY DEF Inv, Typed, ListsTyped
  <2>3. PICK f : f = [h \in Existing(Db) |-> [id |-> h, load |-> loads, row |-> Db.homeworks[h]]]
    OBVIOUS
  <2>4. \A i \in homeworkitems : i = [id |-> i.id, load |-> loads, row |-> Db.homeworks[i.id]] /\ i.id \in Existing(Db)
    BY <1>1, <2>2 DEF HomeworksSettle
  <2>5. \A h \in Existing(Db) : [id |-> h, load |-> loads, row |-> Db.homeworks[h]] \in homeworkitems
    BY <1>6, <2>4 DEF Ids
  <2>6. f \in [Existing(Db) -> homeworkitems]
    BY <2>3, <2>5
  <2>7. \A x, y \in Existing(Db) : f[x] = f[y] => x = y
    BY <2>3
  <2>8. \A t \in homeworkitems : \E x \in Existing(Db) : f[x] = t
    BY <2>3, <2>4
  <2> QED BY <2>1, <2>6, <2>7, <2>8, SameNumber
<1>8. \A i \in homeworkitems : /\ i.row = Db.homeworks[i.id]
                               /\ \A p \in i.row.problems : problemitems[p].row
  BY <1>1 DEF HomeworksSettle, Inv, FormInv, RowsLoad
<1>9. ASSUME NEW p \in Problems, Shown(p)
      PROVE  \E h \in Existing(Db) : /\ p \in Db.homeworks[h].problems
                                     /\ problemitems[p].status = Db.judging[<<h, p>>]
  <2>1. Settled(p)
    BY <1>1, <1>9 DEF ProblemsSettle, StateAsked
  <2>2. PICK h \in Homeworks : Member(<<h, p>>) /\ problemitems[p].status = Db.judging[<<h, p>>]
    BY <2>1 DEF Settled
  <2> QED BY <2>2 DEF Member
<1> QED BY <1>4, <1>5, <1>6, <1>7, <1>8, <1>9

(* The invariant holds at the start.                                       *)
LEMMA InvInit == Init => Inv
<1> SUFFICES ASSUME Init PROVE Inv
  OBVIOUS
<1>1. Typed
  BY TypedInit
<1>2. FormInv
  BY DEF Init, FormInv, FormPlace, FormLoads, FormOnce, FormKeeps, RowsLoad, Breaks
<1>3. KnownLoads /\ Settle
  BY DEF Init, KnownLoads, Settle, Calm
<1> QED BY <1>1, <1>2, <1>3 DEF Inv

(* Every step keeps it.                                                    *)
LEMMA InvStep == Inv /\ [Next]_vars => Inv'
<1> SUFFICES ASSUME Inv, [Next]_vars PROVE Inv'
  OBVIOUS
<1>1. CASE Next
  <2>1. Typed /\ FormSafe /\ KnownLoads /\ Settle
    BY DEF Inv, FormInv, FormSafe, FormParts
  <2>2. Typed'
    BY <1>1, <2>1, TypedStep
  <2>3. FormSafe'
    BY <1>1, <2>1, <2>2, FormStep
  <2>4. Settle' /\ KnownLoads'
    BY <1>1, <2>1, SettleStep
  <2> QED BY <2>2, <2>3, <2>4 DEF Inv, FormInv, FormSafe, FormParts
<1>2. CASE UNCHANGED vars
  <2>1. UNCHANGED <<hist, now, known, infoitems, homeworkitems, problemitems, selected, newnotice,
                    newhomework, form, net, loads, clicks, crashed, overlapped, lost, others, doubled>>
    BY <1>2 DEF vars, pageVars, uiVars, ghosts
  <2>2. Typed'
    BY <2>1 DEF Inv, Typed, TablesTyped, NetTyped, ListsTyped, FlagsTyped, FormTyped
  <2>3. FormInv'
    BY <2>1 DEF Inv, FormInv, FormPlace, FormLoads, FormOnce, FormKeeps, RowsLoad, Breaks
  <2>4. Settle'
    BY <2>1, SettleStays DEF Inv, pageVars
  <2> QED BY <2>1, <2>2, <2>3, <2>4 DEF Inv, KnownLoads
<1> QED BY <1>1, <1>2

(* Only the backend's handling of an update changes the tables while the   *)
(* update leaves; it stores what the form of the update lists.             *)
LEMMA SaveKeeps ==
    ASSUME Inv, Next, NEW r \in net \ net', r.api = "update_homework", hist' # hist
    PROVE  LET old == Db.homeworks[r.id].problems
               f == r.arg.form
           IN  old \ Db'.homeworks[r.id].problems \subseteq f.removed \cup f.missing \cup (old \ f.base)
<1>1. PICK q \in net : Handle(q)
  <2>1. CASE Click \/ Restored \/ Deadline \/ Other
    BY <2>1 DEF Click, Restored, Deadline, Other, Menu, ClickNewNotice, PostNotice, ClickNewHomework,
                ClickEdit, Toggle, JudgeAll, AddProblem, DeleteProblem, SaveHomework, CancelForm, Idle
  <2>2. ASSUME NEW q \in net, Arrive(q) PROVE Handle(q)
    BY <2>2 DEF Arrive, CourseAnswer, NoticeAnswer, HomeworkAnswer, ProblemAnswer, StateAnswer, Answer,
                Fail, Lose, Done, AddAnswer
  <2> QED BY <2>1, <2>2 DEF Next
<1>2. q = r
  BY <1>1 DEF Handle, Ask
<1>3. Db \in Tables /\ Request(r, Len(hist)) /\ Len(hist) \in Nat
  BY DbTyped DEF Inv, Typed, NetTyped
<1>4. After(r, Db) \in Tables /\ After(r, Db).homeworks[r.id].problems = Listed(r.arg.form)
  BY <1>1, <1>2, <1>3, AfterTyped DEF Handle
<1>5. Db' = After(r, Db)
  BY <1>1, <1>2, <1>4, AppendTyped DEF Handle, Inv, Typed
<1>6. Kept(r.arg.form)
  BY DEF Inv, FormInv, FormKeeps
<1> QED BY <1>4, <1>5, <1>6 DEF Kept

(* The invariant holds in every state.                                     *)
THEOREM InvHolds == Spec => []Inv
  BY InvInit, InvStep, PTL DEF Spec

(* Every variable has its type, whatever the course, the order of the      *)
(* answers and the changes of others.                                      *)
THEOREM TypesCorrect == Spec => []TypeOK
<1>1. Inv => TypeOK
  BY TypedTypes DEF Inv, FormInv
<1> QED BY <1>1, InvHolds, PTL

(* The form of a homework (TA-lesson-component.js) lists no problem twice  *)
(* unless Enter was pressed again for it before the first answer, and the  *)
(* page breaks only over a problem that had not come when the form was     *)
(* opened.                                                                 *)
THEOREM FormCorrect == Spec => []FormSound
<1>1. Inv => FormSound
  BY DEF Inv, FormInv, FormOnce, Breaks, FormSound, FormListsOnce, BreaksOnlyEarly
<1> QED BY <1>1, InvHolds, PTL

(* When the answers of a load are all there, TA-lesson.js shows each       *)
(* notice, each homework as stored and each judge state, unless loads      *)
(* overlapped, an answer was lost or others changed the course.            *)
THEOREM PageCorrect == Spec => []PageSettles
  BY InvHolds, PageSettled, PTL

(* mHomeworkForm saves a homework without a problem only if that problem   *)
(* was deleted in the form, had not come when the form was opened, or was  *)
(* put into the homework since.                                            *)
THEOREM SavesCorrect == Spec => SavesKeepProblems
<1>1. Inv /\ [Next]_vars =>
         [\A r \in net \ net' :
             (r.api = "update_homework" /\ hist' # hist) =>
                 LET old == Db.homeworks[r.id].problems
                     f == r.arg.form
                 IN  old \ Db'.homeworks[r.id].problems
                         \subseteq f.removed \cup f.missing \cup (old \ f.base)]_vars
  BY SaveKeeps
<1> QED BY <1>1, InvHolds, PTL DEF Spec, SavesKeepProblems
=============================================================================
