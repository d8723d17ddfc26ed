------------------------------ MODULE Submission ------------------------------
(***************************************************************************)
(* The submit handler of the backend (backend/apis/problem.py,             *)
(* _submit_post) with the tables and files it works on.                    *)
(*                                                                         *)
(* Every request runs as one coroutine of a single-threaded event loop.    *)
(* Each SQL statement is atomic and commits on its own; between two        *)
(* statements any other coroutine may run.  So an action is one SQL        *)
(* statement (or one stretch of synchronous file or HTTP work) with the    *)
(* local computation up to the next await, and pc[r] names the statement   *)
(* that request r is about to run.                                         *)
(*                                                                         *)
(* record_type: 0 public submission, 1 test of a homework with a share of  *)
(* the cases ("gear"), 2 final submission of a homework, 4 HTML homework   *)
(* (a zip uploaded beforehand).                                            *)
(*                                                                         *)
(* A row that a request creates is named by that request: the serial id    *)
(* of the database only has to be unique.  A piece of source code is named *)
(* by the request that sent it.                                            *)
(***************************************************************************)
EXTENDS Naturals, Sequences, FiniteSets

CONSTANTS
    Reqs,         \* submit requests
    RowIds,       \* ids of rows of ratios: Reqs, and what else creates rows
    Users, Homeworks, Problems, Langs, Gears, Files,
    ScriptLang,   \* src_language 3: judged by the script judger
    Inputs,       \* the argument records a request may carry
    Enrolled,     \* Enrolled[h]: students of the course of homework h
    HwProblems,   \* <<homework, problem>> pairs that have a judgestates row
    Limit,        \* Limit[p][g]: ratio_*_limit of problem p for gear g
    Locks,        \* the 2047 locks of the 'global' table
    HwLock,       \* the lock a <<homework, problem>> hashes to
    OpenLock,     \* the lock a <<problem, user>> hashes to
    None

Columns == [user: Users, prob: Problems, hw: Homeworks \cup {None},
            type: {0, 1, 2, 4}, lang: Langs \cup {None},
            gear: Gears \cup {None}, file: Files \cup {None}]

Slots == Homeworks \X Problems

(* Rows of the tables; `by` stands for submit_time and src_size: the       *)
(* request whose file they describe.  `result` names the code a verdict    *)
(* is about ("nothing": a file that was not there).                        *)
Rows == [args: Columns, status: {0, 1}, by: Reqs \cup {None},
         result: Reqs \cup {None, "nothing"}]

States == [total: Nat, judged: Nat, waiting: Nat]

RatioRows == [user: Users, prob: Problems, hw: Homeworks, used: [Gears -> Nat]]

ASSUME SubmissionAssumption ==
    /\ Reqs \subseteq RowIds
    /\ None \notin RowIds \cup Homeworks \cup Gears \cup {"ok", "error", "nothing"}
    /\ None \notin Rows /\ None \notin RatioRows
    /\ IsFiniteSet(Users)
    /\ Inputs \subseteq Columns
    /\ \A i \in Inputs : /\ i.type # 0 => i.hw # None
                         /\ i.type = 1 => i.gear # None
    /\ HwProblems \subseteq Slots
    /\ Limit \in [Problems -> [Gears -> Nat]]
    /\ HwLock \in [Slots -> Locks]
    /\ OpenLock \in [Problems \X Users -> Locks]

(* The page of a problem sends an HTML homework without a language or a    *)
(* gear (problem-detail.js 111-117), and the name of an upload is new      *)
(* (upload.py 28): it is for one student and one homework problem, however *)
(* often the request is sent.                                              *)
ASSUME UploadAssumption ==
    \A i, j \in Inputs : i.type = 4 /\ j.type = 4 =>
        /\ i.lang = None /\ i.gear = None /\ i.file \in Files
        /\ i.file = j.file => i = j

VARIABLES
    pc,           \* the statement each request runs next
    inp,          \* self.args of each request
    queue,        \* queue[l]: requests that hold (head) or await lock l
    answer,       \* what the handler returned to each request
    target,       \* id of record_created / html_record
    snap,         \* the record row as the request has it in memory
    js,           \* judge_state as the request has it in memory
    rat,          \* id of check_ratio
    used,         \* the counters of check_ratio as the request has them
    hwrow,        \* matched_homework (its score_openness) in memory
    probrow,      \* problem_of_code (its status) in memory
    records,      \* table records
    judgestates,  \* table judgestates
    ratios,       \* table ratios
    homeworks,    \* score_openness column of table homeworks
    problems,     \* status column of table problems
    source,       \* records/<id>/<id>.code or .zip: the request that sent it
    turnin,       \* homeworks/<h>/<p>/<u>/<p>.zip
    uploads,      \* uploaded zips that still wait to be moved
    jobs,         \* judge requests accepted by the two judger queues
    arrived       \* history: requests in the order they asked for a lock

localVars == <<target, snap, js, rat, used, hwrow, probrow>>
dbVars    == <<records, judgestates, ratios, homeworks, problems>>
diskVars  == <<source, turnin, uploads>>
vars == <<pc, inp, queue, answer, localVars, dbVars, diskVars, jobs, arrived>>

-----------------------------------------------------------------------------
Judgers == {"tradi", "script"}

Slot(r) == <<inp[r].hw, inp[r].prob>>

(* The keys of self.args that are columns of records: filterKeys drops     *)
(* src_code, here the uploaded file.                                       *)
Filtered(r) == [inp[r] EXCEPT !.file = None]

Lock(r) == IF inp[r].hw # None THEN HwLock[Slot(r)]
           ELSE OpenLock[<<inp[r].prob, inp[r].user>>]

(* Fault: the lock keeps nobody out.                                       *)
HoldsFault(r) == \E k \in DOMAIN queue[Lock(r)] : queue[Lock(r)][k] = r

(* tornado.locks.Lock hands a released lock to the first waiter.           *)
Holds(r) == queue[Lock(r)] # <<>> /\ Head(queue[Lock(r)]) = r

Existing == {q \in Reqs : records[q] # None}

(* Two requests or rows of the same user for the same homework problem.    *)
SameSlot(i, j) == /\ i.user = j.user /\ i.prob = j.prob
                  /\ i.hw = j.hw     /\ i.type = j.type

(* Rows the first query of a final submission returns: any language, any   *)
(* status.                                                                 *)
OldRecords(r) == {q \in Existing : SameSlot(records[q].args, inp[r])}

(* Rows getObject('records', **self.args) returns: all of the arguments    *)
(* must agree, the language and status = 0 too.                            *)
Reusable(r) == {q \in Existing : /\ records[q].args = Filtered(r)
                                 /\ records[q].status = 0}

RatiosOf(r) == {q \in RowIds : /\ ratios[q] # None
                               /\ ratios[q].user = inp[r].user
                               /\ ratios[q].prob = inp[r].prob
                               /\ ratios[q].hw = inp[r].hw}

(* The first statement under the lock.                                     *)
FirstStep(i) == CASE i.type \in {2, 4} -> "find"
                  [] i.type = 1        -> "ratio"
                  [] OTHER             -> "create"

-----------------------------------------------------------------------------
Init ==
    /\ inp \in [Reqs -> Inputs]
    /\ pc = [r \in Reqs |-> "idle"]
    /\ queue = [l \in Locks |-> <<>>]
    /\ answer = [r \in Reqs |-> None]
    /\ target = [r \in Reqs |-> None]
    /\ snap = [r \in Reqs |-> None]
    /\ js = [r \in Reqs |-> None]
    /\ rat = [r \in Reqs |-> None]
    /\ used = [r \in Reqs |-> None]
    /\ hwrow = [r \in Reqs |-> None]
    /\ probrow = [r \in Reqs |-> None]
    /\ records = [r \in Reqs |-> None]
    /\ judgestates = [s \in HwProblems |-> [total |-> 0, judged |-> 0, waiting |-> 0]]
    /\ ratios = [q \in RowIds |-> None]
    /\ homeworks = [h \in Homeworks |-> 1]
    /\ problems = [p \in Problems |-> 1]
    /\ source = [r \in Reqs |-> None]
    /\ turnin = [s \in Slots \X Users |-> None]
    /\ uploads = Files
    /\ jobs = [j \in Judgers |-> <<>>]
    /\ arrived = <<>>

(* The handler returns or raises: `async with` releases the lock on every  *)
(* way out.                                                                *)
Finish(r, a) ==
    /\ pc' = [pc EXCEPT ![r] = "done"]
    /\ answer' = [answer EXCEPT ![r] = a]
    /\ queue' = [queue EXCEPT ![Lock(r)] = Tail(@)]
    /\ UNCHANGED <<inp, arrived>>

Continue(r, label) ==
    /\ pc' = [pc EXCEPT ![r] = label]
    /\ UNCHANGED <<inp, queue, answer, arrived>>

(* A request that holds its lock runs the statement `label`.               *)
At(r, label) == pc[r] = label /\ Holds(r)

-----------------------------------------------------------------------------
(* FAULTS.  Each is a plausible mistake in the action it is named after;   *)
(* the runs show that a property tells it from the code.                   *)

(* A record is created whether or not one matches.                         *)
NoMatchFault(r) ==
    /\ At(r, "match")
    /\ Continue(r, "create")
    /\ UNCHANGED <<localVars, dbVars, diskVars, jobs>>

(* The limit is compared with the counter before the increment.            *)
WithinLimitFault(r) == used[r][inp[r].gear] <= Limit[inp[r].prob][inp[r].gear]

(* The charge is lost: the row is saved as it was read.                    *)
ChargeFault(r) ==
    /\ At(r, "charge")
    /\ used[r][inp[r].gear] + 1 <= Limit[inp[r].prob][inp[r].gear]
    /\ ratios' = [ratios EXCEPT ![rat[r]].used = used[r]]
    /\ Continue(r, "create")
    /\ UNCHANGED <<localVars, records, judgestates, homeworks, problems, diskVars, jobs>>

(* A test beyond the limit waits for the limit to change, with the lock.   *)
ExceedFault(r) ==
    /\ At(r, "charge")
    /\ used[r][inp[r].gear] + 1 > Limit[inp[r].prob][inp[r].gear]
    /\ Continue(r, "ratio")
    /\ UNCHANGED <<localVars, dbVars, diskVars, jobs>>

(* The homework row is saved from the wrong object.                        *)
SaveHomeworkFault(r) ==
    /\ At(r, "savehw")
    /\ homeworks' = [homeworks EXCEPT ![inp[r].hw] = probrow[r]]
    /\ Continue(r, "write")
    /\ UNCHANGED <<localVars, records, judgestates, ratios, problems, diskVars, jobs>>

(* The file is written only when the record has none.                      *)
WriteCodeFault(r) ==
    /\ At(r, "write")
    /\ inp[r].type # 4
    /\ source' = [source EXCEPT ![target[r]] = IF @ = None THEN r ELSE @]
    /\ Continue(r, "saverec")
    /\ UNCHANGED <<localVars, dbVars, turnin, uploads, jobs>>

(* The second copy is made only when it is missing.                        *)
WriteZipFault(r) ==
    /\ At(r, "write")
    /\ inp[r].type = 4
    /\ inp[r].file \in uploads
    /\ source' = [source EXCEPT ![target[r]] = r]
    /\ turnin' = [turnin EXCEPT ![<<Slot(r), inp[r].user>>] = IF @ = None THEN r ELSE @]
    /\ uploads' = uploads \ {inp[r].file}
    /\ Continue(r, "saverec")
    /\ UNCHANGED <<localVars, dbVars, jobs>>

(* submit_time is not updated when the row is saved.                       *)
SaveRecordFault(r) ==
    /\ At(r, "saverec")
    /\ records' = [records EXCEPT ![target[r]] = snap[r]]
    /\ IF inp[r].type \in {2, 4} THEN Finish(r, "ok") ELSE Continue(r, "post")
    /\ UNCHANGED <<localVars, judgestates, ratios, homeworks, problems, diskVars, jobs>>

(* Public submissions are stored without their source.                     *)
CreateFault(r) ==
    LET row == [args |-> Filtered(r), status |-> 0, by |-> None, result |-> None]
    IN  /\ At(r, "create")
        /\ records' = [records EXCEPT ![r] = row]
        /\ target' = [target EXCEPT ![r] = r]
        /\ snap' = [snap EXCEPT ![r] = row]
        /\ Continue(r, IF inp[r].hw = None THEN "saverec" ELSE "readhw")
        /\ UNCHANGED <<js, rat, used, hwrow, probrow>>
        /\ UNCHANGED <<judgestates, ratios, homeworks, problems, diskVars, jobs>>

-----------------------------------------------------------------------------
(* The request arrives.  Homework submissions are for students of the      *)
(* course.                                                                 *)
Allowed(r) == inp[r].type \in {1, 2, 4} => inp[r].user \in Enrolled[inp[r].hw]

Refuse(r) ==
    /\ pc[r] = "idle"
    /\ ~Allowed(r)
    /\ pc' = [pc EXCEPT ![r] = "done"]
    /\ answer' = [answer EXCEPT ![r] = "denied"]
    /\ UNCHANGED <<inp, queue, arrived, localVars, dbVars, diskVars, jobs>>

Arrive(r) ==
    /\ pc[r] = "idle"
    /\ Allowed(r)
    /\ pc' = [pc EXCEPT ![r] = FirstStep(inp[r])]
    /\ queue' = [queue EXCEPT ![Lock(r)] = Append(@, r)]
    /\ arrived' = Append(arrived, r)
    /\ UNCHANGED <<inp, answer, localVars, dbVars, diskVars, jobs>>

-----------------------------------------------------------------------------
(* Final submissions: the first one of a student counts in                 *)
(* judgestates.total, which is read, incremented and saved as a whole row. *)
FindOld(r) ==
    /\ At(r, "find")
    /\ Continue(r, IF OldRecords(r) = {} THEN "readjs" ELSE "match")
    /\ UNCHANGED <<localVars, dbVars, diskVars, jobs>>

ReadJudgeState(r) ==
    /\ At(r, "readjs")
    /\ Slot(r) \in HwProblems
    /\ js' = [js EXCEPT ![r] = judgestates[Slot(r)]]
    /\ Continue(r, "savejs")
    /\ UNCHANGED <<target, snap, rat, used, hwrow, probrow, dbVars, diskVars, jobs>>

(* getObjectOne(...)[0] raises when the problem has no judgestates row.    *)
NoJudgeState(r) ==
    /\ At(r, "readjs")
    /\ Slot(r) \notin HwProblems
    /\ Finish(r, "error")
    /\ UNCHANGED <<localVars, dbVars, diskVars, jobs>>

SaveJudgeState(r) ==
    /\ At(r, "savejs")
    /\ judgestates' = [judgestates EXCEPT ![Slot(r)] = [js[r] EXCEPT !.total = @ + 1]]
    /\ Continue(r, "match")
    /\ UNCHANGED <<localVars, records, ratios, homeworks, problems, diskVars, jobs>>

(* A matching record is reused; which one, if several match, is up to the  *)
(* database.  An HTML submission that reuses a record skips the write-back *)
(* of the problem and homework rows.                                       *)
Match(r) ==
    /\ At(r, "match")
    /\ \E q \in Reusable(r) :
        /\ target' = [target EXCEPT ![r] = q]
        /\ snap' = [snap EXCEPT ![r] = records[q]]
    /\ Continue(r, IF inp[r].type = 4 THEN "write" ELSE "readhw")
    /\ UNCHANGED <<js, rat, used, hwrow, probrow, dbVars, diskVars, jobs>>

NoMatch(r) ==
    /\ At(r, "match")
    /\ Reusable(r) = {}
    /\ Continue(r, "create")
    /\ UNCHANGED <<localVars, dbVars, diskVars, jobs>>

-----------------------------------------------------------------------------
(* Tests against a share of the cases: the counter of the gear is checked  *)
(* and charged before anything is stored.                                  *)
NoUse == [g \in Gears |-> 0]

ReadRatio(r) ==
    /\ At(r, "ratio")
    /\ \E q \in RatiosOf(r) :
        /\ rat' = [rat EXCEPT ![r] = q]
        /\ used' = [used EXCEPT ![r] = ratios[q].used]
    /\ Continue(r, "charge")
    /\ UNCHANGED <<target, snap, js, hwrow, probrow, dbVars, diskVars, jobs>>

NoRatio(r) ==
    /\ At(r, "ratio")
    /\ RatiosOf(r) = {}
    /\ Continue(r, "newratio")
    /\ UNCHANGED <<localVars, dbVars, diskVars, jobs>>

CreateRatio(r) ==
    /\ At(r, "newratio")
    /\ ratios' = [ratios EXCEPT ![r] = [user |-> inp[r].user, prob |-> inp[r].prob,
                                        hw |-> inp[r].hw, used |-> NoUse]]
    /\ rat' = [rat EXCEPT ![r] = r]
    /\ used' = [used EXCEPT ![r] = NoUse]
    /\ Continue(r, "charge")
    /\ UNCHANGED <<target, snap, js, hwrow, probrow>>
    /\ UNCHANGED <<records, judgestates, homeworks, problems, diskVars, jobs>>

WithinLimit(r) == used[r][inp[r].gear] + 1 <= Limit[inp[r].prob][inp[r].gear]

Charge(r) ==
    /\ At(r, "charge")
    /\ WithinLimit(r)
    /\ ratios' = [ratios EXCEPT ![rat[r]].used = [used[r] EXCEPT ![inp[r].gear] = @ + 1]]
    /\ Continue(r, "create")
    /\ UNCHANGED <<localVars, records, judgestates, homeworks, problems, diskVars, jobs>>

Exceed(r) ==
    /\ At(r, "charge")
    /\ ~WithinLimit(r)
    /\ Finish(r, "exceeds limit")
    /\ UNCHANGED <<localVars, dbVars, diskVars, jobs>>

-----------------------------------------------------------------------------
(* A new record.  An HTML record then has the problem and the homework row *)
(* read and saved back; any other homework record only the homework row.   *)
Create(r) ==
    LET row == [args |-> Filtered(r), status |-> 0, by |-> None, result |-> None]
    IN  /\ At(r, "create")
        /\ records' = [records EXCEPT ![r] = row]
        /\ target' = [target EXCEPT ![r] = r]
        /\ snap' = [snap EXCEPT ![r] = row]
        /\ Continue(r, CASE inp[r].type = 4  -> "readprob"
                         [] inp[r].type # 4 /\ inp[r].hw # None -> "readhw"
                         [] OTHER            -> "write")
        /\ UNCHANGED <<js, rat, used, hwrow, probrow>>
        /\ UNCHANGED <<judgestates, ratios, homeworks, problems, diskVars, jobs>>

ReadProblem(r) ==
    /\ At(r, "readprob")
    /\ probrow' = [probrow EXCEPT ![r] = problems[inp[r].prob]]
    /\ Continue(r, "saveprob")
    /\ UNCHANGED <<target, snap, js, rat, used, hwrow, dbVars, diskVars, jobs>>

SaveProblem(r) ==
    /\ At(r, "saveprob")
    /\ problems' = [problems EXCEPT ![inp[r].prob] = probrow[r]]
    /\ Continue(r, "readhw")
    /\ UNCHANGED <<localVars, records, judgestates, ratios, homeworks, diskVars, jobs>>

ReadHomework(r) ==
    /\ At(r, "readhw")
    /\ hwrow' = [hwrow EXCEPT ![r] = homeworks[inp[r].hw]]
    /\ Continue(r, "savehw")
    /\ UNCHANGED <<target, snap, js, rat, used, probrow, dbVars, diskVars, jobs>>

SaveHomework(r) ==
    /\ At(r, "savehw")
    /\ homeworks' = [homeworks EXCEPT ![inp[r].hw] = hwrow[r]]
    /\ Continue(r, "write")
    /\ UNCHANGED <<localVars, records, judgestates, ratios, problems, diskVars, jobs>>

-----------------------------------------------------------------------------
(* The source goes to the directory of the record.                         *)
WriteCode(r) ==
    /\ At(r, "write")
    /\ inp[r].type # 4
    /\ source' = [source EXCEPT ![target[r]] = r]
    /\ Continue(r, "saverec")
    /\ UNCHANGED <<localVars, dbVars, turnin, uploads, jobs>>

(* The uploaded zip is copied twice, then removed.                         *)
WriteZip(r) ==
    /\ At(r, "write")
    /\ inp[r].type = 4
    /\ inp[r].file \in uploads
    /\ source' = [source EXCEPT ![target[r]] = r]
    /\ turnin' = [turnin EXCEPT ![<<Slot(r), inp[r].user>>] = r]
    /\ uploads' = uploads \ {inp[r].file}
    /\ Continue(r, "saverec")
    /\ UNCHANGED <<localVars, dbVars, jobs>>

(* copyfile raises when an earlier request has moved the upload away.      *)
NoZip(r) ==
    /\ At(r, "write")
    /\ inp[r].type = 4
    /\ inp[r].file \notin uploads
    /\ Finish(r, "error")
    /\ UNCHANGED <<localVars, dbVars, diskVars, jobs>>

(* The whole row is saved as the request has it, with the new submit_time  *)
(* and src_size.                                                           *)
SaveRecord(r) ==
    /\ At(r, "saverec")
    /\ records' = [records EXCEPT ![target[r]] = [snap[r] EXCEPT !.by = r]]
    /\ IF inp[r].type \in {2, 4} THEN Finish(r, "ok") ELSE Continue(r, "post")
    /\ UNCHANGED <<localVars, judgestates, ratios, homeworks, problems, diskVars, jobs>>

(* Public submissions and tests are judged at once.                        *)
JudgerOf(i) == IF i.lang = ScriptLang THEN "script" ELSE "tradi"

Post(r) ==
    /\ At(r, "post")
    /\ jobs' = [jobs EXCEPT ![JudgerOf(inp[r])] = Append(@, target[r])]
    /\ Finish(r, "ok")
    /\ UNCHANGED <<localVars, dbVars, diskVars>>

(* requests.post raises when the judger is down.                           *)
PostFails(r) ==
    /\ At(r, "post")
    /\ Finish(r, "error")
    /\ UNCHANGED <<localVars, dbVars, diskVars, jobs>>

-----------------------------------------------------------------------------
(* What request r does once it has arrived.                                *)
Step(r) ==
    \/ FindOld(r) \/ ReadJudgeState(r) \/ NoJudgeState(r) \/ SaveJudgeState(r)
    \/ Match(r) \/ NoMatch(r)
    \/ ReadRatio(r) \/ NoRatio(r) \/ CreateRatio(r) \/ Charge(r) \/ Exceed(r)
    \/ Create(r) \/ ReadProblem(r) \/ SaveProblem(r)
    \/ ReadHomework(r) \/ SaveHomework(r)
    \/ WriteCode(r) \/ WriteZip(r) \/ NoZip(r)
    \/ SaveRecord(r) \/ Post(r) \/ PostFails(r)

(* All requests of the instance have been answered.                        *)
Quiet == (\A r \in Reqs : pc[r] = "done") /\ UNCHANGED vars

Next == \/ \E r \in Reqs : Refuse(r) \/ Arrive(r) \/ Step(r)
        \/ Quiet

(* The event loop runs a coroutine whose statement has been answered: a    *)
(* request that has arrived does not stop between two statements.          *)
Spec == Init /\ [][Next]_vars /\ \A r \in Reqs : WF_vars(Step(r))

-----------------------------------------------------------------------------
(* PROPERTIES                                                              *)

Labels == {"idle", "find", "readjs", "savejs", "match", "ratio", "newratio",
           "charge", "create", "readprob", "saveprob", "readhw", "savehw",
           "write", "saverec", "post", "done"}

Answers == {"ok", "error", "denied", "exceeds limit", None}

(* Every variable has its type: rows hold values their columns can hold.   *)
TypeOK ==
    /\ inp \in [Reqs -> Inputs]
    /\ pc \in [Reqs -> Labels]
    /\ queue \in [Locks -> Seq(Reqs)]
    /\ answer \in [Reqs -> Answers]
    /\ target \in [Reqs -> Reqs \cup {None}]
    /\ snap \in [Reqs -> Rows \cup {None}]
    /\ js \in [Reqs -> States \cup {None}]
    /\ rat \in [Reqs -> RowIds \cup {None}]
    /\ used \in [Reqs -> [Gears -> Nat] \cup {None}]
    /\ hwrow \in [Reqs -> {0, 1, None}]
    /\ probrow \in [Reqs -> {0, 1, None}]
    /\ records \in [Reqs -> Rows \cup {None}]
    /\ judgestates \in [HwProblems -> States]
    /\ ratios \in [RowIds -> RatioRows \cup {None}]
    /\ homeworks \in [Homeworks -> {0, 1}]
    /\ problems \in [Problems -> {0, 1}]
    /\ source \in [Reqs -> Reqs \cup {None}]
    /\ turnin \in [Slots \X Users -> Reqs \cup {None}]
    /\ uploads \subseteq Files
    /\ jobs \in [Judgers -> Seq(Reqs)]
    /\ arrived \in Seq(Reqs)

(* A student has one final record per homework problem and language,       *)
(* however many submissions of his overlap (problem.py:640-645 with the    *)
(* lock of 540; problemtest.py test_submit_4).                             *)
OneFinalRecord ==
    \A q1, q2 \in Existing :
        records[q1].args = records[q2].args /\ records[q1].args.type \in {2, 4}
            => q1 = q2

(* Students who have a final record for s, and those whose request has     *)
(* counted them and is about to create it.                                 *)
SubmittedTo(a, s, k) == <<a.hw, a.prob>> = s /\ <<a.user, a.type>> = k

Counted(s) ==
    {k \in Users \X {2, 4} :
        \/ \E q \in Existing : SubmittedTo(records[q].args, s, k)
        \/ \E r \in Reqs : pc[r] \in {"match", "create"} /\ SubmittedTo(inp[r], s, k)}

(* judgestates.total is the number of students who have submitted, though  *)
(* it is read, incremented and written back in separate statements by all  *)
(* of them (problem.py:542-553; problemtest.py test_submit_3 and 5).       *)
TotalCountsSubmitters ==
    \A s \in HwProblems : judgestates[s].total = Cardinality(Counted(s))

(* submit_time and src_size of a row describe the file on disk, except     *)
(* between writing the file and saving the row (problem.py:656-672).       *)
RowDescribesFile ==
    \A q \in Existing :
        \/ records[q].by = source[q]
        \/ \E r \in Reqs : pc[r] = "saverec" /\ target[r] = q /\ source[q] = r

Before(r1, r2) ==
    \E i, j \in DOMAIN arrived : i < j /\ arrived[i] = r1 /\ arrived[j] = r2

(* A final submission that was answered "ok" is what is stored, unless a   *)
(* later one of the same student took its place: an older submission that  *)
(* waited longer never overwrites a newer one.                             *)
LastSubmissionWins ==
    \A r \in Reqs : answer[r] = "ok" /\ inp[r].type \in {2, 4} =>
        LET q == source[target[r]]
        IN  q = r \/ (q # None /\ Before(r, q) /\ Filtered(q) = Filtered(r))

(* Records of tests of user u on problem p of homework h with gear g.      *)
Tests(u, p, h, g) ==
    {q \in Existing : LET a == records[q].args
                      IN  a.type = 1 /\ a.user = u /\ a.prob = p /\ a.hw = h /\ a.gear = g}

(* Nobody gets more tests of a gear than the problem grants, however the   *)
(* requests overlap (problem.py:603-638; problemtest.py test_submit_2).    *)
TestsWithinLimit ==
    \A u \in Users, p \in Problems, h \in Homeworks, g \in Gears :
        Cardinality(Tests(u, p, h, g)) <= Limit[p][g]

(* A student is charged for each test he gets and for nothing else: the    *)
(* counter of the gear is the number of records, plus the request that has *)
(* paid and not yet stored its record.                                     *)
ChargedPerTest ==
    \A q \in RowIds : ratios[q] # None =>
        \A g \in Gears :
            ratios[q].used[g] =
                Cardinality(Tests(ratios[q].user, ratios[q].prob, ratios[q].hw, g)
                    \cup {r \in Reqs : /\ pc[r] = "create" /\ inp[r].type = 1
                                      /\ rat[r] = q /\ inp[r].gear = g})

(* What the judgers are handed can be judged: the record exists, its       *)
(* source is on disk, it is of a kind that is judged at once, and it is    *)
(* queued once, at the judger of its language.                             *)
JobsAreReady ==
    \A j \in Judgers : \A k \in DOMAIN jobs[j] :
        LET q == jobs[j][k]
        IN  /\ records[q] # None
            /\ records[q].args.type \in {0, 1}
            /\ JudgerOf(records[q].args) = j
            /\ source[q] # None /\ records[q].by = source[q]
            /\ \A m \in DOMAIN jobs[j] : jobs[j][m] = q => m = k

(* An HTML record has its zip in both places, and both are the same one,   *)
(* unless its request is still before the copy.                            *)
TurnedInIsRecorded ==
    \A q \in Existing : records[q].args.type = 4 =>
        LET a == records[q].args
        IN  \/ source[q] # None /\ turnin[<<<<a.hw, a.prob>>, a.user>>] = source[q]
            \/ \E r \in Reqs : target[r] = q /\ pc[r] \in {"readprob", "saveprob",
                                                         "readhw", "savehw", "write"}

(* The rows describe the files, of whatever kind a submission is and       *)
(* whatever was there before it.                                           *)
RowsMatchFiles == RowDescribesFile /\ TurnedInIsRecorded

(* Every request that has arrived is answered: the lock is released on     *)
(* every way out of the handler, also for the requests behind.             *)
EveryRequestAnswered ==
    \A r \in Reqs : pc[r] # "idle" ~> pc[r] = "done"

===============================================================================
