------------------------------- MODULE Judging -------------------------------
(***************************************************************************)
(* The judging of homework, composed with Submission: a teaching assistant *)
(* has the final records of a homework problem judged or one of them       *)
(* judged again (backend/apis/problem.py, _judgeAll_post, _judge_post), or *)
(* scores an HTML record (_judgeHTML_post); the two threads of the judger  *)
(* take the jobs in order, and each verdict comes back through             *)
(* _returnresult_post (backend/apis/record.py), which takes no lock.       *)
(*                                                                         *)
(* A judger thread waits for the answer of the backend before it takes the *)
(* next job, so at most one returnresult runs per thread and its variables *)
(* are indexed by the judger.  A verdict is named by the code it is about. *)
(***************************************************************************)
EXTENDS Submission

CONSTANTS
    Tas,        \* requests of teaching assistants
    Kinds,      \* what they may ask: "all", "one" or "score"
    Method,     \* Method[p]: judge_method of problem p: 0, 1 or 2 (HTML)
    Disciplined \* TRUE: they judge after the deadline and heed the button

ASSUME JudgingAssumption ==
    /\ Kinds \subseteq {"all", "one", "score"}
    /\ Method \in [Problems -> {0, 1, 2}]
    /\ Disciplined \in BOOLEAN
    \* The submission form offers the languages of the problem.
    /\ \A i \in Inputs : i.lang # None =>
            (i.lang = ScriptLang <=> Method[i.prob] = 1) /\ Method[i.prob] # 2

VARIABLES
    tpc,      \* the statement each assistant's request runs next
    tkind,    \* which of the three it is
    tslot,    \* the homework problem it is about
    trows,    \* trows[t][q]: record row q as t read it and has still to handle
    tcur,     \* each_record of the loop
    tjs,      \* judge_state in memory
    tanswer,  \* what the request was answered
    wpc,      \* where each judger thread is with its job
    wrec,     \* the record of the job
    wsrc,     \* the code the verdict is about
    wrow,     \* match_record in the memory of returnresult
    wjs,      \* judge_state in the memory of returnresult
    detail    \* records/<id>/<id>.json: the code the stored verdict is about

taVars == <<tpc, tkind, tslot, trows, tcur, tjs, tanswer>>
workVars == <<wpc, wrec, wsrc, wrow, wjs>>
judgeVars == <<taVars, workVars, detail>>

NoRows == [q \in Reqs |-> None]

JInit ==
    /\ Init
    /\ tpc = [t \in Tas |-> "idle"]
    /\ tkind = [t \in Tas |-> None]
    /\ tslot = [t \in Tas |-> None]
    /\ trows = [t \in Tas |-> NoRows]
    /\ tcur = [t \in Tas |-> None]
    /\ tjs = [t \in Tas |-> None]
    /\ tanswer = [t \in Tas |-> None]
    /\ wpc = [j \in Judgers |-> "idle"]
    /\ wrec = [j \in Judgers |-> None]
    /\ wsrc = [j \in Judgers |-> None]
    /\ wrow = [j \in Judgers |-> None]
    /\ wjs = [j \in Judgers |-> None]
    /\ detail = [r \in Reqs |-> None]

submitVars == <<pc, inp, queue, answer, localVars, diskVars, arrived>>

-----------------------------------------------------------------------------
(* FAULTS, see Submission.                                                 *)

(* The batch forgets to clear the counter of the one before.               *)
SaveStateAllFault(t) ==
    /\ tpc[t] = "savejs"
    /\ judgestates' = [judgestates EXCEPT ![tslot[t]] =
            [tjs[t] EXCEPT !.waiting = Cardinality({q \in Reqs : trows[t][q] # None})]]
    /\ tpc' = [tpc EXCEPT ![t] = "reset"]
    /\ UNCHANGED <<tkind, tslot, trows, tcur, tjs, tanswer, submitVars, jobs>>
    /\ UNCHANGED <<records, ratios, homeworks, problems, workVars, detail>>

(* The detail file is left to be written after the row.                    *)
WriteDetailFault(j) ==
    /\ wpc[j] = "detail"
    /\ wpc' = [wpc EXCEPT ![j] = "save"]
    /\ UNCHANGED <<wrec, wsrc, wrow, wjs, taVars, detail, submitVars, dbVars, jobs>>

(* A verdict about a test or a public submission counts too.               *)
CountsFault(row) == row.args.hw # None

(* The batch query forgets the record type.                                *)
FinalsFault(s) ==
    {q \in Existing : records[q].args.hw = s[1] /\ records[q].args.prob = s[2]}

(* total_waiting is left null.                                             *)
SaveNullFault(t) ==
    /\ tpc[t] = "savejs"
    /\ judgestates' = [judgestates EXCEPT ![tslot[t]] =
            [tjs[t] EXCEPT !.judged = 0, !.waiting = None]]
    /\ tpc' = [tpc EXCEPT ![t] = "reset"]
    /\ UNCHANGED <<tkind, tslot, trows, tcur, tjs, tanswer, submitVars, jobs>>
    /\ UNCHANGED <<records, ratios, homeworks, problems, workVars, detail>>

(* The batch returns after its first record.                               *)
PostTaFault(t) ==
    /\ tpc[t] = "post"
    /\ jobs' = [jobs EXCEPT !["tradi"] = Append(@, tcur[t])]
    /\ tpc' = [tpc EXCEPT ![t] = "done"]
    /\ tanswer' = [tanswer EXCEPT ![t] = "ok"]
    /\ UNCHANGED <<tkind, tslot, trows, tcur, tjs, submitVars, dbVars, workVars, detail>>

(* The verdict is stored without its status.                               *)
SaveVerdictFault(j) ==
    /\ wpc[j] = "save"
    /\ records' = [records EXCEPT ![wrec[j]] = [wrow[j] EXCEPT !.result = wsrc[j]]]
    /\ wpc' = [wpc EXCEPT ![j] = "idle"]
    /\ UNCHANGED <<wrec, wsrc, wrow, wjs, taVars, detail, submitVars, jobs>>
    /\ UNCHANGED <<judgestates, ratios, homeworks, problems>>

-----------------------------------------------------------------------------
(* What the assistants' page allows: the button is disabled while a batch  *)
(* is under way, and judging is for after the deadline.                    *)
Waiting(s) == judgestates[s].waiting > 0 /\ judgestates[s].waiting > judgestates[s].judged

MayStart(s) ==
    Disciplined => /\ \A r \in Reqs : pc[r] \in {"idle", "done"}
                   /\ \A t \in Tas : tpc[t] \in {"idle", "done"}
                   /\ s \in HwProblems => ~Waiting(s)

MaySubmit == Disciplined => \A t \in Tas : tpc[t] = "idle"

(* What the pages offer: a score on the page of an HTML problem, judging   *)
(* again on the others (TA-lesson-component.js:262).  The handler of the   *)
(* score would take any record.                                            *)
Offered(kind, s) == kind = "score" <=> Method[s[2]] = 2 /\ kind # "all"

Start(t) ==
    /\ tpc[t] = "idle"
    /\ \E kind \in Kinds, s \in Slots :
        /\ MayStart(s)
        /\ Offered(kind, s)
        /\ tkind' = [tkind EXCEPT ![t] = kind]
        /\ tslot' = [tslot EXCEPT ![t] = s]
        /\ tpc' = [tpc EXCEPT ![t] = IF kind = "all" THEN "finals" ELSE "record"]
    /\ UNCHANGED <<trows, tcur, tjs, tanswer, submitVars, dbVars, jobs, workVars, detail>>

Return(t, a) ==
    /\ tpc' = [tpc EXCEPT ![t] = "done"]
    /\ tanswer' = [tanswer EXCEPT ![t] = a]

(* The final records of slot s: of type 4 for an HTML problem, else 2.     *)
Finals(s) ==
    {q \in Existing : /\ records[q].args.hw = s[1] /\ records[q].args.prob = s[2]
                      /\ records[q].args.type = IF Method[s[2]] = 2 THEN 4 ELSE 2}

ReadFinals(t) ==
    /\ tpc[t] = "finals"
    /\ trows' = [trows EXCEPT ![t] = [q \in Reqs |-> IF q \in Finals(tslot[t])
                                                     THEN records[q] ELSE None]]
    /\ tpc' = [tpc EXCEPT ![t] = "readjs"]
    /\ UNCHANGED <<tkind, tslot, tcur, tjs, tanswer, submitVars, dbVars, jobs, workVars, detail>>

(* A batch of code opens the configuration of the cases first.             *)
NoConfig(t) ==
    /\ tpc[t] = "finals" /\ Method[tslot[t][2]] = 0
    /\ Return(t, "error")
    /\ UNCHANGED <<tkind, tslot, trows, tcur, tjs, submitVars, dbVars, jobs, workVars, detail>>

(* _judge_post and _judgeHTML_post: one record of the slot.                *)
ReadRecord(t) ==
    /\ tpc[t] = "record"
    /\ \E q \in Finals(tslot[t]) :
        trows' = [trows EXCEPT ![t][q] = records[q]]
    /\ tpc' = [tpc EXCEPT ![t] = IF tkind[t] = "score" THEN "score" ELSE "readjs"]
    /\ UNCHANGED <<tkind, tslot, tcur, tjs, tanswer, submitVars, dbVars, jobs, workVars, detail>>

NoRecord(t) ==
    /\ tpc[t] = "record"
    /\ Finals(tslot[t]) = {}
    /\ Return(t, "error")
    /\ UNCHANGED <<tkind, tslot, trows, tcur, tjs, submitVars, dbVars, jobs, workVars, detail>>

(* _judge_post increments the counter in memory and calls saveObject       *)
(* without awaiting it, which saves nothing; _judgeAll_post saves the row  *)
(* in a statement of its own.                                              *)
ReadStateTa(t) ==
    /\ tpc[t] = "readjs"
    /\ tslot[t] \in HwProblems
    /\ tjs' = [tjs EXCEPT ![t] = judgestates[tslot[t]]]
    /\ tpc' = [tpc EXCEPT ![t] = IF tkind[t] = "all" THEN "savejs" ELSE "reset"]
    /\ UNCHANGED <<tkind, tslot, trows, tcur, tanswer, submitVars, dbVars, jobs, workVars, detail>>

NoStateTa(t) ==
    /\ tpc[t] = "readjs"
    /\ tslot[t] \notin HwProblems
    /\ Return(t, "error")
    /\ UNCHANGED <<tkind, tslot, trows, tcur, tjs, submitVars, dbVars, jobs, workVars, detail>>

Left(t) == {q \in Reqs : trows[t][q] # None}

SaveStateAll(t) ==
    /\ tpc[t] = "savejs"
    /\ judgestates' = [judgestates EXCEPT ![tslot[t]] =
            [tjs[t] EXCEPT !.judged = 0, !.waiting = Cardinality(Left(t))]]
    /\ tpc' = [tpc EXCEPT ![t] = "reset"]
    /\ UNCHANGED <<tkind, tslot, trows, tcur, tjs, tanswer, submitVars, jobs>>
    /\ UNCHANGED <<records, ratios, homeworks, problems, workVars, detail>>

(* The loop over the records, in the order the database returned them: the *)
(* row is saved without its verdict, then the judger is asked, or the zip  *)
(* the student turned in is unpacked.                                      *)
Reset(t) ==
    /\ tpc[t] = "reset"
    /\ \E q \in Left(t) :
        /\ records' = [records EXCEPT ![q] = [trows[t][q] EXCEPT !.status = 0, !.result = None]]
        /\ tcur' = [tcur EXCEPT ![t] = q]
    /\ tpc' = [tpc EXCEPT ![t] = IF Method[tslot[t][2]] = 2 THEN "unzip" ELSE "post"]
    /\ UNCHANGED <<tkind, tslot, trows, tjs, tanswer, submitVars, jobs>>
    /\ UNCHANGED <<judgestates, ratios, homeworks, problems, workVars, detail>>

LoopEnds(t) ==
    /\ tpc[t] = "reset"
    /\ Left(t) = {}
    /\ Return(t, "ok")
    /\ UNCHANGED <<tkind, tslot, trows, tcur, tjs, submitVars, dbVars, jobs, workVars, detail>>

Handled(t) == trows' = [trows EXCEPT ![t][tcur[t]] = None]

(* A batch goes by judge_method, a single record by its result_type, which *)
(* is null until the submission has saved the row.                         *)
JudgerFor(t) ==
    IF tkind[t] = "all"
    THEN IF Method[tslot[t][2]] = 1 THEN {"script"} ELSE {"tradi"}
    ELSE {j \in Judgers : /\ trows[t][tcur[t]].by # None
                          /\ j = JudgerOf(trows[t][tcur[t]].args)}

PostTa(t) ==
    /\ tpc[t] = "post"
    /\ jobs' = [j \in Judgers |-> IF j \in JudgerFor(t) THEN Append(jobs[j], tcur[t])
                                  ELSE jobs[j]]
    /\ Handled(t)
    /\ tpc' = [tpc EXCEPT ![t] = "reset"]
    /\ UNCHANGED <<tkind, tslot, tcur, tjs, tanswer, submitVars, dbVars, workVars, detail>>

(* The judger is down: the request raises in the middle of its loop.       *)
PostTaFails(t) ==
    /\ tpc[t] = "post"
    /\ JudgerFor(t) # {}
    /\ Return(t, "error")
    /\ UNCHANGED <<tkind, tslot, trows, tcur, tjs, submitVars, dbVars, jobs, workVars, detail>>

HomeworkZip(t) == turnin[<<tslot[t], records[tcur[t]].args.user>>]

Unzip(t) ==
    /\ tpc[t] = "unzip"
    /\ HomeworkZip(t) # None
    /\ Handled(t)
    /\ tpc' = [tpc EXCEPT ![t] = "reset"]
    /\ UNCHANGED <<tkind, tslot, tcur, tjs, tanswer, submitVars, dbVars, jobs, workVars, detail>>

(* No zip, or a file that is none: a submission does not look into it.     *)
UnzipFails(t) ==
    /\ tpc[t] = "unzip"
    /\ Return(t, "error")
    /\ UNCHANGED <<tkind, tslot, trows, tcur, tjs, submitVars, dbVars, jobs, workVars, detail>>

(* The score of an HTML record; judgestates.judged is left alone.          *)
Score(t) ==
    /\ tpc[t] = "score"
    /\ \E q \in Left(t) :
        records' = [records EXCEPT ![q] = [trows[t][q] EXCEPT !.status = 1]]
    /\ Return(t, "ok")
    /\ UNCHANGED <<tkind, tslot, trows, tcur, tjs, submitVars, jobs>>
    /\ UNCHANGED <<judgestates, ratios, homeworks, problems, workVars, detail>>

-----------------------------------------------------------------------------
(* A judger thread takes the oldest job of its queue and runs the code it  *)
(* finds on disk.                                                          *)
Take(j) ==
    /\ wpc[j] = "idle"
    /\ jobs[j] # <<>>
    /\ wrec' = [wrec EXCEPT ![j] = Head(jobs[j])]
    /\ jobs' = [jobs EXCEPT ![j] = Tail(@)]
    /\ wpc' = [wpc EXCEPT ![j] = "run"]
    /\ UNCHANGED <<wsrc, wrow, wjs, taVars, detail, submitVars, dbVars>>

Run(j) ==
    /\ wpc[j] = "run"
    /\ wsrc' = [wsrc EXCEPT ![j] = IF source[wrec[j]] = None THEN "nothing"
                                   ELSE source[wrec[j]]]
    /\ wpc' = [wpc EXCEPT ![j] = "row"]
    /\ UNCHANGED <<wrec, wrow, wjs, taVars, detail, submitVars, dbVars, jobs>>

(* _returnresult_post.  A final record is counted before its row is saved. *)
Counts(row) == row.args.type \in {2, 4}

ReadRow(j) ==
    /\ wpc[j] = "row"
    /\ wrow' = [wrow EXCEPT ![j] = records[wrec[j]]]
    /\ wpc' = [wpc EXCEPT ![j] = IF Counts(records[wrec[j]]) THEN "readjs" ELSE "detail"]
    /\ UNCHANGED <<wrec, wsrc, wjs, taVars, detail, submitVars, dbVars, jobs>>

JobSlot(j) == <<wrow[j].args.hw, wrow[j].args.prob>>

ReadState(j) ==
    /\ wpc[j] = "readjs"
    /\ wjs' = [wjs EXCEPT ![j] = judgestates[JobSlot(j)]]
    /\ wpc' = [wpc EXCEPT ![j] = "savejs"]
    /\ UNCHANGED <<wrec, wsrc, wrow, taVars, detail, submitVars, dbVars, jobs>>

SaveState(j) ==
    /\ wpc[j] = "savejs"
    /\ judgestates' = [judgestates EXCEPT ![JobSlot(j)] = [wjs[j] EXCEPT !.judged = @ + 1]]
    /\ wpc' = [wpc EXCEPT ![j] = "detail"]
    /\ UNCHANGED <<wrec, wsrc, wrow, wjs, taVars, detail, submitVars, jobs>>
    /\ UNCHANGED <<records, ratios, homeworks, problems>>

WriteDetail(j) ==
    /\ wpc[j] = "detail"
    /\ source[wrec[j]] # None
    /\ detail' = [detail EXCEPT ![wrec[j]] = wsrc[j]]
    /\ wpc' = [wpc EXCEPT ![j] = "save"]
    /\ UNCHANGED <<wrec, wsrc, wrow, wjs, taVars, submitVars, dbVars, jobs>>

(* The directory is made together with the first source; without it open   *)
(* raises and the verdict, already counted, is dropped.                    *)
NoDirectory(j) ==
    /\ wpc[j] = "detail"
    /\ source[wrec[j]] = None
    /\ wpc' = [wpc EXCEPT ![j] = "idle"]
    /\ UNCHANGED <<wrec, wsrc, wrow, wjs, taVars, detail, submitVars, dbVars, jobs>>

SaveVerdict(j) ==
    /\ wpc[j] = "save"
    /\ records' = [records EXCEPT ![wrec[j]] =
                        [wrow[j] EXCEPT !.status = 1, !.result = wsrc[j]]]
    /\ wpc' = [wpc EXCEPT ![j] = "idle"]
    /\ UNCHANGED <<wrec, wsrc, wrow, wjs, taVars, detail, submitVars, jobs>>
    /\ UNCHANGED <<judgestates, ratios, homeworks, problems>>

-----------------------------------------------------------------------------
Work(j) == \/ Take(j) \/ Run(j) \/ ReadRow(j) \/ ReadState(j) \/ SaveState(j)
           \/ WriteDetail(j) \/ NoDirectory(j) \/ SaveVerdict(j)

TaStep(t) ==
    \/ ReadFinals(t) \/ NoConfig(t) \/ ReadRecord(t) \/ NoRecord(t) \/ ReadStateTa(t)
    \/ NoStateTa(t) \/ SaveStateAll(t) \/ Reset(t) \/ LoopEnds(t) \/ PostTa(t) \/ PostTaFails(t)
    \/ Unzip(t) \/ UnzipFails(t) \/ Score(t)

Submit(r) ==
    /\ \/ (Refuse(r) \/ Arrive(r)) /\ MaySubmit
       \/ Step(r)
    /\ UNCHANGED judgeVars

AllQuiet ==
    /\ \A r \in Reqs : pc[r] \in {"idle", "done"}
    /\ \A t \in Tas : tpc[t] \in {"idle", "done"}
    /\ \A j \in Judgers : wpc[j] = "idle" /\ jobs[j] = <<>>
    /\ UNCHANGED <<vars, judgeVars>>

JNext == \/ \E r \in Reqs : Submit(r)
         \/ \E t \in Tas : Start(t) \/ TaStep(t)
         \/ \E j \in Judgers : Work(j)
         \/ AllQuiet

(* Coroutines run on; a judger thread loops for ever on its queue.         *)
JSpec == /\ JInit /\ [][JNext]_<<vars, judgeVars>>
         /\ \A r \in Reqs : WF_<<vars, judgeVars>>(Step(r) /\ UNCHANGED judgeVars)
         /\ \A t \in Tas : WF_<<vars, judgeVars>>(TaStep(t))
         /\ \A j \in Judgers : WF_<<vars, judgeVars>>(Work(j))

-----------------------------------------------------------------------------
(* PROPERTIES                                                              *)

JTypeOK ==
    /\ TypeOK
    /\ tpc \in [Tas -> {"idle", "finals", "record", "readjs", "savejs", "reset", "post",
                        "unzip", "score", "done"}]
    /\ tkind \in [Tas -> Kinds \cup {None}]
    /\ tslot \in [Tas -> Slots \cup {None}]
    /\ trows \in [Tas -> [Reqs -> Rows \cup {None}]]
    /\ tcur \in [Tas -> Reqs \cup {None}]
    /\ tjs \in [Tas -> States \cup {None}]
    /\ tanswer \in [Tas -> {"ok", "error", None}]
    /\ wpc \in [Judgers -> {"idle", "run", "row", "readjs", "savejs", "detail", "save"}]
    /\ wrec \in [Judgers -> Reqs \cup {None}]
    /\ wsrc \in [Judgers -> Reqs \cup {None, "nothing"}]
    /\ wrow \in [Judgers -> Rows \cup {None}]
    /\ wjs \in [Judgers -> States \cup {None}]
    /\ detail \in [Reqs -> Reqs \cup {None, "nothing"}]

(* Final records of s whose verdict is still to be counted: not yet posted *)
(* by a batch, queued, or with a thread that has not saved the counter.    *)
Outstanding(s) ==
    {q \in Finals(s) :
        \/ \E t \in Tas : /\ tkind[t] = "all" /\ tslot[t] = s
                          /\ tpc[t] \in {"reset", "post"} /\ q \in Left(t)
        \/ \E j \in Judgers : \/ \E k \in DOMAIN jobs[j] : jobs[j][k] = q
                              \/ wrec[j] = q /\ wpc[j] \in {"run", "row", "readjs", "savejs"}}

(* A batch that meets no dead judger accounts for each of its records: the *)
(* verdicts counted and those outstanding add up to total_waiting          *)
(* (problem.py:823-826, record.py:199-202).                                *)
CountsAddUp ==
    \A s \in HwProblems :
        Method[s[2]] # 2 /\ (\A t \in Tas : tanswer[t] # "error")
            => judgestates[s].judged + Cardinality(Outstanding(s)) = judgestates[s].waiting

(* A stored verdict is about the code on disk, and its detail file is too  *)
(* (record.py:204-229).                                                    *)
VerdictOfFile ==
    \A q \in Existing : records[q].status = 1 /\ records[q].args.type # 4 =>
        records[q].result = source[q] /\ detail[q] = source[q]

(* Whatever else is going on, a row that says "judged" has its detail file *)
(* (download and judgerInfo read it).                                      *)
JudgedHasDetail ==
    \A q \in Existing : records[q].status = 1 /\ records[q].args.type # 4 =>
        records[q].result # None /\ detail[q] # None

(* The verdict of a test or of a public submission is final: later         *)
(* submissions, batches and verdicts of the same student leave it alone.   *)
PublicVerdictStands ==
    [][\A q \in Existing : records[q].args.type \in {0, 1} /\ records[q].status = 1
            => records'[q] = records[q] /\ records[q].result = q]_<<vars, judgeVars>>

(* A batch that was answered "ok" ends with all of its records judged,     *)
(* unless another one took them over and met a dead judger.                *)
BatchEnds ==
    \A t \in Tas : tanswer[t] = "ok" /\ tkind[t] = "all" /\ Method[tslot[t][2]] # 2 ~>
        \/ tslot[t] # None /\ \A q \in Finals(tslot[t]) : records[q].status = 1
        \/ \E other \in Tas : tanswer[other] = "error"

(* Every public submission and test that was answered "ok" gets a verdict. *)
SubmissionJudged ==
    \A r \in Reqs :
        answer[r] = "ok" /\ inp[r].type \in {0, 1}
            ~> records[r] # None /\ records[r].status = 1

(* What the assistants' page calls finished: judging has started and       *)
(* nothing is waiting (TA-lesson.js:152-158).                              *)
Finished(s) == judgestates[s].waiting > 0 /\ ~Waiting(s)

(* "finished": no verdict of the problem is outstanding.                   *)
FinishedMeansReported == \A s \in HwProblems : Finished(s) => Outstanding(s) = {}

(* An HTML submission that was answered "ok" is what the assistant unpacks,*)
(* unless a later one of the same student took its place.                  *)
TurnInIsLatest ==
    \A r \in Reqs : answer[r] = "ok" /\ inp[r].type = 4 =>
        LET q == turnin[<<Slot(r), inp[r].user>>]
        IN  q = r \/ (q # None /\ Before(r, q))

===============================================================================
