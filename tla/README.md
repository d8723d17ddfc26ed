# Verification of the THSSOJ online judge

THSSOJ is an online judge for programming courses: a tornado backend with a
PostgreSQL database, a judger service that compiles and runs programs, and a
React frontend. This directory holds TLA+ models of its core, the TLC
configurations that check them, and theorems proved with TLAPS.

Run from this directory:

    tlc -workers 2 -config MCSubmission_final.cfg MCSubmission
    tlapm SubmissionProof.tla
    tlapm JudgingProof.tla
    tlapm JudgerServerProof.tla
    tlapm CoursesProof.tla
    tlapm SessionProof.tla
    tlapm TALessonProof.tla
    tlapm AssistantPagesProof.tla
    tlapm StudentPagesProof.tla

`PROJECT.json` is the index: components, runs, the source lines of every
definition, the known hazards, findings and theorems.

## 1. Inventory

### How the program runs

* **Backend** (`backend/`). One process, one event loop. A request is a
  coroutine; it is suspended at each `await`, which is always an SQL statement
  or a lock. Every statement commits on its own (`apis/db.py` 100-213), there
  are no transactions. A row is read as a whole, changed in memory and saved as
  a whole (`saveObject`, db.py 227-243). Files and calls to the judger are
  synchronous and block the loop.
* **Lock.** `db.py` 224 has an array of 2047 `tornado.locks.Lock`. The one
  user of it is `_submit_post` (problem.py 540). All other handlers run
  unlocked.
* **Judger** (`judger/JudgerServer.py`). A tornado process whose two handlers
  put jobs into a queue each; one thread per queue starts the judging program,
  reads its `result.json` and posts the verdict to
  `/api/record/returnresult` of the backend, waiting for the answer.
* **Errors.** `catch_exception_write` (base.py 48-56) turns any exception of a
  handler into the answer `{code: 1}`; what the handler did before stays done.

### Components

| component | state | operations | hard behaviour | what makes it correct |
|---|---|---|---|---|
| submission (`problem.py` 513-741) | records, judgestates, ratios, homework and problem rows, source files, uploads, lock queues | submit, of four record types | await points, one lock for some handlers only, early returns, failures in the middle | one final record per student and language, exact count of submitters, test limits, the last source wins, every request is answered |
| judging of homework (`problem.py` 783-1012, `record.py` 180-233) | the same rows, the detail files, the job queues | judge all, judge one, score HTML, return result | no lock: stale whole-row saves; the judger may be down in the middle of a loop | counters account for the records of a batch, verdicts are about the stored code, every job gets a verdict, the page says "finished" when it is |
| judger service (`JudgerServer.py`) | two queues, two threads, one `result.json` | accept, run, report, report again | threads share a file; reports fail, are repeated, or end the thread | a job is reported for its own record, and once |
| problem handlers (`problem.py` 53-505) | problem row, md, case, script and code files, the validation record (type 3) | create, createHTML, update, delete, query, search | files and rows change in separate steps; a verdict of an old validation may arrive | status tells whether the present files were validated |
| courses and enrolment (`course.py`) | member lists on the course and on the user | create, update, delete, add and delete student or TA, addCourse | both sides are saved one after the other, some by read-modify-write and some atomically | both sides agree |
| homework (`homework.py`) | homework row, list on the course, judgestates | create, update, delete, openness | stale saves of the course row; judgestates rows deleted under a batch | course, homework and judgestates agree |
| notices (`notice.py`), ratio query (`ratio.py`) | list on the course; ratios rows | create, delete; query creates a row | as above; a row created outside the lock | no lost list entry; one row per student |
| record queries (`record.py`, `download.py`, `judgestate.py`) | none | query, srcCode, judgerInfo, download | visibility rules repeated in several handlers | no handler shows what another hides |
| users (`user.py`), base and db (`base.py`, `db.py`), startup (`main.py`) | user rows, session cookie, tables | login, profile, dispatch | little | - |
| judging programs, executor (`judger/*.cpp`, `judger/utils`) | traced processes, limits, verdict | compile, run, check each case | process table driven by ptrace events | verdict of the first failing case, no process left |
| session of the frontend (`App.js`, `LoginSignuppage.js`, `topbottom-bar.js`) | the cookies `user_id` (backend) and `mid` (frontend), the user each tab shows, the page it is on | open, login, sign up, log out, new assistant, links | tabs share cookies; what an answer does happens when it arrives | a tab shows the user its requests are made for |
| course page of an assistant (`TA-lesson.js`, `TA-lesson-component.js`) | lists of notices, homeworks and problems, the form of a homework | load, create, change, delete, open and close scores or submissions | a load is a tree of requests that append to the same lists | it settles on what the tables hold; a save changes what was changed in the form |
| course form (`TA-create-lesson.js`) | lists of students and assistants, the form that shows or modifies | load, search, delete, save | one answer per member fills the lists that are saved | nobody is removed who was not deleted |
| problem page (`problem-detail.js`, `code-input.js`) | tests, turn-in, used-up tests, upload, windows | load, test, turn in, confirm, look at a source | three answers in any order, old numbers decide what may be sent | shown is stored; nothing is withheld or sent by mistake |
| course page of a student (`student-lesson.js`) | the selected panel and lists filled by each load | menu, loads | answers of one panel come while another is selected | homeworks are in their panel; what was turned in is not missing |
| marking pages (`TA-judge.js`, `problem-judge-html.js`) | records, students, the score that is typed | judge one or all, mark, confirm | opening one of them starts judging | a mark is for the student shown and lost only after a question |
| problem form (`problem-create.js`) | fields that depend on each other, three uploads | pick, upload, save, give up | uploads end in any order, or after the save | what was saved is what was in the form |
| other pages (`student-homepage.js`, `TA-homepage.js`, `TA-allLesson.js`, `problem-base.js`, `problem-my.js`, `admin-page.js`, `user-setting.js`) | lists, forms | query once, send once | little | - |

Interactions: the frontend calls the backend over HTTP (`ajax-method.js`: the answer calls
a function of the page, an error a message only); backend and judger
call each other over HTTP (jobs one way, verdicts the other); backend handlers
meet only in the database and on disk; the judger reads source files the backend
wrote.

The hazards, each with its line and the properties aimed at it, are listed in
`PROJECT.json`.

## 2. Modules

### Submission

`Submission.tla` is the handler `_submit_post`. One action is one SQL statement,
or one stretch of synchronous file or HTTP work, with the computation up to the
next `await`; `pc[r]` names the statement request `r` runs next. So a behaviour of
the model is an interleaving the event loop can produce.

| state | in the code |
|---|---|
| `pc`, `inp`, `target`, `snap`, `js`, `rat`, `used`, `hwrow`, `probrow` | a coroutine and its local variables (`record_created`, `judge_state`, `check_ratio`, ...) |
| `queue[l]` | lock `l`: its holder first, then its waiters in order |
| `records`, `judgestates`, `ratios`, `homeworks`, `problems` | the tables, reduced to the columns the handlers use |
| `source`, `turnin`, `uploads` | `records/<id>/`, `homeworks/<h>/<p>/<u>/`, the uploaded zips |
| `jobs` | requests the two judger queues have accepted |
| `arrived` | history of the order of arrival, for `LastSubmissionWins` only |

`Refuse`/`Arrive` are the checks before the lock; `FindOld`, `ReadJudgeState`,
`SaveJudgeState` the count of submitters; `Match`/`NoMatch` the reuse of an
existing record; `ReadRatio`, `CreateRatio`, `Charge`, `Exceed` the limit of
tests; `Create` to `SaveHomework` the new row and the rows written back with it;
`WriteCode`, `WriteZip`, `NoZip` the files; `SaveRecord` the whole-row save; and
`Post`/`PostFails` the call to the judger. `Finish` releases the lock on every
way out, as `async with` does.

Abstractions: the caller is the `user_id` of the request; a new row is named
by the request that creates it, a piece of code by the request that sent it;
`by` stands for `submit_time` and `src_size`; the limits of a problem do not
change; records of type 3 are created by the problem handlers and not here.

`SubmissionAssumption` and `UploadAssumption` say what a request may hold: rows that exist,
the fields its type needs, no language or gear with a zip (problem-detail.js 111-117), and an upload
under a name of its own (upload.py 28), which is for one student and one problem
however often the request is repeated.

### Judging

`Judging.tla` EXTENDS Submission with assistants (`tpc`, ...), the two judger
threads and the `returnresult` call each of them waits for (`wpc`, ...), and the
detail files. Submission's steps are interleaved with theirs. `_judgeAll_post`
is `ReadFinals`, `ReadStateTa`, `SaveStateAll` and the loop `Reset`,
`PostTa`/`PostTaFails` (or `Unzip`/`UnzipFails`), `LoopEnds`; `_judge_post` is `ReadRecord`,
`ReadStateTa` (its `saveObject` is never awaited, so the counter is only changed
in memory) and the same loop body once; `_judgeHTML_post` is `ReadRecord` and
`Score`. `_returnresult_post` is `ReadRow`, `ReadState`, `SaveState`,
`WriteDetail`/`NoDirectory`, `SaveVerdict`, in the order of the code: the
counter first.

A batch of code begins by opening `config.json` of the cases (`NoConfig` is its failure), and a zip that is missing
or is none stops the batch of an HTML problem (`UnzipFails`).

`Disciplined = TRUE` restricts the environment to what the pages ask for: the
button is respected (TA-judge.js 484) and judging happens after the deadline,
with no submission afterwards. The backend enforces neither (a late submission
gets a warning only, code-input.js), so the runs about what must always hold use
`FALSE`. Both keep `Offered`: a score is given to records of HTML problems, and other problems are judged again,
as the pages have it (TA-lesson-component.js 262). The handler itself (783-792) looks at neither
method nor type of a record, and would put a score on that of a test as well.
`JudgingAssumption` has the submission form offer the languages of
the problem, and no code for HTML problems (problem-create.js 412-418).
The assistant's id that scoring stores in `status` is modelled as 1.

### JudgerServer and JudgeService

`JudgerServer.tla` is the judger process: two handlers that queue jobs and two
threads that are preempted anywhere, so an action is one access to what they
share. `tpc[j]` is the place of a thread in its loop: `get` (queue.get), `copy`
(the script's source), `run` and `write` (the judging program, until and while it
has `result.json` open), `clean` (remove the source), `read`, `post` and `again`
(the post of the except clause), `dead` (an exception outside any try).

| state | in the code |
|---|---|
| `queue`, `cur` | `tradiQ`, `scriptQ`; `data` of each thread |
| `file`, `mixed` | `result.json` of the one working directory, by the job it is about; whether two programs had it open at a time |
| `got`, `reports` | `judgerResult`; the verdicts the backend has handled |
| `scripts`, `index`, `updates` | the script directory of the problem, the student's `index.js` in it, how often the backend replaced it |
| `fresh` | history for `NoOlderVerdict` |

A program may die before it opens the file (`ProgramDies`), what a script printed
is not escaped and may be unreadable (`CloseResult`), a post may raise before or
after the backend handled it (`PostLost`, `PostLate`, `AgainLost`, `AgainLate`),
and the backend may replace the scripts at any moment (`RemoveScripts`,
`ExtractScripts`), in which case the file operations of the thread raise and end it
(`CopyDies`, `CleanDies`). Jobs are assumed to carry every parameter the thread
reads; the backend's own calls do.

`JudgeService.tla` is the abstract specification: jobs enter at the end of a
queue, the first one is answered and left, a judger may be unsure whether its
answer arrived and answer once more, or stop for good over a job. `Todo(j)` maps
the concrete state: the job in hand, if any, before the queue. `Judging` composes
the backend with this service in the case where nothing fails.

### Courses

`Courses.tla` is the handlers of `course.py`, `homework.py` and `notice.py` that write, and the
change of a password, which saves a user row with the course lists in it. As in
Submission an action is one SQL statement with the computation up to the next `await`,
and `pc[r]` names the statement request `r` runs next.

| state | in the code |
|---|---|
| `courses`, `users` | the two tables; `members` are `students` and `tas`, `users[u]` is `student_courses` and `ta_courses`. A list is the number of times each id is in it, since `append` repeats ids and `array_remove` and `sub_list` drop all of them |
| `homeworks`, `judgestates`, `notices` | the tables; a row of judgestates is counted under its homework and problem |
| `crow`, `urow`, `hrow` | the row a handler has read and will save as a whole |
| `todo`, `states` | what is left of the loops over members and over problems |

`ReadCourse` is the read of the course row in every handler, with what the handler
makes of it: `UseForMember` (addStudent, addTA, deleteStudent, deleteTA), `UseForUpdate`,
`UseForList` (homeworks and notices), `MayDelete`. `SaveCourse` and `SaveUser` are the
whole-row saves, `ReadUser` the loop bodies, `RemoveCourse` and `Pull` the deletion of a course,
`InsertInUser` and `InsertInCourse` the two single UPDATEs of an enrolment, `FindCourse` and
`FindNotice` the look-up of a row just inserted by its arguments, which may return
another one. A refusal or an exception is `Fail`: what was written stays.

Requests overlap in any way, at every statement. Only two things are asked of an input. `NamesCourse`: the handlers
take the course of a homework from its row, which `inp` repeats. `Inserted`: the id of a course under which a homework is
created is that of a row that was there, since that handler alone does not look before it inserts.
`CoursesAssumption` says which arguments each kind of request
has, as the handlers read them. Left out: names, descriptions and dates, updates that omit `students` or `tas` (as
if they were given unchanged), the deletion of users, and `_judgeAll_post` of `homework.py`, an
earlier version of the one in `problem.py` that no page calls.

The handlers are not right under every overlap: a notice, say, that read the course row before an enrolment
and saves it afterwards takes the student off again. `CourseRaces.tla` EXTENDS `Courses` by a history that records
where this happened and forbids nothing (`RNext` has exactly the steps of `Next`):

| history | what it records |
|---|---|
| `cread`, `uread` | the row a request has in memory, as it was when it was read |
| `lost` | course and user rows that were saved as a whole although the table did not hold the row read any more |
| `crossed` | memberships (a course and a user) that two requests were changing at once, other than by two enrolments, and those of courses of which one was found in place of the other by its arguments |
| `twice` | homeworks that an update read while another request was making or rewriting them, or the other way round |

The properties are about everything else: they are claims that these are the only ways in which the tables come apart,
and that a row, membership or homework that is hit takes no other one with it.

### The pages of the frontend

A page is a React component: its variables are the fields of its state, the props it was
given and the requests it sent (`net`), its actions are clicks and answers. An answer
may come at any time after its request, in any order, with what the backend held at some moment since
(`hist` is the sequence of those states, and a request remembers its place in it); or be lost, when nothing is called. What
a handler of the backend does to the rows a page reads is one step here, at some
moment between request and answer: how requests interleave inside the backend is the subject of the
modules above. In these modules, a variable called history or a comment that says so is
for the properties only.

| module | actions and the code |
|---|---|
| `Session` | `Open` and `RestoreAnswer` are App's mount and the answer to query_user; `SubmitLogin`, `SubmitSignup`, `GoLogout` and `SubmitAssistant` send, `LoginAnswer`, `SignupAnswer`, `LogoutAnswer`, `AssistantAnswer` are the callbacks, which write the cookies and App's state; `GoHome`, `GoInner`, `GoForm` the links with their redirects; `DeleteUser` the administrator |
| `TALesson` | `query_data` and the callbacks from course to notices, homeworks, problems and judge states; the create, update and delete of notices and homeworks; the form of a homework with `AddProblem`, `AddAnswer`; `Toggle` for scores and submissions; `Deadline` and `Other` for what happens elsewhere |
| `CourseForm` | `Mount` (the props say whether it creates, shows or modifies), `CourseAnswer`, `UserAnswer`, `Search`, `Delete`, `Save` and `Saved`; `Handle` is the update of a course |
| `ProblemPage` | `update_record` and `PartAnswer` for tests, turn-in and used-up tests; `Choose`, `ClickSubmit`, `ClickSubmitHtml`, `Upload`, `Uploaded`, `Confirm`; `ClickWindow` and `WindowAnswer` for sources and results; `Handle` and `Judge` are the backend |
| `StudentLesson` | `Menu` and the tree of answers of `update_pannel`: `CourseAnswer`, `NoticeAnswer`, `UserAnswer`, `HomeworkAnswer`, `ProblemAnswer`, `RecordAnswer`; `Status` is what a card says |
| `Marking` | both pages: `Mount`, `Fetch`, the answers, `JudgeRow`, `JudgeAll`, `ClickStudent`, `Type`, `ClickSubmit`, `Confirm`; `HandleJudgeAll`, `HandleJudgeOne`, `HandleJudgeHtml` and `Result` are the backend |
| `ProblemForm` | `Load` (the problem that is edited), `PickMethod`, `PickLanguages`, `PickLanguage`, `Toggle`, `Reupload`, `Choose`, `Remove`, `Uploaded`, `Save`, `Saved`, `GiveUp`; `Create` and `Update` are the handlers in problem.py 53-214 and 267-400 with their failures |

`Create` does what problem.py 119-120 do: it inserts a row without text and files (`NewRow`), drops what the
insert returned, and looks the row up by its own fields (`Alike`, `FoundFor`). After a create that failed behind the insert
(no `config.json` in the archive, or the judger down) a row with these fields is there already, and a retry may write its text and
files to that one, or again to the new one; the other row keeps none. Fields that the model has no value for,
title and limits, only make the search narrower, and the new row is always among its results. An HTML problem uses the
row that the insert returned (56-72).

Abstractions: texts, dates and scores are a few values; what a page fetches and never uses again is left out; a card is
on the page or not, its layout is not modelled. The window with a source opens with the click for a test (problem-detail.js 390)
and with the answer for the turn-in (323), an answer that says no being ignored as a lost one is. The count
`judged` that `_judge_post` raises (955) is never stored, since that save is not awaited: `Marking` leaves it alone.
What a form needs to say for the properties is history: `missing` of a homework form and of a save of a course is what the page had
not heard of by then, because an answer was lost or under way. `ProblemForm` counts titles, limits and ratios as one field.

### Proof and MC modules

`AssistantPages` composes `CourseForm`, `ProblemForm` and `Marking`, `StudentPages` composes
`ProblemPage` and `StudentLesson`: a behaviour chooses one of the pages (`which`), takes the
steps of that page's module (an INSTANCE) and leaves the variables of the others at `None`.

`SubmissionProof`, `JudgerServerProof`, `CoursesProof`, `SessionProof`, `TALessonProof`,
`AssistantPagesProof` and `StudentPagesProof` EXTEND their module and TLAPS;
`JudgingProof` EXTENDS `Judging` and `SubmissionProof`, `CoursesProof` and `MCCourses` EXTEND `CourseRaces`. They hold inductive invariants, lemmas and
theorems and no model. `MCSubmission.tla`, `MCJudging.tla`, `MCJudgerServer.tla`,
`MCCourses.tla`, `MCSession.tla`, `MCTALesson.tla`, `MCMarking.tla`, `MCStudentPages.tla` and
`MCAssistantPages.tla` define the values of the constants in the instances the `.cfg` files name.

## 3. Runs

| run | what it shows |
|---|---|
| `final` | four overlapping final and HTML submissions, two students, two languages, uploads sent once or twice, a student who is not enrolled, a problem without a judgestates row: types, one record per student and language, exact `total`, the last source wins, rows match the files (`RowsMatchFiles`: submit_time and size describe the source, both copies of a zip agree) |
| `requests` | three requests of any kind, with colliding locks and limits of 1 and 2 tests: every request that arrived is answered, limits hold, each test is charged once, the judgers get jobs that can be judged |
| `batch` | two batches one after the other over two students' records, and tests: the counters account for the records, verdicts are about the code on disk, "finished" is true, a batch ends with all its records judged, tests get a verdict |
| `overlap` | two assistants and two requests, code and HTML, anything in any order: types, a judged row has its detail file, verdicts of tests and public submissions are never touched again, the zip unpacked is the last one sent |
| `judger` | two programs and two scripts, one without a source, with every failure above and one update of the scripts: types, no verdict from before the job's own, a second verdict is the fallback only, every job is reported while its thread lives, the threads implement `JudgeService` |
| `courses` | three requests of twenty-one, to the old course and to what the first of them creates, by students, an assistant and an administrator, refused and failing ones included, in every overlap: both sides of a membership agree and nobody is listed twice or in a deleted course, a course lists exactly its homeworks, a listed homework has one judgestates row per problem; but for the overwritten rows, crossed memberships and homeworks updated twice that `CourseRaces` names |
| `session` | a student who signs up, an assistant and an administrator in two tabs, four requests: a tab shows the user its requests are made for, unless the session changed behind it |
| `lesson` | one homework with one of two problems, which is open and then over, another that may be created, a notice, two changes made here or elsewhere (another assistant may give the homework other problems, or delete it), forms opened before everything has come: the page settles, its form lists a problem once and breaks only over one that had not come, and a save takes out only what was deleted, had not come, or was put in since |
| `student_pages` | a kind of test of which one is left and an HTML problem; two homeworks, two panels, two loads that may overlap: what is shown is stored, homeworks fit their panel, submissions are allowed |
| `assistant_pages` | three users and two saves of a course; a private problem or a new one with two files and two saves, of which the first may fail behind the insert, and seven clicks, which is one more than such a create and its retry need, so that a field may change between them; two students of whom one has a mark: what a page holds belongs together, what is reported as saved is what was in the form and every row without files has one like it that has them, a save takes out nobody of whom the form has heard |
| `total_lost`, `marks_wiped` | disagreements between the code and its tests or pages, section 5 |

**Bounds.** Requests (2 to 4), users (2 or 3), homeworks (1), problems (1 or 2), gears
(1 or 2), locks (3), assistants (1 or 2) are the only bounds; nothing is
capped inside the model, since each request and assistant acts once. Two
requests of one student race for a row, a third tells "the last" from "another",
a fourth makes two pairs that overlap; the judger needs two jobs of each kind so
that one finds the result of the one before and one of the other thread; one update
of the scripts meets every point of the script thread; three requests to the course handlers
create something, change it and remove it; a second student shows that keys are
separated; a problem without a row reaches the failing branches. The pages have bounds in their guards (`MaxPosts`, `MaxClicks`,
`MaxChanges`, `MaxLoads`, `MaxMounts`, `MaxFiles`, `MaxSaves`): two clicks give two requests that overlap, one or two changes a
stale answer, two files one that replaces another. The limit of 1
is hit by the second test and that of 2 by the third. Symmetry is used for
requests, assistants and tabs in safety runs only: they are interchangeable
and their names are in no constant function.

**Fairness.** `Spec` has weak fairness of the steps of each request that has
arrived: the event loop resumes a coroutine whose statement was answered,
and the database answers. Nothing is assumed of arrivals. A waiter
whose turn has come is such a step. `JSpec` adds the same for assistants'
requests and for the judger threads, which loop for ever (JudgerServer.py
30-35); that a judging program ends is due to its time limit. `JudgerServer` assumes
the same of each thread and nothing of the backend. The pages have safety properties
only: an answer may never come. The liveness runs
do not use symmetry.

Every property is paired with a plausible mistake (a dropped guard, a missing
reset, a swapped save); those are the operators ending in `Fault`, in a
section of their own of each module, and TLC finds each property violated once its
mistake replaces the original.

## 4. Proofs

`SubmissionProof` proves for any number of requests, users, homeworks, problems
and locks, from `SubmissionAssumption` (finite users, inputs that are rows of
columns with the fields their type needs, hash functions into the locks):

* `TypeCorrect`: `Spec => []TypeOK`. `TypeOK` is not inductive: a request that is
  about to save `js[r]` must have read it. `Typed` adds `StageOK(r)`, which says
  what each request knows at each statement. One step per action.
* `OneFinal`: `Spec => []OneFinalRecord`. The argument: a request between its
  first statement and its last is at the head of the queue of its lock
  (`HolderOK`); two requests for the same record hash to the same lock
  (`TwinsShareLock`), so they are not both inside; and a request that found no
  match and is about to create still finds none (`NoTwin`), since only a
  holder of the same lock could have created one. `RowOK` relates a request's
  copy of a row to the row it will overwrite. `Final` is the conjunction.

Its second part adds two invariants to `Final`, each proved by one lemma per group of actions:

* `TotalExact`: `Spec => []TotalCountsSubmitters`. `Counting`: a request between the read and the save of the
  judgestates row holds the lock of that row, its copy `js[r]` still is the row, and its student is
  not among those counted. So the save adds one to `total` in the step in which the set of counted
  students grows by one element; no other step changes either. `FindOld` decides whether
  to count by the records of one student, so the lemma that two requests of one slot are never both inside
  (`TwinsShareLock`) carries the proof.
* `EachTestCharged` and `LimitKept`: `Spec => []ChargedPerTest` and `Spec => []TestsWithinLimit`.
  `Charging`: a student has one ratios row per problem (`OneRow`), which a
  request that is about to charge has found (`RowKnown`); every test belongs to a row (`TestHasRow`);
  and what a row says is used of a gear is the number of tests on its `Bill`, and within the limit
  (`RowIsBill`). A request that charged and has not stored its record is on the bill, which
  is where the two statements would come apart.

Its third part proves what is on disk:

* `LastWins`: `Spec => []LastSubmissionWins`. `Order`: the queue of a lock is in the order of arrival
  (`InLine`, `InOrder`), so who has been answered came before everybody who waits for the same lock (`DoneFirst`).
  Then a file is only replaced by a request that arrived later.
* `RowsMatch`: `Spec => []RowsMatchFiles`. `SourceOK` and `ZipOK` relate row, source and both copies of
  a zip to the request that wrote them last and, between its two writes, to the place where it is.
  An upload that is gone is in the record it was sent for, since nobody else sends it (`UploadAssumption`).
* `JobsReady`: `Spec => []JobsAreReady`, from `JobsOK`: jobs are only posted by requests that are done,
  each by its own.

`JudgingProof` carries these to `Judging`, where requests, batches, scores and verdicts are
interleaved without a lock. A step of a request changes the tables as in Submission or not at all (`SubmitEffect`);
a step of an assistant or a judger leaves the requests alone (`Outside`).

* `JTypesHold`: `JSpec => []JTypeOK`. `JInv` adds that the records and slots anybody has in hand exist and have
  the arguments they were read with (`RecordsKnown`, `SlotsKnown`, `JobsKnown`), and what an
  assistant (`TaOK`) or a judger's call (`WorkOK`) knows at each statement. It is what makes a whole-row save
  of a stale copy harmless for types: the copy is of the same record.
* `DetailThere`: `JSpec => []JudgedHasDetail`, from the order of `WriteDetail` and `SaveVerdict` and because no
  step removes a detail file.
* `LatestZip`: `JSpec => []TurnInIsLatest`. `TurnInv` repeats `HolderOK` and `Order`, which no
  assistant disturbs, and `ZipKept(r)`: the zip in place is of `r` or of a later request, once `r` has written it.
* `VerdictFinal`: `JSpec => PublicVerdictStands`, an action property. `PubInv` says
  that the record of a test or public submission is handed to one judger once, by its own request
  (`PubJobs`, `PubWork`), with the code it was sent with (`PubRows`): so nobody is left who
  could write a row that has its verdict. Batches only take final records (`Finals`).

The last part of `JudgingProof` proves what holds if assistants follow the page. The first theorem has the hypothesis
`Disciplined`, the other two `Careful`, which adds that no single record is judged again: `_judge_post`
never saves the counter it changes (section 5), so both are false without it.
The discipline restricts when a request starts, nothing in between, and run `batch` reaches every step of it.

* `VerdictTrue`: `JSpec => []VerdictOfFile`. `Phases`: submissions are over when the first assistant starts, at most one
  assistant is at work, and before that only tests and public submissions have verdicts. `FileJudged`: what
  a judger ran is the file on disk until its verdict is stored.
* `BatchAddsUp`: `JSpec => []CountsAddUp`. `Books(s)`: the verdicts counted and the open records of a problem make up
  `waiting`, and less than that after a judger was found dead. A record is open from the reset of
  the counters until its verdict is counted: held by the batch, in a queue or in the hands of a judger.
  `Once` says a judger has each final record in one place, `Apart` that a record still
  held by the batch is nowhere else, and `Roles` that only batches hand out final records; with them every step moves one
  record from one place to the next, or counts it.
* `FinishedReported`: `JSpec => []FinishedMeansReported`, since `judged = waiting` leaves nothing open in `Books`.

`JudgerServerProof` proves for any set of jobs, from `JobAssumption` (jobs are
not among the strings that stand for no job):

* `JudgerTypeCorrect`: a thread past `get` has a job (`Typed`).
* `NoOlder`: `Spec => []NoOlderVerdict`. `FreshOK(j)`: before a program opens
  `result.json` anything may be in it; opening empties it, and from then on what can
  be read was finished since.
* `Second`: `Spec => []SecondIsFallback`. `JobsOK` says where a job is: not
  accepted, in one place of one queue, or in the hands of the thread of its kind
  (so two threads never report the same job), with no verdict before the first
  post and at most one, to be followed by the fallback, before the second.
* `Implements`: the safety part of `ImplementsService`, step by step: `Accept` is
  `Enqueue`, a post after which the thread goes on is `Serve`, one whose answer was lost
  `ServeUnsure`, a death `Stop`, all else a stutter. Its fairness part is left to TLC.

`CoursesProof` proves for any number of requests, users and problems, from `CoursesAssumption`:

* `CourseTypes`: `Spec => []TypeOK`, for every overlap of requests. `Typed` adds `StageOK(r)`: in which handler a request can
  be at each statement (`KindsAt`) and which rows it has in memory there. That no list holds an id a negative
  number of times rests on the tests before `list.remove`.

The other three are about `RSpec`, the same steps with the history of `CourseRaces`, and have no hypothesis on how
requests overlap. What carries them is that a whole-row save over an unchanged row is as good as one statement:
`CopyOK` says that a course row in memory is the row that was read (`cread`) but for what its own handler is about, so when
the table still holds that row the save changes nothing else, and when it does not the row is in `lost`.

* `ListsAreExact`: `RSpec => []HomeworksListed`, from `CourseInv`. `SameCourse` and `HwRowsOK`: requests about one homework are about one
  course, in their arguments and in the rows they hold. `Past`: a list, in the table or in memory, holds nothing but
  homeworks made for its course; this needs no hypothesis about overwritten rows, since an old row holds only what was there
  once. `ListOK(k)`: a course that was not overwritten lists its homeworks but for those being made or deleted.
* `StatesAreExact`: `RSpec => []StatesMatch`, from `CourseInv` and `StatesInv`. `Match(h)`, for a homework that is not in `twice`:
  an update that has read it is alone with it (`Sole`); while it is made it has the rows of judgestates of the problems done so far
  (`MakingOK`), while it is updated those of `Built`, which is the new problems but for what is left in `states`; a
  switch saves the problems that are there (`Switched`); and when nobody rewrites it, it has one row per problem (`RowsOK`).
* `MembersAgree`: `RSpec => []SidesAgree`, from `CourseInv` and `MembersInv`, which is about each course and user on its own.
  `Pair(k, u)`, while the membership and both rows are unharmed (`Clean`): one request is about it, or enrolments only; each side lists the
  other at most once; both sides agree unless a request about it is `Torn`, that is between its first and last
  write; and `Stage` says of such a request what is missing. Its core is `Goal`: the row in memory is what the
  user's row becomes by what is left in `todo`, each entry of which can be carried out, so the removal of a member does not fail
  after the course row was saved. `KnownOK` is what requests about other memberships know: a user row in memory is the one
  that was read but for the entry of its own course (`UserCopyOK`), a course whose row is not there yet is in
  no list (`UnbornOK`), and one that was found in place of another is `crossed` (`StrangeOK`).

`SessionProof` proves for any number of users and tabs, from `SessionAssumption`:

* `SessionInv`: `Spec => []Inv`, the conjunction of types, `CookiesAgree`,
  `FormsAreForGuests` and `InStep`. `InStep` is the strengthening: while the session has not
  changed behind a tab, the tabs that show a user and the requests to restore one
  are all about the user of the cookie, which is what makes the late answers harmless.
* `CookiesAlwaysAgree`, `FormsForGuests` and `ShowsSession` are its consequences; the
  last one is `Spec => []ShownIsSession`.

`TALessonProof` proves for any course, tables and bounds, from `LessonAssumption` (finitely many
notices and homeworks, whose names are not "no" or "new"; `None` is no row and no form). `Inv` is
`Typed`, `FormInv` and `Settle`:

* `TypesCorrect`: `Spec => []TypeOK`. `Typed` adds what every request under way carries (`Request`): what it
  is about, and for a question the moment from which its answer may be taken.
* `FormCorrect`: `Spec => []FormSound`. `FormOnce`: an addition under way is of a problem the form does
  not list, and is the only one of that problem, unless Enter was pressed twice for it (`doubled`). It needs `FormLoads`, since an addition says
  which form asked for it: forms are told apart by the load after which they were mounted, and an addition of
  an earlier form belongs to an earlier load. `RowsLoad`: of each problem of a shown homework the row is there or
  asked for, unless an answer was lost; so a form breaks the page only over a problem that had not come when it was mounted (`Breaks`).
* `SavesCorrect`: `Spec => SavesKeepProblems`, an action property. `FormKeeps`: what the homework had when the form was mounted and the
  form does not list was deleted there or is in `missing`; what the homework has besides, when it is saved, was put in since.
* `PageCorrect`: `Spec => []PageSettles`. `Settle` is about the tree of requests of a load while
  nothing has gone wrong and no change has come back unseen (`Calm`): any state from which an answer may
  be taken is the present one (`Current`); a notice or homework is listed or asked for
  (`NoticesSettle`, `HomeworksSettle`); and a problem that is shown or asked for has a judge state
  of one of its homeworks, or one is on its way (`ProblemsSettle`). A change of the page's own ends
  the calm until its callback loads again.

`AssistantPagesProof` proves for any users, members, rows, marks and bounds, from `ConstantsFit`.
`Inv` says that the page that is shown is in its invariant:

* `CourseInv`: who has been a member all the time is in the form, was deleted there, or is asked for
  (`CourseLoads`) or had an answer that was lost (`unheard`), so a save names all of them but those deleted and those of whom
  the form had not heard when it went out (`missing`, `CourseSavesComplete`); the early save is one of these cases, not an exception; until a form is mounted again there is one save, of the form that is shown
  (`CourseOneSave`).
* `MarkInv`: what is shown as unmarked was unmarked when it was read (`MarkShown`), so a score
  sent without the question is for a row that was unmarked (`MarkUnasked`); the student who is selected has a row
  (`MarkSelected`); what the page lacks is under way (`MarkLoads`).
* `FormInv`: what a save says fits its method (`FormSaid`), and once the last save, with nothing
  beside it, is answered with success the row the answer names has the files chosen last (`FormAnswers`, `FormTold`), whichever of the
  rows alike the create wrote to; and a row without files has an earlier one like it that has them.

`TypesCorrect`, `PagesCorrect`, `ProblemCorrect` and `NothingIsLost` (an action property) are the four properties of the run.

`StudentPagesProof` does the same for the pages of a student:

* `ProblemInv`: the tables only grow (`Growing`); of a part that was asked for the answer is missing, was
  ignored because there was nothing, or is shown (`ResultsAsked`); a window shows what was asked for last
  (`WindowsAsked`). A count that is read late is then at most the present one, which is why
  a test that is left can be made.
* `LessonInv`: what each request knows (`LessonRequests`); without overlap there is one load and one
  request about each thing, and each card fits the panel (`OneLoad`); a notice, an assistant or a card
  that is to be shown is there or an answer is missing (`TextsLoad`, `CardsLoad`, where `Loading(h)`
  follows one homework through its row, its problems and its records). `PanelFits` needs no hypothesis about overlapping
  loads: the list of the last click holds only what fits the panel, and so does what is on the screen as long as the page
  renders that list or none (`ref`), since an answer of an earlier click goes to a list of its own.

`TypesCorrect`, `ShownCorrect`, `CardsCorrect` and `SubmissionsCorrect` are the four properties of the run.

**What is proved.** Every invariant and every action property of the ten passing runs is proved for all values of the
constants, and so is the safety part of the refinement. The strengthenings were checked by TLC on the
instances of these runs before they were proved. Some
assumptions came out of the proofs, since the inputs of the runs had them and arbitrary ones have not:
`None` is not the answer "error", a row, a form or a card (a constant that nothing in the program may
equal); `UploadAssumption`; in Courses `NamesCourse`; the assistants of `FirstCourse` are assistants and not students; the languages of `FirstRow` are those of its
method; kinds of test are "1" to "3"; a panel is loaded at least once; homeworks are not called "no" or "new".

Only model-checked: liveness (`EveryRequestAnswered` of the submit handler, `BatchEnds`, `SubmissionJudged`,
the judger's reports and the fairness part of its refinement), which is out of the prover's reach
with ENABLED and induction over data.

## 5. Findings

1. `TotalCountsSubmitters` (run `total_lost`): a batch writes the judge state back
   without the lock, so a submission in between is not counted; problemtest.py 722 and 749
   check the count.
2. `MarksOnlyAfterQuestion` (run `marks_wiped`): the page for marking by hand posts
   `judge_all` when it is opened, which resets every mark of the problem
   (problem.py 910-920), while problem-judge-html.js 160-161 asks before one mark is replaced.

Behaviours the models have and no run is kept for; each is a state the named
property of a passing run leaves out, in its guard or in what its run allows:

* the record to reuse is looked up with `status = 0` among its arguments
  (problem.py 641), so a student who submits again after judging has a second final record;
* a single record judged again (955) leaves the counters at "finished" while the
  verdict is outstanding, and a judger that is down in the middle of a batch (867), or an HTML
  batch (914), leaves them at "judging" for ever;
* a notice, homework or member handler that read the course row before an enrolment writes the old
  list of students back (notice.py 98, course.py 351; `lost` in `CourseRaces`), two requests that change one membership at once
  leave it on one side (`crossed`), and two updates of a homework double or remove its rows of judgestates (`twice`);
* a create of a problem that is repeated after it failed behind the insert may write text and files to the row of the first try and
  leave its own without (problem.py 119-120);
* a score may be put on any record, a test included (problem.py 783-792; not in the models, `Offered`);
* a login in another tab, or a late answer to query_user, leaves a tab with a user
  who is no longer the session's (App.js 89);
* a load of the course page that begins before another has ended shows cards twice
  (TA-lesson.js 122), a course that is saved before all members were there loses those who had not come
  (TA-create-lesson.js 131), and a homework form that is saved over a change by others, or opened early, loses what it did not know of;
* a student's course page that is reloaded asks for records of user -1 and shows what was turned in as missing (student-lesson.js 466);
* a private problem becomes public when it is saved again (problem-create.js 73, 144), and a save while a file is being uploaded goes without it (154).

## 6. Not modelled, and what could follow

Judging and its batches still run beside Submission only; the composition of homework updates
with submissions (openness undone, a judgestates row that goes away under a batch) is in
no module, nor is the ratio query, which creates its row outside the lock. Of the
problem handlers `delete` and the validation record of type 3 are left out, and
`Create` and `Update` are one step: they are there for the form. The judging programs, the
executor and the system call filter are not modelled. Most worth adding next:

| module | composed with | properties | proofs |
|---|---|---|---|
| Coursework: homework updates while submissions and batches run | Submission (homeworks, HwProblems as a variable) | openness is not undone; a batch whose judgestates row goes away | - |
| RatioQuery | Submission (`RowIds` exceeds `Reqs`) | one row per student and problem | ChargedPerTest |
| ProblemLifecycle: the statements of create, update, delete, validation | Judging's returnresult | status is about the present files | types |
| TradiVerdict, Executor | - | the verdict of a run of cases equals its definition; every traced process is waited for | bounds of the process table |

Not to be modelled: the home pages and lists (queried once, rendered), profile and settings
forms, the help page, mocks, system call tables and option parsing (no state), the checker
library (third-party), page layout, deployment files.
