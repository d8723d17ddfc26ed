------------------------------ MODULE ProblemPage ------------------------------
(***************************************************************************)
(* The page on which a student reads a problem, tests and turns in, and    *)
(* sees the results: problem-component/problem-detail.js and the editor,   *)
(* basic-component/code-input.js.                                          *)
(*                                                                         *)
(* The page asks for the problem and the homework when it is mounted, and  *)
(* for the student's tests, turn-in and used-up tests when it is mounted,  *)
(* when the user becomes known and whenever the tab of the results is      *)
(* opened.  An answer may hold any state of the tables since the question; *)
(* what the page shows is the number of that state.                        *)
(***************************************************************************)
EXTENDS Naturals, Sequences, FiniteSets

CONSTANTS
    TestKinds,   \* the tests on a part of the data: "1", "2", "3"
    Limit,       \* how many tests of each kind a student has
    FirstDb,     \* what the tables hold of the student at the start
    MaxClicks,   \* bounds the clicks that send something
    MaxChanges,  \* bounds the changes of the tables
    None

Tables == [used : [TestKinds -> Nat], tests : Nat, turned : Nat, judged : BOOLEAN]

(* What the constants may be.                                              *)
PageAssumption ==
    /\ Limit \in [TestKinds -> Nat] /\ FirstDb \in Tables
    /\ MaxClicks \in Nat /\ MaxChanges \in Nat /\ TestKinds \subseteq {"1", "2", "3"}

VARIABLES
    html,       \* judge_method = 2: a zip is turned in, and judged by hand
    public,     \* lesson_id = '0': opened from the public problems
    closed,     \* submitable = 0
    hist,       \* the tables, after every change
    now,        \* 1 when the deadline has passed
    known,      \* props.id is that of the student (and not -1)
    loaded,     \* which of "query_problem" and "query_homework" were answered
    shown,      \* state of the page: the state of the tables behind each part, or 0
    opened,     \* the tabs that were opened; a tab is rendered from then on
    submit_type, file, reupload, confirm,  \* state of the forms
    dialog,     \* the windows for the source and for the judger's output
    net, clicks, updates, crashed,
    asked, overlapped, lost, crossed  \* history, for the properties

mode == <<html, public, closed>>
forms == <<submit_type, file, reupload, confirm>>
ghosts == <<asked, overlapped, lost, crossed>>
vars == <<mode, hist, now, known, loaded, shown, opened, forms, dialog, net, clicks, updates,
          crashed, ghosts>>

Db == hist[Len(hist)]
Parts == {"ratio", "records", "turn_in"}
Reads == Parts \cup {"query_problem", "query_homework"}
Windows == {"src", "info"}
Has(part, d) == (part = "records" => d.tests > 0) /\ (part = "turn_in" => d.turned > 0)
Used(k) == IF shown["ratio"] = 0 THEN 0 ELSE hist[shown["ratio"]].used[k]
Ask(api) == [api |-> api, at |-> Len(hist), n |-> updates']

(* A page of the public problems shows records of type 0 only.  The        *)
(* questions for records of type 2 and 4 are one: a problem has one kind.  *)
Queries == {Ask(part) : part \in IF public THEN {"records"} ELSE Parts}

update_record ==
    /\ updates' = updates + 1 /\ net' = net \cup Queries /\ asked' = Len(hist)
    /\ overlapped' = (overlapped \/ \E r \in net : r.api \in Parts)

Init ==
    /\ html \in BOOLEAN /\ public \in BOOLEAN /\ closed \in (IF public THEN {FALSE} ELSE BOOLEAN)
    /\ hist = <<FirstDb>> /\ now \in 0..1 /\ known \in BOOLEAN
    /\ loaded = {} /\ shown = [part \in Parts |-> 0] /\ opened = {"1"}
    /\ submit_type = "4" /\ file = None /\ reupload = FALSE /\ confirm = None
    /\ dialog = [w \in Windows |-> [open |-> FALSE, asked |-> None, text |-> None]]
    /\ clicks = 0 /\ crashed = FALSE /\ overlapped = FALSE /\ lost = FALSE /\ crossed = FALSE
    /\ LET mine == known /\ ~public
       IN  /\ net = {[api |-> api, at |-> 1, n |-> 1] :
                         api \in {"query_problem"} \cup (IF public THEN {} ELSE {"query_homework"})
                                                   \cup (IF mine THEN Parts ELSE {})}
           /\ updates = IF mine THEN 1 ELSE 0
           /\ asked = IF mine THEN 1 ELSE 0

-----------------------------------------------------------------------------
(* The editor takes the first language of the problem and the limits of    *)
(* the tests: in the tab before the problem came they are undefined.       *)
Render == crashed' = ("2" \in opened' /\ "query_problem" \notin loaded')

Restored ==
    /\ ~known /\ known' = TRUE /\ update_record
    /\ UNCHANGED <<mode, hist, now, loaded, shown, opened, forms, dialog>>
    /\ UNCHANGED <<clicks, crashed, lost, crossed>>

Loaded(r) ==
    /\ r.api \in {"query_problem", "query_homework"}
    /\ loaded' = loaded \cup {r.api} /\ net' = net \ {r}
    /\ UNCHANGED <<mode, hist, now, known, shown, opened, forms, dialog, clicks, updates, ghosts>>
    /\ Render

(* FAULT: the first answer stays.                                          *)
PartAnswerFault(r) ==
    /\ r.api \in Parts /\ net' = net \ {r}
    /\ \E v \in r.at..Len(hist) :
          shown' = IF Has(r.api, hist[v]) /\ shown[r.api] = 0 THEN [shown EXCEPT ![r.api] = v] ELSE shown
    /\ UNCHANGED <<mode, hist, now, known, loaded, opened, forms, dialog, clicks, updates, ghosts>>
    /\ Render

(* An empty answer is ignored.                                             *)
PartAnswer(r) ==
    /\ r.api \in Parts /\ net' = net \ {r}
    /\ \E v \in r.at..Len(hist) :
          shown' = IF Has(r.api, hist[v]) THEN [shown EXCEPT ![r.api] = v] ELSE shown
    /\ UNCHANGED <<mode, hist, now, known, loaded, opened, forms, dialog, clicks, updates, ghosts>>
    /\ Render

(* An answer does not come, or says that the request failed: it is ignored.*)
Lose(r) ==
    /\ net' = net \ {r} /\ lost' = (lost \/ r.api \in Reads \cup Windows)
    /\ UNCHANGED <<mode, hist, now, known, loaded, shown, opened, forms, dialog, clicks, updates,
                   crashed, asked, overlapped, crossed>>

-----------------------------------------------------------------------------
(* Clicks.  A window or a question covers the page.                        *)
Free == confirm = None /\ \A w \in Windows : ~dialog[w].open
Counted == clicks < MaxClicks /\ clicks' = clicks + 1
Quiet == UNCHANGED <<mode, hist, now, known, loaded, shown>>

Tab(t) ==
    /\ Free /\ opened' = opened \cup {t}
    /\ IF t = "3" /\ known
       THEN Counted /\ update_record
       ELSE t \notin opened /\ UNCHANGED <<clicks, updates, net, asked, overlapped>>
    /\ Quiet /\ UNCHANGED <<forms, dialog, lost, crossed>>
    /\ Render

AtForm == Free /\ "2" \in opened /\ "query_problem" \in loaded
Send(r) == net' = net \cup {r}
Still == Quiet /\ UNCHANGED <<opened, dialog, updates, crashed, ghosts>>

Choose(k) ==
    /\ AtForm /\ ~html /\ ~public /\ submit_type' = k /\ k # submit_type
    /\ Still /\ UNCHANGED <<file, reupload, confirm, net, clicks>>

(* FAULT: the last test is withheld.                                       *)
DisabledFault(k) == k \in TestKinds /\ Limit[k] <= Used(k) + 1

Disabled(k) == k \in TestKinds /\ Limit[k] <= Used(k)
Refused == closed /\ "query_homework" \in loaded

Submission == [api |-> "submit", type |-> IF html THEN "html" ELSE IF public THEN "0" ELSE submit_type,
               uri |-> file = "ready", n |-> clicks, confirmed |-> confirm # None,
               loaded |-> public \/ "query_homework" \in loaded, late |-> now = 1 /\ ~public]

(* clickTest, clickSubmit: after the deadline only after a question; the   *)
(* request is put together before it.                                      *)
ClickSubmit ==
    /\ AtForm /\ ~html /\ ~Refused /\ ~Disabled(submit_type) /\ Counted
    /\ IF submit_type = "4" /\ ~public /\ now = 1 /\ "query_homework" \in loaded
       THEN confirm' = Submission /\ UNCHANGED net
       ELSE Send(Submission) /\ UNCHANGED confirm
    /\ Still /\ UNCHANGED <<submit_type, file, reupload>>

(* A zip: uploaded when it is chosen, in the place of the one before.      *)
Upload ==
    /\ AtForm /\ html /\ (shown["turn_in"] = 0 \/ reupload) /\ Counted
    /\ file' = "uploading"
    /\ net' = {r \in net : r.api # "upload"} \cup {[api |-> "upload", n |-> clicks]}
    /\ Still /\ UNCHANGED <<submit_type, reupload, confirm>>

(* FAULT: the file stays with the answer that it was refused.              *)
UploadedFault(r) ==
    /\ r.api = "upload" /\ net' = net \ {r} /\ file' \in {"ready", "refused"}
    /\ Still /\ UNCHANGED <<submit_type, reupload, confirm, clicks>>

(* A file that the server refused is taken off the list.                   *)
Uploaded(r) ==
    /\ r.api = "upload" /\ net' = net \ {r} /\ file' \in {"ready", "undefined"}
    /\ Still /\ UNCHANGED <<submit_type, reupload, confirm, clicks>>

(* Without a file only a message, and an exception in the handler.         *)
ClickSubmitHtml ==
    /\ AtForm /\ html /\ (shown["turn_in"] = 0 \/ reupload) /\ ~Refused /\ Counted
    /\ IF now = 1 /\ "query_homework" \in loaded
       THEN confirm' = Submission /\ UNCHANGED net
       ELSE /\ file \in {"uploading", "ready"} /\ UNCHANGED confirm
            /\ Send(Submission)
    /\ Still /\ UNCHANGED <<submit_type, file, reupload>>

ClickReupload ==
    /\ AtForm /\ html /\ shown["turn_in"] > 0 /\ ~reupload /\ ~Refused /\ reupload' = TRUE
    /\ Still /\ UNCHANGED <<submit_type, file, confirm, net, clicks>>

Confirm(yes) ==
    /\ confirm # None /\ confirm' = None
    /\ net' = IF ~yes \/ (html /\ file \in {None, "undefined"}) THEN net
              ELSE net \cup {IF html THEN Submission ELSE [confirm EXCEPT !.confirmed = TRUE]}
    /\ Still /\ UNCHANGED <<submit_type, file, reupload, clicks>>

(* The tables of the results list the tests and the turn-in that are shown;*)
(* each has a link to its source and to what the judger said.              *)
Listed ==
    {<<"test", i>> : i \in 1..(IF shown["records"] = 0 THEN 0 ELSE hist[shown["records"]].tests)}
    \cup IF shown["turn_in"] = 0 THEN {} ELSE {<<"turn_in", hist[shown["turn_in"]].turned>>}

(* The source of a test opens at once; the source of the turn-in and what  *)
(* the judger said open with the answer.                                   *)
ClickWindow(w, x) ==
    /\ Free /\ "3" \in opened /\ ~html /\ x \in Listed /\ Counted
    /\ dialog' = [dialog EXCEPT ![w].asked = x, ![w].open = (w = "src" /\ x[1] = "test")]
    /\ Send([api |-> w, id |-> x, n |-> clicks])
    /\ crossed' = (crossed \/ \E r \in net : r.api = w)
    /\ Quiet /\ UNCHANGED <<opened, forms, updates, crashed, asked, overlapped, lost>>

WindowAnswer(r) ==
    /\ r.api \in Windows /\ net' = net \ {r}
    /\ dialog' = [dialog EXCEPT ![r.api].text = r.id, ![r.api].open = @ \/ r.api = "info" \/ r.id[1] = "turn_in"]
    /\ Quiet /\ UNCHANGED <<opened, forms, updates, clicks, crashed, ghosts>>

Close(w) ==
    /\ dialog[w].open /\ dialog' = [dialog EXCEPT ![w].open = FALSE]
    /\ Quiet /\ UNCHANGED <<opened, forms, updates, clicks, net, crashed, ghosts>>

-----------------------------------------------------------------------------
(* The backend: a test is charged, a turn-in takes the place of the last.  *)
Changed(d) == Len(hist) <= MaxChanges /\ hist' = Append(hist, d)
Handle(r) ==
    /\ r.api = "submit" /\ net' = net \ {r}
    /\ CASE r.type = "0" -> Changed([Db EXCEPT !.tests = @ + 1])
         [] r.type \in TestKinds ->
               IF Db.used[r.type] < Limit[r.type]
               THEN Changed([Db EXCEPT !.used[r.type] = @ + 1, !.tests = @ + 1]) ELSE UNCHANGED hist
         [] r.type = "4" -> Changed([Db EXCEPT !.turned = @ + 1, !.judged = FALSE])
         [] r.type = "html" ->
               IF r.uri /\ ~public
               THEN Changed([Db EXCEPT !.turned = @ + 1, !.judged = FALSE]) ELSE UNCHANGED hist
    /\ UNCHANGED <<mode, now, known, loaded, shown, opened, forms, dialog>>
    /\ UNCHANGED <<clicks, updates, crashed, ghosts>>

Judge ==
    /\ ~Db.judged /\ Db.turned > 0 /\ Changed([Db EXCEPT !.judged = TRUE])
    /\ UNCHANGED <<mode, now, known, loaded, shown, opened, forms, dialog, net, clicks, updates,
                   crashed, ghosts>>

Deadline ==
    /\ now = 0 /\ now' = 1
    /\ UNCHANGED <<mode, hist, known, loaded, shown, opened, forms, dialog, net, clicks, updates,
                   crashed, ghosts>>

Arrive(r) ==
    Loaded(r) \/ PartAnswer(r) \/ Lose(r) \/ Uploaded(r) \/ WindowAnswer(r) \/ Handle(r)

Click ==
    \/ \E t \in {"2", "3"} : Tab(t)
    \/ \E k \in TestKinds \cup {"4"} : Choose(k)
    \/ ClickSubmit \/ Upload \/ ClickSubmitHtml \/ ClickReupload
    \/ \E yes \in BOOLEAN : Confirm(yes)
    \/ \E w \in Windows : Close(w) \/ \E x \in Listed : ClickWindow(w, x)

Next == ~crashed /\ (Restored \/ Click \/ (\E r \in net : Arrive(r)) \/ Judge \/ Deadline)

Spec == Init /\ [][Next]_vars
-----------------------------------------------------------------------------
(* Every variable has its type.                                            *)
TypeOK ==
    /\ {html, public, closed, known, reupload, crashed, overlapped, lost, crossed} \subseteq BOOLEAN
    /\ hist \in Seq(Tables) /\ now \in 0..1 /\ asked \in 0..Len(hist)
    /\ shown \in [Parts -> 0..Len(hist)] /\ opened \subseteq {"1", "2", "3"}
    /\ submit_type \in TestKinds \cup {"4"} /\ file \in {None, "uploading", "ready", "undefined"}
    /\ \A r \in net : r.api \in Reads \cup Windows \cup {"submit", "upload"}

(* When all answers are there, the page shows the tests, the turn-in with  *)
(* its result and the used-up tests as they were when the student last     *)
(* opened the results, or later: unless they were opened again before all  *)
(* was answered, or an answer was lost.                                    *)
ResultsSettle ==
    asked > 0 /\ ~overlapped /\ ~lost /\ (\A r \in net : r.api \notin Parts) =>
        \A part \in {q \in Parts : public => q = "records"} :
            shown[part] < asked => ~Has(part, hist[asked])

(* The page never withholds a test that the student still has: what it     *)
(* shows is old, but tests are only ever used up.                          *)
NothingWithheld == \A k \in TestKinds : Disabled(k) => Db.used[k] >= Limit[k]

(* A turn-in that was not sent before the homework was loaded goes to a    *)
(* homework that accepts them, and after the deadline was confirmed.       *)
TurnInsAllowed ==
    \A r \in net : r.api = "submit" /\ r.type \in {"4", "html"} /\ r.loaded =>
        ~closed /\ (r.late => r.confirmed)

(* A window shows what belongs to the row whose link was clicked last, if  *)
(* all answers have come: unless the link of another row was clicked       *)
(* before the answer for the first one came.                               *)
WindowShowsRow ==
    \A w \in Windows :
        dialog[w].open /\ ~crossed /\ ~lost /\ (\A r \in net : r.api # w) =>
            dialog[w].text = dialog[w].asked
==============================================================================
