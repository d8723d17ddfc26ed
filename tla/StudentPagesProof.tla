--------------------------- MODULE StudentPagesProof ---------------------------
(***************************************************************************)
(* Proofs about the pages that a student uses, for any kinds of test,      *)
(* limits, homeworks, problems, tables and bounds.  Each page has an       *)
(* inductive invariant that says of everything it is to show that it is    *)
(* shown or that a request about it is under way.                          *)
(***************************************************************************)
EXTENDS StudentPages, TLAPS

(* The page of a problem.  The tables only ever grow.                      *)
Growing ==
    \A v, w \in DOMAIN hist : v <= w =>
        /\ \A k \in TestKinds : hist[v].used[k] <= hist[w].used[k]
        /\ \A part \in P!Parts : P!Has(part, hist[v]) => P!Has(part, hist[w])

(* What the windows and the requests of the page are about.                *)
Links == {"test", "turn_in"} \X Nat
Dialogs == [open : BOOLEAN, asked : Links \cup {None}, text : Links \cup {None}]

ProblemRequests ==
    /\ hist # <<>> /\ (public => ~closed)
    /\ dialog \in [P!Windows -> Dialogs]
    /\ \A r \in net :
          /\ r.api \in P!Parts => r.at \in 1..Len(hist)
          /\ r.api \in P!Windows => r.id \in Links
          /\ r.api = "submit" => r.type \in TestKinds \cup {"0", "4", "html"}
    /\ confirm # None =>
          /\ confirm.api = "submit" /\ "confirmed" \in DOMAIN confirm /\ ~closed
          /\ confirm.type \in TestKinds \cup {"0", "4", "html"}

(* Of a part that was asked for, the answer is missing, or was ignored     *)
(* since there was nothing, or is shown.                                   *)
ResultsAsked ==
    ~overlapped =>
        /\ \A r \in net : r.api \in P!Parts => r.at = asked
        /\ asked > 0 /\ ~lost =>
              \A part \in {q \in P!Parts : public => q = "records"} :
                  \/ \E r \in net : r.api = part
                  \/ shown[part] < asked => ~P!Has(part, hist[asked])

WindowsAsked ==
    ~crossed /\ ~lost =>
        \A w \in P!Windows :
            /\ \A r \in net : r.api = w => r.id = dialog[w].asked
            /\ dialog[w].open /\ (\A r \in net : r.api # w) => dialog[w].text = dialog[w].asked

ProblemInv ==
    P!TypeOK /\ Growing /\ ProblemRequests /\ ResultsAsked /\ WindowsAsked /\ P!TurnInsAllowed

(* The page of a course.                                                   *)
Lists == [homeworks : S!Cards, notices : SUBSET Notices, tas : SUBSET Assistants]

(* What is known of a request that is under way.                           *)
Request(r) ==
    /\ r.api \in S!Reads /\ r.load \in 1..loads /\ r.at \in 1..Len(hist)
    /\ r.api = "notice" => r.id \in Notices
    /\ r.api = "user" => r.id \in Assistants
    /\ r.api = "homework" => r.id \in Homeworks
    /\ r.api \in {"problem", "record"} =>
          /\ r.id \in Homeworks \X Problems
          /\ lists[r.load].homeworks[r.id[1]] # None
    /\ r.api = "record" /\ ~stranger => r.user = TRUE

LessonRequests ==
    /\ hist # <<>> /\ (~others => hist = <<FirstDb>>)
    /\ lists \in [1..MaxLoads -> Lists] /\ \A n \in 1..MaxLoads : n > loads => lists[n] = S!Empty
    /\ \A r \in net : Request(r)

(* A card of the panel that is selected.                                   *)
CardFits(c, h) ==
    c # None => /\ c.row = FirstDb.homeworks[h] /\ S!Fits(c.row, selected)
                /\ \A p \in Problems \ c.row.problems : c.problems[p] = None

(* No other request is about the same thing.                               *)
Sole(r) ==
    /\ r.load = loads
    /\ r.api = "course" => lists[loads] = S!Empty /\ \A q \in net : q = r
    /\ r.api = "homework" => FirstDb.homeworks[r.id] # None /\
          \A q \in net : /\ q.api = "homework" /\ q.id = r.id => q = r
                         /\ q.api \in {"problem", "record"} => q.id[1] # r.id
    /\ r.api \in {"problem", "record"} =>
          /\ r.id[2] \in FirstDb.homeworks[r.id[1]].problems
          /\ \A q \in net : q.api \in {"problem", "record"} /\ q.id = r.id => q = r
    /\ r.api = "record" => lists[loads].homeworks[r.id[1]].problems[r.id[2]] = 0
    /\ r.api = "notice" => r.id \in FirstDb.notices
    /\ r.api = "user" => r.id \in FirstDb.tas

(* There is one load at a time, and one request about each thing.          *)
OneLoad ==
    ~overlapped /\ ~others =>
        /\ ref \in {0, loads} /\ \A r \in net : Sole(r)
        /\ \A h \in Homeworks : CardFits(lists[loads].homeworks[h], h) /\ CardFits(view[h], h)

Calm == ~overlapped /\ ~lost /\ ~others /\ ~stranger

Missing(api, id) == \E r \in net : r.api = api /\ r.id = id

(* What is to be shown was shown, or an answer is missing.                 *)
TextsLoad ==
    Calm =>
        /\ infoitems \subseteq FirstDb.notices /\ course_info \subseteq FirstDb.tas
        /\ lists[loads].notices # {} => infoitems = lists[loads].notices
        /\ lists[loads].tas # {} => course_info = lists[loads].tas
        /\ \/ \E r \in net : r.api = "course"
           \/ /\ selected = "5" => \A n \in FirstDb.notices :
                    n \in lists[loads].notices \/ Missing("notice", n)
              /\ selected = "6" => \A u \in FirstDb.tas :
                    u \in lists[loads].tas \/ Missing("user", u)

(* A homework all of whose answers came is shown as it is.                 *)
Waits(h) ==
    \/ Missing("homework", h)
    \/ \E p \in Problems : Missing("problem", <<h, p>>) \/ Missing("record", <<h, p>>)

(* Of a homework that is to be shown: it has a card or is asked for, what  *)
(* the card says of a problem is stored or asked for, and when nothing of  *)
(* it is asked for, the card is rendered.                                  *)
Loading(h) ==
    LET c == lists[loads].homeworks[h] IN
    /\ c = None => Missing("homework", h)
    /\ c # None => \A p \in FirstDb.homeworks[h].problems :
           \/ c.problems[p] = FirstDb.turned[<<h, p>>]
           \/ Missing("problem", <<h, p>>) \/ Missing("record", <<h, p>>)
    /\ c # None /\ FirstDb.homeworks[h].problems # {} /\ ~Waits(h) => ref = loads /\ view[h] = c

ToShow(h) == FirstDb.homeworks[h] # None /\ S!Fits(FirstDb.homeworks[h], selected)

CardsLoad ==
    Calm => (\E r \in net : r.api = "course") \/ \A h \in Homeworks : ToShow(h) => Loading(h)

LessonInv ==
    S!TypeOK /\ LessonRequests /\ OneLoad /\ TextsLoad /\ CardsLoad

(* Whatever loads overlap: the list of the last click, and what is shown   *)
(* of it or of none, belongs to the panel that is selected.                *)
Fitting(c) == c # None => S!Fits(c.row, selected)
PanelFits ==
    ~others => /\ \A h \in Homeworks : Fitting(lists[loads].homeworks[h])
               /\ ref \in {0, loads} => \A h \in Homeworks : Fitting(view[h])

(* The page that is shown is in its invariant.                             *)
Inv ==
    /\ which \in {"problem", "student"}
    /\ which = "problem" => ProblemInv
    /\ which = "student" => LessonInv /\ PanelFits

-----------------------------------------------------------------------------
(* What is assumed of the constants of the page of a problem.              *)
LEMMA ProblemConstants ==
    /\ Limit \in [TestKinds -> Nat] /\ FirstResults \in P!Tables
    /\ TestKinds \subseteq {"1", "2", "3"}
BY ConstantsFit DEF P!PageAssumption

(* The page begins in its invariant.                                       *)
LEMMA ProblemBegins == ASSUME P!Init PROVE ProblemInv
<1>1. hist = <<FirstResults>> /\ hist \in Seq(P!Tables) /\ Len(hist) = 1 /\ hist # <<>> /\ DOMAIN hist = 1..1
  BY ProblemConstants DEF P!Init
<1>2. P!TypeOK
  <2>1. /\ html \in BOOLEAN /\ public \in BOOLEAN /\ closed \in BOOLEAN /\ known \in BOOLEAN
        /\ reupload = FALSE /\ crashed = FALSE /\ overlapped = FALSE /\ lost = FALSE /\ crossed = FALSE
    BY DEF P!Init
  <2>2. {html, public, closed, known, reupload, crashed, overlapped, lost, crossed} \subseteq BOOLEAN
    BY <2>1
  <2>3. now \in 0..1 /\ asked \in 0..Len(hist) /\ shown \in [P!Parts -> 0..Len(hist)] /\ opened = {"1"}
        /\ submit_type = "4" /\ file = None
    BY <1>1 DEF P!Init
  <2>4. \A r \in net : r.api \in P!Reads \cup P!Windows \cup {"submit", "upload"}
    BY DEF P!Init, P!Reads
  <2> QED BY <1>1, <2>2, <2>3, <2>4 DEF P!TypeOK
<1>3. Growing
  <2>1. \A k \in TestKinds : hist[1].used[k] \in Nat
    BY <1>1, ProblemConstants DEF P!Tables
  <2> QED BY <1>1, <2>1 DEF Growing
<1>4. ProblemRequests
  <2>1. dialog \in [P!Windows -> Dialogs]
    BY DEF P!Init, Dialogs
  <2>2. \A r \in net : r.api \in P!Reads /\ r.at = 1
    BY DEF P!Init, P!Reads
  <2>3. public => ~closed
    BY DEF P!Init
  <2> QED BY <1>1, <2>1, <2>2, <2>3 DEF P!Init, ProblemRequests, P!Reads, P!Parts, P!Windows
<1>5. ResultsAsked
  <2>1. CASE known /\ ~public
    <3>1. ASSUME NEW part \in P!Parts PROVE \E r \in net : r.api = part
      <4>1. [api |-> part, at |-> 1, n |-> 1] \in net
        BY <2>1 DEF P!Init
      <4> QED BY <4>1
    <3>2. \A r \in net : r.at = 1
      BY DEF P!Init
    <3> QED BY <2>1, <3>1, <3>2 DEF P!Init, ResultsAsked
  <2>2. CASE ~(known /\ ~public)
    <3>1. \A r \in net : r.api \notin P!Parts
      BY <2>2 DEF P!Init, P!Parts
    <3> QED BY <2>2, <3>1 DEF P!Init, ResultsAsked
  <2> QED BY <2>1, <2>2
<1>6. WindowsAsked
  <2>1. \A r \in net : r.api \notin P!Windows
    BY DEF P!Init, P!Windows, P!Parts
  <2>2. \A w \in P!Windows : dialog[w].open = FALSE
    BY DEF P!Init
  <2> QED BY <2>1, <2>2 DEF WindowsAsked
<1>7. P!TurnInsAllowed
  BY DEF P!Init, P!TurnInsAllowed, P!Parts
<1> QED BY <1>2, <1>3, <1>4, <1>5, <1>6, <1>7 DEF ProblemInv

(* A later state of the tables has at least what an earlier one had.       *)
LEMMA ResultsGrow ==
    ASSUME ProblemInv, NEW d \in P!Tables, P!Changed(d),
           \A k \in TestKinds : P!Db.used[k] <= d.used[k],
           P!Db.tests <= d.tests, P!Db.turned <= d.turned
    PROVE  /\ hist' \in Seq(P!Tables) /\ hist' # <<>> /\ Len(hist') = Len(hist) + 1
           /\ \A v \in 1..Len(hist) : hist'[v] = hist[v]
           /\ Growing'
<1>1. hist \in Seq(P!Tables) /\ hist # <<>> /\ Growing /\ Len(hist) \in Nat \ {0} /\ DOMAIN hist = 1..Len(hist)
  <2>1. hist \in Seq(P!Tables) /\ hist # <<>> /\ Growing
    <3>1. P!TypeOK /\ ProblemRequests /\ Growing
      BY DEF ProblemInv
    <3>2. hist \in Seq(P!Tables)
      BY <3>1 DEF P!TypeOK
    <3>3. hist # <<>>
      BY <3>1 DEF ProblemRequests
    <3> QED BY <3>1, <3>2, <3>3
  <2> QED BY <2>1
<1>2. /\ hist' \in Seq(P!Tables) /\ hist' # <<>> /\ Len(hist') = Len(hist) + 1
      /\ \A v \in 1..Len(hist) : hist'[v] = hist[v]
      /\ hist'[Len(hist) + 1] = d /\ DOMAIN hist' = 1..(Len(hist) + 1)
  BY <1>1 DEF P!Changed
<1>3. P!Db \in P!Tables /\ \A v \in DOMAIN hist : hist[v] \in P!Tables
  BY <1>1 DEF P!Db
<1>4. ASSUME NEW v \in DOMAIN hist, NEW k \in TestKinds PROVE hist[v].used[k] <= d.used[k]
  <2>1. hist[v].used[k] <= P!Db.used[k]
    BY <1>1, <1>3 DEF Growing, P!Db
  <2>2. hist[v].used[k] \in Nat /\ P!Db.used[k] \in Nat /\ d.used[k] \in Nat
    BY <1>3 DEF P!Tables
  <2> QED BY <2>1, <2>2
<1>5. ASSUME NEW v \in DOMAIN hist, NEW part \in P!Parts, P!Has(part, hist[v]) PROVE P!Has(part, d)
  <2>1. P!Has(part, P!Db)
    BY <1>1, <1>5 DEF Growing, P!Db
  <2>2. P!Db.tests \in Nat /\ P!Db.turned \in Nat /\ d.tests \in Nat /\ d.turned \in Nat
    BY <1>3 DEF P!Tables
  <2> QED BY <2>1, <2>2 DEF P!Has
<1>6. \A k \in TestKinds : d.used[k] \in Nat
  BY DEF P!Tables
<1>7. ASSUME NEW v \in DOMAIN hist', NEW w \in DOMAIN hist', v <= w
      PROVE  /\ \A k \in TestKinds : hist'[v].used[k] <= hist'[w].used[k]
             /\ \A part \in P!Parts : P!Has(part, hist'[v]) => P!Has(part, hist'[w])
  <2>1. CASE w \in DOMAIN hist
    <3>1. v \in DOMAIN hist /\ hist'[v] = hist[v] /\ hist'[w] = hist[w]
      BY <1>1, <1>2, <1>7, <2>1
    <3> QED BY <1>1, <1>7, <2>1, <3>1 DEF Growing
  <2>2. CASE w = Len(hist) + 1
    <3>1. CASE v \in DOMAIN hist
      <4>1. hist'[v] = hist[v] /\ hist'[w] = d
        BY <1>1, <1>2, <2>2, <3>1
      <4> QED BY <1>4, <1>5, <3>1, <4>1
    <3>2. CASE v = w
      BY <1>2, <1>6, <2>2, <3>2
    <3> QED BY <1>1, <1>2, <1>7, <2>2, <3>1, <3>2
  <2> QED BY <1>1, <1>2, <2>1, <2>2
<1>8. Growing'
  BY <1>7 DEF Growing, P!Has
<1> QED BY <1>2, <1>8

(* A step that leaves the tables, the results and the windows alone and    *)
(* adds no question.                                                       *)
LEMMA ProblemKept ==
    ASSUME ProblemInv, UNCHANGED <<public, closed, hist, shown, asked, overlapped, dialog, crossed>>,
           lost => lost', \A r \in net' : r \in net \/ r.api \in {"submit", "upload"},
           ~lost' => \A r \in net : r.api \in P!Parts \cup P!Windows => r \in net'
    PROVE  Growing' /\ ResultsAsked' /\ WindowsAsked'
<1> USE DEF ProblemInv
<1>1. Growing'
  BY DEF Growing, P!Has
<1>2. ResultsAsked'
  <2>1. \A r \in net' : r.api \in P!Parts => r \in net
    BY DEF P!Parts
  <2>2. ASSUME ~overlapped, asked > 0, ~lost', NEW part \in {q \in P!Parts : public => q = "records"}
        PROVE  (\E r \in net' : r.api = part) \/ (shown[part] < asked => ~P!Has(part, hist[asked]))
    BY <2>2 DEF ResultsAsked
  <2> QED BY <2>1, <2>2 DEF ResultsAsked, P!Has
<1>3. WindowsAsked'
  <2>1. \A r \in net' : r.api \in P!Windows => r \in net
    BY DEF P!Windows
  <2> QED BY <2>1 DEF WindowsAsked
<1> QED BY <1>1, <1>2, <1>3

(* The types that the invariant gives.                                     *)
LEMMA ProblemTyped ==
    ASSUME ProblemInv
    PROVE  /\ html \in BOOLEAN /\ public \in BOOLEAN /\ closed \in BOOLEAN /\ known \in BOOLEAN
           /\ reupload \in BOOLEAN /\ crashed \in BOOLEAN /\ overlapped \in BOOLEAN /\ lost \in BOOLEAN
           /\ crossed \in BOOLEAN
           /\ hist \in Seq(P!Tables) /\ hist # <<>> /\ now \in 0..1 /\ asked \in 0..Len(hist)
           /\ shown \in [P!Parts -> 0..Len(hist)] /\ opened \subseteq {"1", "2", "3"}
           /\ submit_type \in TestKinds \cup {"4"} /\ file \in {None, "uploading", "ready", "undefined"}
           /\ Len(hist) \in Nat \ {0} /\ DOMAIN hist = 1..Len(hist) /\ P!Db \in P!Tables
           /\ (public => ~closed) /\ dialog \in [P!Windows -> Dialogs]
<1>1. P!TypeOK /\ ProblemRequests
  BY DEF ProblemInv
<1>2. hist \in Seq(P!Tables) /\ hist # <<>>
  BY <1>1 DEF P!TypeOK, ProblemRequests
<1>3. Len(hist) \in Nat \ {0} /\ DOMAIN hist = 1..Len(hist) /\ P!Db \in P!Tables
  BY <1>2 DEF P!Db
<1>4. {html, public, closed, known, reupload, crashed, overlapped, lost, crossed} \subseteq BOOLEAN
  BY <1>1 DEF P!TypeOK
<1>5. /\ html \in BOOLEAN /\ public \in BOOLEAN /\ closed \in BOOLEAN /\ known \in BOOLEAN
      /\ reupload \in BOOLEAN /\ crashed \in BOOLEAN /\ overlapped \in BOOLEAN /\ lost \in BOOLEAN
      /\ crossed \in BOOLEAN
  BY <1>4
<1>6. /\ now \in 0..1 /\ asked \in 0..Len(hist)
      /\ shown \in [P!Parts -> 0..Len(hist)] /\ opened \subseteq {"1", "2", "3"}
      /\ submit_type \in TestKinds \cup {"4"} /\ file \in {None, "uploading", "ready", "undefined"}
  BY <1>1 DEF P!TypeOK
<1>7. (public => ~closed) /\ dialog \in [P!Windows -> Dialogs]
  BY <1>1 DEF ProblemRequests
<1> QED BY <1>2, <1>3, <1>5, <1>6, <1>7

(* An answer that brings nothing to the results, or no answer at all.      *)
LEMMA ProblemAnswers ==
    ASSUME ProblemInv,
           \/ \E r \in net : P!Loaded(r) \/ P!Lose(r) \/ P!Uploaded(r)
           \/ P!Deadline
    PROVE  ProblemInv'
<1>1. /\ UNCHANGED <<html, public, closed, hist, known, shown, opened, submit_type, reupload, confirm,
                     dialog, asked, overlapped, crossed>>
      /\ \A r \in net' : r \in net
  BY DEF P!Loaded, P!Lose, P!Uploaded, P!Deadline, P!mode, P!forms, P!ghosts, P!Still, P!Quiet
<1>2. /\ now' \in 0..1 /\ file' \in {None, "uploading", "ready", "undefined"}
      /\ crashed' \in BOOLEAN /\ lost' \in BOOLEAN
  <2>1. now' \in 0..1 /\ file' \in {None, "uploading", "ready", "undefined"}
    BY ProblemTyped DEF P!Loaded, P!Lose, P!Uploaded, P!Deadline, P!forms, P!ghosts, P!Still, P!Quiet
  <2>2. crashed' \in BOOLEAN
    BY ProblemTyped DEF P!Loaded, P!Lose, P!Uploaded, P!Deadline, P!Still, P!Render
  <2>3. ASSUME NEW r \in net, P!Lose(r) PROVE lost' \in BOOLEAN
    BY <2>3 DEF P!Lose
  <2>4. lost' \in BOOLEAN
    BY <2>3, ProblemTyped DEF P!Loaded, P!Uploaded, P!Deadline, P!Still, P!ghosts
  <2> QED BY <2>1, <2>2, <2>4
<1>3. {html, public, closed, known, reupload, crashed, overlapped, lost, crossed}' \subseteq BOOLEAN
  BY <1>1, <1>2, ProblemTyped
<1>4. P!TypeOK'
  BY <1>1, <1>2, <1>3 DEF P!TypeOK, ProblemInv
<1>5. ProblemRequests'
  BY <1>1 DEF ProblemRequests, ProblemInv
<1>6. P!TurnInsAllowed'
  BY <1>1 DEF P!TurnInsAllowed, ProblemInv
<1>7. (lost => lost') /\ (~lost' => \A r \in net : r.api \in P!Parts \cup P!Windows => r \in net')
  <2>1. ASSUME NEW r \in net, P!Lose(r)
        PROVE  (lost => lost') /\ (~lost' => \A q \in net : q.api \in P!Parts \cup P!Windows => q \in net')
    <3>1. net' = net \ {r} /\ (lost' <=> lost \/ r.api \in P!Reads \cup P!Windows)
      BY <2>1 DEF P!Lose
    <3> QED BY <3>1 DEF P!Reads
  <2>2. ASSUME NEW r \in net, P!Loaded(r) \/ P!Uploaded(r)
        PROVE  lost' = lost /\ (\A q \in net : q.api \in P!Parts \cup P!Windows => q \in net')
    <3>1. net' = net \ {r} /\ lost' = lost /\ r.api \in {"query_problem", "query_homework", "upload"}
      BY <2>2 DEF P!Loaded, P!Uploaded, P!ghosts, P!Still
    <3> QED BY <3>1 DEF P!Parts, P!Windows
  <2>3. P!Deadline => lost' = lost /\ net' = net
    BY DEF P!Deadline, P!ghosts
  <2> QED BY <2>1, <2>2, <2>3
<1>8. Growing' /\ ResultsAsked' /\ WindowsAsked'
  BY <1>1, <1>7, ProblemKept
<1> QED BY <1>4, <1>5, <1>6, <1>8 DEF ProblemInv

(* A click that changes a form, sends a file or opens a tab.               *)
LEMMA ProblemChoices ==
    ASSUME ProblemInv,
           \/ \E k \in TestKinds \cup {"4"} : P!Choose(k)
           \/ P!Upload \/ P!ClickReupload
           \/ \E t \in {"2", "3"} : P!Tab(t) /\ ~(t = "3" /\ known)
    PROVE  ProblemInv'
<1>1. /\ UNCHANGED <<html, public, closed, hist, known, shown, now, confirm, dialog, asked, overlapped,
                     crossed, lost>>
      /\ \A r \in net' : r \in net \/ r.api = "upload"
      /\ \A r \in net : r.api \in P!Parts \cup P!Windows => r \in net'
  BY DEF P!Choose, P!Upload, P!ClickReupload, P!Tab, P!mode, P!forms, P!ghosts, P!Still, P!Quiet, P!Parts,
     P!Windows
<1>2. /\ file' \in {None, "uploading", "ready", "undefined"} /\ submit_type' \in TestKinds \cup {"4"}
      /\ opened' \subseteq {"1", "2", "3"} /\ reupload' \in BOOLEAN /\ crashed' \in BOOLEAN
  BY ProblemTyped DEF P!Choose, P!Upload, P!ClickReupload, P!Tab, P!forms, P!Still, P!Render
<1>3. {html, public, closed, known, reupload, crashed, overlapped, lost, crossed}' \subseteq BOOLEAN
  BY <1>1, <1>2, ProblemTyped
<1>4. P!TypeOK'
  BY <1>1, <1>2, <1>3 DEF P!TypeOK, ProblemInv
<1>5. ProblemRequests'
  BY <1>1 DEF ProblemRequests, ProblemInv, P!Parts, P!Windows
<1>6. P!TurnInsAllowed'
  BY <1>1 DEF P!TurnInsAllowed, ProblemInv
<1>7. Growing' /\ ResultsAsked' /\ WindowsAsked'
  BY <1>1, ProblemKept
<1> QED BY <1>4, <1>5, <1>6, <1>7 DEF ProblemInv

(* A test or a turn-in: asked about when it is late and that is known.     *)
LEMMA ProblemSends ==
    ASSUME ProblemInv, P!ClickSubmit \/ P!ClickSubmitHtml \/ \E yes \in BOOLEAN : P!Confirm(yes)
    PROVE  ProblemInv'
<1>1. /\ UNCHANGED <<html, public, closed, hist, known, shown, now, opened, submit_type, file, reupload,
                     dialog, asked, overlapped, crossed, crashed, lost>>
  BY DEF P!ClickSubmit, P!ClickSubmitHtml, P!Confirm, P!mode, P!ghosts, P!Still, P!Quiet
<1>2. PICK s : s = P!Submission
  OBVIOUS
<1>3. /\ s.api = "submit" /\ s.type = (IF html THEN "html" ELSE IF public THEN "0" ELSE submit_type)
      /\ "confirmed" \in DOMAIN s
  BY <1>2 DEF P!Submission
<1>4. /\ s.loaded <=> public \/ "query_homework" \in loaded
      /\ s.late <=> now = 1 /\ ~public
      /\ s.confirmed <=> confirm # None
  <2>1. s.loaded = (public \/ "query_homework" \in loaded)
    BY <1>2 DEF P!Submission
  <2>2. s.late = (now = 1 /\ ~public)
    BY <1>2 DEF P!Submission
  <2>3. s.confirmed = (confirm # None)
    BY <1>2 DEF P!Submission
  <2> QED BY <2>1, <2>2, <2>3
<1>5. s.type \in TestKinds \cup {"0", "4", "html"}
  BY <1>3, ProblemTyped
<1> DEFINE Fair(r) == r.type \in {"4", "html"} /\ r.loaded => ~closed /\ (r.late => r.confirmed)
           Ready(r) == r.api = "submit" /\ r.type \in TestKinds \cup {"0", "4", "html"} /\ Fair(r)
           Asked(r) == r.api = "submit" /\ r.type \in TestKinds \cup {"0", "4", "html"}
                         /\ "confirmed" \in DOMAIN r /\ ~closed
<1>6. ASSUME P!ClickSubmit \/ P!ClickSubmitHtml
      PROVE  \/ Ready(s) /\ net' = net \cup {s} /\ confirm' = confirm
             \/ Asked(s) /\ net' = net /\ confirm' = s
  <2>1. ~P!Refused /\ confirm = None
    BY <1>6 DEF P!ClickSubmit, P!ClickSubmitHtml, P!AtForm, P!Free
  <2>2. CASE now = 1 /\ "query_homework" \in loaded /\ confirm' = s /\ net' = net
    BY <1>3, <1>5, <2>1, <2>2 DEF P!Refused
  <2>3. CASE ~(s.type \in {"4", "html"} /\ ~public /\ now = 1 /\ "query_homework" \in loaded)
                /\ net' = net \cup {s} /\ confirm' = confirm
    <3>1. s.loaded => ~closed
      BY <1>4, <2>1, ProblemTyped DEF P!Refused
    <3>2. s.type \in {"4", "html"} /\ s.loaded => ~s.late
      BY <1>4, <2>3
    <3> QED BY <1>3, <1>5, <2>3, <3>1, <3>2
  <2>4. CASE P!ClickSubmit
    <3>1. CASE submit_type = "4" /\ ~public /\ now = 1 /\ "query_homework" \in loaded
      BY <1>2, <2>2, <2>4, <3>1 DEF P!ClickSubmit
    <3>2. CASE ~(submit_type = "4" /\ ~public /\ now = 1 /\ "query_homework" \in loaded)
      <4>1. ~html /\ net' = net \cup {s} /\ confirm' = confirm
        BY <1>2, <2>4, <3>2 DEF P!ClickSubmit, P!Send
      <4>2. s.type \in {"4", "html"} /\ ~public => submit_type = "4"
        BY <1>3, <4>1, ProblemTyped, ProblemConstants
      <4> QED BY <2>3, <3>2, <4>1, <4>2
    <3> QED BY <3>1, <3>2
  <2>5. CASE P!ClickSubmitHtml
    BY <1>2, <2>2, <2>3, <2>5 DEF P!ClickSubmitHtml, P!Send
  <2> QED BY <1>6, <2>4, <2>5
<1>7. ASSUME NEW yes \in BOOLEAN, P!Confirm(yes)
      PROVE  confirm' = None /\ \E r : Ready(r) /\ (net' = net \/ net' = net \cup {r})
  <2>1. confirm # None /\ confirm' = None
    BY <1>7 DEF P!Confirm
  <2>2. Asked(confirm)
    BY <2>1 DEF ProblemInv, ProblemRequests
  <2>3. ~closed /\ (s.confirmed <=> TRUE)
    BY <1>4, <2>1, <2>2
  <2>4. Ready(s)
    BY <1>3, <1>5, <2>3
  <2>5. PICK c : c = [confirm EXCEPT !.confirmed = TRUE]
    OBVIOUS
  <2>6. c.confirmed = TRUE /\ c.api = "submit" /\ c.type = confirm.type
    BY <2>2, <2>5
  <2>7. Ready(c)
    BY <2>2, <2>3, <2>6
  <2>8. net' = net \/ net' = net \cup {s} \/ net' = net \cup {c}
    BY <1>2, <1>7, <2>5 DEF P!Confirm
  <2> QED BY <2>1, <2>4, <2>7, <2>8
<1>8. /\ \A r \in net' : r \in net \/ Ready(r)
      /\ \A r \in net : r \in net'
      /\ confirm' = None \/ confirm' = confirm \/ Asked(confirm')
  BY <1>6, <1>7
<1>9. P!TypeOK'
  <2>1. {html, public, closed, known, reupload, crashed, overlapped, lost, crossed}' \subseteq BOOLEAN
    BY <1>1, ProblemTyped
  <2>2. \A r \in net : r.api \in P!Reads \cup P!Windows \cup {"submit", "upload"}
    BY DEF ProblemInv, P!TypeOK
  <2>3. \A r \in net' : r.api \in P!Reads \cup P!Windows \cup {"submit", "upload"}
    BY <1>8, <2>2
  <2> QED BY <1>1, <2>1, <2>3, ProblemTyped DEF P!TypeOK
<1>10. ProblemRequests'
  BY <1>1, <1>8 DEF ProblemRequests, ProblemInv, P!Parts, P!Windows
<1>11. P!TurnInsAllowed'
  BY <1>1, <1>8 DEF P!TurnInsAllowed, ProblemInv
<1>12. Growing' /\ ResultsAsked' /\ WindowsAsked'
  BY <1>1, <1>8, ProblemKept
<1> QED BY <1>9, <1>10, <1>11, <1>12 DEF ProblemInv

(* The page asks for the results: all that it shows is older, and nobody   *)
(* else asks unless the questions overlap.                                 *)
LEMMA ProblemAsks ==
    ASSUME ProblemInv, P!Restored \/ \E t \in {"2", "3"} : P!Tab(t) /\ t = "3" /\ known
    PROVE  ProblemInv'
<1>1. /\ UNCHANGED <<html, public, closed, hist, shown, now, dialog, crossed, lost, confirm, submit_type,
                     file, reupload>>
      /\ P!update_record /\ known' = TRUE
  BY DEF P!Restored, P!Tab, P!mode, P!forms, P!Quiet
<1>2. opened' \subseteq {"1", "2", "3"} /\ crashed' \in BOOLEAN
  BY ProblemTyped DEF P!Restored, P!Tab, P!Render
<1>3. asked' = Len(hist) /\ (overlapped' <=> overlapped \/ \E r \in net : r.api \in P!Parts)
  BY <1>1 DEF P!update_record
<1>4. /\ \A r \in net' : r \in net \/ (r.api \in P!Parts /\ r.at = Len(hist))
      /\ \A r \in net : r \in net'
      /\ \A part \in {q \in P!Parts : public => q = "records"} : \E r \in net' : r.api = part
  <2>1. net' = net \cup P!Queries
    BY <1>1 DEF P!update_record
  <2>2. \A r \in P!Queries : r.api \in P!Parts /\ r.at = Len(hist)
    BY <1>1 DEF P!Queries, P!Ask, P!Parts
  <2>3. ASSUME NEW part \in {q \in P!Parts : public => q = "records"}
        PROVE  \E r \in P!Queries : r.api = part
    <3>1. P!Ask(part) \in P!Queries
      BY DEF P!Queries, P!Parts
    <3> QED BY <3>1 DEF P!Ask
  <2> QED BY <2>1, <2>2, <2>3
<1>5. P!TypeOK'
  <2>1. {html, public, closed, known, reupload, crashed, overlapped, lost, crossed}' \subseteq BOOLEAN
    BY <1>1, <1>2, <1>3, ProblemTyped
  <2>2. \A r \in net : r.api \in P!Reads \cup P!Windows \cup {"submit", "upload"}
    BY DEF ProblemInv, P!TypeOK
  <2>3. \A r \in net' : r.api \in P!Reads \cup P!Windows \cup {"submit", "upload"}
    BY <1>4, <2>2 DEF P!Reads
  <2>4. asked' \in 0..Len(hist)
    BY <1>3, ProblemTyped
  <2> QED BY <1>1, <1>2, <2>1, <2>3, <2>4, ProblemTyped DEF P!TypeOK
<1>6. ProblemRequests'
  BY <1>1, <1>4, ProblemTyped DEF ProblemRequests, ProblemInv, P!Parts, P!Windows
<1>7. Growing'
  BY <1>1 DEF ProblemInv, Growing, P!Has
<1>8. ResultsAsked'
  BY <1>1, <1>3, <1>4 DEF ResultsAsked
<1>9. WindowsAsked'
  <2>1. \A r \in net' : r.api \in P!Windows => r \in net
    BY <1>4 DEF P!Windows, P!Parts
  <2> QED BY <1>1, <1>4, <2>1 DEF ProblemInv, WindowsAsked
<1>10. P!TurnInsAllowed'
  BY <1>1, <1>4 DEF ProblemInv, P!TurnInsAllowed, P!Parts
<1> QED BY <1>5, <1>6, <1>7, <1>8, <1>9, <1>10 DEF ProblemInv

(* An answer to one of the questions.                                      *)
LEMMA ProblemShows == ASSUME ProblemInv, NEW r \in net, P!PartAnswer(r) PROVE ProblemInv'
<1>1. /\ UNCHANGED <<html, public, closed, hist, now, known, opened, submit_type, file, reupload, confirm,
                     dialog, asked, overlapped, lost, crossed>>
      /\ net' = net \ {r} /\ r.api \in P!Parts
  BY DEF P!PartAnswer, P!mode, P!forms, P!ghosts
<1>2. PICK v \in r.at..Len(hist) :
          shown' = IF P!Has(r.api, hist[v]) THEN [shown EXCEPT ![r.api] = v] ELSE shown
  BY DEF P!PartAnswer
<1>3. v \in 1..Len(hist) /\ r.at \in 1..Len(hist) /\ r.at <= v
  <2>1. r.at \in 1..Len(hist)
    BY <1>1 DEF ProblemInv, ProblemRequests
  <2> QED BY <1>2, <2>1, ProblemTyped
<1>4. P!TypeOK'
  <2>1. crashed' \in BOOLEAN
    BY DEF P!PartAnswer, P!Render
  <2>2. {html, public, closed, known, reupload, crashed, overlapped, lost, crossed}' \subseteq BOOLEAN
    BY <1>1, <2>1, ProblemTyped
  <2>3. shown' \in [P!Parts -> 0..Len(hist)]
    BY <1>1, <1>2, <1>3, ProblemTyped
  <2> QED BY <1>1, <2>2, <2>3 DEF P!TypeOK, ProblemInv
<1>5. ProblemRequests' /\ Growing' /\ P!TurnInsAllowed'
  BY <1>1 DEF ProblemInv, ProblemRequests, Growing, P!Has, P!TurnInsAllowed
<1>6. WindowsAsked'
  BY <1>1 DEF ProblemInv, WindowsAsked, P!Parts, P!Windows
<1>7. ResultsAsked'
  <2>1. ASSUME ~overlapped, asked > 0, ~lost, NEW part \in {q \in P!Parts : public => q = "records"},
               shown'[part] < asked, \A q \in net' : q.api # part
        PROVE  ~P!Has(part, hist[asked])
    <3>1. CASE part = r.api
      <4>1. r.at = asked
        BY <1>1, <2>1 DEF ProblemInv, ResultsAsked
      <4>2. ~P!Has(part, hist[v])
        BY <1>2, <1>3, <2>1, <3>1, <4>1, ProblemTyped
      <4> QED BY <1>3, <2>1, <4>1, <4>2, ProblemTyped DEF ProblemInv, Growing
    <3>2. CASE part # r.api
      <4>1. shown'[part] = shown[part] /\ \A q \in net : q.api # part
        BY <1>1, <1>2, <2>1, <3>2, ProblemTyped
      <4> QED BY <2>1, <4>1 DEF ProblemInv, ResultsAsked
    <3> QED BY <3>1, <3>2
  <2>2. ~overlapped => \A q \in net' : q.api \in P!Parts => q.at = asked
    BY <1>1 DEF ProblemInv, ResultsAsked
  <2> QED BY <1>1, <2>1, <2>2 DEF ResultsAsked, P!Has
<1> QED BY <1>4, <1>5, <1>6, <1>7 DEF ProblemInv

(* The windows.                                                            *)
LEMMA ProblemWindows ==
    ASSUME ProblemInv,
           \/ \E w \in P!Windows : P!Close(w) \/ \E x \in P!Listed : P!ClickWindow(w, x)
           \/ \E r \in net : P!WindowAnswer(r)
    PROVE  ProblemInv'
<1>1. /\ UNCHANGED <<html, public, closed, hist, now, known, shown, opened, submit_type, file, reupload,
                     confirm, crashed, asked, overlapped, lost>>
  BY DEF P!Close, P!ClickWindow, P!WindowAnswer, P!mode, P!forms, P!ghosts, P!Quiet
<1> DEFINE Fit == /\ dialog' \in [P!Windows -> Dialogs] /\ crossed' \in BOOLEAN /\ WindowsAsked'
                  /\ \A r \in net' : r \in net \/ (r.api \in P!Windows /\ r.id \in Links)
                  /\ \A r \in net : r.api \in P!Parts => r \in net'
<1>2. ASSUME NEW w \in P!Windows, P!Close(w) PROVE Fit
  <2>1. dialog' = [dialog EXCEPT ![w].open = FALSE] /\ UNCHANGED <<net, crossed, lost>>
    BY <1>2 DEF P!Close, P!ghosts
  <2>2. PICK d \in Dialogs : d = [dialog[w] EXCEPT !.open = FALSE]
    BY ProblemTyped DEF Dialogs
  <2>3. dialog' = [dialog EXCEPT ![w] = d] /\ d.open = FALSE /\ d.asked = dialog[w].asked
    BY <2>1, <2>2, ProblemTyped DEF Dialogs
  <2>4. dialog' \in [P!Windows -> Dialogs]
    BY <2>3, ProblemTyped
  <2>5. WindowsAsked'
    BY <2>1, <2>3, ProblemTyped DEF ProblemInv, WindowsAsked
  <2> QED BY <2>1, <2>4, <2>5, ProblemTyped
<1>3. ASSUME NEW w \in P!Windows, NEW x \in P!Listed, P!ClickWindow(w, x) PROVE Fit
  <2>1. /\ dialog' = [dialog EXCEPT ![w].asked = x, ![w].open = (w = "src" /\ x[1] = "test")]
        /\ crossed' <=> crossed \/ \E r \in net : r.api = w
        /\ lost' = lost
    BY <1>3 DEF P!ClickWindow
  <2>2. PICK q : q = [api |-> w, id |-> x, n |-> clicks]
    OBVIOUS
  <2>3. q.api = w /\ q.id = x
    BY <2>2
  <2>4. net' = net \cup {q}
    <3>1. net' = net \cup {[api |-> w, id |-> x, n |-> clicks]}
      BY <1>3 DEF P!ClickWindow, P!Send
    <3> QED BY <2>2, <3>1
  <2>5. x \in Links
    <3>1. \A v \in 1..Len(hist) : hist[v].tests \in Nat /\ hist[v].turned \in Nat
      <4>1. \A v \in 1..Len(hist) : hist[v] \in P!Tables
        BY ProblemTyped
      <4> QED BY <4>1 DEF P!Tables
    <3>2. shown["records"] # 0 => hist[shown["records"]].tests \in Nat
      BY <3>1, ProblemTyped DEF P!Parts
    <3>3. shown["turn_in"] # 0 => hist[shown["turn_in"]].turned \in Nat
      BY <3>1, ProblemTyped DEF P!Parts
    <3>4. x \in {<<"test", i>> : i \in Nat} \/ x \in {<<"turn_in", i>> : i \in Nat}
      BY <3>2, <3>3 DEF P!Listed
    <3> QED BY <3>4 DEF Links
  <2>6. PICK d : d = [dialog[w] EXCEPT !.asked = x, !.open = (w = "src" /\ x[1] = "test")]
    OBVIOUS
  <2>7. d \in Dialogs /\ d.asked = x
    BY <2>5, <2>6, ProblemTyped DEF Dialogs
  <2>8. dialog' = [dialog EXCEPT ![w] = d]
    BY <2>1, <2>6, ProblemTyped DEF Dialogs
  <2>9. dialog' \in [P!Windows -> Dialogs] /\ crossed' \in BOOLEAN
    BY <2>1, <2>7, <2>8, ProblemTyped
  <2>10. WindowsAsked'
    <3>1. ASSUME ~crossed', ~lost, NEW u \in P!Windows
          PROVE  /\ \A r \in net' : r.api = u => r.id = dialog'[u].asked
                 /\ dialog'[u].open /\ (\A r \in net' : r.api # u) => dialog'[u].text = dialog'[u].asked
      <4>1. CASE u = w
        BY <2>1, <2>3, <2>4, <2>7, <2>8, <3>1, <4>1, ProblemTyped
      <4>2. CASE u # w
        <5>1. dialog'[u] = dialog[u] /\ \A r \in net' : r.api = u => r \in net
          BY <2>3, <2>4, <2>8, <3>1, <4>2, ProblemTyped
        <5> QED BY <2>1, <2>4, <3>1, <5>1 DEF ProblemInv, WindowsAsked
      <4> QED BY <4>1, <4>2
    <3> QED BY <2>1, <3>1 DEF WindowsAsked
  <2> QED BY <2>3, <2>4, <2>5, <2>9, <2>10
<1>4. ASSUME NEW r \in net, P!WindowAnswer(r) PROVE Fit
  <2>1. /\ dialog' = [dialog EXCEPT ![r.api].text = r.id, ![r.api].open = @ \/ r.api = "info" \/ r.id[1] = "turn_in"]
        /\ UNCHANGED <<crossed, lost>> /\ net' = net \ {r} /\ r.api \in P!Windows
    BY <1>4 DEF P!WindowAnswer, P!ghosts
  <2>2. r.id \in Links
    BY <2>1 DEF ProblemInv, ProblemRequests
  <2>3. PICK d : d = [dialog[r.api] EXCEPT !.text = r.id, !.open = (dialog[r.api].open \/ r.api = "info" \/ r.id[1] = "turn_in")]
    OBVIOUS
  <2>4. d \in Dialogs /\ d.text = r.id /\ d.asked = dialog[r.api].asked
    BY <2>1, <2>2, <2>3, ProblemTyped DEF Dialogs
  <2>5. dialog' = [dialog EXCEPT ![r.api] = d]
    BY <2>1, <2>3, ProblemTyped DEF Dialogs
  <2>6. dialog' \in [P!Windows -> Dialogs]
    BY <2>1, <2>4, <2>5, ProblemTyped
  <2>7. WindowsAsked'
    <3>1. ASSUME ~crossed, ~lost, NEW u \in P!Windows
          PROVE  /\ \A q \in net' : q.api = u => q.id = dialog'[u].asked
                 /\ dialog'[u].open /\ (\A q \in net' : q.api # u) => dialog'[u].text = dialog'[u].asked
      <4>1. CASE u = r.api
        BY <2>1, <2>4, <2>5, <3>1, <4>1, ProblemTyped DEF ProblemInv, WindowsAsked
      <4>2. CASE u # r.api
        <5>1. dialog'[u] = dialog[u] /\ \A q \in net : q.api = u => q \in net'
          BY <2>1, <2>5, <3>1, <4>2, ProblemTyped
        <5> QED BY <2>1, <3>1, <5>1 DEF ProblemInv, WindowsAsked
      <4> QED BY <4>1, <4>2
    <3> QED BY <2>1, <3>1 DEF WindowsAsked
  <2>8. \A q \in net : q.api \in P!Parts => q \in net'
    BY <2>1 DEF P!Parts, P!Windows
  <2> QED BY <2>1, <2>6, <2>7, <2>8, ProblemTyped
<1>5. Fit
  BY <1>2, <1>3, <1>4
<1> HIDE DEF Fit
<1>6. P!TypeOK'
  <2>1. {html, public, closed, known, reupload, crashed, overlapped, lost, crossed}' \subseteq BOOLEAN
    BY <1>1, <1>5, ProblemTyped DEF Fit
  <2>2. \A r \in net : r.api \in P!Reads \cup P!Windows \cup {"submit", "upload"}
    BY DEF ProblemInv, P!TypeOK
  <2>3. \A r \in net' : r.api \in P!Reads \cup P!Windows \cup {"submit", "upload"}
    BY <1>5, <2>2 DEF Fit
  <2> QED BY <1>1, <2>1, <2>3, ProblemTyped DEF P!TypeOK
<1>7. ProblemRequests'
  BY <1>1, <1>5 DEF Fit, ProblemRequests, ProblemInv, P!Parts, P!Windows
<1>8. Growing'
  BY <1>1 DEF ProblemInv, Growing, P!Has
<1>9. P!TurnInsAllowed'
  BY <1>1, <1>5 DEF Fit, ProblemInv, P!TurnInsAllowed, P!Windows
<1>10. ResultsAsked'
  <2>1. \A r \in net' : r.api \in P!Parts => r \in net
    BY <1>5 DEF Fit, P!Windows, P!Parts
  <2>2. \A r \in net : r.api \in P!Parts => r \in net'
    BY <1>5 DEF Fit
  <2>3. ASSUME ~overlapped, asked > 0, ~lost, NEW part \in {q \in P!Parts : public => q = "records"}
        PROVE  (\E r \in net' : r.api = part) \/ (shown[part] < asked => ~P!Has(part, hist[asked]))
    BY <2>2, <2>3 DEF ProblemInv, ResultsAsked
  <2> QED BY <1>1, <2>1, <2>3 DEF ProblemInv, ResultsAsked, P!Has
<1> QED BY <1>5, <1>6, <1>7, <1>8, <1>9, <1>10 DEF Fit, ProblemInv

(* The tables change: what is shown becomes older.                         *)
LEMMA ProblemBackend ==
    ASSUME ProblemInv, P!Judge \/ \E r \in net : P!Handle(r)
    PROVE  ProblemInv'
<1>1. /\ UNCHANGED <<html, public, closed, now, known, shown, opened, submit_type, file, reupload, confirm,
                     dialog, crashed, asked, overlapped, lost, crossed>>
      /\ \A r \in net' : r \in net
      /\ \A r \in net : r.api # "submit" => r \in net'
  BY DEF P!Judge, P!Handle, P!mode, P!forms, P!ghosts
<1> DEFINE Grown == /\ hist' \in Seq(P!Tables) /\ hist' # <<>> /\ Len(hist') \in {Len(hist), Len(hist) + 1}
                    /\ \A v \in 1..Len(hist) : hist'[v] = hist[v]
                    /\ Growing'
<1>2. ASSUME hist' = hist PROVE Grown
  <2>1. Growing'
    BY <1>2 DEF ProblemInv, Growing, P!Has
  <2> QED BY <1>2, <2>1, ProblemTyped
<1>3. P!Db.used \in [TestKinds -> Nat] /\ P!Db.tests \in Nat /\ P!Db.turned \in Nat /\ P!Db.judged \in BOOLEAN
  BY ProblemTyped DEF P!Tables
<1>4. ASSUME NEW d \in P!Tables, P!Changed(d), d.tests \in {P!Db.tests, P!Db.tests + 1},
             d.turned \in {P!Db.turned, P!Db.turned + 1},
             \A k \in TestKinds : d.used[k] \in {P!Db.used[k], P!Db.used[k] + 1}
      PROVE  Grown
  <2>1. P!Db.tests <= d.tests /\ P!Db.turned <= d.turned /\ \A k \in TestKinds : P!Db.used[k] <= d.used[k]
    BY <1>3, <1>4
  <2> QED BY <1>4, <2>1, ResultsGrow
<1> DEFINE Turned == [P!Db EXCEPT !.turned = @ + 1, !.judged = FALSE]
           Tested == [P!Db EXCEPT !.tests = @ + 1]
           Paid(k) == [P!Db EXCEPT !.used[k] = @ + 1, !.tests = @ + 1]
           Judged == [P!Db EXCEPT !.judged = TRUE]
<1>5. P!Changed(Turned) => Grown
  <2>1. PICK e : e = P!Db
    OBVIOUS
  <2>2. e \in P!Tables /\ Turned = [e EXCEPT !.turned = e.turned + 1, !.judged = FALSE]
    BY <2>1, ProblemTyped
  <2>3. PICK b \in BOOLEAN : b = FALSE
    OBVIOUS
  <2>4. PICK d : d = [e EXCEPT !.turned = e.turned + 1, !.judged = b]
    OBVIOUS
  <2>5. d \in P!Tables /\ d.tests = e.tests /\ d.turned = e.turned + 1 /\ d.used = e.used
    <3>1. e.turned \in Nat
      BY <1>3, <2>1
    <3>2. PICK m \in Nat : m = e.turned + 1
      BY <3>1
    <3>3. d = [[e EXCEPT !.turned = m] EXCEPT !.judged = b]
      BY <2>4, <3>2
    <3>4. PICK g : g = [e EXCEPT !.turned = m]
      OBVIOUS
    <3>5. g \in P!Tables /\ g.tests = e.tests /\ g.turned = m /\ g.used = e.used
      BY <2>2, <3>2, <3>4 DEF P!Tables
    <3>6. d = [g EXCEPT !.judged = b]
      BY <3>3, <3>4
    <3>7. d \in P!Tables /\ d.tests = g.tests /\ d.turned = g.turned /\ d.used = g.used
      BY <2>3, <3>5, <3>6 DEF P!Tables
    <3> QED BY <3>2, <3>5, <3>7
  <2>6. Turned = d
    BY <2>2, <2>3, <2>4
  <2> QED BY <1>4, <2>1, <2>5, <2>6
<1>6. P!Changed(Tested) => Grown
  <2>1. PICK e : e = P!Db
    OBVIOUS
  <2>2. e \in P!Tables /\ Tested = [e EXCEPT !.tests = e.tests + 1]
    BY <2>1, ProblemTyped
  <2>3. Tested \in P!Tables /\ Tested.tests = P!Db.tests + 1 /\ Tested.turned = P!Db.turned
        /\ Tested.used = P!Db.used
    BY <1>3, <2>1, <2>2 DEF P!Tables
  <2> QED BY <1>4, <2>3
<1>7. P!Changed(Judged) => Grown
  <2>1. Judged \in P!Tables /\ Judged.tests = P!Db.tests /\ Judged.turned = P!Db.turned
        /\ Judged.used = P!Db.used
    BY <1>3, ProblemTyped DEF P!Tables
  <2> QED BY <1>4, <2>1
<1>8. \A k \in TestKinds : P!Changed(Paid(k)) => Grown
  <2> SUFFICES ASSUME NEW k \in TestKinds, P!Changed(Paid(k)) PROVE Grown
    OBVIOUS
  <2>1. PICK f : f = [P!Db.used EXCEPT ![k] = @ + 1]
    OBVIOUS
  <2>2. f \in [TestKinds -> Nat] /\ \A j \in TestKinds : f[j] \in {P!Db.used[j], P!Db.used[j] + 1}
    BY <1>3, <2>1
  <2>3. PICK d : d = [P!Db EXCEPT !.used = f, !.tests = P!Db.tests + 1]
    OBVIOUS
  <2>4. d \in P!Tables /\ d.tests = P!Db.tests + 1 /\ d.turned = P!Db.turned /\ d.used = f
    <3>1. PICK e : e = P!Db
      OBVIOUS
    <3>2. e \in P!Tables /\ d = [e EXCEPT !.used = f, !.tests = e.tests + 1] /\ e.tests + 1 \in Nat
      BY <1>3, <2>3, <3>1, ProblemTyped
    <3>3. d \in P!Tables /\ d.tests = e.tests + 1 /\ d.turned = e.turned /\ d.used = f
      BY <2>2, <3>2 DEF P!Tables
    <3> QED BY <3>1, <3>3
  <2>5. Paid(k) = d
    BY <2>1, <2>3, ProblemTyped DEF P!Tables
  <2> QED BY <1>4, <2>2, <2>4, <2>5
<1>9. P!Judge => Grown
  BY <1>7 DEF P!Judge
<1>10. ASSUME NEW r \in net, P!Handle(r) PROVE Grown
  <2>1. r.type \in TestKinds \cup {"0", "4", "html"}
    BY <1>10 DEF P!Handle, ProblemInv, ProblemRequests
  <2>2. CASE r.type = "0"
    BY <1>6, <1>10, <2>2, ProblemConstants DEF P!Handle
  <2>3. CASE r.type \in TestKinds
    <3>1. P!Changed(Paid(r.type)) \/ hist' = hist
      BY <1>10, <2>3, ProblemConstants DEF P!Handle
    <3> QED BY <1>2, <1>8, <2>3, <3>1
  <2>4. CASE r.type = "4"
    BY <1>5, <1>10, <2>4, ProblemConstants DEF P!Handle
  <2>5. CASE r.type = "html"
    <3>1. P!Changed(Turned) \/ hist' = hist
      BY <1>10, <2>5, ProblemConstants DEF P!Handle
    <3> QED BY <1>2, <1>5, <3>1
  <2> QED BY <2>1, <2>2, <2>3, <2>4, <2>5
<1>11. Grown
  BY <1>9, <1>10
<1> HIDE DEF Grown, Turned, Tested, Paid, Judged
<1>12. /\ hist' \in Seq(P!Tables) /\ hist' # <<>> /\ Len(hist') \in {Len(hist), Len(hist) + 1}
       /\ \A v \in 1..Len(hist) : hist'[v] = hist[v]
       /\ Growing'
  BY <1>11 DEF Grown
<1>13. P!TypeOK'
  <2>1. {html, public, closed, known, reupload, crashed, overlapped, lost, crossed}' \subseteq BOOLEAN
    BY <1>1, ProblemTyped
  <2>2. asked \in 0..Len(hist') /\ shown \in [P!Parts -> 0..Len(hist')]
    BY <1>12, ProblemTyped
  <2>3. \A r \in net' : r.api \in P!Reads \cup P!Windows \cup {"submit", "upload"}
    BY <1>1 DEF ProblemInv, P!TypeOK
  <2> QED BY <1>1, <1>12, <2>1, <2>2, <2>3, ProblemTyped DEF P!TypeOK
<1>14. ProblemRequests'
  <2>1. \A r \in net : r.api \in P!Parts => r.at \in 1..Len(hist')
    BY <1>12, ProblemTyped DEF ProblemInv, ProblemRequests
  <2> QED BY <1>1, <1>12, <2>1 DEF ProblemRequests, ProblemInv
<1>15. WindowsAsked' /\ P!TurnInsAllowed'
  BY <1>1 DEF ProblemInv, WindowsAsked, P!TurnInsAllowed, P!Windows
<1>16. ResultsAsked'
  <2>1. ASSUME ~overlapped, asked > 0, ~lost, NEW part \in {q \in P!Parts : public => q = "records"}
        PROVE  (\E r \in net' : r.api = part) \/ (shown[part] < asked => ~P!Has(part, hist'[asked]))
    <3>1. hist'[asked] = hist[asked]
      BY <1>12, <2>1, ProblemTyped
    <3> QED BY <1>1, <2>1, <3>1 DEF ProblemInv, ResultsAsked, P!Parts
  <2>2. ~overlapped => \A r \in net' : r.api \in P!Parts => r.at = asked
    BY <1>1 DEF ProblemInv, ResultsAsked
  <2> QED BY <1>1, <2>1, <2>2 DEF ResultsAsked, P!Has
<1> QED BY <1>12, <1>13, <1>14, <1>15, <1>16 DEF ProblemInv

(* Every step of the page of a problem keeps its invariant.                *)
LEMMA ProblemStep == ASSUME ProblemInv, P!Next PROVE ProblemInv'
<1>1. CASE P!Restored
  BY <1>1, ProblemAsks
<1>2. CASE P!Judge
  BY <1>2, ProblemBackend
<1>3. CASE P!Deadline
  BY <1>3, ProblemAnswers
<1>4. ASSUME NEW r \in net, P!Arrive(r) PROVE ProblemInv'
  BY <1>4, ProblemAnswers, ProblemShows, ProblemWindows, ProblemBackend DEF P!Arrive
<1>5. ASSUME P!Click PROVE ProblemInv'
  <2>1. ASSUME NEW t \in {"2", "3"}, P!Tab(t) PROVE ProblemInv'
    BY <2>1, ProblemAsks, ProblemChoices
  <2>2. CASE (\E k \in TestKinds \cup {"4"} : P!Choose(k)) \/ P!Upload \/ P!ClickReupload
    BY <2>2, ProblemChoices
  <2>3. CASE P!ClickSubmit \/ P!ClickSubmitHtml \/ \E yes \in BOOLEAN : P!Confirm(yes)
    BY <2>3, ProblemSends
  <2>4. CASE \E w \in P!Windows : P!Close(w) \/ \E x \in P!Listed : P!ClickWindow(w, x)
    BY <2>4, ProblemWindows
  <2> QED BY <1>5, <2>1, <2>2, <2>3, <2>4 DEF P!Click
<1> QED BY <1>1, <1>2, <1>3, <1>4, <1>5 DEF P!Next

(* Tests are only ever used up: what the page shows is at most what counts.*)
LEMMA ProblemWithholds == ASSUME ProblemInv PROVE P!NothingWithheld
<1> SUFFICES ASSUME NEW k \in TestKinds, P!Disabled(k) PROVE P!Db.used[k] >= Limit[k]
  BY DEF P!NothingWithheld
<1>1. Limit[k] <= P!Used(k) /\ Limit[k] \in Nat
  BY ProblemConstants DEF P!Disabled
<1>2. \A v \in 1..Len(hist) : hist[v].used[k] \in Nat /\ hist[v].used[k] <= P!Db.used[k]
  <2>1. \A v \in 1..Len(hist) : hist[v] \in P!Tables
    BY ProblemTyped
  <2>2. \A v \in 1..Len(hist) : hist[v].used[k] \in Nat
    BY <2>1 DEF P!Tables
  <2>3. \A v \in 1..Len(hist) : hist[v].used[k] <= hist[Len(hist)].used[k]
    BY ProblemTyped DEF ProblemInv, Growing
  <2> QED BY <2>2, <2>3 DEF P!Db
<1>3. P!Db.used[k] \in Nat
  BY ProblemTyped DEF P!Tables
<1>4. shown["ratio"] \in 0..Len(hist)
  BY ProblemTyped DEF P!Parts
<1> QED BY <1>1, <1>2, <1>3, <1>4, ProblemTyped DEF P!Used

(* When the answers are in, the results and the windows are those asked for.*)
LEMMA ProblemSettles == ASSUME ProblemInv PROVE P!ResultsSettle /\ P!WindowShowsRow
<1>1. P!ResultsSettle
  BY DEF ProblemInv, ResultsAsked, P!ResultsSettle
<1>2. P!WindowShowsRow
  BY DEF ProblemInv, WindowsAsked, P!WindowShowsRow
<1> QED BY <1>1, <1>2

-----------------------------------------------------------------------------
(* What is assumed of the constants of the page of a course.               *)
LEMMA LessonConstants ==
    /\ FirstDb \in S!Tables /\ MaxLoads \in Nat \ {0}
    /\ None \notin S!Rows /\ None \notin S!Card /\ None \notin {0, 1, 2}
BY ConstantsFit DEF S!LessonAssumption

(* The columns of the tables.                                              *)
LEMMA LessonColumns ==
    ASSUME NEW d \in S!Tables
    PROVE  /\ d.homeworks \in [Homeworks -> S!Rows \cup {None}]
           /\ d.turned \in [Homeworks \X Problems -> 0..2]
           /\ d.notices \subseteq Notices /\ d.tas \subseteq Assistants
BY DEF S!Tables

(* The types of the variables, one by one.                                 *)
LEMMA LessonTyped ==
    ASSUME S!TypeOK, LessonRequests
    PROVE  /\ hist \in Seq(S!Tables) /\ Len(hist) \in Nat \ {0} /\ S!Db \in S!Tables
           /\ \A v \in 1..Len(hist) : hist[v] \in S!Tables
           /\ now \in 0..1 /\ loads \in 1..MaxLoads /\ ref \in 0..loads
           /\ known \in BOOLEAN /\ overlapped \in BOOLEAN /\ lost \in BOOLEAN
           /\ others \in BOOLEAN /\ stranger \in BOOLEAN
           /\ selected \in {"1", "2", "3", "5", "6"}
           /\ view \in S!Cards /\ infoitems \subseteq Notices /\ course_info \subseteq Assistants
           /\ \A n \in 1..MaxLoads : lists[n] \in Lists
<1>1. hist \in Seq(S!Tables) /\ hist # <<>>
  BY DEF S!TypeOK, LessonRequests
<1>2. Len(hist) \in Nat \ {0} /\ \A v \in 1..Len(hist) : hist[v] \in S!Tables
  BY <1>1
<1>3. S!Db \in S!Tables
  BY <1>2 DEF S!Db
<1> QED BY <1>1, <1>2, <1>3 DEF S!TypeOK, LessonRequests

(* The lists of a load.                                                    *)
LEMMA ListFields ==
    ASSUME NEW l \in Lists
    PROVE  /\ l.homeworks \in [Homeworks -> {None} \cup S!Card]
           /\ l.notices \subseteq Notices /\ l.tas \subseteq Assistants
BY DEF Lists, S!Cards

(* The lists of a load that was not answered.                              *)
LEMMA EmptyList ==
    /\ S!Empty \in Lists /\ S!Empty.homeworks \in S!Cards /\ S!Empty.notices = {} /\ S!Empty.tas = {}
    /\ \A h \in Homeworks : S!Empty.homeworks[h] = None
BY DEF S!Empty, Lists, S!Cards

(* A card is put into the list of a load.                                  *)
LEMMA CardPut ==
    ASSUME S!TypeOK, LessonRequests, NEW n \in 1..MaxLoads, NEW h \in Homeworks,
           NEW c \in {None} \cup S!Card, lists' = [lists EXCEPT ![n].homeworks[h] = c]
    PROVE  /\ lists' \in [1..MaxLoads -> Lists]
           /\ \A m \in 1..MaxLoads : m # n => lists'[m] = lists[m]
           /\ lists'[n].notices = lists[n].notices /\ lists'[n].tas = lists[n].tas
           /\ lists'[n].homeworks[h] = c
           /\ \A g \in Homeworks : g # h => lists'[n].homeworks[g] = lists[n].homeworks[g]
<1>1. lists \in [1..MaxLoads -> Lists]
  BY DEF LessonRequests
<1>2. PICK l : l = lists[n]
  OBVIOUS
<1>3. l \in Lists
  BY <1>1, <1>2
<1>4. PICK f : f = [l.homeworks EXCEPT ![h] = c]
  OBVIOUS
<1>5. f \in S!Cards /\ f[h] = c /\ \A g \in Homeworks : g # h => f[g] = l.homeworks[g]
  BY <1>3, <1>4, ListFields DEF S!Cards
<1>6. PICK k : k = [l EXCEPT !.homeworks = f]
  OBVIOUS
<1>7. k \in Lists /\ k.homeworks = f /\ k.notices = l.notices /\ k.tas = l.tas
  BY <1>3, <1>5, <1>6 DEF Lists
<1>8. lists' = [lists EXCEPT ![n] = k]
  BY <1>2, <1>4, <1>6
<1>9. lists' \in [1..MaxLoads -> Lists] /\ lists'[n] = k /\ \A m \in 1..MaxLoads : m # n => lists'[m] = lists[m]
  BY <1>1, <1>7, <1>8
<1> QED BY <1>2, <1>5, <1>7, <1>9

(* What is rendered are cards: of no load, or of one of them.              *)
LEMMA RenderedCards ==
    ASSUME lists' \in [1..MaxLoads -> Lists], ref' \in 0..MaxLoads, S!Render
    PROVE  view' \in S!Cards
<1>1. ref' # 0 => ref' \in 1..MaxLoads
  BY LessonConstants
<1>2. ref' # 0 => lists'[ref'].homeworks \in S!Cards
  BY <1>1, ListFields DEF S!Cards
<1> QED BY <1>2, EmptyList DEF S!Render

(* The types after an answer.                                              *)
LEMMA AnswerTypes ==
    ASSUME LessonInv, NEW r \in net, NEW api, S!Answer(r, api), stranger' \in BOOLEAN,
           ref' \in 0..loads, lists' \in [1..MaxLoads -> Lists], S!Render \/ view' = view,
           infoitems' \subseteq Notices, course_info' \subseteq Assistants,
           \A q \in net' : q.api \in S!Reads
    PROVE  S!TypeOK'
<1>1. UNCHANGED <<hist, now, known, selected, loads, overlapped, lost, others>>
  BY DEF S!Answer
<1>2. {known, overlapped, lost, others, stranger}' \subseteq BOOLEAN
  BY <1>1, LessonTyped DEF LessonInv
<1>3. view' \in S!Cards
  <2>1. ref' \in 0..MaxLoads
    BY LessonTyped, LessonConstants DEF LessonInv
  <2> QED BY <2>1, RenderedCards, LessonTyped DEF LessonInv
<1>4. \A n \in DOMAIN lists' : lists'[n].homeworks \in S!Cards
  BY ListFields DEF S!Cards
<1>5. hist' \in Seq(S!Tables) /\ now' \in 0..1 /\ loads' \in 1..MaxLoads /\ ref' \in 0..loads'
      /\ selected' \in {"1", "2", "3", "5", "6"}
  BY <1>1, LessonTyped DEF LessonInv
<1> QED BY <1>2, <1>3, <1>4, <1>5 DEF S!TypeOK

(* The requests after an answer, when cards are not taken away.            *)
LEMMA AnswerRequests ==
    ASSUME LessonInv, NEW r \in net, NEW api, S!Answer(r, api), stranger => stranger',
           lists' \in [1..MaxLoads -> Lists],
           \A n \in 1..MaxLoads : n > loads => lists'[n] = lists[n],
           \A n \in 1..MaxLoads, h \in Homeworks :
               lists[n].homeworks[h] # None => lists'[n].homeworks[h] # None,
           NEW asked_, net' = (net \ {r}) \cup asked_, \A q \in asked_ : Request(q)'
    PROVE  LessonRequests'
<1>1. UNCHANGED <<hist, now, known, selected, loads, overlapped, lost, others>>
  BY DEF S!Answer
<1>2. ASSUME NEW q \in net PROVE Request(q)'
  <2>1. Request(q) /\ loads \in 1..MaxLoads
    BY LessonTyped DEF LessonInv, LessonRequests
  <2>2. q.load \in 1..MaxLoads
    BY <2>1, LessonConstants DEF Request
  <2>3. q.api \in {"problem", "record"} => lists'[q.load].homeworks[q.id[1]] # None
    BY <2>1, <2>2 DEF Request
  <2> QED BY <1>1, <2>1, <2>3 DEF Request
<1>3. \A n \in 1..MaxLoads : n > loads' => lists'[n] = S!Empty
  BY <1>1 DEF LessonInv, LessonRequests
<1>4. hist' # <<>> /\ (~others' => hist' = <<FirstDb>>)
  BY <1>1 DEF LessonInv, LessonRequests
<1> QED BY <1>2, <1>3, <1>4 DEF LessonRequests

(* What is rendered fits if the cards of the only load do.                 *)
LEMMA RenderFits ==
    ASSUME S!Render, ref' \in {0, loads'},
           \A h \in Homeworks : CardFits(lists[loads].homeworks[h], h)'
    PROVE  \A h \in Homeworks : CardFits(view[h], h)'
<1>1. CASE ref' = 0
  <2>1. \A h \in Homeworks : view'[h] = None
    BY <1>1, EmptyList DEF S!Render
  <2> QED BY <2>1 DEF CardFits
<1>2. CASE ref' # 0
  <2>1. view' = lists'[loads'].homeworks
    BY <1>2 DEF S!Render
  <2> QED BY <2>1 DEF CardFits
<1> QED BY <1>1, <1>2

(* There is nothing to be shown while the course was not answered.         *)
LEMMA NothingFits == ASSUME NEW h PROVE CardFits(None, h)'
BY DEF CardFits

(* The page begins with one request, for the course.                       *)
LEMMA LessonBegins == ASSUME S!Init PROVE LessonInv
<1>1. hist = <<FirstDb>> /\ hist \in Seq(S!Tables) /\ Len(hist) = 1 /\ hist # <<>>
  BY LessonConstants DEF S!Init
<1>2. lists \in [1..MaxLoads -> Lists] /\ (\A n \in 1..MaxLoads : lists[n] = S!Empty)
      /\ loads = 1 /\ loads \in 1..MaxLoads /\ lists[loads] = S!Empty
  BY EmptyList, LessonConstants DEF S!Init
<1>3. S!TypeOK
  <2>1. {known, overlapped, lost, others, stranger} \subseteq BOOLEAN
    BY DEF S!Init
  <2>2. \A n \in DOMAIN lists : lists[n].homeworks \in S!Cards
    BY <1>2, EmptyList
  <2>3. \A r \in net : r.api \in S!Reads
    BY DEF S!Init, S!Reads
  <2> QED BY <1>1, <1>2, <2>1, <2>2, <2>3, EmptyList DEF S!Init, S!TypeOK
<1>4. \A r \in net : r.api = "course" /\ r.load = 1 /\ r.at = 1
  BY DEF S!Init
<1>5. \E r \in net : r.api = "course"
  BY DEF S!Init
<1>6. LessonRequests
  <2>1. \A r \in net : Request(r)
    BY <1>1, <1>2, <1>4 DEF Request, S!Reads
  <2> QED BY <1>1, <1>2, <2>1 DEF LessonRequests
<1>7. OneLoad
  <2>1. \A r, q \in net : q = r
    BY DEF S!Init
  <2>2. \A r \in net : Sole(r)
    BY <1>2, <1>4, <2>1 DEF Sole
  <2>3. \A h \in Homeworks : lists[loads].homeworks[h] = None /\ view[h] = None
    BY <1>2, EmptyList DEF S!Init
  <2> QED BY <1>2, <2>2, <2>3 DEF OneLoad, CardFits, S!Init
<1>8. TextsLoad
  BY <1>2, <1>5, EmptyList DEF TextsLoad, S!Init
<1>9. CardsLoad
  BY <1>5 DEF CardsLoad
<1> QED BY <1>3, <1>6, <1>7, <1>8, <1>9 DEF LessonInv

(* A click begins a load, whose lists are empty.                           *)
LEMMA MenuKeeps ==
    ASSUME LessonInv, NEW k \in {"1", "2", "3", "5", "6"}, S!Menu(k)
    PROVE  LessonInv'
<1>1. /\ UNCHANGED <<hist, now, known, lists, infoitems, course_info, lost, others, stranger>>
      /\ loads < MaxLoads /\ loads' = loads + 1 /\ selected' = k /\ ref' = 0
      /\ overlapped' = (overlapped \/ net # {}) /\ S!Render
  BY DEF S!Menu
<1>2. /\ loads \in 1..MaxLoads /\ loads' \in 1..MaxLoads /\ lists \in [1..MaxLoads -> Lists]
      /\ lists[loads'] = S!Empty /\ Len(hist) \in Nat \ {0}
  <2>1. loads \in 1..MaxLoads /\ MaxLoads \in Nat /\ Len(hist) \in Nat \ {0}
    BY LessonTyped, LessonConstants DEF LessonInv
  <2>2. loads' \in 1..MaxLoads /\ loads' > loads
    BY <1>1, <2>1
  <2> QED BY <2>1, <2>2 DEF LessonInv, LessonRequests
<1>3. view' = S!Empty.homeworks
  BY <1>1 DEF S!Render
<1>4. PICK q : net' = net \cup {q} /\ q.api = "course" /\ q.load = loads' /\ q.at = Len(hist)
  <2>1. PICK q : q = S!Query([load |-> loads'], "course", None)
    OBVIOUS
  <2>2. net' = net \cup {q}
    BY <2>1 DEF S!Menu
  <2>3. q.api = "course" /\ q.load = loads' /\ q.at = Len(hist)
    BY <2>1 DEF S!Query
  <2> QED BY <2>2, <2>3
<1>5. S!TypeOK'
  <2>1. {known, overlapped, lost, others, stranger}' \subseteq BOOLEAN
    BY <1>1, LessonTyped DEF LessonInv
  <2>2. view' \in S!Cards
    BY <1>3, EmptyList
  <2>3. ref' \in 0..loads'
    BY <1>1, <1>2, LessonConstants
  <2>4. \A r \in net' : r.api \in S!Reads
    BY <1>4 DEF LessonInv, S!TypeOK, S!Reads
  <2> QED BY <1>1, <1>2, <2>1, <2>2, <2>3, <2>4 DEF LessonInv, S!TypeOK
<1>6. LessonRequests'
  <2>1. ASSUME NEW r \in net PROVE Request(r)'
    <3>1. Request(r) /\ 1..loads \subseteq 1..loads'
      BY <1>1, <1>2, LessonConstants DEF LessonInv, LessonRequests
    <3> QED BY <1>1, <3>1 DEF Request
  <2>2. Request(q)'
    BY <1>1, <1>2, <1>4, LessonConstants DEF Request, S!Reads
  <2>3. \A n \in 1..MaxLoads : n > loads' => n > loads
    BY <1>1, <1>2, LessonConstants
  <2> QED BY <1>1, <1>2, <1>4, <2>1, <2>2, <2>3 DEF LessonInv, LessonRequests
<1>7. OneLoad'
  <2> SUFFICES ASSUME ~overlapped', ~others'
               PROVE  /\ (ref \in {0, loads} /\ \A r \in net : Sole(r))'
                      /\ \A h \in Homeworks : (CardFits(lists[loads].homeworks[h], h) /\ CardFits(view[h], h))'
    BY DEF OneLoad
  <2>1. net' = {q}
    BY <1>1, <1>4
  <2>2. \A r \in net' : Sole(r)'
    BY <1>1, <1>2, <1>4, <2>1 DEF Sole
  <2>3. \A h \in Homeworks : lists'[loads'].homeworks[h] = None /\ view'[h] = None
    BY <1>1, <1>2, <1>3, EmptyList
  <2> QED BY <1>1, <2>2, <2>3 DEF CardFits
<1>8. TextsLoad'
  <2> SUFFICES ASSUME Calm' PROVE TextsLoad'
    BY DEF TextsLoad
  <2>1. Calm
    BY <1>1 DEF Calm
  <2>2. infoitems' \subseteq FirstDb.notices /\ course_info' \subseteq FirstDb.tas
    <3>1. infoitems \subseteq FirstDb.notices /\ course_info \subseteq FirstDb.tas
      BY <2>1 DEF LessonInv, TextsLoad
    <3> QED BY <1>1, <3>1
  <2>3. lists'[loads'].notices = {} /\ lists'[loads'].tas = {}
    BY <1>1, <1>2, EmptyList
  <2>4. q \in net' /\ q.api = "course"
    BY <1>4
  <2> QED BY <2>2, <2>3, <2>4 DEF TextsLoad
<1>9. CardsLoad'
  BY <1>4 DEF CardsLoad
<1> QED BY <1>5, <1>6, <1>7, <1>8, <1>9 DEF LessonInv

(* The student becomes known: the lists are rendered again.                *)
LEMMA RestoredKeeps == ASSUME LessonInv, S!Restored PROVE LessonInv'
<1>1. /\ UNCHANGED <<hist, now, selected, lists, ref, infoitems, course_info, net, loads,
                     overlapped, lost, others, stranger>>
      /\ known' = TRUE /\ S!Render
  BY DEF S!Restored, S!ghosts
<1>2. loads \in 1..MaxLoads /\ ref \in 0..loads /\ ref \in 0..MaxLoads /\ lists \in [1..MaxLoads -> Lists]
  BY LessonTyped, LessonConstants DEF LessonInv, LessonRequests
<1>3. S!TypeOK'
  <2>1. {known, overlapped, lost, others, stranger}' \subseteq BOOLEAN
    BY <1>1, LessonTyped DEF LessonInv
  <2>2. view' \in S!Cards
    BY <1>1, <1>2, RenderedCards
  <2> QED BY <1>1, <2>1, <2>2 DEF LessonInv, S!TypeOK
<1>4. LessonRequests'
  <2>1. \A r \in net : Request(r)'
    BY <1>1 DEF LessonInv, LessonRequests, Request
  <2> QED BY <1>1, <2>1 DEF LessonInv, LessonRequests
<1>5. OneLoad'
  <2> SUFFICES ASSUME ~overlapped', ~others'
               PROVE  /\ (ref \in {0, loads} /\ \A r \in net : Sole(r))'
                      /\ \A h \in Homeworks : (CardFits(lists[loads].homeworks[h], h) /\ CardFits(view[h], h))'
    BY DEF OneLoad
  <2>1. ref' \in {0, loads'} /\ \A r \in net' : Sole(r)'
    BY <1>1 DEF LessonInv, OneLoad, Sole
  <2>2. \A h \in Homeworks : CardFits(lists[loads].homeworks[h], h)'
    BY <1>1 DEF LessonInv, OneLoad, CardFits, S!Fits, S!Over
  <2> QED BY <1>1, <2>1, <2>2, RenderFits
<1>6. TextsLoad'
  BY <1>1 DEF LessonInv, TextsLoad, Calm, Missing
<1>7. CardsLoad'
  <2> SUFFICES ASSUME Calm, ~\E r \in net : r.api = "course" PROVE CardsLoad'
    BY <1>1 DEF CardsLoad, Calm
  <2>1. ref = loads => view' = lists[loads].homeworks
    BY <1>1, <1>2 DEF S!Render
  <2>2. ASSUME NEW h \in Homeworks, ToShow(h)' PROVE Loading(h)'
    <3>1. Loading(h)
      BY <1>1, <2>2 DEF LessonInv, CardsLoad, ToShow, S!Fits, S!Over
    <3> QED BY <1>1, <2>1, <3>1 DEF Loading, Waits, Missing
  <2> QED BY <2>2 DEF CardsLoad
<1> QED BY <1>3, <1>4, <1>5, <1>6, <1>7 DEF LessonInv

(* A lost answer: nothing is promised then of what is shown.               *)
LEMMA LoseKeeps == ASSUME LessonInv, NEW r \in net, S!Lose(r) PROVE LessonInv'
<1>1. /\ UNCHANGED <<hist, now, known, selected, lists, ref, infoitems, course_info, view, loads,
                     overlapped, others, stranger>>
      /\ lost' = TRUE /\ net' = net \ {r}
  BY DEF S!Lose
<1>2. S!TypeOK'
  <2>1. {known, overlapped, lost, others, stranger}' \subseteq BOOLEAN
    BY <1>1, LessonTyped DEF LessonInv
  <2> QED BY <1>1, <2>1 DEF LessonInv, S!TypeOK
<1>3. LessonRequests'
  <2>1. \A q \in net' : Request(q)'
    BY <1>1 DEF LessonInv, LessonRequests, Request
  <2> QED BY <1>1, <2>1 DEF LessonInv, LessonRequests
<1>4. OneLoad'
  <2>1. ASSUME ~overlapped, ~others, NEW q \in net' PROVE Sole(q)'
    BY <1>1, <2>1 DEF LessonInv, OneLoad, Sole
  <2> QED BY <1>1, <2>1 DEF LessonInv, OneLoad, CardFits, S!Fits, S!Over
<1>5. TextsLoad' /\ CardsLoad'
  BY <1>1 DEF TextsLoad, CardsLoad, Calm
<1> QED BY <1>2, <1>3, <1>4, <1>5 DEF LessonInv

(* Time passes or the tables change: the requests keep what they had.      *)
LEMMA OtherKeeps == ASSUME LessonInv, S!Other PROVE LessonInv'
<1>1. /\ UNCHANGED <<known, selected, lists, ref, infoitems, course_info, view, net, loads,
                     overlapped, lost, stranger>>
      /\ others' = TRUE
  BY DEF S!Other
<1>2. now' \in 0..1
  BY LessonTyped DEF S!Other, LessonInv
<1>3. PICK e : e = S!Db
  OBVIOUS
<1>4. e \in S!Tables
  BY <1>3, LessonTyped DEF LessonInv
<1>5. ASSUME NEW d \in S!Tables, hist' = Append(hist, d)
      PROVE  hist' \in Seq(S!Tables) /\ Len(hist') = Len(hist) + 1
  BY <1>5, LessonTyped DEF LessonInv
<1>6. hist' \in Seq(S!Tables) /\ Len(hist') \in {Len(hist), Len(hist) + 1}
  <2>1. CASE hist' = hist
    BY <2>1, LessonTyped DEF LessonInv
  <2>2. ASSUME NEW x \in DOMAIN e.turned, NEW s \in {1, 2},
               hist' = Append(hist, [e EXCEPT !.turned[x] = s])
        PROVE  hist' \in Seq(S!Tables) /\ Len(hist') = Len(hist) + 1
    <3>1. PICK f : f = [e.turned EXCEPT ![x] = s]
      OBVIOUS
    <3>2. f \in [Homeworks \X Problems -> 0..2]
      BY <1>4, <3>1, LessonColumns
    <3>3. [e EXCEPT !.turned = f] \in S!Tables
      BY <1>4, <3>2 DEF S!Tables
    <3> QED BY <1>5, <2>2, <3>1, <3>3
  <2>3. ASSUME NEW h \in Homeworks, NEW row \in {None, [e.homeworks[h] EXCEPT !.score_openness = TRUE]},
               e.homeworks[h] # None, hist' = Append(hist, [e EXCEPT !.homeworks[h] = row])
        PROVE  hist' \in Seq(S!Tables) /\ Len(hist') = Len(hist) + 1
    <3>1. PICK g : g = e.homeworks[h]
      OBVIOUS
    <3>2. g \in S!Rows
      BY <1>4, <2>3, <3>1, LessonColumns
    <3>3. PICK b \in BOOLEAN : b = TRUE
      OBVIOUS
    <3>4. [g EXCEPT !.score_openness = b] \in S!Rows
      BY <3>2, <3>3 DEF S!Rows
    <3>5. row \in S!Rows \cup {None}
      BY <2>3, <3>1, <3>3, <3>4
    <3>6. PICK f : f = [e.homeworks EXCEPT ![h] = row]
      OBVIOUS
    <3>7. f \in [Homeworks -> S!Rows \cup {None}]
      BY <1>4, <3>5, <3>6, LessonColumns
    <3>8. [e EXCEPT !.homeworks = f] \in S!Tables
      BY <1>4, <3>7 DEF S!Tables
    <3> QED BY <1>5, <2>3, <3>6, <3>8
  <2>4. ASSUME NEW n \in Notices, hist' = Append(hist, [e EXCEPT !.notices = e.notices \cup {n}])
        PROVE  hist' \in Seq(S!Tables) /\ Len(hist') = Len(hist) + 1
    <3>1. e.notices \cup {n} \in SUBSET Notices
      BY <1>4, LessonColumns
    <3>2. [e EXCEPT !.notices = e.notices \cup {n}] \in S!Tables
      BY <1>4, <3>1 DEF S!Tables
    <3> QED BY <1>5, <2>4, <3>2
  <2> QED BY <1>3, <2>1, <2>2, <2>3, <2>4 DEF S!Other
<1>7. S!TypeOK'
  <2>1. {known, overlapped, lost, others, stranger}' \subseteq BOOLEAN
    BY <1>1, LessonTyped DEF LessonInv
  <2> QED BY <1>1, <1>2, <1>6, <2>1 DEF LessonInv, S!TypeOK
<1>8. LessonRequests'
  <2>1. ASSUME NEW r \in net PROVE Request(r)'
    <3>1. Request(r) /\ r.at \in 1..Len(hist')
      BY <1>6, LessonTyped DEF LessonInv, LessonRequests, Request
    <3> QED BY <1>1, <3>1 DEF Request
  <2>2. hist' # <<>>
    <3>1. Len(hist') # 0
      BY <1>6, LessonTyped DEF LessonInv
    <3> QED BY <3>1
  <2> QED BY <1>1, <2>1, <2>2 DEF LessonInv, LessonRequests
<1>9. OneLoad' /\ TextsLoad' /\ CardsLoad'
  BY <1>1 DEF OneLoad, TextsLoad, CardsLoad, Calm
<1> QED BY <1>7, <1>8, <1>9 DEF LessonInv

(* An answer is given from tables of the time of the request or a later    *)
(* one; when nobody changes them these are the first.                      *)
LEMMA AnswerTables ==
    ASSUME LessonInv, NEW r \in net, NEW d \in {hist[v] : v \in r.at..Len(hist)}
    PROVE  d \in S!Tables /\ (~others => d = FirstDb)
<1>1. PICK v \in r.at..Len(hist) : d = hist[v]
  OBVIOUS
<1>2. r.at \in 1..Len(hist) /\ Len(hist) \in Nat \ {0}
  BY LessonTyped DEF LessonInv, LessonRequests, Request
<1>3. v \in 1..Len(hist)
  BY <1>1, <1>2
<1>4. ASSUME ~others PROVE d = FirstDb
  <2>1. hist = <<FirstDb>>
    BY <1>4 DEF LessonInv, LessonRequests
  <2>2. Len(hist) = 1
    BY <2>1
  <2>3. v = 1
    BY <1>3, <2>2
  <2> QED BY <1>1, <2>1, <2>3
<1> QED BY <1>1, <1>3, <1>4, LessonTyped DEF LessonInv

(* The fields of a question.                                               *)
LEMMA QueryFields ==
    ASSUME NEW r, NEW api, NEW id
    PROVE  /\ S!Query(r, api, id).api = api /\ S!Query(r, api, id).id = id
           /\ S!Query(r, api, id).load = r.load /\ S!Query(r, api, id).at = Len(hist)
           /\ S!Query(r, api, id).user = known
BY DEF S!Query

(* The course was answered: the panel that is selected by now is asked for.*)
LEMMA CourseAsks ==
    ASSUME LessonInv, NEW r \in net, NEW d \in S!Tables, S!CourseAnswer(r, d)
    PROVE  \E asked_ :
             /\ net' = (net \ {r}) \cup asked_
             /\ \A q \in asked_ : q = S!Query(r, q.api, q.id)
             /\ \A q \in asked_ :
                   \/ selected = "5" /\ q.api = "notice" /\ q.id \in d.notices
                   \/ selected = "6" /\ q.api = "user" /\ q.id \in d.tas
                   \/ /\ selected \notin {"5", "6"} /\ q.api = "homework"
                      /\ q.id \in Homeworks /\ d.homeworks[q.id] # None
             /\ selected = "5" => \A n \in d.notices : \E q \in asked_ : q.api = "notice" /\ q.id = n
             /\ selected = "6" => \A u \in d.tas : \E q \in asked_ : q.api = "user" /\ q.id = u
             /\ selected \notin {"5", "6"} => \A h \in Homeworks : d.homeworks[h] # None =>
                    \E q \in asked_ : q.api = "homework" /\ q.id = h
<1>1. CASE selected = "5"
  <2>1. PICK a : a = {S!Query(r, "notice", n) : n \in d.notices}
    OBVIOUS
  <2>2. net' = (net \ {r}) \cup a
    BY <1>1, <2>1 DEF S!CourseAnswer, S!Ask
  <2>3. ASSUME NEW q \in a PROVE q = S!Query(r, q.api, q.id) /\ q.api = "notice" /\ q.id \in d.notices
    <3>1. PICK n \in d.notices : q = S!Query(r, "notice", n)
      BY <2>1
    <3>2. q.api = "notice" /\ q.id = n
      BY <3>1, QueryFields
    <3> QED BY <3>1, <3>2
  <2>4. ASSUME NEW n \in d.notices PROVE \E q \in a : q.api = "notice" /\ q.id = n
    <3>1. PICK q : q = S!Query(r, "notice", n)
      OBVIOUS
    <3>2. q \in a
      BY <2>1, <3>1
    <3>3. q.api = "notice" /\ q.id = n
      BY <3>1, QueryFields
    <3> QED BY <3>2, <3>3
  <2> QED BY <1>1, <2>2, <2>3, <2>4
<1>2. CASE selected = "6"
  <2>1. PICK a : a = {S!Query(r, "user", u) : u \in d.tas}
    OBVIOUS
  <2>2. net' = (net \ {r}) \cup a
    BY <1>2, <2>1 DEF S!CourseAnswer, S!Ask
  <2>3. ASSUME NEW q \in a PROVE q = S!Query(r, q.api, q.id) /\ q.api = "user" /\ q.id \in d.tas
    <3>1. PICK u \in d.tas : q = S!Query(r, "user", u)
      BY <2>1
    <3>2. q.api = "user" /\ q.id = u
      BY <3>1, QueryFields
    <3> QED BY <3>1, <3>2
  <2>4. ASSUME NEW u \in d.tas PROVE \E q \in a : q.api = "user" /\ q.id = u
    <3>1. PICK q : q = S!Query(r, "user", u)
      OBVIOUS
    <3>2. q \in a
      BY <2>1, <3>1
    <3>3. q.api = "user" /\ q.id = u
      BY <3>1, QueryFields
    <3> QED BY <3>2, <3>3
  <2> QED BY <1>2, <2>2, <2>3, <2>4
<1>3. CASE selected \notin {"5", "6"}
  <2>1. PICK a : a = {S!Query(r, "homework", h) : h \in {x \in Homeworks : d.homeworks[x] # None}}
    OBVIOUS
  <2>2. net' = (net \ {r}) \cup a
    BY <1>3, <2>1 DEF S!CourseAnswer, S!Ask
  <2>3. \A q \in a : q = S!Query(r, q.api, q.id) /\ q.api = "homework" /\ q.id \in Homeworks
                     /\ d.homeworks[q.id] # None
    BY <2>1, QueryFields
  <2>4. \A h \in Homeworks : d.homeworks[h] # None => \E q \in a : q.api = "homework" /\ q.id = h
    BY <2>1, QueryFields
  <2> QED BY <1>3, <2>2, <2>3, <2>4
<1> QED BY <1>1, <1>2, <1>3

(* The answer about the course makes the requests of the panel.            *)
LEMMA CourseAnswerKeeps ==
    ASSUME LessonInv, NEW r \in net, NEW d \in S!Tables, ~others => d = FirstDb,
           S!CourseAnswer(r, d)
    PROVE  LessonInv'
<1>1. /\ UNCHANGED <<hist, now, known, selected, loads, overlapped, lost, others>>
      /\ UNCHANGED <<lists, ref, infoitems, course_info, stranger>>
      /\ S!Render /\ r.api = "course" /\ S!Answer(r, "course")
  BY DEF S!CourseAnswer, S!Answer
<1>2. PICK a :
             /\ net' = (net \ {r}) \cup a
             /\ \A q \in a : q = S!Query(r, q.api, q.id)
             /\ \A q \in a :
                   \/ selected = "5" /\ q.api = "notice" /\ q.id \in d.notices
                   \/ selected = "6" /\ q.api = "user" /\ q.id \in d.tas
                   \/ /\ selected \notin {"5", "6"} /\ q.api = "homework"
                      /\ q.id \in Homeworks /\ d.homeworks[q.id] # None
             /\ selected = "5" => \A n \in d.notices : \E q \in a : q.api = "notice" /\ q.id = n
             /\ selected = "6" => \A u \in d.tas : \E q \in a : q.api = "user" /\ q.id = u
             /\ selected \notin {"5", "6"} => \A h \in Homeworks : d.homeworks[h] # None =>
                    \E q \in a : q.api = "homework" /\ q.id = h
  BY CourseAsks
<1>3. \A q \in a : q.load = r.load /\ q.at = Len(hist) /\ q.user = known
                   /\ q.api \in {"notice", "user", "homework"}
  BY <1>2, QueryFields
<1>4. /\ loads \in 1..MaxLoads /\ ref \in 0..loads /\ lists \in [1..MaxLoads -> Lists]
      /\ Len(hist) \in 1..Len(hist) /\ Request(r)
  BY LessonTyped DEF LessonInv, LessonRequests
<1>5. S!TypeOK'
  <2>1. \A q \in net' : q.api \in S!Reads
    BY <1>2, <1>3 DEF LessonInv, S!TypeOK, S!Reads
  <2> QED BY <1>1, <1>4, <2>1, AnswerTypes, LessonTyped DEF LessonInv
<1>6. LessonRequests'
  <2>1. \A q \in a : Request(q)'
    <3>1. d.notices \subseteq Notices /\ d.tas \subseteq Assistants
      BY LessonColumns
    <3> QED BY <1>1, <1>2, <1>3, <1>4, <3>1 DEF Request, S!Reads
  <2>2. net' = (net \ {r}) \cup a
    BY <1>2
  <2>3. lists' \in [1..MaxLoads -> Lists] /\ (\A n \in 1..MaxLoads : n > loads => lists'[n] = lists[n])
        /\ \A n \in 1..MaxLoads, h \in Homeworks :
               lists[n].homeworks[h] # None => lists'[n].homeworks[h] # None
    BY <1>1, <1>4
  <2>4. stranger => stranger'
    BY <1>1
  <2>5. S!Answer(r, "course")
    BY <1>1
  <2> QED BY <2>1, <2>2, <2>3, <2>4, <2>5, AnswerRequests
<1>7. ASSUME ~overlapped, ~others
      PROVE  net' = a /\ d = FirstDb /\ r.load = loads /\ lists[loads] = S!Empty /\ ref \in {0, loads}
  BY <1>1, <1>2, <1>7 DEF LessonInv, OneLoad, Sole
<1>8. OneLoad'
  <2> SUFFICES ASSUME ~overlapped, ~others
               PROVE  /\ (ref \in {0, loads} /\ \A q \in net : Sole(q))'
                      /\ \A h \in Homeworks : (CardFits(lists[loads].homeworks[h], h) /\ CardFits(view[h], h))'
    BY <1>1 DEF OneLoad
  <2>1. \A q \in net' : Sole(q)'
    BY <1>1, <1>2, <1>3, <1>7 DEF Sole
  <2>2. \A h \in Homeworks : CardFits(lists[loads].homeworks[h], h)'
    <3>1. \A h \in Homeworks : lists'[loads'].homeworks[h] = None
      BY <1>1, <1>7, EmptyList
    <3> QED BY <3>1 DEF CardFits
  <2> QED BY <1>1, <1>7, <2>1, <2>2, RenderFits
<1>9. TextsLoad'
  <2> SUFFICES ASSUME Calm PROVE TextsLoad'
    BY <1>1 DEF TextsLoad, Calm
  <2>1. d = FirstDb /\ net' = a /\ lists'[loads'].notices = {} /\ lists'[loads'].tas = {}
    BY <1>1, <1>7, EmptyList DEF Calm
  <2>2. infoitems' \subseteq FirstDb.notices /\ course_info' \subseteq FirstDb.tas
    <3>1. infoitems \subseteq FirstDb.notices /\ course_info \subseteq FirstDb.tas
      BY DEF LessonInv, TextsLoad
    <3> QED BY <1>1, <3>1
  <2>3. (selected' = "5" => \A n \in FirstDb.notices : Missing("notice", n)')
        /\ (selected' = "6" => \A u \in FirstDb.tas : Missing("user", u)')
    BY <1>1, <1>2, <2>1 DEF Missing
  <2> QED BY <2>1, <2>2, <2>3 DEF TextsLoad
<1>10. CardsLoad'
  <2> SUFFICES ASSUME Calm, NEW h \in Homeworks, ToShow(h)' PROVE Loading(h)'
    BY <1>1 DEF CardsLoad, Calm
  <2>1. d = FirstDb /\ net' = a /\ lists'[loads'] = S!Empty
    BY <1>1, <1>7 DEF Calm
  <2>2. selected \notin {"5", "6"} /\ FirstDb.homeworks[h] # None
    BY <1>1 DEF ToShow, S!Fits
  <2>3. Missing("homework", h)' /\ lists'[loads'].homeworks[h] = None
    BY <1>2, <2>1, <2>2, EmptyList DEF Missing
  <2> QED BY <2>3 DEF Loading
<1> QED BY <1>5, <1>6, <1>8, <1>9, <1>10 DEF LessonInv

(* An answer that is not about homeworks leaves them as they were.         *)
LEMMA HomeworksKept ==
    ASSUME LessonInv, NEW r \in net, NEW api \in {"notice", "user"}, S!Answer(r, api), net' = net \ {r},
           UNCHANGED <<ref, stranger>>, S!Render,
           infoitems' \subseteq Notices, course_info' \subseteq Assistants,
           lists' \in [1..MaxLoads -> Lists],
           \A n \in 1..MaxLoads : lists'[n].homeworks = lists[n].homeworks,
           \A n \in 1..MaxLoads : n # r.load => lists'[n] = lists[n]
    PROVE  S!TypeOK' /\ LessonRequests' /\ OneLoad' /\ CardsLoad'
<1>1. UNCHANGED <<hist, now, known, selected, loads, overlapped, lost, others>> /\ r.api = api
  BY DEF S!Answer
<1>2. /\ loads \in 1..MaxLoads /\ ref \in 0..loads /\ lists \in [1..MaxLoads -> Lists]
      /\ r.load \in 1..loads
  BY LessonTyped DEF LessonInv, LessonRequests, Request
<1>3. S!TypeOK'
  <2>1. \A q \in net' : q.api \in S!Reads
    BY DEF LessonInv, S!TypeOK
  <2> QED BY <1>2, <2>1, AnswerTypes, LessonTyped DEF LessonInv
<1>4. LessonRequests'
  <2> PICK none : none = {}
    OBVIOUS
  <2>1. net' = (net \ {r}) \cup none
    OBVIOUS
  <2>2. \A n \in 1..MaxLoads : n > loads => lists'[n] = lists[n]
    BY <1>2, LessonConstants
  <2>3. \A n \in 1..MaxLoads, h \in Homeworks :
            lists[n].homeworks[h] # None => lists'[n].homeworks[h] # None
    OBVIOUS
  <2>4. \A q \in none : Request(q)'
    OBVIOUS
  <2>5. stranger => stranger'
    OBVIOUS
  <2> QED BY <2>1, <2>2, <2>3, <2>4, <2>5, AnswerRequests
<1>5. OneLoad'
  <2> SUFFICES ASSUME ~overlapped, ~others
               PROVE  /\ (ref \in {0, loads} /\ \A q \in net : Sole(q))'
                      /\ \A h \in Homeworks : (CardFits(lists[loads].homeworks[h], h) /\ CardFits(view[h], h))'
    BY <1>1 DEF OneLoad
  <2>1. ASSUME NEW q \in net' PROVE Sole(q)'
    <3>1. Sole(q) /\ q.api # "course"
      BY <1>1 DEF LessonInv, OneLoad, Sole
    <3> QED BY <1>1, <1>2, <3>1 DEF Sole
  <2>2. \A h \in Homeworks : CardFits(lists[loads].homeworks[h], h)'
    BY <1>1, <1>2 DEF LessonInv, OneLoad, CardFits, S!Fits, S!Over
  <2>3. ref' \in {0, loads'}
    BY <1>1 DEF LessonInv, OneLoad
  <2> QED BY <2>1, <2>2, <2>3, RenderFits
<1>6. CardsLoad'
  <2> SUFFICES ASSUME Calm, ~\E q \in net : q.api = "course" PROVE CardsLoad'
    BY <1>1 DEF CardsLoad, Calm
  <2>1. ref = loads => view' = lists[loads].homeworks
    BY <1>1, <1>2, LessonConstants DEF S!Render
  <2>2. lists'[loads'].homeworks = lists[loads].homeworks
    BY <1>1, <1>2
  <2>3. \A h \in Homeworks : (Missing("homework", h)' <=> Missing("homework", h)) /\ (Waits(h)' <=> Waits(h))
    BY <1>1 DEF Missing, Waits
  <2>4. \A x : (Missing("problem", x)' <=> Missing("problem", x)) /\ (Missing("record", x)' <=> Missing("record", x))
    BY <1>1 DEF Missing
  <2>5. ASSUME NEW h \in Homeworks, ToShow(h)' PROVE Loading(h)'
    <3>1. Loading(h)
      BY <1>1, <2>5 DEF LessonInv, CardsLoad, ToShow, S!Fits, S!Over
    <3> QED BY <1>1, <2>1, <2>2, <2>3, <2>4, <3>1 DEF Loading
  <2> QED BY <2>5 DEF CardsLoad
<1> QED BY <1>3, <1>4, <1>5, <1>6

(* A notice comes into the list of its load, which is shown.               *)
LEMMA NoticeAnswerKeeps == ASSUME LessonInv, NEW r \in net, S!NoticeAnswer(r) PROVE LessonInv'
<1>1. /\ UNCHANGED <<hist, now, known, selected, loads, overlapped, lost, others>>
      /\ UNCHANGED <<ref, course_info, stranger>> /\ S!Render /\ r.api = "notice" /\ S!Answer(r, "notice")
      /\ net' = net \ {r} /\ infoitems' = lists'[r.load].notices
  BY DEF S!NoticeAnswer, S!Answer, S!Ask
<1>2. /\ loads \in 1..MaxLoads /\ lists \in [1..MaxLoads -> Lists] /\ r.load \in 1..loads
      /\ r.load \in 1..MaxLoads /\ r.id \in Notices
  <2>1. Request(r) /\ loads \in 1..MaxLoads
    BY LessonTyped DEF LessonInv, LessonRequests
  <2> QED BY <1>1, <2>1, LessonConstants DEF LessonInv, LessonRequests, Request
<1>3. /\ lists' \in [1..MaxLoads -> Lists]
      /\ \A n \in 1..MaxLoads : n # r.load => lists'[n] = lists[n]
      /\ \A n \in 1..MaxLoads : lists'[n].homeworks = lists[n].homeworks
      /\ lists'[r.load].notices = lists[r.load].notices \cup {r.id}
      /\ lists'[r.load].tas = lists[r.load].tas
  <2>1. PICK l : l = lists[r.load]
    OBVIOUS
  <2>2. PICK m : m = l.notices \cup {r.id}
    OBVIOUS
  <2>3. l \in Lists /\ m \in SUBSET Notices
    BY <1>2, <2>1, <2>2, ListFields
  <2>4. PICK k : k = [l EXCEPT !.notices = m]
    OBVIOUS
  <2>5. k \in Lists /\ k.homeworks = l.homeworks /\ k.notices = m /\ k.tas = l.tas
    BY <2>3, <2>4 DEF Lists
  <2>6. lists' = [lists EXCEPT ![r.load] = k]
    BY <2>1, <2>2, <2>4 DEF S!NoticeAnswer
  <2>7. lists' \in [1..MaxLoads -> Lists] /\ lists'[r.load] = k
        /\ \A n \in 1..MaxLoads : n # r.load => lists'[n] = lists[n]
    BY <1>2, <2>5, <2>6
  <2> QED BY <2>1, <2>2, <2>5, <2>7
<1>4. infoitems' \subseteq Notices /\ course_info' \subseteq Assistants
  BY <1>1, <1>2, <1>3, ListFields, LessonTyped DEF LessonInv
<1>5. S!TypeOK' /\ LessonRequests' /\ OneLoad' /\ CardsLoad'
  BY <1>1, <1>3, <1>4, HomeworksKept
<1>6. TextsLoad'
  <2> SUFFICES ASSUME Calm PROVE TextsLoad'
    BY <1>1 DEF TextsLoad, Calm
  <2>1. r.load = loads /\ r.id \in FirstDb.notices /\ ~\E q \in net : q.api = "course"
    BY <1>1 DEF LessonInv, OneLoad, Sole, Calm
  <2>2. /\ infoitems \subseteq FirstDb.notices /\ course_info \subseteq FirstDb.tas
        /\ lists[loads].notices # {} => infoitems = lists[loads].notices
        /\ lists[loads].tas # {} => course_info = lists[loads].tas
        /\ selected = "5" => \A n \in FirstDb.notices : n \in lists[loads].notices \/ Missing("notice", n)
        /\ selected = "6" => \A u \in FirstDb.tas : u \in lists[loads].tas \/ Missing("user", u)
    BY <2>1 DEF LessonInv, TextsLoad
  <2>3. lists[loads].notices \subseteq FirstDb.notices
    BY <2>2
  <2>4. lists'[loads'].notices = lists[loads].notices \cup {r.id} /\ lists'[loads'].tas = lists[loads].tas
    BY <1>1, <1>3, <2>1
  <2>5. \A u \in FirstDb.tas : Missing("user", u) => Missing("user", u)'
    BY <1>1 DEF Missing
  <2>6. ASSUME NEW n \in FirstDb.notices, Missing("notice", n) PROVE n = r.id \/ Missing("notice", n)'
    <3>1. PICK q \in net : q.api = "notice" /\ q.id = n
      BY <2>6 DEF Missing
    <3>2. q # r => q \in net'
      BY <1>1
    <3> QED BY <3>1, <3>2 DEF Missing
  <2>7. infoitems' = lists'[loads'].notices /\ infoitems' \subseteq FirstDb.notices
    BY <1>1, <2>1, <2>3, <2>4
  <2> QED BY <1>1, <2>2, <2>4, <2>5, <2>6, <2>7 DEF TextsLoad
<1> QED BY <1>5, <1>6 DEF LessonInv

(* An assistant comes into the list of its load, which is shown.           *)
LEMMA UserAnswerKeeps == ASSUME LessonInv, NEW r \in net, S!UserAnswer(r) PROVE LessonInv'
<1>1. /\ UNCHANGED <<hist, now, known, selected, loads, overlapped, lost, others>>
      /\ UNCHANGED <<ref, infoitems, stranger>> /\ S!Render /\ r.api = "user" /\ S!Answer(r, "user")
      /\ net' = net \ {r} /\ course_info' = lists'[r.load].tas
  BY DEF S!UserAnswer, S!Answer, S!Ask
<1>2. /\ loads \in 1..MaxLoads /\ lists \in [1..MaxLoads -> Lists] /\ r.load \in 1..loads
      /\ r.load \in 1..MaxLoads /\ r.id \in Assistants
  <2>1. Request(r) /\ loads \in 1..MaxLoads
    BY LessonTyped DEF LessonInv, LessonRequests
  <2> QED BY <1>1, <2>1, LessonConstants DEF LessonInv, LessonRequests, Request
<1>3. /\ lists' \in [1..MaxLoads -> Lists]
      /\ \A n \in 1..MaxLoads : n # r.load => lists'[n] = lists[n]
      /\ \A n \in 1..MaxLoads : lists'[n].homeworks = lists[n].homeworks
      /\ lists'[r.load].tas = lists[r.load].tas \cup {r.id}
      /\ lists'[r.load].notices = lists[r.load].notices
  <2>1. PICK l : l = lists[r.load]
    OBVIOUS
  <2>2. PICK m : m = l.tas \cup {r.id}
    OBVIOUS
  <2>3. l \in Lists /\ m \in SUBSET Assistants
    BY <1>2, <2>1, <2>2, ListFields
  <2>4. PICK k : k = [l EXCEPT !.tas = m]
    OBVIOUS
  <2>5. k \in Lists /\ k.homeworks = l.homeworks /\ k.notices = l.notices /\ k.tas = m
    BY <2>3, <2>4 DEF Lists
  <2>6. lists' = [lists EXCEPT ![r.load] = k]
    BY <2>1, <2>2, <2>4 DEF S!UserAnswer
  <2>7. lists' \in [1..MaxLoads -> Lists] /\ lists'[r.load] = k
        /\ \A n \in 1..MaxLoads : n # r.load => lists'[n] = lists[n]
    BY <1>2, <2>5, <2>6
  <2> QED BY <2>1, <2>2, <2>5, <2>7
<1>4. infoitems' \subseteq Notices /\ course_info' \subseteq Assistants
  BY <1>1, <1>2, <1>3, ListFields, LessonTyped DEF LessonInv
<1>5. S!TypeOK' /\ LessonRequests' /\ OneLoad' /\ CardsLoad'
  BY <1>1, <1>3, <1>4, HomeworksKept
<1>6. TextsLoad'
  <2> SUFFICES ASSUME Calm PROVE TextsLoad'
    BY <1>1 DEF TextsLoad, Calm
  <2>1. r.load = loads /\ r.id \in FirstDb.tas /\ ~\E q \in net : q.api = "course"
    BY <1>1 DEF LessonInv, OneLoad, Sole, Calm
  <2>2. /\ infoitems \subseteq FirstDb.notices /\ course_info \subseteq FirstDb.tas
        /\ lists[loads].notices # {} => infoitems = lists[loads].notices
        /\ lists[loads].tas # {} => course_info = lists[loads].tas
        /\ selected = "5" => \A n \in FirstDb.notices : n \in lists[loads].notices \/ Missing("notice", n)
        /\ selected = "6" => \A u \in FirstDb.tas : u \in lists[loads].tas \/ Missing("user", u)
    BY <2>1 DEF LessonInv, TextsLoad
  <2>3. lists[loads].tas \subseteq FirstDb.tas
    BY <2>2
  <2>4. lists'[loads'].tas = lists[loads].tas \cup {r.id} /\ lists'[loads'].notices = lists[loads].notices
    BY <1>1, <1>3, <2>1
  <2>5. \A n \in FirstDb.notices : Missing("notice", n) => Missing("notice", n)'
    BY <1>1 DEF Missing
  <2>6. ASSUME NEW u \in FirstDb.tas, Missing("user", u) PROVE u = r.id \/ Missing("user", u)'
    <3>1. PICK q \in net : q.api = "user" /\ q.id = u
      BY <2>6 DEF Missing
    <3>2. q # r => q \in net'
      BY <1>1
    <3> QED BY <3>1, <3>2 DEF Missing
  <2>7. course_info' = lists'[loads'].tas /\ course_info' \subseteq FirstDb.tas
    BY <1>1, <2>1, <2>3, <2>4
  <2> QED BY <1>1, <2>2, <2>4, <2>5, <2>6, <2>7 DEF TextsLoad
<1> QED BY <1>5, <1>6 DEF LessonInv

(* An answer about a homework leaves the texts as they were.               *)
LEMMA TextsKept ==
    ASSUME LessonInv, NEW r \in net, r.api \in {"homework", "problem", "record"},
           UNCHANGED <<selected, loads, overlapped, lost, others, infoitems, course_info>>,
           stranger => stranger', \A q \in net : q # r => q \in net',
           lists'[loads].notices = lists[loads].notices, lists'[loads].tas = lists[loads].tas
    PROVE  TextsLoad'
<1> SUFFICES ASSUME Calm PROVE TextsLoad'
  BY DEF TextsLoad, Calm
<1>1. ~\E q \in net : q.api = "course"
  BY DEF LessonInv, OneLoad, Sole, Calm
<1>2. \A x : (Missing("notice", x) => Missing("notice", x)') /\ (Missing("user", x) => Missing("user", x)')
  BY DEF Missing
<1>3. /\ infoitems \subseteq FirstDb.notices /\ course_info \subseteq FirstDb.tas
      /\ lists[loads].notices # {} => infoitems = lists[loads].notices
      /\ lists[loads].tas # {} => course_info = lists[loads].tas
      /\ selected = "5" => \A n \in FirstDb.notices : n \in lists[loads].notices \/ Missing("notice", n)
      /\ selected = "6" => \A u \in FirstDb.tas : u \in lists[loads].tas \/ Missing("user", u)
  BY <1>1 DEF LessonInv, TextsLoad
<1> QED BY <1>2, <1>3 DEF TextsLoad

(* What a homework waits for that another request is not about.            *)
LEMMA OthersWait ==
    ASSUME NEW r \in net, \A q \in net : q # r => q \in net', NEW h,
           r.api = "homework" => r.id # h,
           r.api \in {"problem", "record"} => r.id[1] # h
    PROVE  /\ Missing("homework", h) => Missing("homework", h)'
           /\ \A p : Missing("problem", <<h, p>>) => Missing("problem", <<h, p>>)'
           /\ \A p : Missing("record", <<h, p>>) => Missing("record", <<h, p>>)'
           /\ Waits(h) => Waits(h)'
<1>1. ASSUME Missing("homework", h) PROVE Missing("homework", h)'
  <2>1. PICK q \in net : q.api = "homework" /\ q.id = h
    BY <1>1 DEF Missing
  <2> QED BY <2>1 DEF Missing
<1>2. ASSUME NEW p, NEW api \in {"problem", "record"}, Missing(api, <<h, p>>) PROVE Missing(api, <<h, p>>)'
  <2>1. PICK q \in net : q.api = api /\ q.id = <<h, p>>
    BY <1>2 DEF Missing
  <2>2. q # r
    BY <1>2, <2>1
  <2> QED BY <2>1, <2>2 DEF Missing
<1>3. Waits(h) => Waits(h)'
  BY <1>1, <1>2 DEF Waits
<1> QED BY <1>1, <1>2, <1>3

(* The card of a problem or a record gets a value for the problem.         *)
LEMMA CardSays ==
    ASSUME LessonInv, NEW r \in net, r.api \in {"problem", "record"}, NEW x \in 0..2,
           S!Put(r, r.id[1], S!Saying(r, x))
    PROVE  /\ lists' \in [1..MaxLoads -> Lists]
           /\ \A n \in 1..MaxLoads : n # r.load => lists'[n] = lists[n]
           /\ \A n \in 1..MaxLoads : lists'[n].notices = lists[n].notices /\ lists'[n].tas = lists[n].tas
           /\ \A n \in 1..MaxLoads, h \in Homeworks :
                 lists[n].homeworks[h] # None => lists'[n].homeworks[h] # None
           /\ \A h \in Homeworks : h # r.id[1] => lists'[r.load].homeworks[h] = lists[r.load].homeworks[h]
           /\ lists'[r.load].homeworks[r.id[1]].row = lists[r.load].homeworks[r.id[1]].row
           /\ lists'[r.load].homeworks[r.id[1]].problems[r.id[2]] = x
           /\ \A p \in Problems : p # r.id[2] =>
                 lists'[r.load].homeworks[r.id[1]].problems[p] = lists[r.load].homeworks[r.id[1]].problems[p]
<1>1. Request(r) /\ loads \in 1..MaxLoads /\ lists \in [1..MaxLoads -> Lists]
  BY LessonTyped DEF LessonInv, LessonRequests
<1>2. r.load \in 1..MaxLoads /\ r.id[1] \in Homeworks /\ r.id[2] \in Problems
  BY <1>1, LessonConstants DEF Request
<1>3. PICK c : c = lists[r.load].homeworks[r.id[1]]
  OBVIOUS
<1>4. c \in S!Card
  <2>1. lists[r.load].homeworks \in [Homeworks -> {None} \cup S!Card]
    BY <1>1, <1>2, ListFields
  <2> QED BY <1>1, <1>2, <1>3, <2>1 DEF Request
<1>5. PICK f : f = [c.problems EXCEPT ![r.id[2]] = x]
  OBVIOUS
<1>6. /\ f \in [Problems -> 0..2 \cup {None}] /\ f[r.id[2]] = x
      /\ \A p \in Problems : p # r.id[2] => f[p] = c.problems[p]
  <2>1. c.problems \in [Problems -> 0..2 \cup {None}]
    BY <1>4 DEF S!Card
  <2> QED BY <1>2, <1>5, <2>1
<1>7. PICK e : e = [c EXCEPT !.problems = f]
  OBVIOUS
<1>8. e \in S!Card /\ e.row = c.row /\ e.problems = f
  BY <1>4, <1>6, <1>7 DEF S!Card
<1>9. S!Saying(r, x) = e
  BY <1>3, <1>5, <1>7 DEF S!Saying
<1>10. lists' = [lists EXCEPT ![r.load].homeworks[r.id[1]] = e]
  BY <1>9 DEF S!Put
<1>11. /\ lists' \in [1..MaxLoads -> Lists]
       /\ \A m \in 1..MaxLoads : m # r.load => lists'[m] = lists[m]
       /\ lists'[r.load].notices = lists[r.load].notices /\ lists'[r.load].tas = lists[r.load].tas
       /\ lists'[r.load].homeworks[r.id[1]] = e
       /\ \A g \in Homeworks : g # r.id[1] => lists'[r.load].homeworks[g] = lists[r.load].homeworks[g]
  <2>1. PICK n, h : n = r.load /\ h = r.id[1]
    OBVIOUS
  <2>2. n \in 1..MaxLoads /\ h \in Homeworks /\ e \in {None} \cup S!Card
        /\ lists' = [lists EXCEPT ![n].homeworks[h] = e]
    BY <1>2, <1>8, <1>10, <2>1
  <2>3. S!TypeOK /\ LessonRequests
    BY DEF LessonInv
  <2>4. /\ lists' \in [1..MaxLoads -> Lists]
        /\ \A m \in 1..MaxLoads : m # n => lists'[m] = lists[m]
        /\ lists'[n].notices = lists[n].notices /\ lists'[n].tas = lists[n].tas
        /\ lists'[n].homeworks[h] = e
        /\ \A g \in Homeworks : g # h => lists'[n].homeworks[g] = lists[n].homeworks[g]
    BY <2>2, <2>3, CardPut
  <2> QED BY <2>1, <2>4
<1>12. ASSUME NEW n \in 1..MaxLoads, NEW h \in Homeworks, lists[n].homeworks[h] # None
       PROVE  lists'[n].homeworks[h] # None
  <2>1. e # None
    BY <1>8, LessonConstants
  <2> QED BY <1>11, <1>12, <2>1
<1> QED BY <1>3, <1>6, <1>8, <1>11, <1>12

(* A homework that is not of the panel, or is gone, is not shown.          *)
LEMMA HomeworkSkips ==
    ASSUME LessonInv, NEW r \in net, NEW d \in S!Tables, ~others => d = FirstDb,
           S!HomeworkAnswer(r, d),
           IF d.homeworks[r.id] = None THEN TRUE ELSE ~S!Fits(d.homeworks[r.id], selected)
    PROVE  LessonInv'
<1>1. /\ UNCHANGED <<hist, now, known, selected, loads, overlapped, lost, others>>
      /\ UNCHANGED <<lists, ref, infoitems, course_info, view, stranger>>
      /\ r.api = "homework" /\ S!Answer(r, "homework") /\ net' = net \ {r}
  <2>1. /\ UNCHANGED <<ref, infoitems, course_info, view, stranger>> /\ S!Answer(r, "homework")
        /\ S!Ask(r, {}) /\ UNCHANGED lists
    BY DEF S!HomeworkAnswer
  <2>2. net' = net \ {r}
    BY <2>1 DEF S!Ask
  <2> QED BY <2>1, <2>2 DEF S!Answer
<1>2. /\ loads \in 1..MaxLoads /\ ref \in 0..loads /\ lists \in [1..MaxLoads -> Lists]
  BY LessonTyped DEF LessonInv, LessonRequests
<1>3. S!TypeOK'
  <2>1. \A q \in net' : q.api \in S!Reads
    BY <1>1 DEF LessonInv, S!TypeOK
  <2> QED BY <1>1, <1>2, <2>1, AnswerTypes, LessonTyped DEF LessonInv
<1>4. LessonRequests'
  <2>1. ASSUME NEW q \in net' PROVE Request(q)'
    <3>1. Request(q)
      BY <1>1 DEF LessonInv, LessonRequests
    <3> QED BY <1>1, <3>1 DEF Request
  <2> QED BY <1>1, <2>1 DEF LessonInv, LessonRequests
<1>5. OneLoad'
  <2> SUFFICES ASSUME ~overlapped, ~others
               PROVE  /\ (ref \in {0, loads} /\ \A q \in net : Sole(q))'
                      /\ \A h \in Homeworks : (CardFits(lists[loads].homeworks[h], h) /\ CardFits(view[h], h))'
    BY <1>1 DEF OneLoad
  <2>1. \A q \in net' : Sole(q)'
    BY <1>1 DEF LessonInv, OneLoad, Sole
  <2> QED BY <1>1, <2>1 DEF LessonInv, OneLoad, CardFits, S!Fits, S!Over
<1>6. TextsLoad'
  BY <1>1, TextsKept
<1>7. CardsLoad'
  <2> SUFFICES ASSUME Calm PROVE CardsLoad'
    BY <1>1 DEF CardsLoad, Calm
  <2>1. d = FirstDb /\ ~\E q \in net : q.api = "course"
    BY <1>1 DEF LessonInv, OneLoad, Sole, Calm
  <2>2. ASSUME NEW h \in Homeworks, ToShow(h)' PROVE Loading(h)'
    <3>1. ToShow(h)
      BY <1>1, <2>2 DEF ToShow, S!Fits, S!Over
    <3>2. Loading(h)
      BY <2>1, <3>1 DEF LessonInv, CardsLoad
    <3>3. r.id # h
      BY <2>1, <3>1 DEF ToShow
    <3>4. /\ Missing("homework", h) => Missing("homework", h)'
          /\ \A p : Missing("problem", <<h, p>>) => Missing("problem", <<h, p>>)'
          /\ \A p : Missing("record", <<h, p>>) => Missing("record", <<h, p>>)'
          /\ Waits(h) => Waits(h)'
      BY <1>1, <3>3, OthersWait
    <3> QED BY <1>1, <3>2, <3>4 DEF Loading
  <2> QED BY <2>2 DEF CardsLoad
<1> QED BY <1>3, <1>4, <1>5, <1>6, <1>7 DEF LessonInv

(* A homework of the panel gets a card, and its problems are asked for.    *)
LEMMA HomeworkAsks ==
    ASSUME NEW r, NEW row, S!Ask(r, {S!Query(r, "problem", <<r.id, p>>) : p \in row.problems})
    PROVE  \E asked_ :
             /\ net' = (net \ {r}) \cup asked_
             /\ \A q \in asked_ : \E p \in row.problems : q = S!Query(r, "problem", <<r.id, p>>)
             /\ \A p \in row.problems : \E q \in asked_ : q.api = "problem" /\ q.id = <<r.id, p>>
<1>1. PICK a : a = {S!Query(r, "problem", <<r.id, p>>) : p \in row.problems}
  OBVIOUS
<1>2. net' = (net \ {r}) \cup a
  BY <1>1 DEF S!Ask
<1>3. ASSUME NEW p \in row.problems PROVE \E q \in a : q.api = "problem" /\ q.id = <<r.id, p>>
  <2>1. PICK q : q = S!Query(r, "problem", <<r.id, p>>)
    OBVIOUS
  <2>2. q \in a /\ q.api = "problem" /\ q.id = <<r.id, p>>
    BY <1>1, <2>1, QueryFields
  <2> QED BY <2>2
<1>4. \A q \in a : \E p \in row.problems : q = S!Query(r, "problem", <<r.id, p>>)
  BY <1>1
<1> QED BY <1>2, <1>3, <1>4

(* The card of a homework of the panel comes into the list of its load.    *)
LEMMA HomeworkPuts ==
    ASSUME LessonInv, NEW r \in net, NEW d \in S!Tables, ~others => d = FirstDb,
           S!HomeworkAnswer(r, d),
           d.homeworks[r.id] # None, S!Fits(d.homeworks[r.id], selected)
    PROVE  LessonInv'
<1> DEFINE row == d.homeworks[r.id]
           card == [row |-> row, problems |-> [p \in Problems |-> None]]
<1>1. /\ UNCHANGED <<hist, now, known, selected, loads, overlapped, lost, others>>
      /\ UNCHANGED <<ref, infoitems, course_info, view, stranger>>
      /\ r.api = "homework" /\ S!Answer(r, "homework")
      /\ S!Put(r, r.id, card)
      /\ S!Ask(r, {S!Query(r, "problem", <<r.id, p>>) : p \in row.problems})
  BY DEF S!HomeworkAnswer, S!Answer
<1>2. /\ loads \in 1..MaxLoads /\ ref \in 0..loads /\ lists \in [1..MaxLoads -> Lists]
      /\ Request(r) /\ Len(hist) \in 1..Len(hist)
  BY LessonTyped DEF LessonInv, LessonRequests
<1>3. r.id \in Homeworks /\ r.load \in 1..MaxLoads /\ r.load \in 1..loads
  BY <1>1, <1>2, LessonConstants DEF Request
<1>4. row \in S!Rows /\ row.problems \subseteq Problems
  <2>1. row \in S!Rows
    BY <1>3, LessonColumns
  <2> QED BY <2>1 DEF S!Rows
<1>5. card \in S!Card /\ card # None
  <2>1. card \in S!Card
    BY <1>4 DEF S!Card
  <2> QED BY <2>1, LessonConstants
<1> HIDE DEF row
<1>6. PICK n, h, c : n = r.load /\ h = r.id /\ c = card
  OBVIOUS
<1>7. /\ lists' \in [1..MaxLoads -> Lists]
      /\ \A m \in 1..MaxLoads : m # n => lists'[m] = lists[m]
      /\ lists'[n].notices = lists[n].notices /\ lists'[n].tas = lists[n].tas
      /\ lists'[n].homeworks[h] = c
      /\ \A g \in Homeworks : g # h => lists'[n].homeworks[g] = lists[n].homeworks[g]
  <2>1. n \in 1..MaxLoads /\ h \in Homeworks /\ c \in {None} \cup S!Card
        /\ lists' = [lists EXCEPT ![n].homeworks[h] = c]
    BY <1>1, <1>3, <1>5, <1>6 DEF S!Put
  <2>2. S!TypeOK /\ LessonRequests
    BY DEF LessonInv
  <2> HIDE DEF card
  <2> QED BY <2>1, <2>2, CardPut, ZenonT(60)
<1>8. PICK a :
         /\ net' = (net \ {r}) \cup a
         /\ \A q \in a : \E p \in row.problems : q = S!Query(r, "problem", <<r.id, p>>)
         /\ \A p \in row.problems : \E q \in a : q.api = "problem" /\ q.id = <<r.id, p>>
  BY <1>1, HomeworkAsks
<1>9. ASSUME NEW q \in a
      PROVE  /\ q.api = "problem" /\ q.load = n /\ q.at = Len(hist)
             /\ q.id \in Homeworks \X Problems /\ q.id[1] = h /\ q.id[2] \in row.problems
             /\ q = S!Query(r, "problem", q.id)
  <2>1. PICK p \in row.problems : q = S!Query(r, "problem", <<r.id, p>>)
    BY <1>8
  <2>2. q.api = "problem" /\ q.id = <<r.id, p>> /\ q.load = r.load /\ q.at = Len(hist)
    BY <2>1, QueryFields
  <2> QED BY <1>3, <1>4, <1>6, <2>1, <2>2
<1>10. S!TypeOK'
  <2>1. \A q \in net' : q.api \in S!Reads
    BY <1>8, <1>9 DEF LessonInv, S!TypeOK, S!Reads
  <2> QED BY <1>1, <1>2, <1>7, <2>1, AnswerTypes, LessonTyped DEF LessonInv
<1>11. LessonRequests'
  <2>1. \A q \in a : Request(q)'
    BY <1>1, <1>2, <1>3, <1>5, <1>6, <1>7, <1>9 DEF Request, S!Reads
  <2>2. net' = (net \ {r}) \cup a
    BY <1>8
  <2>3. \A m \in 1..MaxLoads : m > loads => lists'[m] = lists[m]
    BY <1>2, <1>3, <1>6, <1>7, LessonConstants
  <2>4. ASSUME NEW m \in 1..MaxLoads, NEW g \in Homeworks, lists[m].homeworks[g] # None
        PROVE  lists'[m].homeworks[g] # None
    BY <1>5, <1>6, <1>7, <2>4
  <2>5. (stranger => stranger') /\ S!Answer(r, "homework") /\ lists' \in [1..MaxLoads -> Lists]
    BY <1>1, <1>7
  <2> QED BY <2>1, <2>2, <2>3, <2>4, <2>5, AnswerRequests
<1>12. ASSUME ~overlapped, ~others
       PROVE  /\ d = FirstDb /\ row = FirstDb.homeworks[h] /\ n = loads /\ ref \in {0, loads}
              /\ \A q \in net : Sole(q) /\ q.api # "course"
              /\ \A q \in net : q.api \in {"problem", "record"} => q.id[1] # h
              /\ \A q \in net : q # r /\ q.api = "homework" => q.id # h
  <2>1. d = FirstDb /\ row = FirstDb.homeworks[h]
    BY <1>6, <1>12 DEF row
  <2>2. ref \in {0, loads} /\ \A q \in net : Sole(q)
    BY <1>12 DEF LessonInv, OneLoad
  <2>3. \A q \in net : q.api # "course"
    BY <1>1, <2>2 DEF Sole
  <2>4. n = loads /\ (\A q \in net : q.api \in {"problem", "record"} => q.id[1] # h)
        /\ \A q \in net : q # r /\ q.api = "homework" => q.id # h
    BY <1>1, <1>6, <2>2 DEF Sole
  <2> QED BY <2>1, <2>2, <2>3, <2>4
<1>13. OneLoad'
  <2> SUFFICES ASSUME ~overlapped, ~others
               PROVE  /\ (ref \in {0, loads} /\ \A q \in net : Sole(q))'
                      /\ \A g \in Homeworks : (CardFits(lists[loads].homeworks[g], g) /\ CardFits(view[g], g))'
    BY <1>1 DEF OneLoad, CardFits
  <2>1. ASSUME NEW q \in net, q # r PROVE Sole(q)'
    <3>1. Sole(q) /\ q.api # "course" /\ Request(q)
      BY <1>12 DEF LessonInv, LessonRequests
    <3>2. \A s \in net' : s \in net \/ (s.api = "problem" /\ s.id[1] = h /\ s.id \in Homeworks \X Problems)
      BY <1>8, <1>9
    <3>3. q.api \in {"problem", "record"} =>
              q.id[1] \in Homeworks /\ q.id[1] # h
              /\ lists'[loads'].homeworks[q.id[1]] = lists[loads].homeworks[q.id[1]]
      BY <1>1, <1>7, <1>12, <3>1 DEF Request
    <3>4. q.api = "homework" => q.id # h
      BY <1>12, <2>1
    <3>5. q.load = loads' /\ (q.api = "notice" => q.id \in FirstDb.notices) /\ (q.api = "user" => q.id \in FirstDb.tas)
      BY <1>1, <3>1 DEF Sole
    <3>6. q.api = "homework" => FirstDb.homeworks[q.id] # None /\
             \A s \in net' : /\ s.api = "homework" /\ s.id = q.id => s = q
                             /\ s.api \in {"problem", "record"} => s.id[1] # q.id
      BY <3>1, <3>2, <3>4 DEF Sole
    <3>7. q.api \in {"problem", "record"} =>
            /\ q.id[2] \in FirstDb.homeworks[q.id[1]].problems
            /\ \A s \in net' : s.api \in {"problem", "record"} /\ s.id = q.id => s = q
      BY <3>1, <3>2, <3>3 DEF Sole
    <3>8. q.api = "record" => lists'[loads'].homeworks[q.id[1]].problems[q.id[2]] = 0
      BY <3>1, <3>3 DEF Sole
    <3> QED BY <3>1, <3>5, <3>6, <3>7, <3>8 DEF Sole
  <2>2. ASSUME NEW q \in a PROVE Sole(q)'
    <3>1. \A s \in net' : s \in net \/ s \in a
      BY <1>8
    <3>2. \A s \in net' : s.api \in {"problem", "record"} /\ s.id = q.id => s = q
      BY <1>9, <1>12, <2>2, <3>1
    <3> QED BY <1>1, <1>9, <1>12, <3>2 DEF Sole
  <2>3. \A q \in net' : Sole(q)'
    BY <1>8, <2>1, <2>2
  <2>4. CardFits(c, h)'
    <3>1. c.row = row /\ \A p \in Problems : c.problems[p] = None
      BY <1>6
    <3>2. S!Fits(row, selected)'
      BY <1>1 DEF S!Fits, S!Over, row
    <3> QED BY <1>12, <3>1, <3>2 DEF CardFits
  <2>5. ASSUME NEW g \in Homeworks PROVE (CardFits(lists[loads].homeworks[g], g) /\ CardFits(view[g], g))'
    <3>1. CardFits(lists[loads].homeworks[g], g) /\ CardFits(view[g], g)
      BY DEF LessonInv, OneLoad
    <3>2. lists'[loads'].homeworks[g] = IF g = h THEN c ELSE lists[loads].homeworks[g]
      BY <1>1, <1>7, <1>12
    <3> QED BY <1>1, <2>4, <3>1, <3>2 DEF CardFits, S!Fits, S!Over
  <2> QED BY <1>1, <1>12, <2>3, <2>5
<1>14. TextsLoad'
  <2>1. loads \in 1..MaxLoads /\ lists'[loads].notices = lists[loads].notices /\ lists'[loads].tas = lists[loads].tas
    BY <1>2, <1>7
  <2>2. \A q \in net : q # r => q \in net'
    BY <1>8
  <2> QED BY <1>1, <2>1, <2>2, TextsKept
<1>15. CardsLoad'
  <2> SUFFICES ASSUME Calm PROVE CardsLoad'
    BY <1>1 DEF CardsLoad, Calm
  <2>1. ~overlapped /\ ~others
    BY DEF Calm
  <2>2. ASSUME NEW g \in Homeworks, g # h, ToShow(g)' PROVE Loading(g)'
    <3>1. ToShow(g) /\ ~\E q \in net : q.api = "course"
      BY <1>1, <1>12, <2>1, <2>2 DEF ToShow, S!Fits, S!Over
    <3>2. Loading(g)
      BY <3>1 DEF LessonInv, CardsLoad
    <3>3. /\ Missing("homework", g) => Missing("homework", g)'
          /\ \A p : Missing("problem", <<g, p>>) => Missing("problem", <<g, p>>)'
          /\ \A p : Missing("record", <<g, p>>) => Missing("record", <<g, p>>)'
          /\ Waits(g) => Waits(g)'
      <4>1. r.api \notin {"problem", "record"} /\ r.id # g /\ \A q \in net : q # r => q \in net'
        BY <1>1, <1>6, <1>8, <2>2
      <4> QED BY <4>1, OthersWait
    <3>4. lists'[loads'].homeworks[g] = lists[loads].homeworks[g] /\ view' = view /\ ref' = ref /\ loads' = loads
      BY <1>1, <1>7, <1>12, <2>1, <2>2
    <3> QED BY <3>2, <3>3, <3>4 DEF Loading
  <2>3. Loading(h)'
    <3>1. lists'[loads'].homeworks[h] = c /\ c # None /\ FirstDb.homeworks[h] = row
      BY <1>1, <1>5, <1>6, <1>7, <1>12, <2>1
    <3>2. \A p \in row.problems : Missing("problem", <<h, p>>)'
      BY <1>6, <1>8 DEF Missing
    <3>3. row.problems # {} => Waits(h)'
      BY <1>4, <3>2 DEF Waits
    <3> QED BY <3>1, <3>2, <3>3 DEF Loading
  <2> QED BY <2>2, <2>3 DEF CardsLoad
<1> QED BY <1>10, <1>11, <1>13, <1>14, <1>15 DEF LessonInv

(* What is known of a request for a problem or a record, and of the others.*)
LEMMA AboutProblem ==
    ASSUME LessonInv, ~overlapped, ~others, NEW r \in net, r.api \in {"problem", "record"}
    PROVE  /\ r.load = loads /\ ref \in {0, loads} /\ r.id[2] \in FirstDb.homeworks[r.id[1]].problems
           /\ \A q \in net : Sole(q) /\ Request(q) /\ q.api # "course"
           /\ \A q \in net : q.api = "homework" => q.id # r.id[1]
           /\ \A q \in net : q # r /\ q.api \in {"problem", "record"} =>
                 /\ q.id \in Homeworks \X Problems
                 /\ q.id # r.id /\ (q.id[1] = r.id[1] => q.id[2] # r.id[2])
<1>1. ref \in {0, loads} /\ \A q \in net : Sole(q) /\ Request(q)
  BY DEF LessonInv, LessonRequests, OneLoad
<1>2. \A q \in net : q.api # "course"
  BY <1>1 DEF Sole
<1>3. r.load = loads /\ r.id[2] \in FirstDb.homeworks[r.id[1]].problems
  BY <1>1 DEF Sole
<1>4. ASSUME NEW q \in net, q.api = "homework" PROVE q.id # r.id[1]
  <2>1. \A s \in net : s.api \in {"problem", "record"} => s.id[1] # q.id
    BY <1>1, <1>4 DEF Sole
  <2> QED BY <2>1
<1>5. ASSUME NEW q \in net, q # r, q.api \in {"problem", "record"}
      PROVE  q.id \in Homeworks \X Problems /\ q.id # r.id /\ (q.id[1] = r.id[1] => q.id[2] # r.id[2])
  <2>1. q.id \in Homeworks \X Problems /\ r.id \in Homeworks \X Problems
    BY <1>1, <1>5 DEF Request
  <2>2. q.id # r.id
    BY <1>1, <1>5 DEF Sole
  <2> QED BY <2>1, <2>2
<1> QED BY <1>1, <1>2, <1>3, <1>4, <1>5

(* The other requests and the cards, when the card of a problem gets a     *)
(* value or stays as it is.                                                *)
LEMMA OthersSole ==
    ASSUME LessonInv, ~overlapped, ~others, NEW r \in net, r.api \in {"problem", "record"},
           UNCHANGED <<loads, now, selected>>,
           NEW x \in 0..2, S!Put(r, r.id[1], S!Saying(r, x)) \/ UNCHANGED lists,
           \A s \in net' : s \in net \/ (s.api = "record" /\ s.id = r.id),
           NEW q \in net, q # r
    PROVE  Sole(q)'
<1>1. Sole(q) /\ Request(q) /\ q.api # "course"
  BY AboutProblem
<1>2. q.api = "homework" => q.id # r.id[1]
  BY AboutProblem
<1>3. q.api \in {"problem", "record"} =>
          q.id \in Homeworks \X Problems /\ q.id # r.id /\ (q.id[1] = r.id[1] => q.id[2] # r.id[2])
  BY AboutProblem
<1>4. q.api = "record" => lists'[loads'].homeworks[q.id[1]].problems[q.id[2]] = 0
  <2> SUFFICES ASSUME q.api = "record" PROVE lists'[loads'].homeworks[q.id[1]].problems[q.id[2]] = 0
    OBVIOUS
  <2>1. lists[loads].homeworks[q.id[1]].problems[q.id[2]] = 0 /\ q.id[1] \in Homeworks /\ q.id[2] \in Problems
    BY <1>1, <1>3 DEF Sole
  <2>2. r.load = loads
    BY AboutProblem
  <2>3. CASE UNCHANGED lists
    BY <2>1, <2>3
  <2>4. CASE S!Put(r, r.id[1], S!Saying(r, x))
    <3>1. /\ \A h \in Homeworks : h # r.id[1] => lists'[r.load].homeworks[h] = lists[r.load].homeworks[h]
          /\ \A p \in Problems : p # r.id[2] =>
                lists'[r.load].homeworks[r.id[1]].problems[p] = lists[r.load].homeworks[r.id[1]].problems[p]
      BY <2>4, CardSays
    <3> QED BY <1>3, <2>1, <2>2, <3>1
  <2> QED BY <2>3, <2>4
<1>5. q.api = "homework" => FirstDb.homeworks[q.id] # None /\
          \A s \in net' : /\ s.api = "homework" /\ s.id = q.id => s = q
                          /\ s.api \in {"problem", "record"} => s.id[1] # q.id
  BY <1>1, <1>2 DEF Sole
<1>6. q.api \in {"problem", "record"} =>
          /\ q.id[2] \in FirstDb.homeworks[q.id[1]].problems
          /\ \A s \in net' : s.api \in {"problem", "record"} /\ s.id = q.id => s = q
  BY <1>1, <1>3 DEF Sole
<1>7. q.load = loads' /\ (q.api = "notice" => q.id \in FirstDb.notices) /\ (q.api = "user" => q.id \in FirstDb.tas)
  BY <1>1 DEF Sole
<1> QED BY <1>1, <1>4, <1>5, <1>6, <1>7 DEF Sole

(* The cards fit the panel after the answer, too.                          *)
LEMMA SayingFits ==
    ASSUME LessonInv, ~overlapped, ~others, NEW r \in net, r.api \in {"problem", "record"},
           UNCHANGED <<loads, now, selected>>,
           NEW x \in 0..2, S!Put(r, r.id[1], S!Saying(r, x)) \/ UNCHANGED lists
    PROVE  \A h \in Homeworks : CardFits(lists[loads].homeworks[h], h)'
<1> SUFFICES ASSUME NEW h \in Homeworks PROVE CardFits(lists[loads].homeworks[h], h)'
  OBVIOUS
<1>1. CardFits(lists[loads].homeworks[h], h)
  BY DEF LessonInv, OneLoad
<1>2. r.load = loads /\ r.id[2] \in FirstDb.homeworks[r.id[1]].problems /\ Request(r)
  BY AboutProblem
<1>3. lists'[loads'].homeworks[h] = lists[loads].homeworks[h] => CardFits(lists[loads].homeworks[h], h)'
  BY <1>1 DEF CardFits, S!Fits, S!Over
<1>4. CASE UNCHANGED lists
  BY <1>3, <1>4
<1>5. CASE S!Put(r, r.id[1], S!Saying(r, x))
  <2>1. /\ \A g \in Homeworks : g # r.id[1] => lists'[r.load].homeworks[g] = lists[r.load].homeworks[g]
        /\ lists'[r.load].homeworks[r.id[1]].row = lists[r.load].homeworks[r.id[1]].row
        /\ \A p \in Problems : p # r.id[2] =>
              lists'[r.load].homeworks[r.id[1]].problems[p] = lists[r.load].homeworks[r.id[1]].problems[p]
    BY <1>5, CardSays
  <2>2. CASE h # r.id[1]
    BY <1>2, <1>3, <2>1, <2>2
  <2>3. CASE h = r.id[1]
    <3>1. PICK c, e : c = lists[loads].homeworks[h] /\ e = lists'[loads'].homeworks[h]
      OBVIOUS
    <3>2. c # None /\ e.row = c.row /\ \A p \in Problems : p # r.id[2] => e.problems[p] = c.problems[p]
      BY <1>2, <2>1, <2>3, <3>1 DEF Request
    <3>3. c.row = FirstDb.homeworks[h] /\ S!Fits(c.row, selected)
          /\ \A p \in Problems \ c.row.problems : c.problems[p] = None
      BY <1>1, <3>1, <3>2 DEF CardFits
    <3>4. r.id[2] \in c.row.problems
      BY <1>2, <2>3, <3>3
    <3>5. S!Fits(e.row, selected)'
      BY <3>2, <3>3, <3>1 DEF S!Fits, S!Over
    <3>6. \A p \in Problems \ e.row.problems : e.problems[p] = None
      BY <3>2, <3>3, <3>4
    <3>7. e.row = FirstDb.homeworks[h]
      BY <3>2, <3>3
    <3> HIDE DEF S!Fits
    <3>8. CardFits(e, h)'
      BY <3>5, <3>6, <3>7 DEF CardFits
    <3> QED BY <3>1, <3>8 DEF CardFits
  <2> QED BY <2>2, <2>3
<1> QED BY <1>4, <1>5

(* What the other homeworks wait for, and the other problems of this one.  *)
LEMMA OthersLoading ==
    ASSUME LessonInv, Calm, NEW r \in net, r.api \in {"problem", "record"},
           UNCHANGED <<loads, now, selected>>,
           NEW x \in 0..2, S!Put(r, r.id[1], S!Saying(r, x)) \/ UNCHANGED lists,
           \A q \in net : q # r => q \in net',
           \/ UNCHANGED <<ref, view>>
           \/ ref' = loads /\ view' = lists'[loads].homeworks,
           NEW h \in Homeworks, h # r.id[1], ToShow(h)'
    PROVE  Loading(h)'
<1>1. ~overlapped /\ ~others
  BY DEF Calm
<1>2. r.load = loads /\ ~(\E q \in net : q.api = "course") /\ loads \in 1..MaxLoads
  BY <1>1, AboutProblem, LessonTyped DEF LessonInv
<1>3. Loading(h)
  <2>1. ToShow(h)
    BY DEF ToShow, S!Fits, S!Over
  <2> QED BY <1>2, <2>1 DEF LessonInv, CardsLoad
<1>4. /\ Missing("homework", h) => Missing("homework", h)'
      /\ \A p : Missing("problem", <<h, p>>) => Missing("problem", <<h, p>>)'
      /\ \A p : Missing("record", <<h, p>>) => Missing("record", <<h, p>>)'
      /\ Waits(h) => Waits(h)'
  BY OthersWait
<1>5. lists'[loads'].homeworks[h] = lists[loads].homeworks[h]
  <2>1. CASE UNCHANGED lists
    BY <2>1
  <2>2. CASE S!Put(r, r.id[1], S!Saying(r, x))
    <3>1. \A g \in Homeworks : g # r.id[1] => lists'[r.load].homeworks[g] = lists[r.load].homeworks[g]
      BY <2>2, CardSays
    <3> QED BY <1>2, <3>1
  <2> QED BY <2>1, <2>2
<1> QED BY <1>3, <1>4, <1>5 DEF Loading

(* A problem was answered: its card says 0, and its record is asked for.   *)
LEMMA ProblemAnswerKeeps == ASSUME LessonInv, NEW r \in net, S!ProblemAnswer(r) PROVE LessonInv'
<1>1. /\ UNCHANGED <<hist, now, known, selected, loads, overlapped, lost, others>>
      /\ UNCHANGED <<ref, infoitems, course_info, view>> /\ stranger' = (stranger \/ ~known)
      /\ r.api = "problem" /\ S!Answer(r, "problem")
      /\ S!Put(r, r.id[1], S!Saying(r, 0)) /\ S!Ask(r, {S!Query(r, "record", r.id)})
  BY DEF S!ProblemAnswer, S!Answer
<1>2. /\ loads \in 1..MaxLoads /\ ref \in 0..loads /\ lists \in [1..MaxLoads -> Lists]
      /\ Request(r) /\ Len(hist) \in 1..Len(hist) /\ known \in BOOLEAN /\ stranger \in BOOLEAN
  BY LessonTyped DEF LessonInv, LessonRequests
<1>3. r.id \in Homeworks \X Problems /\ r.load \in 1..MaxLoads /\ r.load \in 1..loads
      /\ lists[r.load].homeworks[r.id[1]] # None
  BY <1>1, <1>2, LessonConstants DEF Request
<1>4. PICK q : q = S!Query(r, "record", r.id)
  OBVIOUS
<1>5. q.api = "record" /\ q.id = r.id /\ q.load = r.load /\ q.at = Len(hist) /\ q.user = known
  BY <1>4, QueryFields
<1>6. net' = (net \ {r}) \cup {q}
  BY <1>1, <1>4 DEF S!Ask
<1>7. 0 \in 0..2
  OBVIOUS
<1>8. /\ lists' \in [1..MaxLoads -> Lists]
      /\ \A n \in 1..MaxLoads : n # r.load => lists'[n] = lists[n]
      /\ \A n \in 1..MaxLoads : lists'[n].notices = lists[n].notices /\ lists'[n].tas = lists[n].tas
      /\ \A n \in 1..MaxLoads, h \in Homeworks :
            lists[n].homeworks[h] # None => lists'[n].homeworks[h] # None
      /\ lists'[r.load].homeworks[r.id[1]].row = lists[r.load].homeworks[r.id[1]].row
      /\ lists'[r.load].homeworks[r.id[1]].problems[r.id[2]] = 0
      /\ \A p \in Problems : p # r.id[2] =>
            lists'[r.load].homeworks[r.id[1]].problems[p] = lists[r.load].homeworks[r.id[1]].problems[p]
  BY <1>1, <1>7, CardSays
<1>9. S!TypeOK'
  <2>1. \A s \in net' : s.api \in S!Reads
    BY <1>5, <1>6 DEF LessonInv, S!TypeOK, S!Reads
  <2>2. infoitems' \subseteq Notices /\ course_info' \subseteq Assistants /\ ref' \in 0..loads
    BY <1>1, LessonTyped DEF LessonInv
  <2>3. stranger' \in BOOLEAN
    BY <1>1, <1>2
  <2> QED BY <1>1, <1>8, <2>1, <2>2, <2>3, AnswerTypes
<1>10. LessonRequests'
  <2>1. Request(q)'
    <3>1. lists'[q.load].homeworks[q.id[1]] # None
      BY <1>3, <1>5, <1>8
    <3>2. ~stranger' => known = TRUE
      BY <1>1, <1>2
    <3> QED BY <1>1, <1>2, <1>3, <1>5, <3>1, <3>2 DEF Request, S!Reads
  <2>2. \A m \in 1..MaxLoads : m > loads => lists'[m] = lists[m]
    BY <1>2, <1>3, <1>8, LessonConstants
  <2>3. PICK a : a = {q}
    OBVIOUS
  <2>4. net' = (net \ {r}) \cup a /\ \A s \in a : Request(s)'
    BY <1>6, <2>1, <2>3
  <2>5. (stranger => stranger') /\ S!Answer(r, "problem")
    BY <1>1
  <2> QED BY <1>8, <2>2, <2>4, <2>5, AnswerRequests
<1>11. OneLoad'
  <2> SUFFICES ASSUME ~overlapped, ~others
               PROVE  /\ (ref \in {0, loads} /\ \A s \in net : Sole(s))'
                      /\ \A h \in Homeworks : (CardFits(lists[loads].homeworks[h], h) /\ CardFits(view[h], h))'
    BY <1>1 DEF OneLoad
  <2>1. \A s \in net' : s \in net \/ (s.api = "record" /\ s.id = r.id)
    BY <1>5, <1>6
  <2>2. ASSUME NEW s \in net, s # r PROVE Sole(s)'
    BY <1>1, <1>7, <2>1, <2>2, OthersSole
  <2>3. Sole(q)'
    <3>1. r.load = loads /\ r.id[2] \in FirstDb.homeworks[r.id[1]].problems
      BY <1>1, AboutProblem
    <3>2. \A s \in net' : s.api \in {"problem", "record"} /\ s.id = q.id => s = q
      <4>1. \A s \in net : s # r /\ s.api \in {"problem", "record"} => s.id # r.id
        BY <1>1, AboutProblem
      <4> QED BY <1>5, <1>6, <4>1
    <3>3. lists'[loads'].homeworks[q.id[1]].problems[q.id[2]] = 0
      BY <1>1, <1>5, <1>8, <3>1
    <3> QED BY <1>1, <1>5, <3>1, <3>2, <3>3 DEF Sole
  <2>4. \A h \in Homeworks : CardFits(lists[loads].homeworks[h], h)'
    BY <1>1, <1>7, SayingFits
  <2>5. ASSUME NEW h \in Homeworks PROVE CardFits(view[h], h)'
    <3>1. CardFits(view[h], h)
      BY DEF LessonInv, OneLoad
    <3> QED BY <1>1, <3>1 DEF CardFits, S!Fits, S!Over
  <2>6. ref' \in {0, loads'}
    BY <1>1, AboutProblem
  <2> QED BY <1>6, <2>2, <2>3, <2>4, <2>5, <2>6
<1>12. TextsLoad'
  <2>1. lists'[loads].notices = lists[loads].notices /\ lists'[loads].tas = lists[loads].tas
    BY <1>2, <1>8
  <2> QED BY <1>1, <1>6, <2>1, TextsKept
<1>13. CardsLoad'
  <2> SUFFICES ASSUME Calm PROVE CardsLoad'
    BY <1>1 DEF CardsLoad, Calm
  <2>1. ~overlapped /\ ~others
    BY DEF Calm
  <2>2. r.load = loads /\ ~(\E s \in net : s.api = "course")
    BY <1>1, <2>1, AboutProblem
  <2>3. ASSUME NEW h \in Homeworks, ToShow(h)', h # r.id[1] PROVE Loading(h)'
    <3>1. \A s \in net : s # r => s \in net'
      BY <1>6
    <3> QED BY <1>1, <1>7, <2>3, <3>1, OthersLoading
  <2>4. ASSUME NEW h \in Homeworks, ToShow(h)', h = r.id[1] PROVE Loading(h)'
    <3>1. ToShow(h)
      BY <1>1, <2>4 DEF ToShow, S!Fits, S!Over
    <3>2. Loading(h)
      BY <2>2, <3>1 DEF LessonInv, CardsLoad
    <3>3. q.id = <<h, r.id[2]>> /\ r.id[2] \in Problems
      BY <1>3, <1>5, <2>4
    <3>4. Missing("record", <<h, r.id[2]>>)'
      BY <1>5, <1>6, <3>3 DEF Missing
    <3>5. ASSUME NEW p, p # r.id[2], NEW api \in {"problem", "record"}, Missing(api, <<h, p>>)
          PROVE  Missing(api, <<h, p>>)'
      <4>1. PICK s \in net : s.api = api /\ s.id = <<h, p>>
        BY <3>5 DEF Missing
      <4>2. s # r
        BY <3>5, <4>1
      <4> QED BY <1>6, <4>1, <4>2 DEF Missing
    <3>6. Waits(h)'
      BY <3>3, <3>4 DEF Waits
    <3>7. FirstDb.homeworks[h].problems \subseteq Problems
      <4>1. FirstDb.homeworks[h] \in S!Rows
        BY <3>1, LessonConstants, LessonColumns DEF ToShow
      <4> QED BY <4>1 DEF S!Rows
    <3>8. lists'[loads'].homeworks[h] # None /\ lists[loads].homeworks[h] # None
      BY <1>1, <1>2, <1>3, <1>8, <2>2, <2>4
    <3>9. ASSUME NEW p \in FirstDb.homeworks[h].problems
          PROVE  \/ lists'[loads'].homeworks[h].problems[p] = FirstDb.turned[<<h, p>>]
                 \/ Missing("problem", <<h, p>>)' \/ Missing("record", <<h, p>>)'
      <4>1. CASE p = r.id[2]
        BY <3>4, <4>1
      <4>2. CASE p # r.id[2]
        <5>1. lists'[loads'].homeworks[h].problems[p] = lists[loads].homeworks[h].problems[p]
          BY <1>1, <1>8, <2>2, <2>4, <3>7, <4>2
        <5>2. \/ lists[loads].homeworks[h].problems[p] = FirstDb.turned[<<h, p>>]
              \/ Missing("problem", <<h, p>>) \/ Missing("record", <<h, p>>)
          BY <3>2, <3>8 DEF Loading
        <5> QED BY <3>5, <4>2, <5>1, <5>2
      <4> QED BY <4>1, <4>2
    <3> QED BY <3>6, <3>8, <3>9 DEF Loading
  <2> QED BY <2>3, <2>4 DEF CardsLoad
<1> QED BY <1>9, <1>10, <1>11, <1>12, <1>13 DEF LessonInv

(* A record was answered: its card says what was turned in, and the list   *)
(* of the load is rendered.                                                *)
LEMMA RecordAnswerKeeps ==
    ASSUME LessonInv, NEW r \in net, NEW d \in S!Tables, ~others => d = FirstDb, S!RecordAnswer(r, d)
    PROVE  LessonInv'
<1>1. /\ UNCHANGED <<hist, now, known, selected, loads, overlapped, lost, others>>
      /\ UNCHANGED <<infoitems, course_info, stranger>> /\ ref' = r.load
      /\ r.api = "record" /\ S!Answer(r, "record") /\ S!Render
      /\ IF r.user /\ d.turned[r.id] > 0 THEN S!Put(r, r.id[1], S!Saying(r, d.turned[r.id]))
         ELSE UNCHANGED lists
      /\ net' = net \ {r}
  BY DEF S!RecordAnswer, S!Answer, S!Ask
<1>2. /\ loads \in 1..MaxLoads /\ ref \in 0..loads /\ lists \in [1..MaxLoads -> Lists] /\ Request(r)
  BY LessonTyped DEF LessonInv, LessonRequests
<1>3. r.id \in Homeworks \X Problems /\ r.load \in 1..MaxLoads /\ r.load \in 1..loads /\ r.load \in 0..loads
  BY <1>1, <1>2, LessonConstants DEF Request
<1>4. PICK x : x = d.turned[r.id]
  OBVIOUS
<1>5. x \in 0..2
  BY <1>3, <1>4, LessonColumns
<1>6. S!Put(r, r.id[1], S!Saying(r, x)) \/ UNCHANGED lists
  BY <1>1, <1>4
<1>7. /\ lists' \in [1..MaxLoads -> Lists]
      /\ \A n \in 1..MaxLoads : n # r.load => lists'[n] = lists[n]
      /\ \A n \in 1..MaxLoads : lists'[n].notices = lists[n].notices /\ lists'[n].tas = lists[n].tas
      /\ \A n \in 1..MaxLoads, h \in Homeworks :
            lists[n].homeworks[h] # None => lists'[n].homeworks[h] # None
  <2>1. CASE UNCHANGED lists
    BY <1>2, <2>1
  <2>2. CASE S!Put(r, r.id[1], S!Saying(r, x))
    BY <1>1, <1>5, <2>2, CardSays
  <2> QED BY <1>6, <2>1, <2>2
<1>8. S!TypeOK'
  <2>1. \A s \in net' : s.api \in S!Reads
    BY <1>1 DEF LessonInv, S!TypeOK
  <2>2. infoitems' \subseteq Notices /\ course_info' \subseteq Assistants /\ ref' \in 0..loads
    BY <1>1, <1>3, LessonTyped DEF LessonInv
  <2>3. stranger' \in BOOLEAN
    BY <1>1, LessonTyped DEF LessonInv
  <2> QED BY <1>1, <1>7, <2>1, <2>2, <2>3, AnswerTypes
<1>9. LessonRequests'
  <2>1. PICK a : a = {}
    OBVIOUS
  <2>2. net' = (net \ {r}) \cup a /\ \A s \in a : Request(s)'
    BY <1>1, <2>1
  <2>3. \A m \in 1..MaxLoads : m > loads => lists'[m] = lists[m]
    BY <1>2, <1>3, <1>7, LessonConstants
  <2>4. (stranger => stranger') /\ S!Answer(r, "record")
    BY <1>1
  <2> QED BY <1>7, <2>2, <2>3, <2>4, AnswerRequests
<1>10. OneLoad'
  <2> SUFFICES ASSUME ~overlapped, ~others
               PROVE  /\ (ref \in {0, loads} /\ \A s \in net : Sole(s))'
                      /\ \A h \in Homeworks : (CardFits(lists[loads].homeworks[h], h) /\ CardFits(view[h], h))'
    BY <1>1 DEF OneLoad
  <2>1. \A s \in net' : s \in net \/ (s.api = "record" /\ s.id = r.id)
    BY <1>1
  <2>2. ASSUME NEW s \in net, s # r PROVE Sole(s)'
    BY <1>1, <1>5, <1>6, <2>1, <2>2, OthersSole
  <2>3. \A h \in Homeworks : CardFits(lists[loads].homeworks[h], h)'
    BY <1>1, <1>5, <1>6, SayingFits
  <2>4. ref' \in {0, loads'}
    BY <1>1, AboutProblem
  <2>5. \A h \in Homeworks : CardFits(view[h], h)'
    BY <1>1, <2>3, <2>4, RenderFits
  <2> QED BY <1>1, <2>2, <2>3, <2>4, <2>5
<1>11. TextsLoad'
  <2>1. lists'[loads].notices = lists[loads].notices /\ lists'[loads].tas = lists[loads].tas
    BY <1>2, <1>7
  <2> QED BY <1>1, <2>1, TextsKept
<1>12. CardsLoad'
  <2> SUFFICES ASSUME Calm PROVE CardsLoad'
    BY <1>1 DEF CardsLoad, Calm
  <2>1. ~overlapped /\ ~others /\ d = FirstDb
    BY DEF Calm
  <2>2. r.load = loads /\ ~(\E s \in net : s.api = "course")
    BY <1>1, <2>1, AboutProblem
  <2>3. ref' = loads /\ view' = lists'[loads].homeworks
    BY <1>1, <1>2, <2>2, LessonConstants DEF S!Render
  <2>4. ASSUME NEW h \in Homeworks, ToShow(h)', h # r.id[1] PROVE Loading(h)'
    <3>1. \A s \in net : s # r => s \in net'
      BY <1>1
    <3> QED BY <1>1, <1>5, <1>6, <2>3, <2>4, <3>1, OthersLoading
  <2>5. ASSUME NEW h \in Homeworks, ToShow(h)', h = r.id[1] PROVE Loading(h)'
    <3>1. ToShow(h)
      BY <1>1, <2>5 DEF ToShow, S!Fits, S!Over
    <3>2. Loading(h)
      BY <2>2, <3>1 DEF LessonInv, CardsLoad
    <3>3. ASSUME NEW p, p # r.id[2], NEW api \in {"problem", "record"}, Missing(api, <<h, p>>)
          PROVE  Missing(api, <<h, p>>)'
      <4>1. PICK s \in net : s.api = api /\ s.id = <<h, p>>
        BY <3>3 DEF Missing
      <4>2. s # r
        BY <3>3, <4>1
      <4> QED BY <1>1, <4>1, <4>2 DEF Missing
    <3>4. FirstDb.homeworks[h].problems \subseteq Problems
      <4>1. FirstDb.homeworks[h] \in S!Rows
        BY <3>1, LessonConstants, LessonColumns DEF ToShow
      <4> QED BY <4>1 DEF S!Rows
    <3>5. lists'[loads'].homeworks[h] # None /\ lists[loads].homeworks[h] # None
      <4>1. lists[r.load].homeworks[r.id[1]] # None
        BY <1>1, <1>2 DEF Request
      <4> QED BY <1>1, <1>2, <1>7, <2>2, <2>5, <4>1
    <3>6. lists'[loads'].homeworks[h].problems[r.id[2]] = FirstDb.turned[<<h, r.id[2]>>]
      <4>1. FirstDb.turned[<<h, r.id[2]>>] = x
        BY <1>3, <1>4, <2>1, <2>5
      <4>2. r.user = TRUE
        BY <1>1, <1>2 DEF Request, Calm
      <4>3. CASE x > 0
        <5>1. S!Put(r, r.id[1], S!Saying(r, x))
          BY <1>1, <1>4, <4>2, <4>3
        <5> QED BY <1>1, <1>5, <2>2, <2>5, <4>1, <5>1, CardSays
      <4>4. CASE x = 0
        <5>1. UNCHANGED lists
          BY <1>1, <1>4, <4>4
        <5>2. Sole(r)
          BY <1>1, <2>1, AboutProblem
        <5> QED BY <1>1, <2>5, <4>1, <4>4, <5>1, <5>2 DEF Sole
      <4> QED BY <1>5, <4>3, <4>4
    <3>7. ASSUME NEW p \in FirstDb.homeworks[h].problems
          PROVE  \/ lists'[loads'].homeworks[h].problems[p] = FirstDb.turned[<<h, p>>]
                 \/ Missing("problem", <<h, p>>)' \/ Missing("record", <<h, p>>)'
      <4>1. CASE p = r.id[2]
        BY <3>6, <4>1
      <4>2. CASE p # r.id[2]
        <5>1. lists'[loads'].homeworks[h].problems[p] = lists[loads].homeworks[h].problems[p]
          <6>1. CASE UNCHANGED lists
            BY <1>1, <6>1
          <6>2. CASE S!Put(r, r.id[1], S!Saying(r, x))
            <7>1. lists'[r.load].homeworks[r.id[1]].problems[p] = lists[r.load].homeworks[r.id[1]].problems[p]
              BY <1>1, <1>5, <3>4, <4>2, <6>2, CardSays
            <7> QED BY <1>1, <2>2, <2>5, <7>1
          <6> QED BY <1>6, <6>1, <6>2
        <5>2. \/ lists[loads].homeworks[h].problems[p] = FirstDb.turned[<<h, p>>]
              \/ Missing("problem", <<h, p>>) \/ Missing("record", <<h, p>>)
          BY <3>2, <3>5 DEF Loading
        <5> QED BY <3>3, <4>2, <5>1, <5>2
      <4> QED BY <4>1, <4>2
    <3> QED BY <1>1, <2>3, <3>5, <3>7 DEF Loading
  <2> QED BY <2>4, <2>5 DEF CardsLoad
<1> QED BY <1>8, <1>9, <1>10, <1>11, <1>12 DEF LessonInv

(* Every step of the page of a course keeps its invariant.                 *)
LEMMA LessonStep == ASSUME LessonInv, S!Next PROVE LessonInv'
<1>1. CASE S!Restored
  BY <1>1, RestoredKeeps
<1>2. CASE S!Other
  BY <1>2, OtherKeeps
<1>3. ASSUME NEW k \in {"1", "2", "3", "5", "6"}, S!Menu(k) PROVE LessonInv'
  BY <1>3, MenuKeeps
<1>4. ASSUME NEW r \in net, S!Arrive(r) PROVE LessonInv'
  <2>1. ASSUME NEW d \in {hist[v] : v \in r.at..Len(hist)},
               S!CourseAnswer(r, d) \/ S!HomeworkAnswer(r, d) \/ S!RecordAnswer(r, d)
        PROVE  LessonInv'
    <3>1. d \in S!Tables /\ (~others => d = FirstDb)
      BY AnswerTables
    <3>2. CASE S!CourseAnswer(r, d)
      BY <3>1, <3>2, CourseAnswerKeeps
    <3>3. CASE S!HomeworkAnswer(r, d)
      BY <3>1, <3>3, HomeworkSkips, HomeworkPuts
    <3>4. CASE S!RecordAnswer(r, d)
      BY <3>1, <3>4, RecordAnswerKeeps
    <3> QED BY <2>1, <3>2, <3>3, <3>4
  <2> QED BY <1>4, <2>1, NoticeAnswerKeeps, UserAnswerKeeps, ProblemAnswerKeeps, LoseKeeps DEF S!Arrive
<1> QED BY <1>1, <1>2, <1>3, <1>4 DEF S!Next

(* What is promised of a homework of the panel, when all answers are in.   *)
LEMMA CardSettles ==
    ASSUME LessonInv, Calm, net = {}, NEW h \in Homeworks, ToShow(h), FirstDb.homeworks[h].problems # {}
    PROVE  view[h] = [row |-> FirstDb.homeworks[h], problems |->
               [p \in Problems |-> IF p \in FirstDb.homeworks[h].problems
                                   THEN FirstDb.turned[<<h, p>>] ELSE None]]
<1>1. Loading(h)
  BY DEF LessonInv, CardsLoad
<1>2. /\ lists[loads].homeworks[h] # None /\ view[h] = lists[loads].homeworks[h]
      /\ \A p \in FirstDb.homeworks[h].problems : view[h].problems[p] = FirstDb.turned[<<h, p>>]
  BY <1>1 DEF Loading, Waits, Missing
<1>3. CardFits(view[h], h)
  BY DEF LessonInv, OneLoad, Calm
<1>4. view[h] \in S!Card
  <2>1. view \in [Homeworks -> {None} \cup S!Card]
    BY LessonTyped DEF LessonInv, S!Cards
  <2> QED BY <1>2, <2>1
<1>5. PICK c : c = view[h]
  OBVIOUS
<1>6. PICK f : f = [p \in Problems |-> IF p \in FirstDb.homeworks[h].problems
                                       THEN FirstDb.turned[<<h, p>>] ELSE None]
  OBVIOUS
<1>7. c.row = FirstDb.homeworks[h] /\ c.problems = f
  <2>1. c.problems \in [Problems -> 0..2 \cup {None}]
    BY <1>4, <1>5 DEF S!Card
  <2>2. c.row = FirstDb.homeworks[h] /\ \A p \in Problems \ c.row.problems : c.problems[p] = None
    BY <1>2, <1>3, <1>5 DEF CardFits
  <2>3. \A p \in Problems : c.problems[p] = f[p]
    BY <1>2, <1>5, <1>6, <2>2
  <2>4. c.problems = [p \in Problems |-> f[p]]
    BY <2>1, <2>3
  <2>5. f = [p \in Problems |-> f[p]]
    BY <1>6
  <2> QED BY <2>2, <2>4, <2>5
<1>8. c = [row |-> c.row, problems |-> c.problems]
  BY <1>4, <1>5 DEF S!Card
<1> QED BY <1>5, <1>6, <1>7, <1>8

(* When all answers are in, the panel shows what is stored.                *)
LEMMA LessonShows == ASSUME LessonInv PROVE S!ShownSettles
<1> SUFFICES ASSUME net = {}, Calm
             PROVE  CASE selected = "5" -> infoitems = S!Db.notices
                      [] selected = "6" -> course_info = S!Db.tas
                      [] OTHER -> \A h \in Homeworks :
                            LET row == S!Db.homeworks[h] IN
                            IF (IF row = None THEN TRUE ELSE ~S!Fits(row, selected)) THEN view[h] = None
                            ELSE IF row.problems = {} THEN TRUE
                            ELSE view[h] = [row |-> row, problems |->
                                    [p \in Problems |-> IF p \in row.problems
                                                        THEN S!Db.turned[<<h, p>>] ELSE None]]
  BY DEF S!ShownSettles, Calm
<1>1. S!Db = FirstDb
  <2>1. hist = <<FirstDb>>
    BY DEF LessonInv, LessonRequests, Calm
  <2> QED BY <2>1 DEF S!Db
<1>2. /\ infoitems \subseteq FirstDb.notices /\ course_info \subseteq FirstDb.tas
      /\ lists[loads].notices # {} => infoitems = lists[loads].notices
      /\ lists[loads].tas # {} => course_info = lists[loads].tas
      /\ selected = "5" => \A n \in FirstDb.notices : n \in lists[loads].notices
      /\ selected = "6" => \A u \in FirstDb.tas : u \in lists[loads].tas
  BY DEF LessonInv, TextsLoad, Missing
<1>3. selected = "5" => infoitems = FirstDb.notices
  BY <1>2
<1>4. selected = "6" => course_info = FirstDb.tas
  BY <1>2
<1>5. ASSUME NEW h \in Homeworks
      PROVE  /\ FirstDb.homeworks[h] = None => view[h] = None
             /\ ~S!Fits(FirstDb.homeworks[h], selected) => view[h] = None
  <2>1. CardFits(view[h], h)
    BY DEF LessonInv, OneLoad, Calm
  <2>2. view[h] # None => view[h] \in S!Card
    BY LessonTyped DEF LessonInv, S!Cards
  <2>3. view[h] # None => view[h].row \in S!Rows
    BY <2>2 DEF S!Card
  <2> QED BY <2>1, <2>3, LessonConstants DEF CardFits
<1>6. ASSUME NEW h \in Homeworks, FirstDb.homeworks[h] # None, S!Fits(FirstDb.homeworks[h], selected),
             FirstDb.homeworks[h].problems # {}
      PROVE  view[h] = [row |-> FirstDb.homeworks[h], problems |->
                 [p \in Problems |-> IF p \in FirstDb.homeworks[h].problems
                                     THEN FirstDb.turned[<<h, p>>] ELSE None]]
  BY <1>6, CardSettles DEF ToShow
<1> HIDE DEF S!Fits
<1> QED BY <1>1, <1>3, <1>4, <1>5, <1>6

(* What was turned in is not shown as missing.                             *)
LEMMA LessonNotMissing == ASSUME LessonInv PROVE S!TurnedInIsNotMissing
<1> SUFFICES ASSUME net = {}, Calm, NEW h \in Homeworks, NEW p \in Problems,
                    view[h] # None, view[h].problems[p] # None, S!Db.turned[<<h, p>>] # 0
             PROVE  S!Status(view[h], p) \notin {"missing", "closed"}
  BY DEF S!TurnedInIsNotMissing, Calm
<1>1. S!Db = FirstDb
  <2>1. hist = <<FirstDb>>
    BY DEF LessonInv, LessonRequests, Calm
  <2> QED BY <2>1 DEF S!Db
<1>2. CardFits(view[h], h)
  BY DEF LessonInv, OneLoad, Calm
<1>3. p \in view[h].row.problems /\ view[h].row = FirstDb.homeworks[h] /\ S!Fits(view[h].row, selected)
  BY <1>2 DEF CardFits
<1>4. view[h].row # None
  <2>1. view[h] \in S!Card
    BY LessonTyped DEF LessonInv, S!Cards
  <2>2. view[h].row \in S!Rows
    BY <2>1 DEF S!Card
  <2> QED BY <2>2, LessonConstants
<1>5. ToShow(h) /\ FirstDb.homeworks[h].problems # {}
  BY <1>3, <1>4 DEF ToShow
<1>6. view[h].problems[p] = FirstDb.turned[<<h, p>>]
  <2>1. PICK f : f = [q \in Problems |-> IF q \in FirstDb.homeworks[h].problems
                                         THEN FirstDb.turned[<<h, q>>] ELSE None]
    OBVIOUS
  <2>2. view[h] = [row |-> FirstDb.homeworks[h], problems |-> f]
    BY <1>5, <2>1, CardSettles
  <2>3. view[h].problems = f
    BY <2>2
  <2>4. f[p] = FirstDb.turned[<<h, p>>]
    BY <1>3, <2>1
  <2> QED BY <2>3, <2>4
<1>7. view[h].problems[p] # 0
  BY <1>1, <1>6
<1> QED BY <1>7 DEF S!Status

(* What is rendered belongs to the panel, if the list of the last click    *)
(* does.                                                                   *)
LEMMA PanelRenders ==
    ASSUME S!Render, \A h \in Homeworks : Fitting(lists[loads].homeworks[h])'
    PROVE  (ref' \in {0, loads'} => \A h \in Homeworks : Fitting(view[h])')
<1>1. CASE ref' = 0
  <2>1. \A h \in Homeworks : view'[h] = None
    BY <1>1, EmptyList DEF S!Render
  <2> QED BY <2>1 DEF Fitting
<1>2. CASE ref' # 0 /\ ref' = loads'
  <2>1. view' = lists'[loads'].homeworks
    BY <1>2 DEF S!Render
  <2> QED BY <2>1 DEF Fitting
<1> QED BY <1>1, <1>2

(* An answer that leaves the rows of the list of the last click alone      *)
(* keeps the list of the panel.                                            *)
LEMMA PanelKept ==
    ASSUME PanelFits, UNCHANGED <<now, selected, loads, others>>,
           \A h \in Homeworks : lists'[loads].homeworks[h] # None =>
               lists[loads].homeworks[h] # None
               /\ lists'[loads].homeworks[h].row = lists[loads].homeworks[h].row,
           S!Render \/ UNCHANGED <<view, ref>>
    PROVE  PanelFits'
<1> SUFFICES ASSUME ~others PROVE PanelFits'
  BY DEF PanelFits
<1>1. \A h \in Homeworks : Fitting(lists[loads].homeworks[h])'
  BY DEF PanelFits, Fitting, S!Fits, S!Over
<1>2. ref' \in {0, loads'} => \A h \in Homeworks : Fitting(view[h])'
  <2>1. CASE S!Render
    BY <1>1, <2>1, PanelRenders
  <2>2. CASE UNCHANGED <<view, ref>>
    BY <2>2 DEF PanelFits, Fitting, S!Fits, S!Over
  <2> QED BY <2>1, <2>2
<1> QED BY <1>1, <1>2 DEF PanelFits

(* The answer for a homework puts a card of the panel that is selected by  *)
(* now into the list of its click, or nothing.                             *)
LEMMA PanelGetsCard ==
    ASSUME LessonInv, PanelFits, NEW r \in net, NEW d \in S!Tables, S!HomeworkAnswer(r, d)
    PROVE  PanelFits'
<1> DEFINE row == d.homeworks[r.id]
           card == [row |-> row, problems |-> [p \in Problems |-> None]]
<1>1. /\ UNCHANGED <<hist, now, known, selected, loads, overlapped, lost, others>>
      /\ UNCHANGED <<view, ref>> /\ r.api = "homework"
  BY DEF S!HomeworkAnswer, S!Answer
<1>2. CASE UNCHANGED lists
  BY <1>1, <1>2, PanelKept
<1>3. CASE row # None /\ S!Fits(row, selected) /\ S!Put(r, r.id, card)
  <2>1. r.load \in 1..MaxLoads /\ loads \in 1..MaxLoads /\ r.id \in Homeworks
    <3>1. loads \in 1..MaxLoads /\ Request(r)
      BY LessonTyped DEF LessonInv, LessonRequests
    <3> QED BY <1>1, <3>1, LessonConstants DEF Request
  <2>2. row \in S!Rows
    BY <1>3, <2>1, LessonColumns
  <2>3. PICK c : c = card
    OBVIOUS
  <2>4. c \in S!Card /\ c.row = row
    BY <2>2, <2>3 DEF S!Card
  <2>5. PICK n, g : n = r.load /\ g = r.id
    OBVIOUS
  <2>6. /\ lists' \in [1..MaxLoads -> Lists]
        /\ \A m \in 1..MaxLoads : m # n => lists'[m] = lists[m]
        /\ lists'[n].notices = lists[n].notices /\ lists'[n].tas = lists[n].tas
        /\ lists'[n].homeworks[g] = c
        /\ \A h \in Homeworks : h # g => lists'[n].homeworks[h] = lists[n].homeworks[h]
    <3>1. n \in 1..MaxLoads /\ g \in Homeworks /\ c \in {None} \cup S!Card
          /\ lists' = [lists EXCEPT ![n].homeworks[g] = c]
      BY <1>3, <2>1, <2>3, <2>4, <2>5 DEF S!Put
    <3>2. S!TypeOK /\ LessonRequests
      BY DEF LessonInv
    <3> QED BY <3>1, <3>2, CardPut
  <2>7. ASSUME ~others, NEW h \in Homeworks PROVE Fitting(lists[loads].homeworks[h])'
    <3>1. CASE ~(n = loads /\ h = g)
      <4>1. lists'[loads].homeworks[h] = lists[loads].homeworks[h]
        BY <2>1, <2>6, <3>1
      <4>2. Fitting(lists[loads].homeworks[h])
        BY <2>7 DEF PanelFits
      <4> QED BY <1>1, <4>1, <4>2 DEF Fitting, S!Fits, S!Over
    <3>2. CASE n = loads /\ h = g
      <4>1. lists'[loads'].homeworks[h] = c
        BY <1>1, <2>6, <3>2
      <4>2. S!Fits(c.row, selected)'
        BY <1>1, <1>3, <2>4 DEF S!Fits, S!Over
      <4> QED BY <4>1, <4>2 DEF Fitting
    <3> QED BY <3>1, <3>2
  <2>8. ASSUME ~others, ref \in {0, loads}, NEW h \in Homeworks PROVE Fitting(view[h])'
    BY <1>1, <2>8 DEF PanelFits, Fitting, S!Fits, S!Over
  <2> QED BY <1>1, <2>7, <2>8 DEF PanelFits
<1> QED BY <1>2, <1>3 DEF S!HomeworkAnswer

(* The answers for a problem and its record give a card a value.           *)
LEMMA PanelGetsValue ==
    ASSUME LessonInv, PanelFits, NEW r \in net, NEW d \in S!Tables,
           S!ProblemAnswer(r) \/ S!RecordAnswer(r, d)
    PROVE  PanelFits'
<1>1. /\ UNCHANGED <<now, selected, loads, others>> /\ r.api \in {"problem", "record"}
      /\ S!Render \/ UNCHANGED <<view, ref>>
  BY DEF S!ProblemAnswer, S!RecordAnswer, S!Answer
<1>2. /\ Request(r) /\ r.id \in Homeworks \X Problems /\ loads \in 1..MaxLoads /\ r.load \in 1..MaxLoads
      /\ lists[r.load].homeworks[r.id[1]] # None
  <2>1. Request(r) /\ loads \in 1..MaxLoads
    BY LessonTyped DEF LessonInv, LessonRequests
  <2> QED BY <1>1, <2>1, LessonConstants DEF Request
<1>3. PICK x \in 0..2 : S!Put(r, r.id[1], S!Saying(r, x)) \/ UNCHANGED lists
  <2>1. d.turned[r.id] \in 0..2
    BY <1>2, LessonColumns
  <2>2. S!Put(r, r.id[1], S!Saying(r, 0)) \/ S!Put(r, r.id[1], S!Saying(r, d.turned[r.id]))
        \/ UNCHANGED lists
    BY DEF S!ProblemAnswer, S!RecordAnswer
  <2> QED BY <2>1, <2>2
<1>4. ASSUME NEW h \in Homeworks, lists'[loads].homeworks[h] # None
      PROVE  lists[loads].homeworks[h] # None
             /\ lists'[loads].homeworks[h].row = lists[loads].homeworks[h].row
  <2>1. CASE UNCHANGED lists
    BY <1>4, <2>1
  <2>2. CASE S!Put(r, r.id[1], S!Saying(r, x))
    <3>1. /\ \A n \in 1..MaxLoads : n # r.load => lists'[n] = lists[n]
          /\ \A g \in Homeworks : g # r.id[1] => lists'[r.load].homeworks[g] = lists[r.load].homeworks[g]
          /\ lists'[r.load].homeworks[r.id[1]].row = lists[r.load].homeworks[r.id[1]].row
      BY <1>1, <2>2, CardSays
    <3> QED BY <1>2, <1>4, <3>1
  <2> QED BY <1>3, <2>1, <2>2
<1> QED BY <1>1, <1>4, PanelKept

(* The other answers leave the homeworks of every list alone.              *)
LEMMA PanelRead ==
    ASSUME LessonInv, PanelFits, NEW r \in net, NEW d \in S!Tables,
           S!CourseAnswer(r, d) \/ S!NoticeAnswer(r) \/ S!UserAnswer(r) \/ S!Lose(r)
    PROVE  PanelFits'
<1>1. UNCHANGED <<now, selected, loads, others>> /\ (S!Render \/ UNCHANGED <<view, ref>>)
  BY DEF S!CourseAnswer, S!NoticeAnswer, S!UserAnswer, S!Lose, S!Answer
<1>2. lists'[loads].homeworks = lists[loads].homeworks
  <2>1. lists \in [1..MaxLoads -> Lists] /\ loads \in 1..MaxLoads
    BY LessonTyped DEF LessonInv, LessonRequests
  <2>2. CASE UNCHANGED lists
    BY <2>2
  <2>3. CASE lists' = [lists EXCEPT ![r.load].notices = @ \cup {r.id}]
    BY <2>1, <2>3 DEF Lists
  <2>4. CASE lists' = [lists EXCEPT ![r.load].tas = @ \cup {r.id}]
    BY <2>1, <2>4 DEF Lists
  <2> QED BY <2>2, <2>3, <2>4 DEF S!CourseAnswer, S!NoticeAnswer, S!UserAnswer, S!Lose
<1> QED BY <1>1, <1>2, PanelKept

(* A click empties the panel, and begins with an empty list.               *)
LEMMA PanelEmpties ==
    ASSUME LessonInv, NEW k \in {"1", "2", "3", "5", "6"}, S!Menu(k) PROVE PanelFits'
<1>1. lists' = lists /\ loads < MaxLoads /\ loads' = loads + 1 /\ ref' = 0 /\ S!Render
  BY DEF S!Menu
<1>2. lists[loads'] = S!Empty
  <2>1. loads \in 1..MaxLoads /\ MaxLoads \in Nat
    BY LessonTyped, LessonConstants DEF LessonInv
  <2>2. loads' \in 1..MaxLoads /\ loads' > loads
    BY <1>1, <2>1
  <2> QED BY <2>2 DEF LessonInv, LessonRequests
<1>3. \A h \in Homeworks : lists'[loads'].homeworks[h] = None /\ view'[h] = None
  BY <1>1, <1>2, EmptyList DEF S!Render
<1> QED BY <1>3 DEF PanelFits, Fitting

(* The page begins with empty lists, and its steps keep the panel.         *)
LEMMA PanelBegins == ASSUME S!Init PROVE PanelFits
<1>1. 1 \in 1..MaxLoads
  BY LessonConstants
<1>2. \A h \in Homeworks : lists[loads].homeworks[h] = None /\ view[h] = None
  BY <1>1, EmptyList DEF S!Init
<1> QED BY <1>2 DEF PanelFits, Fitting

LEMMA PanelStep == ASSUME LessonInv, PanelFits, S!Next PROVE PanelFits'
<1>1. CASE S!Restored
  <2>1. UNCHANGED <<now, selected, loads, others, lists>> /\ S!Render
    BY <1>1 DEF S!Restored, S!ghosts
  <2> QED BY <2>1, PanelKept
<1>2. CASE S!Other
  BY <1>2 DEF S!Other, PanelFits
<1>3. ASSUME NEW k \in {"1", "2", "3", "5", "6"}, S!Menu(k) PROVE PanelFits'
  BY <1>3, PanelEmpties
<1>4. ASSUME NEW r \in net, S!Arrive(r) PROVE PanelFits'
  <2>1. \A d \in {hist[v] : v \in r.at..Len(hist)} : d \in S!Tables
    BY AnswerTables
  <2>2. FirstDb \in S!Tables
    BY LessonConstants
  <2> QED BY <1>4, <2>1, <2>2, PanelRead, PanelGetsCard, PanelGetsValue DEF S!Arrive
<1> QED BY <1>1, <1>2, <1>3, <1>4 DEF S!Next

(* The homeworks that are shown belong to the panel.                       *)
LEMMA LessonFits == ASSUME LessonInv, PanelFits PROVE S!CardsFitPanel
<1>1. ASSUME ~others, overlapped => ref \in {0, loads}, NEW h \in Homeworks, view[h] # None
      PROVE  S!Fits(view[h].row, selected)
  <2>1. ref \in {0, loads}
    BY <1>1 DEF LessonInv, OneLoad
  <2> QED BY <1>1, <2>1 DEF PanelFits, Fitting
<1> QED BY <1>1 DEF S!CardsFitPanel

(* The invariants do not depend on anything but the variables of the page. *)
LEMMA PanelStays == ASSUME PanelFits, UNCHANGED vars PROVE PanelFits'
<1>1. UNCHANGED <<now, selected, lists, ref, view, loads, others>>
  BY DEF vars, ofStudent
<1> QED BY <1>1 DEF PanelFits, Fitting, S!Fits, S!Over

LEMMA LessonStays == ASSUME LessonInv, UNCHANGED vars PROVE LessonInv'
<1> USE DEF LessonInv
<1>1. UNCHANGED <<hist, now, known, selected, lists, ref, infoitems, course_info, view, net, loads,
                  overlapped, lost, others, stranger>>
  BY DEF vars, ofStudent
<1>2. S!TypeOK'
  BY <1>1 DEF S!TypeOK
<1>3. LessonRequests'
  BY <1>1 DEF LessonRequests, Request
<1>4. OneLoad'
  BY <1>1 DEF OneLoad, Sole, CardFits, S!Fits, S!Over
<1>5. TextsLoad'
  BY <1>1 DEF TextsLoad, Calm, Missing
<1>6. CardsLoad'
  <2>1. ASSUME NEW h \in Homeworks, ToShow(h) => Loading(h), ToShow(h)' PROVE Loading(h)'
    <3>1. ToShow(h)
      BY <1>1, <2>1 DEF ToShow, S!Fits, S!Over
    <3> QED BY <1>1, <2>1, <3>1 DEF Loading, Waits, Missing
  <2>2. Calm' => Calm
    BY <1>1 DEF Calm
  <2> QED BY <1>1, <2>1, <2>2 DEF CardsLoad
<1> QED BY <1>2, <1>3, <1>4, <1>5, <1>6

(* The same for the page of a problem.                                     *)
LEMMA ProblemStays == ASSUME ProblemInv, UNCHANGED vars PROVE ProblemInv'
<1> USE DEF ProblemInv
<1>1. UNCHANGED <<hist, now, known, net, overlapped, lost, html, public, closed, loaded, shown, opened,
                  submit_type, file, reupload, confirm, dialog, clicks, updates, crashed, asked, crossed>>
  BY DEF vars, ofProblem
<1>2. P!TypeOK'
  BY <1>1 DEF P!TypeOK
<1>3. Growing'
  BY <1>1 DEF Growing, P!Has
<1>4. ProblemRequests'
  BY <1>1 DEF ProblemRequests
<1>5. ResultsAsked'
  BY <1>1 DEF ResultsAsked, P!Has
<1>6. WindowsAsked'
  BY <1>1 DEF WindowsAsked
<1>7. P!TurnInsAllowed'
  BY <1>1 DEF P!TurnInsAllowed
<1> QED BY <1>2, <1>3, <1>4, <1>5, <1>6, <1>7

(* The page that is shown begins in its invariant.                         *)
LEMMA InvBegins == Init => Inv
BY ProblemBegins, LessonBegins, PanelBegins DEF Init, Inv

(* Only the page that is shown takes steps.                                *)
LEMMA InvStep == Inv /\ [Next]_vars => Inv'
<1> SUFFICES ASSUME Inv, [Next]_vars PROVE Inv'
  OBVIOUS
<1>1. which' = which
  BY DEF Next, vars
<1>2. CASE which = "problem"
  <2>1. P!Next \/ UNCHANGED vars
    BY <1>2 DEF Next
  <2> QED BY <1>1, <1>2, <2>1, ProblemStep, ProblemStays DEF Inv
<1>3. CASE which = "student"
  <2>1. S!Next \/ UNCHANGED vars
    BY <1>3 DEF Next
  <2> QED BY <1>1, <1>3, <2>1, LessonStep, LessonStays, PanelStep, PanelStays DEF Inv
<1> QED BY <1>2, <1>3 DEF Inv

(* The invariant of the page that is shown always holds.                   *)
THEOREM InvHolds == Spec => []Inv
BY InvBegins, InvStep, PTL DEF Spec

(* The variables of the page that is shown always have their types.        *)
THEOREM TypesCorrect == Spec => []TypesOK
<1>1. Inv => TypesOK
  BY DEF Inv, TypesOK, ProblemInv, LessonInv
<1> QED BY <1>1, InvHolds, PTL

(* When all answers are in, and none of the named disturbances happened, a *)
(* page shows what the tables held: the results of a problem, the row      *)
(* whose window is open, the notices, assistants and homeworks of a        *)
(* course, and no problem that was turned in is shown as missing.          *)
THEOREM ShownCorrect == Spec => []ShownIsStored
<1>1. Inv => ShownIsStored
  BY ProblemSettles, LessonShows, LessonNotMissing DEF Inv, ShownIsStored
<1> QED BY <1>1, InvHolds, PTL

(* The homeworks that a panel of a course shows belong to it: while it is  *)
(* loaded, and when answers of earlier clicks come in between, too, unless *)
(* one made the page show the list of that click; while time and tables    *)
(* stand still.                                                            *)
THEOREM CardsCorrect == Spec => []CardsFitPanel
<1>1. Inv => CardsFitPanel
  BY LessonFits DEF Inv, CardsFitPanel
<1> QED BY <1>1, InvHolds, PTL

(* A kind of test is only withheld from a student who has used up its      *)
(* tests, and what is turned in went through the question or was in time.  *)
THEOREM SubmissionsCorrect == Spec => []SubmissionsAllowed
<1>1. Inv => SubmissionsAllowed
  BY ProblemWithholds DEF Inv, SubmissionsAllowed, ProblemInv
<1> QED BY <1>1, InvHolds, PTL
=============================================================================
