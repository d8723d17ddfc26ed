------------------------------ MODULE StudentPages ------------------------------
(***************************************************************************)
(* The pages that a student uses, side by side: a browser shows one of     *)
(* them, a problem or a course.  Which one is chosen at the start, and the *)
(* variables of the other are None.                                        *)
(***************************************************************************)
EXTENDS Naturals, Sequences

CONSTANTS
    None,
    TestKinds, Limit, MaxClicks,                \* of ProblemPage
    FirstResults, MaxResults,                   \* its FirstDb and MaxChanges
    Homeworks, Problems, Notices, Assistants,   \* of StudentLesson
    FirstDb, MaxLoads, MaxChanges, MaxMishaps

VARIABLES
    which,
    hist, now, known, net, overlapped, lost,
    html, public, closed, loaded, shown, opened, submit_type, file, reupload, confirm, dialog,
    clicks, updates, crashed, asked, crossed,
    selected, lists, ref, infoitems, course_info, view, loads, others, stranger

ofProblem == <<html, public, closed, loaded, shown, opened, submit_type, file, reupload,
      confirm, dialog, clicks, updates, crashed, asked, crossed>>
ofStudent == <<selected, lists, ref, infoitems, course_info, view, loads, others, stranger>>
vars == <<which, hist, now, known, net, overlapped, lost, ofProblem, ofStudent>>

-----------------------------------------------------------------------------
P == INSTANCE ProblemPage WITH FirstDb <- FirstResults, MaxChanges <- MaxResults
S == INSTANCE StudentLesson

ASSUME ConstantsFit == P!PageAssumption /\ S!LessonAssumption

-----------------------------------------------------------------------------
NoProblem ==
    /\ html = None /\ public = None /\ closed = None /\ loaded = None /\ shown = None
    /\ opened = None /\ submit_type = None /\ file = None /\ reupload = None
    /\ confirm = None /\ dialog = None /\ clicks = None /\ updates = None /\ crashed = None
    /\ asked = None /\ crossed = None

NoStudent ==
    /\ selected = None /\ lists = None /\ ref = None /\ infoitems = None
    /\ course_info = None /\ view = None /\ loads = None /\ others = None /\ stranger = None

Init ==
    \/ /\ which = "problem" /\ P!Init
       /\ NoStudent
    \/ /\ which = "student" /\ S!Init
       /\ NoProblem

Next ==
    /\ which' = which
    /\ \/ /\ which = "problem" /\ P!Next
          /\ UNCHANGED <<ofStudent>>
       \/ /\ which = "student" /\ S!Next
          /\ UNCHANGED <<ofProblem>>

Spec == Init /\ [][Next]_vars

-----------------------------------------------------------------------------
(* The variables of either page have their types.                          *)
TypesOK ==
    /\ which = "problem" => P!TypeOK
    /\ which = "student" => S!TypeOK

(* When the answers are in, a page shows what the tables held when it      *)
(* asked: the results of tests and turn-ins, the source of the row that    *)
(* was clicked, the homeworks of a course.  Each page names the exceptions.*)
ShownIsStored ==
    /\ which = "problem" => P!ResultsSettle /\ P!WindowShowsRow
    /\ which = "student" => S!ShownSettles /\ S!TurnedInIsNotMissing

(* A panel of a course shows only homeworks that belong to it.             *)
CardsFitPanel == which = "student" => S!CardsFitPanel

(* A student who has tests left may test, and a turn-in goes to a homework *)
(* that accepts it, after a question when it is late.                      *)
SubmissionsAllowed == which = "problem" => P!NothingWithheld /\ P!TurnInsAllowed
==============================================================================
