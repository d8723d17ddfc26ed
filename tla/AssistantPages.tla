----------------------------- MODULE AssistantPages -----------------------------
(***************************************************************************)
(* The pages that an assistant uses, side by side: a browser shows one of  *)
(* them, the form of a course, the form of a problem or the pages that     *)
(* mark.  Which one is chosen at the start, and the variables of the       *)
(* others are None.                                                        *)
(***************************************************************************)
EXTENDS Naturals, Sequences

CONSTANTS
    None,
    Users, Me, Assistants, FirstCourse, Unknown,   \* of CourseForm
    MaxPosts, MaxMounts,
    Languages, FirstRow, MaxFiles, MaxSaves,       \* of ProblemForm
    MaxFormClicks,                                 \* its MaxClicks
    Students, Scores, Members, FirstMarks,         \* of Marking
    Testers, Unmarked, MaxClicks,
    MaxChanges                                     \* of CourseForm and Marking

VARIABLES
    which,
    hist, filled, net, at,
    id, kind, lists, posts, mounts, removed, unheard, modifying, again,
    rows, isEditing, method, picked, language, code_lang, switch, mde_description, valued,
    upload, reupload, files, saves, types, validated, used, told, chosen,
    html, known, page, records, student_info, loaded, current_key, current_selected,
    current_score, confirm, clicks, crashed, scored, lost, changed

ofCourse == <<id, kind, lists, posts, mounts, removed, unheard, modifying, again>>
ofForm == <<rows, isEditing, method, picked, language, code_lang, switch, mde_description,
      valued, upload, reupload, files, saves, types, validated, used, told, chosen>>
ofMarking == <<html, known, page, records, student_info, loaded, current_key, current_selected,
      current_score, confirm, clicks, crashed, scored, lost, changed>>
vars == <<which, hist, filled, net, at, ofCourse, ofForm, ofMarking>>

-----------------------------------------------------------------------------
C == INSTANCE CourseForm
F == INSTANCE ProblemForm WITH MaxClicks <- MaxFormClicks
M == INSTANCE Marking

ASSUME ConstantsFit == C!FormAssumption /\ F!FormAssumption /\ M!MarkingAssumption

-----------------------------------------------------------------------------
NoCourse ==
    /\ id = None /\ kind = None /\ lists = None /\ posts = None /\ mounts = None
    /\ removed = None /\ unheard = None /\ modifying = None /\ again = None

NoForm ==
    /\ rows = None /\ isEditing = None /\ method = None /\ picked = None /\ language = None
    /\ code_lang = None /\ switch = None /\ mde_description = None /\ valued = None
    /\ upload = None /\ reupload = None /\ files = None /\ saves = None /\ types = None
    /\ validated = None /\ used = None /\ told = None /\ chosen = None

NoMarking ==
    /\ html = None /\ known = None /\ page = None /\ records = None /\ student_info = None
    /\ loaded = None /\ current_key = None /\ current_selected = None /\ current_score = None
    /\ confirm = None /\ clicks = None /\ crashed = None /\ scored = None /\ lost = None
    /\ changed = None

Init ==
    \/ /\ which = "course" /\ C!Init
       /\ NoForm /\ NoMarking
       /\ at = None
    \/ /\ which = "form" /\ F!Init
       /\ NoCourse /\ NoMarking
       /\ hist = None
    \/ /\ which = "marking" /\ M!Init
       /\ NoCourse /\ NoForm
       /\ filled = None

Next ==
    /\ which' = which
    /\ \/ /\ which = "course" /\ C!Next
          /\ UNCHANGED <<ofForm, ofMarking, at>>
       \/ /\ which = "form" /\ F!Next
          /\ UNCHANGED <<ofCourse, ofMarking, hist>>
       \/ /\ which = "marking" /\ M!Next
          /\ UNCHANGED <<ofCourse, ofForm, filled>>

Spec == Init /\ [][Next]_vars

-----------------------------------------------------------------------------
(* The variables of every page have their types.                           *)
TypesOK ==
    /\ which = "course" => C!TypeOK
    /\ which = "form" => F!TypeOK
    /\ which = "marking" => M!TypeOK

(* What a page holds belongs together: the course page is at the form that *)
(* was asked for and lists nobody twice, the score in the box is for the   *)
(* student who is shown, and the list of students settles on those who     *)
(* turned in.                                                              *)
PagesFit ==
    /\ which = "course" => C!ListedOnce /\ C!AtFormAskedFor
    /\ which = "marking" => M!ScoreIsOfSelected /\ M!ListSettles

(* What was saved is what was in the form: the files of the problem that   *)
(* is reported are those chosen last, the language of its standard program *)
(* is one it allows, and a row that got no files has a twin that did.      *)
ProblemIsForm ==
    which = "form" => F!LanguageFits /\ F!SavedAsChosen /\ F!NothingSwallowed

(* Nothing is taken away by accident: saving a course keeps the members    *)
(* that were not deleted in the form, and a mark is only replaced without  *)
(* a question if the page did not know of it.                              *)
NothingLost ==
    [][/\ which = "course" => C!KeepsMembers
       /\ which = "marking" => M!AsksFirst]_vars
==============================================================================
