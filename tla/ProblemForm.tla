------------------------------ MODULE ProblemForm ------------------------------
(***************************************************************************)
(* The form with which an assistant creates or changes a problem:          *)
(* problem-component/problem-create.js.                                    *)
(*                                                                         *)
(* The fields and the state of the form depend on each other: the method   *)
(* of judging decides on the languages, the languages on that of the       *)
(* standard program, and each file is uploaded on its own before the form  *)
(* is sent with the name that the server gave to it.  Titles, limits and   *)
(* ratios are one field.  Files are numbered as they are chosen.  Nothing  *)
(* has to arrive: what is lost is what never arrives.                      *)
(***************************************************************************)
EXTENDS Naturals, Sequences, FiniteSets

CONSTANTS
    Languages,   \* "1", "2", "3", "4": C, C++, Javascript, Python3
    FirstRow,    \* the problem that is edited
    MaxFiles,    \* bounds the files that are chosen
    MaxSaves,    \* bounds the requests to save
    MaxClicks,   \* bounds both and the fields that are picked, together
    None         \* also stands for the empty string

Slots == {"code", "case", "script"}

(* The languages that the form offers.                                     *)
Options(m) == Languages \cap (IF m = 0 THEN {"1", "2", "4"} ELSE {"3"})

(* The rows of table problems with the files kept for them; 0 is the file  *)
(* that a problem had before.  A row may be there without text and files.  *)
Rows == [method : 0..2, text : {"stored", "typed", None}, language : SUBSET Languages,
         test_language : Languages \cup {None}, openness : 0..1,
         files : [Slots -> 0..MaxFiles \cup {None}]]

(* The files that the form has a place for.                                *)
Place(m, s) == CASE s = "code" -> m # 2 [] s = "case" -> m = 0 [] s = "script" -> m = 1

Complete(row) == row.text # None /\ \A s \in Slots : Place(row.method, s) => row.files[s] # None

(* What the constants may be.  The problem that is edited was saved by     *)
(* this form: its languages fit its method, and it has its files.          *)
FormAssumption ==
    /\ FirstRow \in Rows /\ Complete(FirstRow) /\ {MaxFiles, MaxSaves, MaxClicks} \subseteq Nat
    /\ None \notin {"stored", "typed"} \cup Languages \cup Nat \cup [n : 0..MaxFiles, uri : BOOLEAN]
    /\ FirstRow.method # 2 => /\ FirstRow.test_language \in FirstRow.language
                             /\ FirstRow.language \subseteq Options(FirstRow.method)

VARIABLES
    rows,       \* the problems: the one that is edited, or those that were created
    isEditing,
    at,         \* "form", or "left" for the list of problems
    method,     \* state.judge_method; None (NaN) before the problem came
    picked,     \* the field judge_method has a value
    filled,     \* the fields of one line have values
    language, code_lang, switch,
    mde_description,
    valued,     \* the fields of files that have a value
    upload,     \* state.upload_*: the file, and whether the server has named it; None is undefined
    reupload,   \* state.reupload_*
    net, files, saves, types,
    validated,  \* the fields were checked once
    used,       \* the uploaded files that the server has taken away
    chosen,     \* history: the file that was chosen last for each place
    told        \* history: the save that was reported last

fields == <<picked, filled, language, code_lang, switch, valued>>
form == <<method, mde_description, upload, reupload, validated>>
counts == <<files, saves, types>>
ghosts == <<told, chosen>>
vars == <<rows, isEditing, at, fields, form, net, counts, used, ghosts>>

Nothing == [n |-> 0, uri |-> FALSE]
On(s) == s \in {"on", "0", "1"}     \* a string that is not empty is true

Init ==
    /\ isEditing \in BOOLEAN /\ rows = (IF isEditing THEN <<FirstRow>> ELSE <<>>) /\ at = "form"
    /\ method = (IF isEditing THEN None ELSE 0) /\ picked = FALSE /\ filled = FALSE
    /\ language = {} /\ code_lang = None /\ switch = None /\ mde_description = None /\ valued = {}
    /\ upload = [s \in Slots |-> Nothing] /\ reupload = {} /\ validated = FALSE
    /\ net = (IF isEditing THEN {[api |-> "query_problem"]} ELSE {})
    /\ files = 0 /\ saves = 0 /\ types = 0 /\ used = {}
    /\ told = None /\ chosen = [s \in Slots |-> 0]

-----------------------------------------------------------------------------
(* The problem to edit came: it replaces what was typed, and the new value *)
(* of judge_method also sets the state of the form.                        *)
Load(r) ==
    /\ r.api = "query_problem" /\ net' = net \ {r}
    /\ LET row == rows[1] IN
       /\ method' = row.method /\ language' = row.language /\ code_lang' = row.test_language
       /\ switch' = (IF row.openness = 1 THEN "1" ELSE "0") /\ mde_description' = row.text
    /\ picked' = TRUE /\ filled' = TRUE /\ valued' = {} /\ validated' = FALSE
    /\ UNCHANGED <<rows, isEditing, at, upload, reupload, counts, used, ghosts>>

(* The files that the form asks for.                                       *)
Rendered(m, s) == Place(m, s) /\ (isEditing => s \in reupload)

Clickable == at = "form" /\ types + files + saves < MaxClicks
Typing == Clickable /\ types' = types + 1

Type ==
    /\ at = "form" /\ ~(filled /\ mde_description = "typed")
    /\ filled' = TRUE /\ mde_description' = "typed"
    /\ UNCHANGED <<rows, isEditing, at, method, picked, language, code_lang, switch, valued, upload,
                   reupload, validated, net, counts, used, ghosts>>

(* The method of a problem cannot be changed later.  An upload whose place *)
(* is no longer rendered is broken off.                                    *)
PickMethod(m) ==
    /\ Typing /\ ~isEditing /\ (m # method \/ ~picked)
    /\ method' = m /\ picked' = TRUE /\ language' = {} /\ code_lang' = None
    /\ net' = {r \in net : r.api = "upload" => Rendered(m, r.slot)}
    /\ UNCHANGED <<rows, isEditing, at, filled, switch, mde_description, valued, upload, reupload,
                   validated, files, saves, used, ghosts>>

PickLanguages(L) ==
    /\ Typing /\ method # 2 /\ L # language /\ language' = L /\ code_lang' = None
    /\ UNCHANGED <<rows, isEditing, at, picked, filled, switch, valued, form, net, files, saves,
                   used, ghosts>>

(* The buttons are those of the languages that are ticked.                 *)
PickLanguage(l) ==
    /\ at = "form" /\ method # 2 /\ l # code_lang /\ code_lang' = l
    /\ UNCHANGED <<rows, isEditing, at, picked, filled, language, switch, valued, form, net,
                   counts, used, ghosts>>

Toggle ==
    /\ Typing /\ method # 2 /\ switch' = (IF On(switch) THEN "off" ELSE "on")
    /\ UNCHANGED <<rows, isEditing, at, picked, filled, language, code_lang, valued, form, net,
                   files, saves, used, told, chosen>>

Reupload(s) ==
    /\ at = "form" /\ isEditing /\ Place(method, s) /\ s \notin reupload
    /\ reupload' = reupload \cup {s}
    /\ UNCHANGED <<rows, isEditing, at, fields, method, mde_description, upload, validated, net,
                   counts, used, ghosts>>

-----------------------------------------------------------------------------
(* A file is chosen, which takes the place of the one before, or removed.  *)
Choose(s) ==
    /\ Clickable /\ Rendered(method, s) /\ files < MaxFiles /\ files' = files + 1
    /\ upload' = [upload EXCEPT ![s] = [n |-> files', uri |-> FALSE]] /\ valued' = valued \cup {s}
    /\ net' = net \cup {[api |-> "upload", slot |-> s, n |-> files']}
    /\ chosen' = [chosen EXCEPT ![s] = files']
    /\ UNCHANGED <<rows, isEditing, at, method, picked, filled, language, code_lang, switch,
                   mde_description, reupload, validated, saves, types, used, told>>

Remove(s) ==
    /\ at = "form" /\ Rendered(method, s) /\ upload[s] \notin {Nothing, None}
    /\ upload' = [upload EXCEPT ![s] = None] /\ valued' = valued \ {s}
    /\ net' = {r \in net : r.api = "upload" => r.slot # s}
    /\ UNCHANGED <<rows, isEditing, at, method, picked, filled, language, code_lang, switch,
                   mde_description, reupload, validated, counts, used, ghosts>>

(* An answer about a file that is no longer in the list is dropped by the  *)
(* uploader; a file that was refused is taken out of the list by the form. *)
Uploaded(r) ==
    /\ r.api = "upload" /\ net' = net \ {r}
    /\ LET listed == upload[r.slot] = [n |-> r.n, uri |-> FALSE] IN
       \E f \in (IF listed THEN {[n |-> r.n, uri |-> TRUE], None} ELSE {upload[r.slot]}) :
          /\ upload' = [upload EXCEPT ![r.slot] = f]
          /\ valued' = IF listed THEN valued \cup {r.slot} ELSE valued
    /\ UNCHANGED <<rows, isEditing, at, method, picked, filled, language, code_lang, switch,
                   mde_description, reupload, validated, counts, used, ghosts>>

-----------------------------------------------------------------------------
Sent == {s \in Slots : Rendered(method, s)}
Saves == {r \in net : r.api \in {"save", "answer"}}

(* What handleSubmit sends.  For the properties: the files in the form,    *)
(* whether one has no name yet, and whether nothing else is under way.     *)
Data ==
    [api |-> "save", method |-> method, text |-> mde_description, language |-> language,
     test_language |-> code_lang, openness |-> IF On(switch) THEN 1 ELSE 0,
     files |-> [s \in Sent |-> IF upload[s].uri THEN upload[s].n ELSE None],
     n |-> saves', shown |-> [s \in Sent |-> chosen[s]],
     busy |-> \E s \in Sent : ~upload[s].uri, alone |-> Saves = {}]

Valid ==
    /\ filled /\ picked /\ (method # 2 => language # {} /\ code_lang # None /\ Sent \subseteq valued)
    /\ mde_description # None

(* The first check of the fields replaces them all, and the new value of   *)
(* judge_method resets the description of a problem that is edited, after  *)
(* the request was made.  A file that is undefined stops handleSubmit.     *)
Save ==
    /\ Clickable /\ saves < MaxSaves /\ validated' = TRUE
    /\ IF Valid /\ \A s \in Sent : upload[s] # None
       THEN saves' = saves + 1 /\ net' = net \cup {Data}
       ELSE UNCHANGED <<saves, net>>
    /\ mde_description' = IF ~isEditing \/ validated THEN mde_description
                          ELSE IF method = None THEN None ELSE FirstRow.text
    /\ UNCHANGED <<rows, isEditing, at, fields, method, upload, reupload, files, types, used, ghosts>>

(* The form is gone, and its uploads are broken off.                       *)
Leave(pending) ==
    /\ at' = "left" /\ net' = {r \in pending : r.api \in {"save", "answer"}}
    /\ method' = None /\ picked' = FALSE /\ filled' = FALSE /\ language' = {} /\ code_lang' = None
    /\ switch' = None /\ mde_description' = None /\ valued' = {} /\ reupload' = {} /\ validated' = FALSE
    /\ upload' = [s \in Slots |-> Nothing] /\ chosen' = [s \in Slots |-> 0]

GiveUp ==
    /\ at = "form" /\ isEditing /\ Leave(net)
    /\ UNCHANGED <<rows, isEditing, counts, used, told>>

-----------------------------------------------------------------------------
(* The handlers of problem.py.                                             *)
Answer(r, ok, row) ==
    net' = (net \ {r}) \cup {[api |-> "answer", ok |-> ok, row |-> row, n |-> r.n, shown |-> r.shown,
                              busy |-> r.busy, alone |-> r.alone]}

Zip(r) == {r.files[s] : s \in DOMAIN r.files \ {"code"}}
Replaced(r, copied) == [s \in Slots |-> IF s \in copied THEN r.files[s] ELSE rows[1].files[s]]
Refused(r) == r.method # 2 /\ \E s \in DOMAIN r.files : r.files[s] \in used \cup {None}

(* The row of a new problem, before its text and files are written.        *)
NewRow(r) ==
    [method |-> r.method, text |-> None, language |-> r.language, test_language |-> r.test_language,
     openness |-> IF r.method = 2 THEN 0 ELSE r.openness, files |-> [s \in Slots |-> None]]

WithFiles(row, r) ==
    [row EXCEPT !.text = r.text,
                !.files = [s \in Slots |-> IF s \in DOMAIN r.files THEN r.files[s] ELSE row.files[s]]]

(* What the search for the new row asks for: all that a row has but its    *)
(* text and files.                                                         *)
Alike(a, b) ==
    /\ a.method = b.method /\ a.language = b.language
    /\ a.test_language = b.test_language /\ a.openness = b.openness

(* FAULT: the search goes by the method alone.                             *)
FoundForFault(table) ==
    LET new == table[Len(table)] IN {i \in DOMAIN table : table[i].method = new.method}

(* The row that text and files are written to: for a program any row that  *)
(* is like the new one, for an HTML problem the new one, table being what  *)
(* the insert made of rows.                                                *)
FoundFor(table) ==
    LET new == Len(table) IN
    {i \in DOMAIN table : IF table[new].method = 2 THEN i = new ELSE Alike(table[i], table[new])}

(* Files without a name, or that are gone, and an archive that is none are *)
(* found out before the row is made.  Behind it an archive without its     *)
(* configuration, or a judger that is down, makes the answer an error, and *)
(* the uploaded files stay for another try.                                *)
Create(r) ==
    /\ r.api = "save" /\ ~isEditing
    /\ \/ r.method # 2 /\ Answer(r, FALSE, 0) /\ UNCHANGED <<rows, used>>
       \/ /\ ~Refused(r)
          /\ \E i \in FoundFor(Append(rows, NewRow(r))) :
                /\ rows' = [Append(rows, NewRow(r)) EXCEPT ![i] = WithFiles(@, r)]
                /\ \/ Answer(r, TRUE, i) /\ used' = used \cup {r.files[s] : s \in DOMAIN r.files}
                   \/ r.method # 2 /\ Answer(r, FALSE, 0) /\ used' = used
    /\ UNCHANGED <<isEditing, at, fields, form, counts, ghosts>>

(* An archive that is gone or bad stops an update behind the description,  *)
(* one that cannot be unpacked even behind its copy; a judger that is down *)
(* makes the answer of a whole update an error.                            *)
Update(r) ==
    /\ r.api = "save" /\ isEditing
    /\ LET named == {s \in DOMAIN r.files : r.files[s] # None}
           archive == named \ {"code"} IN
       \/ /\ r.method = 2 \/ archive # {}
          /\ \E copied \in SUBSET {s \in archive : r.files[s] \notin used} :
                rows' = [rows EXCEPT ![1] =
                    [rows[1] EXCEPT !.text = r.text, !.files = Replaced(r, copied)]]
          /\ Answer(r, r.method = 2, 1) /\ used' = used
       \/ /\ r.method # 2 /\ Zip(r) \cap used = {}
          /\ rows' = [rows EXCEPT ![1] =
                 [rows[1] EXCEPT !.text = r.text, !.language = r.language, !.openness = r.openness,
                                 !.test_language = r.test_language, !.files = Replaced(r, named)]]
          /\ \E ok \in BOOLEAN : Answer(r, ok, 1)
          /\ used' = used \cup (Zip(r) \ {None})
    /\ UNCHANGED <<isEditing, at, fields, form, counts, ghosts>>

(* A save that succeeded leads to the list of problems, from wherever the  *)
(* assistant is by then.                                                   *)
Saved(r) ==
    /\ r.api = "answer"
    /\ IF r.ok THEN Leave(net \ {r}) /\ told' = r
       ELSE net' = net \ {r} /\ UNCHANGED <<at, fields, form, told, chosen>>
    /\ UNCHANGED <<rows, isEditing, counts, used>>

Next ==
    \/ Type \/ Toggle \/ Save \/ GiveUp
    \/ \E m \in 0..2 : PickMethod(m)
    \/ \E L \in SUBSET Options(method) : PickLanguages(L)
    \/ \E l \in language : PickLanguage(l)
    \/ \E s \in Slots : Reupload(s) \/ Choose(s) \/ Remove(s)
    \/ \E r \in net : Load(r) \/ Uploaded(r) \/ Create(r) \/ Update(r) \/ Saved(r)

Spec == Init /\ [][Next]_vars

-----------------------------------------------------------------------------
(* Every variable has its type.                                            *)
TypeOK ==
    /\ rows \in Seq(Rows) /\ {isEditing, picked, filled, validated} \subseteq BOOLEAN
    /\ at \in {"form", "left"} /\ method \in 0..2 \cup {None} /\ language \subseteq Languages
    /\ code_lang \in Languages \cup {None} /\ switch \in {None, "on", "off", "0", "1"}
    /\ mde_description \in {None, "stored", "typed"} /\ valued \subseteq Slots /\ reupload \subseteq Slots
    /\ upload \in [Slots -> {None} \cup [n : 0..MaxFiles, uri : BOOLEAN]]
    /\ used \subseteq 0..MaxFiles

(* A problem is judged in a language that its students may use, with the   *)
(* program that its method has for it, in whatever order method, languages *)
(* and the language of the standard program were picked.                   *)
LanguageFits ==
    \A i \in DOMAIN rows : rows[i].method # 2 =>
        rows[i].test_language \in rows[i].language /\ rows[i].language \subseteq Options(rows[i].method)

(* When a save is reported as done, a problem has the files that were in  *)
(* the form, whatever was chosen, replaced or refused before: unless one   *)
(* was still being uploaded (an update then goes without it), or another   *)
(* save was made beside or after it.  After a save that failed behind the  *)
(* insert this may be the problem of that save instead of a new one.       *)
SavedAsChosen ==
    told # None /\ told.alone /\ told.n = saves /\ ~told.busy =>
        \A s \in DOMAIN told.shown : rows[told.row].files[s] = told.shown[s]

(* A problem that has no text and no files is never the only trace of a    *)
(* save: an earlier problem with the same fields has them (the search by   *)
(* those fields took it for the new one).                                  *)
NothingSwallowed ==
    \A i \in DOMAIN rows : ~Complete(rows[i]) =>
        \E j \in DOMAIN rows : j < i /\ Complete(rows[j]) /\ Alike(rows[j], rows[i])
==============================================================================
