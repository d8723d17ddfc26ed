------------------------------ MODULE CourseForm ------------------------------
(***************************************************************************)
(* The form of a course, class-component/TA-create-lesson.js: to create    *)
(* one, to edit one on a page of its own, and in the course page to show   *)
(* it and, after a click, to modify it.                                    *)
(*                                                                         *)
(* The form asks for the course and then for each of its members; the      *)
(* answers, in any order, fill two lists, and what is saved are the lists  *)
(* as they are then.  A read may answer with any state of the course since *)
(* it was sent.                                                            *)
(***************************************************************************)
EXTENDS Naturals, Sequences, FiniteSets

CONSTANTS
    Users, Me,     \* Me: the assistant who uses the form
    Assistants,    \* the users of role 2; the others are students
    FirstCourse,   \* the members at the start
    MaxPosts,      \* bounds the searches and saves
    MaxChanges,    \* bounds the changes of the course
    MaxMounts,     \* bounds how often a form is mounted
    Unknown,       \* props.id before App knows the user
    None

Lists == {"students", "tas"}
Kinds == {"create", "edit", "show", "modify"}
Courses == [Lists -> SUBSET Users]

(* What the constants may be.  The members at the start have enrolled or   *)
(* were put in by this form, which tells assistants and students apart.    *)
FormAssumption ==
    /\ Me \in Assistants /\ Assistants \subseteq Users /\ FirstCourse \in Courses
    /\ FirstCourse["tas"] \subseteq Assistants /\ FirstCourse["students"] \cap Assistants = {}
    /\ MaxPosts \in Nat /\ MaxChanges \in Nat /\ MaxMounts \in Nat
    /\ Unknown \notin Users /\ None \notin Kinds

VARIABLES
    hist,      \* the members of the course, after every change
    id,        \* props.id
    kind,      \* the form that is mounted, or None
    lists,     \* state.stus and state.tas: how often each user is in them
    filled,    \* the fields of the form have values
    net, posts, mounts,
    removed,   \* history: who was deleted from the lists of this form
    unheard,   \* history: the users about whom an answer was lost, by list
    modifying, \* history: whether the form to modify was asked for last
    again      \* history: a form was left, or saved again, while a save was under way

vars == <<hist, id, kind, lists, filled, net, posts, mounts, removed, unheard, modifying, again>>

Course == hist[Len(hist)]
Empty == [l \in Lists |-> [u \in Users |-> 0]]
Listed(l) == {u \in Users : lists[l][u] > 0}
Reads == {"query_course", "query_user"}
Saving == \E r \in net : r.api \in {"update_course", "create_course", "saved"}
Fits(u, l) == (u \in Assistants) = (l = "tas")

CourseQuery == [api |-> "query_course", at |-> Len(hist)]
UserQuery(u, l) == [api |-> "query_user", user |-> u, list |-> l]

Init ==
    /\ hist = <<FirstCourse>> /\ id \in {Me, Unknown} /\ kind = None
    /\ lists = Empty /\ filled = FALSE /\ net = {} /\ posts = 0 /\ mounts = 0
    /\ removed = [l \in Lists |-> {}] /\ unheard = [l \in Lists |-> {}]
    /\ modifying = FALSE /\ again = FALSE

-----------------------------------------------------------------------------
(* A form is mounted or goes.  The questions of the old one are dropped:   *)
(* their answers change a component nobody sees.  Saves stay.              *)
Mount(k, rest) ==
    /\ kind' = k /\ lists' = Empty /\ filled' = FALSE
    /\ removed' = [l \in Lists |-> {}] /\ unheard' = [l \in Lists |-> {}]
    /\ net' = {r \in rest : r.api \notin Reads}
         \cup IF id # Unknown /\ k \in {"edit", "show", "modify"} THEN {CourseQuery} ELSE {}

Visit(k) ==
    /\ kind # k /\ mounts < MaxMounts /\ mounts' = mounts + 1
    /\ Mount(k, net) /\ modifying' = FALSE /\ again' = (again \/ Saving)
    /\ UNCHANGED <<hist, id, posts>>

(* App has restored the user: componentWillUpdate asks.                    *)
Restored ==
    /\ id = Unknown /\ id' = Me
    /\ net' = IF kind \in {"edit", "show", "modify"} THEN net \cup {CourseQuery} ELSE net
    /\ UNCHANGED <<hist, kind, lists, filled, posts, mounts, removed, unheard, modifying, again>>

CourseAnswer(r) ==
    /\ r.api = "query_course" /\ filled' = TRUE
    /\ \E c \in {hist[v] : v \in r.at..Len(hist)} :
          net' = (net \ {r}) \cup {UserQuery(u, "tas") : u \in c["tas"]}
                             \cup {UserQuery(u, "students") : u \in c["students"]}
    /\ UNCHANGED <<hist, id, kind, lists, posts, mounts, removed, unheard, modifying, again>>

Push(u, l) == lists' = [lists EXCEPT ![l][u] = @ + 1]

(* FAULT: who is listed already is not looked for.                         *)
UserAnswerFault(r) ==
    /\ r.api = "query_user" /\ net' = net \ {r}
    /\ IF Fits(r.user, r.list) THEN Push(r.user, r.list) ELSE UNCHANGED lists
    /\ UNCHANGED <<hist, id, kind, filled, posts, mounts, removed, unheard, modifying, again>>

(* add_stu_callback, add_ta_callback: of a member or of a name typed in.   *)
UserAnswer(r) ==
    /\ r.api = "query_user" /\ net' = net \ {r}
    /\ IF Fits(r.user, r.list) /\ r.user \notin Listed(r.list)
       THEN Push(r.user, r.list) ELSE UNCHANGED lists
    /\ UNCHANGED <<hist, id, kind, filled, posts, mounts, removed, unheard, modifying, again>>

(* For the properties: whom an answer may bring into a list.               *)
About(r, l) == IF r.api = "query_course" THEN Users
               ELSE IF r.api = "query_user" /\ r.list = l THEN {r.user} ELSE {}

Lose(r) ==
    /\ r.api \in Reads /\ net' = net \ {r}
    /\ unheard' = [l \in Lists |-> unheard[l] \cup About(r, l)]
    /\ UNCHANGED <<hist, id, kind, lists, filled, posts, mounts, removed, modifying, again>>

Editable == kind \in {"create", "edit", "modify"}

Type ==
    /\ Editable /\ ~filled /\ filled' = TRUE
    /\ UNCHANGED <<hist, id, kind, lists, net, posts, mounts, removed, unheard, modifying, again>>

Search(u, l) ==
    /\ Editable /\ posts < MaxPosts /\ posts' = posts + 1
    /\ net' = net \cup {UserQuery(u, l)}
    /\ UNCHANGED <<hist, id, kind, lists, filled, mounts, removed, unheard, modifying, again>>

Delete(u, l) ==
    /\ Editable /\ u \in Listed(l)
    /\ lists' = [lists EXCEPT ![l][u] = 0] /\ removed' = [removed EXCEPT ![l] = @ \cup {u}]
    /\ UNCHANGED <<hist, id, kind, filled, net, posts, mounts, unheard, modifying, again>>

(* clickInfoModifyCallback of the course page: from one form to the other. *)
Toggle(k) == IF k = "show" THEN "modify" ELSE IF k = "modify" THEN "show" ELSE k

ClickModify ==
    /\ kind = "show" /\ filled /\ mounts < MaxMounts /\ mounts' = mounts + 1
    /\ Mount(Toggle(kind), net) /\ modifying' = TRUE
    /\ UNCHANGED <<hist, id, posts, again>>

(* In the course page back to the form that shows; else the home page.     *)
Cancel ==
    /\ Editable /\ mounts < MaxMounts /\ mounts' = mounts + 1
    /\ Mount(IF kind = "modify" THEN Toggle(kind) ELSE None, net)
    /\ modifying' = FALSE /\ again' = (again \/ Saving)
    /\ UNCHANGED <<hist, id, posts>>

(* For the properties: the users a list may lack because the form has not  *)
(* heard of them.                                                          *)
Missing(l) == IF id = Unknown THEN Users
              ELSE unheard[l] \cup UNION {About(r, l) : r \in net}

(* FAULT: the assistants are sent in the place of the students.            *)
SaveRequestFault ==
    [api |-> IF kind = "create" THEN "create_course" ELSE "update_course", from |-> kind,
     members |-> [l \in Lists |-> Listed("tas") \cup IF l = "tas" THEN {id} ELSE {}],
     removed |-> removed, n |-> posts, missing |-> [l \in Lists |-> Missing(l)]]

SaveRequest ==
    [api |-> IF kind = "create" THEN "create_course" ELSE "update_course", from |-> kind,
     members |-> [l \in Lists |-> Listed(l) \cup IF l = "tas" THEN {id} ELSE {}],
     removed |-> removed, n |-> posts, missing |-> [l \in Lists |-> Missing(l)]]

Save ==
    /\ Editable /\ filled /\ posts < MaxPosts /\ posts' = posts + 1
    /\ net' = net \cup {SaveRequest} /\ again' = (again \/ Saving)
    /\ UNCHANGED <<hist, id, kind, lists, filled, mounts, removed, unheard, modifying>>

-----------------------------------------------------------------------------
Changed(c) == Len(hist) <= MaxChanges /\ hist' = Append(hist, c)

(* FAULT: an id that no user has is accepted.                              *)
HandleFault(r) ==
    /\ r.api \in {"update_course", "create_course"}
    /\ IF r.api = "update_course" THEN Me \in Course["tas"] /\ Changed(r.members)
       ELSE UNCHANGED hist
    /\ net' = (net \ {r}) \cup {[api |-> "saved", from |-> r.from, n |-> r.n]}
    /\ UNCHANGED <<id, kind, lists, filled, posts, mounts, removed, unheard, modifying, again>>

(* The backend handles a save; an id that no user has makes it fail before *)
(* the course is saved.                                                    *)
Handle(r) ==
    /\ r.api \in {"update_course", "create_course"} /\ Unknown \notin r.members["tas"]
    /\ IF r.api = "update_course" THEN Me \in Course["tas"] /\ Changed(r.members)
       ELSE UNCHANGED hist
    /\ net' = (net \ {r}) \cup {[api |-> "saved", from |-> r.from, n |-> r.n]}
    /\ UNCHANGED <<id, kind, lists, filled, posts, mounts, removed, unheard, modifying, again>>

Fail(r) ==
    /\ r.api \notin Reads /\ net' = net \ {r}
    /\ UNCHANGED <<hist, id, kind, lists, filled, posts, mounts, removed, unheard, modifying, again>>

(* submit_callback: leave the form, from whatever page there is by now.    *)
Saved(r) ==
    /\ r.api = "saved"
    /\ LET next == IF r.from = "modify" THEN Toggle(kind) ELSE None IN
       IF next = kind
       THEN net' = net \ {r} /\ UNCHANGED <<kind, lists, filled, removed, unheard>>
       ELSE Mount(next, net \ {r})
    /\ modifying' = FALSE
    /\ UNCHANGED <<hist, id, posts, mounts, again>>

(* A student enrols with the spell, or is put in or out by someone else.   *)
Enrol(u) ==
    /\ u \notin Assistants
    /\ \E s \in {Course["students"] \cup {u}, Course["students"] \ {u}} :
          s # Course["students"] /\ Changed([Course EXCEPT !["students"] = s])
    /\ UNCHANGED <<id, kind, lists, filled, net, posts, mounts, removed, unheard, modifying, again>>

Answer(r) ==
    CourseAnswer(r) \/ UserAnswer(r) \/ Lose(r) \/ Handle(r) \/ Fail(r) \/ Saved(r)

Next ==
    \/ \E k \in {"create", "edit", "show"} : Visit(k)
    \/ Restored \/ Type \/ ClickModify \/ Cancel \/ Save
    \/ \E u \in Users, l \in Lists : Search(u, l) \/ Delete(u, l)
    \/ \E r \in net : Answer(r)
    \/ \E u \in Users : Enrol(u)

Spec == Init /\ [][Next]_vars

-----------------------------------------------------------------------------
(* Every variable has its type.                                            *)
TypeOK ==
    /\ hist \in Seq(Courses) /\ id \in {Me, Unknown} /\ kind \in Kinds \cup {None}
    /\ lists \in [Lists -> [Users -> Nat]] /\ {removed, unheard} \subseteq Courses
    /\ {filled, modifying, again} \subseteq BOOLEAN
    /\ \A r \in net : r.api \in Reads \cup {"update_course", "create_course", "saved"}

(* A save takes a member out of the course only if it was deleted in the   *)
(* form, or joined after the form was loaded, or the answer that would have *)
(* brought it into the list was lost or had not come: a save that goes out *)
(* early takes out those and nobody else.                                  *)
Joined(u, l) == \E v \in DOMAIN hist : u \notin hist[v][l]

KeepsMembers ==
    \A r \in net \ net' :
        r.api = "update_course" /\ hist' # hist =>
            \A l \in Lists : \A u \in Course[l] \ Course'[l] :
                u \in r.removed[l] \/ u \in r.missing[l] \/ Joined(u, l)

(* Nobody is listed twice, although members and names that were typed in   *)
(* are looked up and added in any order.                                   *)
ListedOnce == \A l \in Lists, u \in Users : lists[l][u] <= 1

(* The course page is at the form to modify exactly when that was asked    *)
(* for last and neither saved nor given up: unless a second save was sent, *)
(* or the form was left before the answer to the first one came, which     *)
(* then goes from the form that shows to the one that modifies.            *)
AtFormAskedFor == ~again => (kind = "modify" <=> modifying)
==============================================================================
