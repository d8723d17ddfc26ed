----------------------------- MODULE CoursesProof -----------------------------
(* Theorems about Courses: types, the lists of homeworks, the rows of        *)
(* judgestates and the two sides of membership, for every overlap of         *)
(* requests, with the history of CourseRaces.                                *)
EXTENDS CourseRaces, TLAPS

Held == [id : CourseIds, row : Rows]
HeldUser == [id : Users, row : UserRows]

(* What a request knows at each statement: which handler it is in, which    *)
(* rows it has in memory.                                                   *)
HoldsCourse(r) ==
    \/ pc[r] \in {"savecourse", "remove", "pull", "insuser", "inscourse",
                  "insertnotice", "findnotice"}
    \/ pc[r] \in {"user", "saveuser"} /\ inp[r].kind # "password"
    \/ pc[r] = "caller" /\ inp[r].kind = "notice"
    \/ pc[r] = "states" /\ inp[r].kind = "hwcreate"

HoldsUser(r) == \/ pc[r] = "saveuser"
                \/ pc[r] = "caller" /\ inp[r].kind = "password"

HoldsHw(r) == \/ pc[r] = "savehw"
              \/ pc[r] = "caller" /\ inp[r].kind = "hwupdate"
              \/ pc[r] = "states" /\ inp[r].kind = "hwupdate"

KindsAt(label) ==
    CASE label = "caller" -> Kinds \ {"add", "drop"}
      [] label = "readcourse" -> {"add", "drop", "notice", "delete", "update", "hwcreate", "hwdelete"}
      [] label = "savecourse" -> {"add", "drop", "notice", "create", "update", "hwcreate", "hwdelete"}
      [] label \in {"insert", "find"} -> {"create"}
      [] label \in {"remove", "pull"} -> {"delete"}
      [] label \in {"user", "saveuser"} -> {"add", "drop", "create", "update", "password"}
      [] label \in {"readspell", "insuser", "inscourse"} -> {"enrol"}
      [] label = "inserthw" -> {"hwcreate"}
      [] label = "readhw" -> {"hwdelete", "hwupdate", "hwset"}
      [] label = "savehw" -> {"hwupdate", "hwset"}
      [] label = "deletehw" -> {"hwdelete"}
      [] label = "states" -> {"hwcreate", "hwupdate"}
      [] label \in {"insertnotice", "findnotice"} -> {"notice"}
      [] label = "deletenotice" -> {"unnotice"}
      [] OTHER -> Kinds

StageOK(r) ==
    /\ pc[r] = "new" <=> inp[r] = None
    /\ inp[r] # None => inp[r].kind \in KindsAt(pc[r])
    /\ HoldsCourse(r) => /\ crow[r] \in Held
                         /\ inp[r].kind # "create" => crow[r].id = inp[r].course
    /\ HoldsUser(r) => urow[r] \in HeldUser
    /\ HoldsHw(r) => hrow[r] \in HwRows
    /\ \A t \in todo[r] : t.op = "pull" => inp[r] # None /\ inp[r].kind = "delete"
    /\ pc[r] = "new" => todo[r] = {}

Typed == TypeOK /\ \A r \in Reqs : StageOK(r)

-----------------------------------------------------------------------------
(* The operators of the model.                                              *)
LEMMA ListedType == ASSUME NEW ids, NEW all PROVE Listed(ids, all) \in [all -> {0, 1}]
BY DEF Listed

LEMMA NewCourseType ==
    ASSUME NEW name \in Names, NEW members \in [Sides -> SUBSET Users]
    PROVE  NewCourse(name, members) \in Rows
BY ListedType DEF NewCourse, Rows

LEMMA InputFacts ==
    ASSUME TypeOK, NEW r \in Reqs, StageOK(r), pc[r] # "new"
    PROVE  /\ inp[r] \in Inputs /\ inp[r] \in Arguments /\ inp[r] # None
           /\ inp[r].kind \notin {"create", "password", "unnotice"} => inp[r].course \in CourseIds
           /\ inp[r].kind \in {"add", "drop", "enrol", "password"} => inp[r].user \in Users
           /\ inp[r].kind \in {"add", "drop"} => inp[r].side \in Sides
           /\ inp[r].kind \in {"hwdelete", "hwupdate", "hwset"} => inp[r].hw \in HwIds
           /\ inp[r].kind = "unnotice" => inp[r].note \in Reqs
           /\ inp[r].kind \in KindsAt(pc[r])
BY CoursesAssumption DEF TypeOK, StageOK, Arguments

LEMMA GoType ==
    ASSUME TypeOK, NEW r \in Reqs, NEW label \in Labels, Go(r, label)
    PROVE  /\ pc' = [pc EXCEPT ![r] = label] /\ pc' \in [Reqs -> Labels]
           /\ answer' \in [Reqs -> {"ok", "failed", None}]
BY DEF TypeOK, Go, Finish, Labels

LEMMA RowTypes ==
    ASSUME NEW row \in Rows
    PROVE  /\ [row EXCEPT !.spell = TRUE] \in Rows
           /\ \A hs \in SUBSET HwIds : [row EXCEPT !.homeworks = hs] \in Rows
           /\ \A ns \in SUBSET Reqs : [row EXCEPT !.notices = ns] \in Rows
           /\ \A ms \in [Sides -> [Users -> Nat]] : [row EXCEPT !.members = ms] \in Rows
           /\ \A s \in Sides, u \in Users, n \in Nat :
                  [row EXCEPT !.members[s][u] = n] \in Rows
<1>1. /\ [row EXCEPT !.spell = TRUE] \in Rows
      /\ \A hs \in SUBSET HwIds : [row EXCEPT !.homeworks = hs] \in Rows
      /\ \A ns \in SUBSET Reqs : [row EXCEPT !.notices = ns] \in Rows
  BY DEF Rows
<1>2. \A ms \in [Sides -> [Users -> Nat]] : [row EXCEPT !.members = ms] \in Rows
  BY DEF Rows
<1>3. ASSUME NEW s \in Sides, NEW u \in Users, NEW n \in Nat
      PROVE  [row EXCEPT !.members[s][u] = n] \in Rows
  <2>1. [row.members EXCEPT ![s] = [row.members[s] EXCEPT ![u] = n]] \in [Sides -> [Users -> Nat]]
    BY DEF Rows
  <2>2. [row EXCEPT !.members[s][u] = n]
          = [row EXCEPT !.members = [row.members EXCEPT ![s] = [row.members[s] EXCEPT ![u] = n]]]
    BY DEF Rows
  <2> QED BY <1>2, <2>1, <2>2
<1> QED BY <1>1, <1>2, <1>3

(* The requests that do not step know what they knew.                       *)
LEMMA Others ==
    ASSUME Typed, NEW r \in Reqs, NEW q \in Reqs, q # r,
           pc'[q] = pc[q], inp'[q] = inp[q], crow'[q] = crow[q], urow'[q] = urow[q],
           hrow'[q] = hrow[q], todo'[q] = todo[q]
    PROVE  StageOK(q)'
BY DEF Typed, StageOK, HoldsCourse, HoldsUser, HoldsHw

LEMMA TypedInit == Init => Typed
<1> SUFFICES ASSUME Init PROVE Typed
  OBVIOUS
<1>1. courses \in [CourseIds -> Rows \cup {None}]
  <2>1. NewCourse(OldName, OldMembers) \in Rows
    <3>1. OldName \in Names
      BY DEF Names
    <3> QED BY <3>1, NewCourseType, CoursesAssumption
  <2>2. [NewCourse(OldName, OldMembers) EXCEPT !.homeworks = {OldHw}, !.spell = TRUE] \in Rows
    BY <2>1 DEF Rows, HwIds
  <2> QED BY <2>2 DEF Init
<1>2. users \in [Users -> UserRows]
  <2>1. \A ids : Listed(ids, CourseIds) \in [CourseIds -> Nat]
    BY DEF Listed
  <2> QED BY <2>1 DEF Init, UserRows
<1>3. homeworks \in [HwIds -> HwRows \cup {None}]
  BY CoursesAssumption DEF Init, HwRows, CourseIds
<1>4. TypeOK
  BY <1>1, <1>2, <1>3 DEF Init, TypeOK, Labels
<1>5. \A r \in Reqs : StageOK(r)
  BY DEF Init, StageOK, HoldsCourse, HoldsUser, HoldsHw
<1> QED BY <1>4, <1>5 DEF Typed

-----------------------------------------------------------------------------
(* Types: one step per action.                                              *)
LEMMA TypedArrive ==
    ASSUME Typed, NEW r \in Reqs, NEW c \in Inputs, Arrive(r, c)
    PROVE  Typed'
<1>1. c.kind \in Kinds /\ First(c) \in Labels /\ First(c) \notin {"new", "done"}
  BY CoursesAssumption DEF Arguments, Kinds, First, Labels
<1>2. /\ pc' = [pc EXCEPT ![r] = First(c)] /\ pc' \in [Reqs -> Labels]
      /\ answer' \in [Reqs -> {"ok", "failed", None}]
  BY <1>1, GoType DEF Arrive, Typed
<1>3. inp' = [inp EXCEPT ![r] = c] /\ inp' \in [Reqs -> Inputs \cup {None}]
  BY DEF Arrive, Typed, TypeOK
<1>4. TypeOK'
  BY <1>2, <1>3 DEF Arrive, Typed, TypeOK, tables, locals
<1>5. StageOK(r)'
  <2>1. pc[r] = "new" /\ todo[r] = {} /\ todo' = todo
    BY DEF Arrive, Typed, StageOK, locals
  <2>2. inp'[r] = c /\ pc'[r] = First(c) /\ c # None
    BY <1>2, <1>3, CoursesAssumption DEF Typed, TypeOK
  <2>3. c.kind \in KindsAt(First(c))
    BY <1>1 DEF Kinds, First, KindsAt
  <2>4. /\ pc'[r] \notin {"new", "savecourse", "remove", "pull", "insuser", "inscourse",
                          "insertnotice", "findnotice", "saveuser", "states", "savehw"}
        /\ pc'[r] = "user" => c.kind = "password"
        /\ pc'[r] = "caller" => c.kind \notin {"notice", "password", "hwupdate"}
    BY <1>1, <2>2 DEF First, Kinds
  <2> QED BY <2>1, <2>2, <2>3, <2>4 DEF StageOK, HoldsCourse, HoldsUser, HoldsHw
<1>6. ASSUME NEW q \in Reqs, q # r PROVE StageOK(q)'
  BY <1>2, <1>3, <1>6, Others DEF Arrive, Typed, TypeOK, locals
<1> QED BY <1>4, <1>5, <1>6 DEF Typed

(* A step that only moves on.                                               *)
LEMMA TypedMove ==
    ASSUME Typed, NEW r \in Reqs, UNCHANGED <<inp, locals>>, TypeOK',
           NEW label \in Labels, pc' = [pc EXCEPT ![r] = label], StageOK(r)'
    PROVE  Typed'
<1>1. ASSUME NEW q \in Reqs, q # r PROVE StageOK(q)'
  BY <1>1, Others DEF Typed, TypeOK, locals
<1> QED BY <1>1 DEF Typed

(* A request that ends has nothing to know.                                 *)
LEMMA TypedDone ==
    ASSUME Typed, NEW r \in Reqs, pc[r] # "new", pc'[r] = "done", inp' = inp,
           todo'[r] \subseteq todo[r]
    PROVE  StageOK(r)'
<1>1. inp[r] # None /\ inp[r].kind \in Kinds
  BY InputFacts DEF Typed, Arguments
<1>2. inp[r].kind \in KindsAt("done")
  BY <1>1 DEF KindsAt
<1> QED BY <1>1, <1>2 DEF Typed, StageOK, HoldsCourse, HoldsUser, HoldsHw

LEMMA TypedFail ==
    ASSUME Typed, NEW r \in Reqs, pc[r] # "new", Fail(r)
    PROVE  Typed'
<1>1. pc' = [pc EXCEPT ![r] = "done"] /\ answer' = [answer EXCEPT ![r] = "failed"]
  BY DEF Fail, Finish
<1>2. TypeOK'
  BY <1>1 DEF Fail, Typed, TypeOK, tables, locals, Labels
<1>3. StageOK(r)'
  BY <1>1, TypedDone DEF Fail, Typed, TypeOK, locals
<1> QED BY <1>1, <1>2, <1>3, TypedMove DEF Fail, Labels

LEMMA TypedCaller ==
    ASSUME Typed, NEW r \in Reqs, Caller(r)
    PROVE  Typed'
<1> DEFINE label == IF inp[r].kind = "hwupdate" THEN StatesLoop(r, states[r])
                    ELSE AfterCaller(inp[r].kind)
<1>1. inp[r] # None /\ inp[r].kind \in Kinds \ {"add", "drop"} /\ pc[r] = "caller"
  BY InputFacts DEF Caller, Typed, KindsAt
<1>2. /\ label \in Labels /\ label # "new" /\ inp[r].kind \in KindsAt(label)
      /\ label \in {"savecourse", "remove", "pull", "insuser", "inscourse",
                    "insertnotice", "findnotice"} => inp[r].kind = "notice"
      /\ label \notin {"user", "caller", "done"}
      /\ label = "saveuser" => inp[r].kind = "password"
      /\ label \in {"savehw", "states"} => inp[r].kind = "hwupdate"
  BY <1>1 DEF AfterCaller, StatesLoop, Labels, Kinds, KindsAt
<1>3. pc' = [pc EXCEPT ![r] = label] /\ answer' \in [Reqs -> {"ok", "failed", None}]
  <2> HIDE DEF label
  <2>1. Go(r, label)
    BY DEF Caller, label
  <2> QED BY <1>2, <2>1, GoType DEF Typed
<1> HIDE DEF label
<1>4. TypeOK'
  BY <1>2, <1>3 DEF Caller, Typed, TypeOK, tables, locals
<1>5. StageOK(r)'
  <2>1. pc'[r] = label
    BY <1>2, <1>3 DEF Typed, TypeOK
  <2> QED BY <1>1, <1>2, <2>1 DEF Caller, Typed, StageOK, HoldsCourse, HoldsUser, HoldsHw, locals
<1> QED BY <1>2, <1>3, <1>4, <1>5, TypedMove DEF Caller

(* A step changes what its own request knows and nobody else's.             *)
LEMMA TypedStep ==
    ASSUME Typed, NEW r \in Reqs, inp' = inp, TypeOK', StageOK(r)',
           NEW label \in Labels, pc' = [pc EXCEPT ![r] = label],
           \A q \in Reqs : q # r => /\ crow'[q] = crow[q] /\ urow'[q] = urow[q]
                                    /\ hrow'[q] = hrow[q] /\ todo'[q] = todo[q]
    PROVE  Typed'
<1>1. ASSUME NEW q \in Reqs, q # r PROVE StageOK(q)'
  <2>1. pc'[q] = pc[q] /\ inp'[q] = inp[q]
    BY <1>1 DEF Typed, TypeOK
  <2> QED BY <1>1, <2>1, Others
<1> QED BY <1>1 DEF Typed

LEMMA LoopLabels ==
    ASSUME NEW r \in Reqs, NEW left
    PROVE  /\ Loop(r, left) \in {"user", "savecourse", "done"}
           /\ Loop(r, left) = "savecourse" => inp[r].kind \in {"create", "update"}
           /\ Loop(r, left) = "user" <=> left # {}
           /\ inp[r].kind \in {"create", "update"} => Loop(r, left) # "done"
           /\ Loop(r, left) \in Labels
BY DEF Loop, Labels

LEMMA StatesLabels ==
    ASSUME NEW r \in Reqs, NEW left
    PROVE  /\ StatesLoop(r, left) \in {"states", "savecourse", "savehw"}
           /\ StatesLoop(r, left) = "savecourse" => inp[r].kind = "hwcreate"
           /\ StatesLoop(r, left) = "savehw" => inp[r].kind # "hwcreate"
           /\ StatesLoop(r, left) = "states" <=> left.create \cup left.delete # {}
           /\ StatesLoop(r, left) \in Labels
BY DEF StatesLoop, Labels

LEMMA SaveRowType ==
    ASSUME TypeOK, NEW k \in CourseIds, NEW row \in Rows \cup {None},
           courses[k] # None => row # None, SaveRow(k, row)
    PROVE  courses' \in [CourseIds -> Rows \cup {None}]
BY DEF TypeOK, SaveRow

LEMMA ChangesType ==
    ASSUME NEW op \in {"add", "drop", "sub"}, NEW members
    PROVE  /\ Changes(op, members) \subseteq Tasks
           /\ \A t \in Changes(op, members) : t.op = op /\ t.user \in members[t.side]
BY DEF Changes, Tasks

LEMMA TypedInsertCourse ==
    ASSUME Typed, NEW r \in Reqs, InsertCourse(r)
    PROVE  Typed'
<1>1. inp[r] \in Arguments /\ inp[r].kind = "create" /\ pc[r] = "insert"
  BY InputFacts DEF InsertCourse, At, Typed
<1>2. NewCourse(inp[r].name, inp[r].members) \in Rows
  BY <1>1, NewCourseType DEF Arguments
<1>3. pc' = [pc EXCEPT ![r] = "find"] /\ answer' \in [Reqs -> {"ok", "failed", None}]
  BY GoType DEF InsertCourse, Typed, Labels
<1>4. TypeOK'
  BY <1>2, <1>3 DEF InsertCourse, Typed, TypeOK, locals, Labels, CourseIds
<1>5. StageOK(r)'
  BY <1>1, <1>3 DEF InsertCourse, Typed, TypeOK, StageOK, HoldsCourse, HoldsUser, HoldsHw, locals, KindsAt
<1> QED BY <1>3, <1>4, <1>5, TypedMove DEF InsertCourse, Labels

LEMMA TypedFindCourse ==
    ASSUME Typed, NEW r \in Reqs, FindCourse(r)
    PROVE  Typed'
<1>1. inp[r] \in Arguments /\ inp[r] # None /\ inp[r].kind = "create" /\ pc[r] = "find"
  BY InputFacts DEF FindCourse, At, Typed
<1>2. PICK k \in CourseIds :
        /\ courses[k] # None
        /\ crow' = [crow EXCEPT ![r] = [id |-> k, row |-> [courses[k] EXCEPT !.spell = TRUE]]]
  BY DEF FindCourse, Alike
<1>3. [id |-> k, row |-> [courses[k] EXCEPT !.spell = TRUE]] \in Held
  <2>1. courses[k] \in Rows
    BY <1>2 DEF Typed, TypeOK
  <2> QED BY <2>1, RowTypes DEF Held
<1> DEFINE ts == Changes("add", inp[r].members)
<1>4. ts \subseteq Tasks /\ \A t \in ts : t.op = "add"
  BY ChangesType
<1> HIDE DEF ts
<1>5. todo' = [todo EXCEPT ![r] = ts] /\ todo'[r] = ts
  BY DEF FindCourse, Typed, TypeOK, ts
<1> DEFINE label == Loop(r, ts)
<1>6. label \in {"user", "savecourse"} /\ label \in Labels
  BY <1>1, LoopLabels
<1> HIDE DEF label
<1>7. pc' = [pc EXCEPT ![r] = label] /\ answer' \in [Reqs -> {"ok", "failed", None}]
  <2>1. Go(r, label)
    BY <1>5 DEF FindCourse, label
  <2> QED BY <1>6, <2>1, GoType DEF Typed
<1>8. TypeOK'
  BY <1>2, <1>3, <1>4, <1>5, <1>6, <1>7 DEF FindCourse, Typed, TypeOK, tables, Held
<1>9. StageOK(r)'
  BY <1>1, <1>2, <1>3, <1>4, <1>5, <1>6, <1>7
  DEF FindCourse, Typed, TypeOK, StageOK, HoldsCourse, HoldsUser, HoldsHw, KindsAt
<1> QED BY <1>2, <1>5, <1>6, <1>7, <1>8, <1>9, TypedStep DEF FindCourse, Typed, TypeOK

(* The read of a course row, whatever the handler makes of it.              *)
LEMMA TypedKeep ==
    ASSUME Typed, NEW r \in Reqs, NEW row \in Rows, NEW ts \in SUBSET Tasks, NEW label \in Labels,
           Keep(r, row, ts, label), UNCHANGED <<tables, inp, urow, hrow, states>>,
           pc[r] \in {"readcourse", "readspell"}, label # "new", inp[r].kind \in KindsAt(label),
           label \in {"user", "saveuser", "caller"} => inp[r].kind \in {"update", "notice"},
           label \notin {"saveuser", "savehw"}, label = "states" => inp[r].kind = "hwcreate",
           \A t \in ts : t.op # "pull"
    PROVE  Typed'
<1>1. inp[r] \in Arguments /\ inp[r] # None /\ inp[r].kind \notin {"create", "password", "unnotice"}
  BY InputFacts DEF Typed, KindsAt
<1>2. inp[r].course \in CourseIds
  BY <1>1, InputFacts DEF Typed
<1>3. /\ pc' = [pc EXCEPT ![r] = label] /\ pc' \in [Reqs -> Labels]
      /\ answer' \in [Reqs -> {"ok", "failed", None}]
  BY GoType DEF Keep, Typed
<1>4. crow' = [crow EXCEPT ![r] = [id |-> inp[r].course, row |-> row]]
      /\ todo' = [todo EXCEPT ![r] = ts]
  BY DEF Keep
<1>5. [id |-> inp[r].course, row |-> row] \in Held
  BY <1>2 DEF Held
<1>6. TypeOK'
  BY <1>3, <1>4, <1>5 DEF Typed, TypeOK, tables, Held
<1>7. /\ pc'[r] = label /\ todo'[r] = ts /\ crow'[r] = [id |-> inp[r].course, row |-> row]
      /\ inp'[r] = inp[r]
  BY <1>3, <1>4 DEF Typed, TypeOK
<1>8. StageOK(r)'
  BY <1>1, <1>5, <1>7 DEF StageOK, HoldsCourse, HoldsUser, HoldsHw
<1>9. \A q \in Reqs : q # r => /\ crow'[q] = crow[q] /\ urow'[q] = urow[q]
                               /\ hrow'[q] = hrow[q] /\ todo'[q] = todo[q]
  BY <1>4 DEF Typed, TypeOK
<1> QED BY <1>3, <1>6, <1>8, <1>9, TypedStep

LEMMA TypedReadCourse ==
    ASSUME Typed, NEW r \in Reqs, ReadCourse(r)
    PROVE  Typed'
<1> PICK row : row = courses[inp[r].course]
  OBVIOUS
<1>1. /\ inp[r] \in Arguments /\ pc[r] = "readcourse"
      /\ inp[r].kind \in {"add", "drop", "notice", "delete", "update", "hwcreate", "hwdelete"}
      /\ inp[r].course \in CourseIds
      /\ inp[r].kind \in {"add", "drop"} => inp[r].user \in Users /\ inp[r].side \in Sides
  BY InputFacts DEF ReadCourse, Typed, KindsAt
<1>2. row \in Rows
  BY <1>1 DEF ReadCourse, Typed, TypeOK
<1>3. UNCHANGED <<tables, inp, urow, hrow, states>>
  BY DEF ReadCourse
<1>4. CASE UseForMember(r, row)
  <2> DEFINE t == [user |-> inp[r].user, side |-> inp[r].side, op |-> inp[r].kind]
  <2>1. inp[r].kind \in {"add", "drop"}
    BY <1>4 DEF UseForMember
  <2>2. t \in Tasks /\ t.op # "pull"
    BY <1>1, <2>1 DEF Tasks
  <2>3. row.members[inp[r].side][inp[r].user] \in Nat
    BY <1>1, <1>2, <2>1 DEF Rows
  <2>4. "savecourse" \in Labels /\ inp[r].kind \in KindsAt("savecourse")
        /\ "done" \in Labels /\ inp[r].kind \in KindsAt("done")
    BY <2>1 DEF Labels, KindsAt, Kinds
  <2>5. CASE Keep(r, [row EXCEPT !.members[inp[r].side][inp[r].user] = 1], {t}, "savecourse")
    <3>1. [row EXCEPT !.members[inp[r].side][inp[r].user] = 1] \in Rows
      BY <1>1, <1>2, <2>1, RowTypes
    <3> QED BY <1>1, <1>3, <2>2, <2>4, <2>5, <3>1, TypedKeep
  <2>6. CASE /\ row.members[inp[r].side][inp[r].user] > 0
             /\ Keep(r, [row EXCEPT !.members[inp[r].side][inp[r].user] = @ - 1], {t}, "savecourse")
    <3> DEFINE m == row.members[inp[r].side][inp[r].user]
    <3>0. m \in Nat /\ m > 0
      BY <2>3, <2>6
    <3> HIDE DEF m
    <3>1. m - 1 \in Nat
      BY <3>0
    <3>a. PICK n \in Nat : n = m - 1
      BY <3>1
    <3>2. [row EXCEPT !.members[inp[r].side][inp[r].user] = n] \in Rows
      BY <1>1, <1>2, <2>1, RowTypes
    <3>3. [row EXCEPT !.members[inp[r].side][inp[r].user] = n]
             = [row EXCEPT !.members[inp[r].side][inp[r].user] = @ - 1]
      BY <1>2, <3>a DEF m
    <3> HIDE DEF t
    <3>4. Keep(r, [row EXCEPT !.members[inp[r].side][inp[r].user] = n], {t}, "savecourse")
      BY <2>6, <3>3
    <3> QED BY <1>1, <1>3, <2>2, <2>4, <3>2, <3>4, TypedKeep
  <2>7. CASE Keep(r, row, {}, "done")
    BY <1>1, <1>2, <1>3, <2>4, <2>7, TypedKeep
  <2> QED BY <1>4, <2>5, <2>6, <2>7 DEF UseForMember
<1>5. CASE UseForUpdate(r, row)
  <2> DEFINE was == [s \in Sides |-> {u \in Users : row.members[s][u] > 0}]
             new == inp[r].members
             left == Changes("add", [s \in Sides |-> new[s] \ was[s]])
                       \cup Changes("sub", [s \in Sides |-> was[s] \ new[s]])
             after == [row EXCEPT !.members = [s \in Sides |-> Listed(new[s], Users)],
                                  !.status = inp[r].status]
  <2>1. inp[r].kind = "update" /\ Keep(r, after, left, Loop(r, left))
    BY <1>5 DEF UseForUpdate
  <2>2. left \subseteq Tasks /\ \A t \in left : t.op # "pull"
    BY ChangesType
  <2>3. after \in Rows
    <3>1. [s \in Sides |-> Listed(new[s], Users)] \in [Sides -> [Users -> Nat]]
      BY DEF Listed
    <3>2. inp[r].status \in 0..1
      BY <1>1 DEF Arguments
    <3> QED BY <1>2, <3>1, <3>2 DEF Rows
  <2> HIDE DEF left, after
  <2> DEFINE label == Loop(r, left)
  <2>4. label \in {"user", "savecourse"} /\ label \in Labels
    BY <2>1, LoopLabels
  <2>5. Keep(r, after, left, label)
    BY <2>1
  <2> HIDE DEF label
  <2>6. inp[r].kind \in KindsAt(label)
    BY <2>1, <2>4 DEF KindsAt
  <2> QED BY <1>1, <1>3, <2>1, <2>2, <2>3, <2>4, <2>5, <2>6, TypedKeep
<1>6. CASE UseForList(r, row)
  <2>1. CASE /\ inp[r].kind = "hwcreate"
             /\ Keep(r, [row EXCEPT !.homeworks = @ \cup {r}], {}, StatesLoop(r, states[r]))
    <3>1. PICK hs : hs = row.homeworks \cup {r}
      OBVIOUS
    <3>2. hs \subseteq HwIds
      BY <1>2, <3>1 DEF Rows, HwIds
    <3>3. [row EXCEPT !.homeworks = hs] \in Rows
      BY <1>2, <3>2, RowTypes
    <3> DEFINE label == StatesLoop(r, states[r])
    <3>4. label \in {"states", "savecourse"} /\ label \in Labels
      BY <2>1, StatesLabels
    <3>5. Keep(r, [row EXCEPT !.homeworks = hs], {}, label)
      BY <2>1, <3>1
    <3> HIDE DEF label
    <3>6. inp[r].kind \in KindsAt(label)
      BY <2>1, <3>4 DEF KindsAt
    <3> QED BY <1>1, <1>3, <2>1, <3>3, <3>4, <3>5, <3>6, TypedKeep
  <2>2. CASE /\ inp[r].kind = "hwdelete"
             /\ Keep(r, [row EXCEPT !.homeworks = @ \ {inp[r].hw}], {}, "savecourse")
    <3>1. PICK hs : hs = row.homeworks \ {inp[r].hw}
      OBVIOUS
    <3>2. hs \subseteq HwIds
      BY <1>2, <3>1 DEF Rows, HwIds
    <3>3. [row EXCEPT !.homeworks = hs] \in Rows
      BY <1>2, <3>2, RowTypes
    <3>4. Keep(r, [row EXCEPT !.homeworks = hs], {}, "savecourse")
      BY <2>2, <3>1
    <3> QED BY <1>1, <1>3, <2>2, <3>3, <3>4, TypedKeep DEF Labels, KindsAt
  <2>3. CASE inp[r].kind = "notice" /\ Keep(r, row, {}, "caller")
    BY <1>1, <1>2, <1>3, <2>3, TypedKeep DEF Labels, KindsAt, Kinds
  <2> QED BY <1>6, <2>1, <2>2, <2>3 DEF UseForList
<1>7. CASE inp[r].kind = "delete" /\ Keep(r, row, {}, "remove")
  BY <1>1, <1>2, <1>3, <1>7, TypedKeep DEF Labels, KindsAt
<1> QED BY <1>4, <1>5, <1>6, <1>7 DEF ReadCourse

LEMMA TypedReadSpell ==
    ASSUME Typed, NEW r \in Reqs, ReadSpell(r)
    PROVE  Typed'
<1>1. inp[r].kind = "enrol" /\ pc[r] = "readspell" /\ inp[r].course \in CourseIds
  BY InputFacts DEF ReadSpell, At, Typed
<1>2. PICK row : row = courses[inp[r].course]
  OBVIOUS
<1>3. row \in Rows /\ Keep(r, row, {}, "insuser")
  BY <1>1, <1>2 DEF ReadSpell, HasSpell, Typed, TypeOK
<1> QED BY <1>1, <1>3, TypedKeep DEF ReadSpell, Labels, KindsAt

TablesTyped ==
    /\ courses \in [CourseIds -> Rows \cup {None}]
    /\ users \in [Users -> UserRows]
    /\ homeworks \in [HwIds -> HwRows \cup {None}]
    /\ notices \in [Reqs -> [course : CourseIds, text : Names] \cup {None}]
    /\ judgestates \in [HwIds -> [Problems -> Nat]]

(* A step that writes a table and keeps what the request has in memory.     *)
LEMMA TypedWrite ==
    ASSUME Typed, NEW r \in Reqs, NEW label \in Labels, Go(r, label), UNCHANGED <<inp, locals>>,
           TablesTyped', pc[r] # "new", label # "new", inp[r].kind \in KindsAt(label),
           HoldsCourse(r)' => HoldsCourse(r), HoldsUser(r)' => HoldsUser(r),
           HoldsHw(r)' => HoldsHw(r)
    PROVE  Typed'
<1>1. /\ pc' = [pc EXCEPT ![r] = label] /\ pc' \in [Reqs -> Labels]
      /\ answer' \in [Reqs -> {"ok", "failed", None}]
  BY GoType DEF Typed
<1>2. TypeOK'
  BY <1>1 DEF Typed, TypeOK, locals, TablesTyped
<1>3. pc'[r] = label
  BY <1>1 DEF Typed, TypeOK
<1>4. StageOK(r)'
  BY <1>3 DEF Typed, StageOK, locals
<1> QED BY <1>1, <1>2, <1>4, TypedMove

LEMMA TablesOf == Typed => TablesTyped
BY DEF Typed, TypeOK, TablesTyped

LEMMA TypedSaveCourse ==
    ASSUME Typed, NEW r \in Reqs, SaveCourse(r)
    PROVE  Typed'
<1>1. /\ pc[r] = "savecourse" /\ HoldsCourse(r)
      /\ inp[r].kind \in {"add", "drop", "notice", "create", "update", "hwcreate", "hwdelete"}
      /\ crow[r] \in Held
  BY InputFacts DEF SaveCourse, Typed, KindsAt, HoldsCourse, StageOK
<1>2. TablesTyped'
  <2>1. crow[r].id \in CourseIds /\ crow[r].row \in Rows
    BY <1>1 DEF Held
  <2>2. courses' \in [CourseIds -> Rows \cup {None}]
    BY <2>1, SaveRowType, CoursesAssumption DEF SaveCourse, Typed
  <2> QED BY <2>2, TablesOf DEF SaveCourse, TablesTyped
<1>3. PICK label : label = CASE inp[r].kind \in {"add", "drop"} -> "user"
                             [] inp[r].kind = "hwdelete" -> "deletehw"
                             [] OTHER -> "done"
  OBVIOUS
<1>4. /\ label \in {"user", "deletehw", "done"} /\ label \in Labels
      /\ inp[r].kind \in KindsAt(label)
  BY <1>1, <1>3 DEF Labels, KindsAt, Kinds
<1>5. Go(r, label)
  BY <1>3 DEF SaveCourse
<1>6. pc'[r] = label /\ inp' = inp
  BY <1>4, <1>5, GoType DEF SaveCourse, Typed, TypeOK
<1>7. HoldsUser(r)' => HoldsUser(r)
  BY <1>4, <1>6 DEF HoldsUser
<1>8. HoldsHw(r)' => HoldsHw(r)
  BY <1>4, <1>6 DEF HoldsHw
<1> QED BY <1>1, <1>2, <1>4, <1>5, <1>7, <1>8, TypedWrite DEF SaveCourse

LEMMA TypedRemoveCourse ==
    ASSUME Typed, NEW r \in Reqs, RemoveCourse(r)
    PROVE  Typed'
<1>1. /\ pc[r] = "remove" /\ inp[r].kind = "delete" /\ inp[r] # None
      /\ inp[r].course \in CourseIds /\ crow[r] \in Held
      /\ crow[r].id = inp[r].course
  BY InputFacts DEF RemoveCourse, At, Typed, KindsAt, HoldsCourse, StageOK
<1>2. PICK ts : ts = {t \in [user : Users, side : Sides, op : {"pull"}] :
                         crow[r].row.members[t.side][t.user] > 0}
  OBVIOUS
<1>3. ts \subseteq Tasks
  BY <1>2 DEF Tasks
<1>4. todo' = [todo EXCEPT ![r] = ts] /\ todo'[r] = ts
  BY <1>2 DEF RemoveCourse, Typed, TypeOK
<1>5. PICK label : label = IF ts = {} THEN "done" ELSE "pull"
  OBVIOUS
<1>6. /\ pc' = [pc EXCEPT ![r] = label] /\ pc' \in [Reqs -> Labels]
      /\ answer' \in [Reqs -> {"ok", "failed", None}] /\ pc'[r] = label /\ label \in Labels
  <2>1. label \in Labels
    BY <1>5 DEF Labels
  <2>2. Go(r, label)
    BY <1>4, <1>5 DEF RemoveCourse
  <2> QED BY <2>1, <2>2, GoType DEF Typed, TypeOK
<1>7. TypeOK'
  BY <1>1, <1>3, <1>4, <1>6 DEF RemoveCourse, Typed, TypeOK
<1>8. inp[r].kind \in KindsAt(label)
  BY <1>1, <1>5 DEF KindsAt, Kinds
<1>9. StageOK(r)'
  BY <1>1, <1>5, <1>6, <1>8
  DEF RemoveCourse, StageOK, HoldsCourse, HoldsUser, HoldsHw
<1> QED BY <1>4, <1>6, <1>7, <1>9, TypedStep DEF RemoveCourse, Typed, TypeOK

LEMMA TypedPull ==
    ASSUME Typed, NEW r \in Reqs, Pull(r)
    PROVE  Typed'
<1>1. /\ pc[r] = "pull" /\ inp[r].kind = "delete" /\ inp[r] # None
      /\ inp[r].course \in CourseIds /\ crow[r] \in Held
      /\ crow[r].id = inp[r].course
  BY InputFacts DEF Pull, At, Typed, KindsAt, HoldsCourse, StageOK
<1>2. PICK t \in todo[r] :
        /\ users' = [users EXCEPT ![t.user][t.side][inp[r].course] = 0]
        /\ todo' = [todo EXCEPT ![r] = @ \ {t}]
  BY DEF Pull, Foremost
<1>3. t \in Tasks /\ todo[r] \subseteq Tasks
  BY DEF Typed, TypeOK
<1>4. users' \in [Users -> UserRows]
  BY <1>1, <1>2, <1>3 DEF Tasks, Typed, TypeOK, UserRows
<1>5. PICK label : label = IF todo'[r] = {} THEN "done" ELSE "pull"
  OBVIOUS
<1>6. /\ pc' = [pc EXCEPT ![r] = label] /\ pc' \in [Reqs -> Labels]
      /\ answer' \in [Reqs -> {"ok", "failed", None}] /\ pc'[r] = label /\ label \in Labels
  <2>1. label \in Labels
    BY <1>5 DEF Labels
  <2>2. Go(r, label)
    BY <1>5 DEF Pull
  <2> QED BY <2>1, <2>2, GoType DEF Typed, TypeOK
<1>7. TypeOK'
  BY <1>2, <1>3, <1>4, <1>6 DEF Pull, Typed, TypeOK
<1>8. inp[r].kind \in KindsAt(label)
  BY <1>1, <1>5 DEF KindsAt, Kinds
<1>9. StageOK(r)'
  BY <1>1, <1>2, <1>5, <1>6, <1>8
  DEF Pull, Typed, StageOK, HoldsCourse, HoldsUser, HoldsHw
<1> QED BY <1>2, <1>6, <1>7, <1>9, TypedStep DEF Pull, Typed, TypeOK

LEMMA ChangedType ==
    ASSUME NEW row \in UserRows, NEW t \in Tasks, NEW k \in CourseIds, t.op # "pull",
           t.op = "drop" => row[t.side][k] # 0
    PROVE  Changed(row, t, k) \in UserRows
<1>1. t.side \in Sides /\ t.op \in {"add", "drop", "sub"} /\ row[t.side] \in [CourseIds -> Nat]
  BY DEF Tasks, UserRows
<1>2. CASE t.op = "add"
  <2>1. Changed(row, t, k) = [row EXCEPT ![t.side][k] = @ + 1]
    BY <1>2 DEF Changed
  <2> QED BY <1>1, <2>1 DEF UserRows
<1>3. CASE t.op = "drop"
  <2>1. Changed(row, t, k) = [row EXCEPT ![t.side][k] = @ - 1]
    BY <1>3 DEF Changed
  <2>2. row[t.side][k] \in Nat /\ row[t.side][k] # 0
    BY <1>1, <1>3
  <2>3. row[t.side][k] - 1 \in Nat
    BY <2>2
  <2> QED BY <1>1, <2>1, <2>3 DEF UserRows
<1>4. CASE t.op = "sub"
  <2>1. Changed(row, t, k) = [row EXCEPT ![t.side] = SubList(row[t.side], k)]
    BY <1>4 DEF Changed
  <2>2. SubList(row[t.side], k) \in [CourseIds -> Nat]
    BY <1>1 DEF SubList
  <2> QED BY <1>1, <2>1, <2>2 DEF UserRows
<1> QED BY <1>1, <1>2, <1>3, <1>4

LEMMA TypedReadUser ==
    ASSUME Typed, NEW r \in Reqs, ReadUser(r)
    PROVE  Typed'
<1>1. /\ pc[r] = "user" /\ inp[r] # None /\ inp[r].kind \in {"add", "drop", "create", "update"}
      /\ crow[r] \in Held /\ crow[r].id \in CourseIds
      /\ \A t \in todo[r] : t.op # "pull"
  BY InputFacts DEF ReadUser, Typed, KindsAt, HoldsCourse, StageOK, Held
<1>2. PICK t \in Foremost(todo[r]) :
          IF t.op = "drop" /\ users[t.user][t.side][crow[r].id] = 0
          THEN Fail(r)
          ELSE /\ urow' = [urow EXCEPT ![r] =
                      [id |-> t.user, row |-> Changed(users[t.user], t, crow[r].id)]]
               /\ todo' = [todo EXCEPT ![r] = @ \ {t}]
               /\ Go(r, "saveuser")
               /\ UNCHANGED <<tables, inp, crow, hrow, states>>
  BY DEF ReadUser
<1>3. CASE t.op = "drop" /\ users[t.user][t.side][crow[r].id] = 0
  BY <1>1, <1>2, <1>3, TypedFail
<1>4. CASE ~(t.op = "drop" /\ users[t.user][t.side][crow[r].id] = 0)
  <2>1. t \in Tasks /\ t \in todo[r] /\ t.user \in Users /\ users[t.user] \in UserRows
    BY DEF Foremost, Typed, TypeOK, Tasks
  <2>2. PICK row : row = Changed(users[t.user], t, crow[r].id)
    OBVIOUS
  <2>3. [id |-> t.user, row |-> row] \in HeldUser
    BY <1>1, <1>4, <2>1, <2>2, ChangedType DEF HeldUser
  <2>4. /\ urow' = [urow EXCEPT ![r] = [id |-> t.user, row |-> row]]
        /\ todo' = [todo EXCEPT ![r] = @ \ {t}]
        /\ Go(r, "saveuser") /\ UNCHANGED <<tables, inp, crow, hrow, states>>
    BY <1>2, <1>4, <2>2
  <2>5. /\ pc' = [pc EXCEPT ![r] = "saveuser"] /\ pc' \in [Reqs -> Labels]
        /\ answer' \in [Reqs -> {"ok", "failed", None}] /\ pc'[r] = "saveuser"
    BY <2>4, GoType DEF Labels, Typed, TypeOK
  <2>6. TypeOK'
    BY <2>3, <2>4, <2>5 DEF Typed, TypeOK, tables, HeldUser
  <2>7. StageOK(r)'
    BY <1>1, <2>3, <2>4, <2>5
    DEF Typed, TypeOK, StageOK, HoldsCourse, HoldsUser, HoldsHw, KindsAt
  <2>8. "saveuser" \in Labels
    BY DEF Labels
  <2> QED BY <2>4, <2>5, <2>6, <2>7, <2>8, TypedStep DEF Typed, TypeOK
<1> QED BY <1>3, <1>4

LEMMA TypedReadOwnRow ==
    ASSUME Typed, NEW r \in Reqs, ReadOwnRow(r)
    PROVE  Typed'
<1>1. /\ pc[r] = "user" /\ inp[r] # None /\ inp[r].kind = "password" /\ inp[r].user \in Users
      /\ \A t \in todo[r] : t.op # "pull"
  BY InputFacts DEF ReadOwnRow, At, Typed, KindsAt, StageOK
<1>2. [id |-> inp[r].user, row |-> users[inp[r].user]] \in HeldUser
  BY <1>1 DEF HeldUser, Typed, TypeOK
<1>3. /\ pc' = [pc EXCEPT ![r] = "caller"] /\ pc' \in [Reqs -> Labels]
      /\ answer' \in [Reqs -> {"ok", "failed", None}] /\ pc'[r] = "caller"
  BY GoType DEF Labels, Typed, TypeOK, ReadOwnRow
<1>4. TypeOK'
  BY <1>2, <1>3 DEF ReadOwnRow, Typed, TypeOK, tables, HeldUser
<1>5. StageOK(r)'
  BY <1>1, <1>2, <1>3
  DEF ReadOwnRow, Typed, TypeOK, StageOK, HoldsCourse, HoldsUser, HoldsHw, KindsAt, Kinds
<1>6. "caller" \in Labels
  BY DEF Labels
<1> QED BY <1>3, <1>4, <1>5, <1>6, TypedStep DEF ReadOwnRow, Typed, TypeOK

LEMMA TypedSaveUser ==
    ASSUME Typed, NEW r \in Reqs, SaveUser(r)
    PROVE  Typed'
<1>1. /\ pc[r] = "saveuser" /\ HoldsUser(r) /\ urow[r] \in HeldUser
      /\ inp[r].kind \in {"add", "drop", "create", "update", "password"}
  BY InputFacts DEF SaveUser, Typed, KindsAt, HoldsUser, StageOK
<1>2. TablesTyped'
  <2>1. urow[r].id \in Users /\ urow[r].row \in UserRows
    BY <1>1 DEF HeldUser
  <2>2. users' \in [Users -> UserRows]
    BY <2>1 DEF SaveUser, Typed, TypeOK
  <2> QED BY <2>2, TablesOf DEF SaveUser, TablesTyped
<1>3. PICK label : label = Loop(r, todo[r])
  OBVIOUS
<1>4. /\ label \in {"user", "savecourse", "done"} /\ label \in Labels
      /\ label = "savecourse" => inp[r].kind \in {"create", "update"}
  BY <1>3, LoopLabels
<1>5. inp[r].kind \in KindsAt(label)
  BY <1>1, <1>4 DEF KindsAt, Kinds
<1>6. Go(r, label) /\ pc'[r] = label /\ inp' = inp
  BY <1>3, <1>4, GoType DEF SaveUser, Typed, TypeOK
<1>7. HoldsCourse(r)' => HoldsCourse(r)
  BY <1>1, <1>4, <1>6 DEF HoldsCourse
<1>8. HoldsHw(r)' => HoldsHw(r)
  BY <1>4, <1>6 DEF HoldsHw
<1> QED BY <1>1, <1>2, <1>4, <1>5, <1>6, <1>7, <1>8, TypedWrite DEF SaveUser

LEMMA TypedEnrol ==
    ASSUME Typed, NEW r \in Reqs, InsertInUser(r) \/ InsertInCourse(r)
    PROVE  Typed'
<1>1. /\ pc[r] \in {"insuser", "inscourse"} /\ inp[r].kind = "enrol" /\ HoldsCourse(r)
      /\ crow[r] \in Held /\ crow[r].id \in CourseIds /\ inp[r].user \in Users
  BY InputFacts DEF InsertInUser, InsertInCourse, At, Typed, KindsAt, HoldsCourse, StageOK, Held
<1>2. \A n \in Nat : Once(n) \in Nat
  BY DEF Once
<1>3. CASE InsertInUser(r)
  <2>1. users' \in [Users -> UserRows]
    BY <1>1, <1>2, <1>3 DEF InsertInUser, Typed, TypeOK, UserRows, Sides
  <2>2. TablesTyped'
    BY <1>3, <2>1, TablesOf DEF InsertInUser, TablesTyped
  <2>3. Go(r, "inscourse") /\ "inscourse" \in Labels /\ inp[r].kind \in KindsAt("inscourse")
    BY <1>1, <1>3 DEF InsertInUser, Labels, KindsAt
  <2>4. pc'[r] = "inscourse" /\ inp' = inp
    BY <1>3, <2>3, GoType DEF InsertInUser, Typed, TypeOK
  <2>5. HoldsUser(r)' => HoldsUser(r)
    BY <2>4 DEF HoldsUser
  <2>6. HoldsHw(r)' => HoldsHw(r)
    BY <2>4 DEF HoldsHw
  <2> QED BY <1>1, <1>3, <2>2, <2>3, <2>5, <2>6, TypedWrite DEF InsertInUser
<1>4. CASE InsertInCourse(r)
  <2>1. PICK row : row = courses[crow[r].id]
    OBVIOUS
  <2>2. PICK new : new = IF row = None THEN None
                         ELSE [row EXCEPT !.members["students"][inp[r].user] = Once(@)]
    OBVIOUS
  <2>3. row # None => new \in Rows
    <3>1. SUFFICES ASSUME row # None PROVE new \in Rows
      OBVIOUS
    <3>2. row \in Rows
      BY <1>1, <2>1, <3>1 DEF Typed, TypeOK
    <3>3. row.members["students"][inp[r].user] \in Nat
      BY <1>1, <3>2 DEF Rows, Sides
    <3>4. PICK n \in Nat : n = Once(row.members["students"][inp[r].user])
      BY <1>2, <3>3
    <3>5. [row EXCEPT !.members["students"][inp[r].user] = n] \in Rows
      BY <1>1, <3>2, RowTypes DEF Sides
    <3>6. new = [row EXCEPT !.members["students"][inp[r].user] = n]
      BY <2>2, <3>1, <3>2, <3>4
    <3> QED BY <3>5, <3>6
  <2>4. SaveRow(crow[r].id, new)
    BY <1>4, <2>1, <2>2 DEF InsertInCourse
  <2>5. courses' \in [CourseIds -> Rows \cup {None}]
    <3>1. new \in Rows \cup {None} /\ (row # None => new # None)
      BY <2>2, <2>3, CoursesAssumption
    <3> QED BY <1>1, <2>1, <2>4, <3>1, SaveRowType DEF Typed
  <2>6. TablesTyped'
    BY <1>4, <2>5, TablesOf DEF InsertInCourse, TablesTyped
  <2>7. Go(r, "done") /\ "done" \in Labels /\ inp[r].kind \in KindsAt("done")
    BY <1>1, <1>4 DEF InsertInCourse, Labels, KindsAt, Kinds
  <2>8. pc'[r] = "done" /\ inp' = inp
    BY <1>4, <2>7, GoType DEF InsertInCourse, Typed, TypeOK
  <2>9. HoldsUser(r)' => HoldsUser(r)
    BY <2>8 DEF HoldsUser
  <2>10. HoldsHw(r)' => HoldsHw(r)
    BY <2>8 DEF HoldsHw
  <2> QED BY <1>1, <1>4, <2>6, <2>7, <2>9, <2>10, TypedWrite DEF InsertInCourse
<1> QED BY <1>3, <1>4

LEMMA TypedInsertHw ==
    ASSUME Typed, NEW r \in Reqs, InsertHw(r)
    PROVE  Typed'
<1>1. /\ pc[r] = "inserthw" /\ inp[r].kind = "hwcreate" /\ inp[r] \in Arguments
      /\ inp[r] # None /\ inp[r].course \in CourseIds
  BY InputFacts DEF InsertHw, At, Typed, KindsAt
<1>2. inp[r].problems \subseteq Problems
  BY <1>1 DEF Arguments
<1>3. [course |-> inp[r].course, problems |-> inp[r].problems, open |-> 1] \in HwRows
  BY <1>1, <1>2 DEF HwRows
<1>4. /\ pc' = [pc EXCEPT ![r] = "readcourse"] /\ pc' \in [Reqs -> Labels]
      /\ answer' \in [Reqs -> {"ok", "failed", None}] /\ pc'[r] = "readcourse"
      /\ "readcourse" \in Labels
  BY GoType DEF Labels, Typed, TypeOK, InsertHw
<1>5. states' \in [Reqs -> [create : SUBSET Problems, delete : SUBSET Problems]]
  BY <1>2 DEF InsertHw, Typed, TypeOK
<1>6. TypeOK'
  BY <1>3, <1>4, <1>5 DEF InsertHw, Typed, TypeOK, HwIds
<1>7. StageOK(r)'
  BY <1>1, <1>4 DEF InsertHw, Typed, StageOK, HoldsCourse, HoldsUser, HoldsHw, KindsAt
<1> QED BY <1>4, <1>6, <1>7, TypedStep DEF InsertHw

LEMMA TypedReadHw ==
    ASSUME Typed, NEW r \in Reqs, ReadHw(r)
    PROVE  Typed'
<1>1. PICK row : row = homeworks[inp[r].hw]
  OBVIOUS
<1>2. /\ pc[r] = "readhw" /\ inp[r].kind \in {"hwdelete", "hwupdate", "hwset"}
      /\ inp[r] \in Arguments /\ inp[r] # None /\ inp[r].hw \in HwIds
      /\ \A t \in todo[r] : t.op # "pull"
  BY InputFacts DEF ReadHw, Typed, KindsAt, StageOK
<1>a. row \in HwRows
  BY <1>1, <1>2 DEF ReadHw, Typed, TypeOK
<1>3. \E new \in HwRows, label \in {"savehw", "caller", "readcourse"},
         ss \in [create : SUBSET Problems, delete : SUBSET Problems] :
           /\ hrow' = [hrow EXCEPT ![r] = new] /\ states' = [states EXCEPT ![r] = ss]
           /\ Go(r, label)
           /\ inp[r].kind \in KindsAt(label)
           /\ label = "caller" => inp[r].kind = "hwupdate"
  <2>0. states[r] \in [create : SUBSET Problems, delete : SUBSET Problems]
        /\ states = [states EXCEPT ![r] = states[r]]
    BY DEF Typed, TypeOK
  <2>1. CASE UseForSet(r, row)
    <3>1. [row EXCEPT !.open = 1 - @] \in HwRows
      BY <1>a DEF HwRows
    <3> QED BY <2>0, <2>1, <3>1 DEF UseForSet, KindsAt
  <2>2. CASE UseForHwUpdate(r, row)
    <3>1. inp[r].problems \subseteq Problems /\ row.problems \subseteq Problems
      BY <1>2, <1>a DEF Arguments, HwRows
    <3>2. [row EXCEPT !.problems = inp[r].problems] \in HwRows
      BY <1>a, <3>1 DEF HwRows
    <3>3. [create |-> inp[r].problems \ row.problems, delete |-> row.problems \ inp[r].problems]
            \in [create : SUBSET Problems, delete : SUBSET Problems]
      BY <3>1
    <3> QED BY <2>2, <3>2, <3>3 DEF UseForHwUpdate, KindsAt, Kinds
  <2>3. CASE UseForHwDelete(r, row)
    BY <1>a, <2>0, <2>3 DEF UseForHwDelete, KindsAt
  <2> QED BY <1>1, <2>1, <2>2, <2>3 DEF ReadHw
<1>4. PICK new \in HwRows, label \in {"savehw", "caller", "readcourse"},
           ss \in [create : SUBSET Problems, delete : SUBSET Problems] :
           /\ hrow' = [hrow EXCEPT ![r] = new] /\ states' = [states EXCEPT ![r] = ss]
           /\ Go(r, label)
           /\ inp[r].kind \in KindsAt(label)
           /\ label = "caller" => inp[r].kind = "hwupdate"
  BY <1>3
<1>5. label \in Labels
  BY DEF Labels
<1>6. /\ pc' = [pc EXCEPT ![r] = label] /\ pc' \in [Reqs -> Labels]
      /\ answer' \in [Reqs -> {"ok", "failed", None}] /\ pc'[r] = label
  BY <1>4, <1>5, GoType DEF Typed, TypeOK
<1>7. TypeOK'
  BY <1>4, <1>6 DEF ReadHw, Typed, TypeOK, tables
<1>8. StageOK(r)'
  BY <1>2, <1>4, <1>6 DEF ReadHw, Typed, TypeOK, StageOK, HoldsCourse, HoldsUser, HoldsHw
<1> QED BY <1>4, <1>5, <1>6, <1>7, <1>8, TypedStep DEF ReadHw, Typed, TypeOK

(* The last write of a request.                                             *)
LEMMA TypedLast ==
    ASSUME Typed, NEW r \in Reqs, pc[r] # "new", Go(r, "done"), UNCHANGED <<inp, locals>>,
           TablesTyped'
    PROVE  Typed'
<1>1. "done" \in Labels /\ inp[r].kind \in KindsAt("done")
  BY InputFacts DEF Labels, KindsAt, Typed, Arguments
<1>2. pc'[r] = "done"
  BY <1>1, GoType DEF Typed, TypeOK
<1>3. ~HoldsUser(r)' /\ ~HoldsHw(r)' /\ ~HoldsCourse(r)'
  BY <1>2 DEF HoldsUser, HoldsHw, HoldsCourse
<1> QED BY <1>1, <1>3, TypedWrite

LEMMA TypedHwRow ==
    ASSUME Typed, NEW r \in Reqs, SaveHw(r) \/ DeleteHw(r)
    PROVE  Typed'
<1>1. pc[r] # "new" /\ Go(r, "done") /\ UNCHANGED <<inp, locals>>
  BY DEF SaveHw, DeleteHw, At
<1>2. homeworks' \in [HwIds -> HwRows \cup {None}]
  <2>1. CASE SaveHw(r)
    <3>1. hrow[r] \in HwRows
      BY <2>1 DEF SaveHw, Typed, StageOK, HoldsHw
    <3> QED BY <2>1, <3>1 DEF SaveHw, Typed, TypeOK
  <2>2. CASE DeleteHw(r)
    BY <2>2 DEF DeleteHw, Typed, TypeOK
  <2> QED BY <2>1, <2>2
<1>3. TablesTyped'
  BY <1>2, TablesOf DEF SaveHw, DeleteHw, TablesTyped
<1> QED BY <1>1, <1>3, TypedLast

LEMMA TypedState ==
    ASSUME Typed, NEW r \in Reqs, CreateState(r) \/ DeleteState(r)
    PROVE  Typed'
<1>1. /\ pc[r] = "states" /\ inp[r].kind \in {"hwcreate", "hwupdate"} /\ inp[r] # None
      /\ HwOf(r, inp[r]) \in HwIds
      /\ inp[r].kind = "hwupdate" => inp[r].hw \in HwIds
  BY InputFacts DEF CreateState, DeleteState, At, Typed, KindsAt, HwOf, HwIds
<1>2. states[r].create \subseteq Problems /\ states[r].delete \subseteq Problems
  BY DEF Typed, TypeOK
<1>3. judgestates' \in [HwIds -> [Problems -> Nat]]
  <2>1. CASE CreateState(r)
    BY <1>1, <1>2, <2>1 DEF CreateState, Typed, TypeOK
  <2>2. CASE DeleteState(r)
    BY <1>1, <1>2, <2>2 DEF DeleteState, At, Typed, TypeOK
  <2> QED BY <2>1, <2>2
<1>4. states' \in [Reqs -> [create : SUBSET Problems, delete : SUBSET Problems]]
  <2>1. \A S \in SUBSET Problems : /\ [states[r] EXCEPT !.create = S] \in
                                         [create : SUBSET Problems, delete : SUBSET Problems]
                                   /\ [states[r] EXCEPT !.delete = S] \in
                                         [create : SUBSET Problems, delete : SUBSET Problems]
    BY DEF Typed, TypeOK
  <2>2. PICK p : \/ states' = [states EXCEPT ![r].create = @ \ {p}]
                 \/ states' = [states EXCEPT ![r].delete = @ \ {p}]
    BY DEF CreateState, DeleteState
  <2>3. states[r].create \ {p} \subseteq Problems /\ states[r].delete \ {p} \subseteq Problems
    BY <1>2
  <2>4. \/ states' = [states EXCEPT ![r] = [states[r] EXCEPT !.create = states[r].create \ {p}]]
        \/ states' = [states EXCEPT ![r] = [states[r] EXCEPT !.delete = states[r].delete \ {p}]]
    BY <2>2 DEF Typed, TypeOK
  <2> QED BY <2>1, <2>3, <2>4 DEF Typed, TypeOK
<1>5. PICK label : label = StatesLoop(r, states'[r])
  OBVIOUS
<1>6. /\ label \in {"states", "savecourse", "savehw"} /\ label \in Labels
      /\ label = "savecourse" => inp[r].kind = "hwcreate"
      /\ label = "savehw" => inp[r].kind # "hwcreate"
  BY <1>5, StatesLabels
<1>7. /\ pc' = [pc EXCEPT ![r] = label] /\ pc' \in [Reqs -> Labels]
      /\ answer' \in [Reqs -> {"ok", "failed", None}] /\ pc'[r] = label
  <2>1. Go(r, label)
    BY <1>5 DEF CreateState, DeleteState
  <2> QED BY <1>6, <2>1, GoType DEF Typed, TypeOK
<1>8. TypeOK'
  BY <1>3, <1>4, <1>7 DEF CreateState, DeleteState, Typed, TypeOK
<1>9. inp[r].kind \in KindsAt(label)
  BY <1>1, <1>6 DEF KindsAt
<1>10. StageOK(r)'
  BY <1>1, <1>6, <1>7, <1>9
  DEF CreateState, DeleteState, Typed, StageOK, HoldsCourse, HoldsUser, HoldsHw
<1> QED BY <1>6, <1>7, <1>8, <1>10, TypedStep DEF CreateState, DeleteState

LEMMA TypedNotice ==
    ASSUME Typed, NEW r \in Reqs, InsertNotice(r) \/ FindNotice(r) \/ DeleteNotice(r)
    PROVE  Typed'
<1>1. CASE InsertNotice(r)
  <2>1. /\ inp[r].course \in CourseIds /\ inp[r] \in Arguments /\ inp[r].kind = "notice"
        /\ pc[r] = "insertnotice"
    BY <1>1, InputFacts DEF InsertNotice, At, Typed
  <2>2. NoticeRow(r) \in [course : CourseIds, text : Names]
    BY <2>1 DEF NoticeRow, Arguments
  <2>3. TablesTyped'
    BY <1>1, <2>2, TablesOf DEF InsertNotice, TablesTyped
  <2>4. "findnotice" \in Labels /\ inp[r].kind \in KindsAt("findnotice") /\ Go(r, "findnotice")
    BY <1>1, <2>1 DEF Labels, KindsAt, InsertNotice
  <2>5. pc'[r] = "findnotice"
    BY <2>4, GoType DEF Typed, TypeOK
  <2>6. HoldsCourse(r) /\ ~HoldsUser(r)' /\ ~HoldsHw(r)'
    BY <2>1, <2>5 DEF HoldsCourse, HoldsUser, HoldsHw
  <2> QED BY <1>1, <2>1, <2>3, <2>4, <2>6, TypedWrite DEF InsertNotice
<1>2. CASE FindNotice(r)
  <2>1. /\ inp[r].kind = "notice" /\ inp[r] # None /\ pc[r] = "findnotice" /\ crow[r] \in Held
        /\ crow[r].id = inp[r].course
    BY <1>2, InputFacts DEF FindNotice, At, Typed, StageOK, HoldsCourse
  <2>2. PICK n \in Reqs : crow' = [crow EXCEPT ![r].row.notices = @ \cup {n}]
    BY <1>2 DEF FindNotice, Like
  <2>3. PICK held : held = [crow[r] EXCEPT !.row.notices = @ \cup {n}]
    OBVIOUS
  <2>4. held \in Held /\ held.id = inp[r].course
    <3>1. crow[r].row \in Rows /\ crow[r].row.notices \cup {n} \subseteq Reqs
      BY <2>1 DEF Held, Rows
    <3>2. [crow[r].row EXCEPT !.notices = crow[r].row.notices \cup {n}] \in Rows
      BY <3>1, RowTypes
    <3>3. held = [crow[r] EXCEPT !.row = [crow[r].row EXCEPT !.notices = crow[r].row.notices \cup {n}]]
      BY <2>1, <2>3 DEF Held
    <3> QED BY <2>1, <3>2, <3>3 DEF Held
  <2>5. crow' = [crow EXCEPT ![r] = held]
    BY <2>2, <2>3 DEF Typed, TypeOK
  <2>6. "savecourse" \in Labels /\ inp[r].kind \in KindsAt("savecourse") /\ Go(r, "savecourse")
    BY <1>2, <2>1 DEF Labels, KindsAt, FindNotice
  <2>7. /\ pc' = [pc EXCEPT ![r] = "savecourse"] /\ pc' \in [Reqs -> Labels]
        /\ answer' \in [Reqs -> {"ok", "failed", None}] /\ pc'[r] = "savecourse"
    BY <2>6, GoType DEF Typed, TypeOK
  <2>8. TypeOK'
    BY <1>2, <2>4, <2>5, <2>7 DEF FindNotice, Typed, TypeOK, tables, Held
  <2>9. StageOK(r)'
    BY <1>2, <2>1, <2>4, <2>5, <2>6, <2>7
    DEF FindNotice, Typed, TypeOK, StageOK, HoldsCourse, HoldsUser, HoldsHw
  <2> QED BY <1>2, <2>5, <2>6, <2>7, <2>8, <2>9, TypedStep DEF FindNotice, Typed, TypeOK
<1>3. CASE DeleteNotice(r)
  <2>1. TablesTyped'
    BY <1>3, TablesOf DEF DeleteNotice, TablesTyped
  <2> QED BY <1>3, <2>1, TypedLast DEF DeleteNotice, At
<1> QED BY <1>1, <1>2, <1>3

LEMMA TypedNext == Typed /\ [Next]_vars => Typed'
<1> SUFFICES ASSUME Typed, [Next]_vars PROVE Typed'
  OBVIOUS
<1>1. ASSUME NEW r \in Reqs, NEW c \in Inputs, Arrive(r, c) PROVE Typed'
  BY <1>1, TypedArrive
<1>2. ASSUME NEW r \in Reqs, Serve(r) PROVE Typed'
  <2>1. CASE GivesUp(r)
    BY <2>1, TypedFail DEF GivesUp
  <2> QED BY <1>2, <2>1, TypedCaller, TypedInsertCourse, TypedFindCourse, TypedReadCourse,
             TypedSaveCourse, TypedRemoveCourse, TypedPull, TypedReadUser, TypedReadOwnRow,
             TypedSaveUser, TypedReadSpell, TypedEnrol, TypedInsertHw, TypedReadHw,
             TypedHwRow, TypedState, TypedNotice DEF Serve
<1>3. CASE UNCHANGED vars
  BY <1>3 DEF vars, tables, locals, Typed, TypeOK, StageOK, HoldsCourse, HoldsUser, HoldsHw
<1> QED BY <1>1, <1>2, <1>3 DEF Next, Rest

LEMMA TypedAlways == Spec => []Typed
<1>1. Typed /\ [Next]_vars => Typed'
  BY TypedNext
<1> QED BY TypedInit, <1>1, PTL DEF Spec

(* Every variable keeps its type, however the handlers of courses, members, *)
(* homeworks and notices overlap: no save of a stale row and no failure in  *)
(* the middle makes a count negative or a row of something else             *)
(* (course.py, homework.py, notice.py).                                     *)
THEOREM CourseTypes == Spec => []TypeOK
<1>1. Typed => TypeOK
  BY DEF Typed
<1> QED BY <1>1, TypedAlways, PTL
-----------------------------------------------------------------------------
(* Steps of requests.                                                       *)
IsHw(r) == inp[r] # None /\ inp[r].kind \in HwKinds

(* A step is of a request that is served, and leaves the others alone.      *)
Alone(r) ==
    /\ inp' = inp /\ Active(r) /\ pc'[r] # "new"
    /\ \A q \in Reqs : q # r =>
           /\ pc'[q] = pc[q] /\ crow'[q] = crow[q] /\ urow'[q] = urow[q]
           /\ hrow'[q] = hrow[q] /\ todo'[q] = todo[q] /\ states'[q] = states[q]
           /\ answer'[q] = answer[q]

LEMMA GoAlone ==
    ASSUME TypeOK, NEW r \in Reqs, NEW label, label # "new", Go(r, label)
    PROVE  pc'[r] # "new" /\ \A q \in Reqs : q # r => pc'[q] = pc[q] /\ answer'[q] = answer[q]
BY DEF Go, Finish, TypeOK

LEMMA ServedAlone ==
    ASSUME Typed, NEW r \in Reqs, Serve(r)
    PROVE  Alone(r)
<1> USE DEF Active
<1>0. TypeOK
  BY DEF Typed
<1>1. CASE Caller(r)
  <2>1. inp[r] # None /\ inp[r].kind \in Kinds \ {"add", "drop"} /\ pc[r] = "caller"
    BY <1>1, InputFacts DEF Caller, Typed, KindsAt
  <2>2. PICK label : label = IF inp[r].kind = "hwupdate" THEN StatesLoop(r, states[r])
                             ELSE AfterCaller(inp[r].kind)
    OBVIOUS
  <2>3. label # "new"
    BY <2>1, <2>2 DEF AfterCaller, StatesLoop, Kinds
  <2>4. Go(r, label)
    BY <1>1, <2>2 DEF Caller
  <2> QED BY <1>0, <1>1, <2>1, <2>3, <2>4, GoAlone DEF Caller, Alone, locals
<1>2. CASE GivesUp(r)
  BY <1>0, <1>2 DEF GivesUp, Fail, Finish, Alone, locals, TypeOK
<1>3. CASE InsertCourse(r) \/ InsertHw(r)
  BY <1>0, <1>3, GoAlone DEF InsertCourse, InsertHw, At, Alone, locals, TypeOK
<1>4. CASE FindCourse(r)
  <2>1. PICK label : label = Loop(r, todo'[r])
    OBVIOUS
  <2>2. label # "new"
    BY <2>1 DEF Loop
  <2>3. Go(r, label)
    BY <1>4, <2>1 DEF FindCourse
  <2> QED BY <1>0, <1>4, <2>2, <2>3, GoAlone DEF FindCourse, At, Alone, TypeOK
<1>5. CASE ReadCourse(r) \/ ReadSpell(r)
  <2>1. \E row, changes, label : label # "new" /\ Keep(r, row, changes, label)
    <3>1. "savecourse" # "new" /\ "done" # "new" /\ "caller" # "new" /\ "remove" # "new"
          /\ "insuser" # "new" /\ (\A left : Loop(r, left) # "new")
          /\ StatesLoop(r, states[r]) # "new"
      BY DEF Loop, StatesLoop
    <3> QED BY <1>5, <3>1 DEF ReadCourse, ReadSpell, UseForMember, UseForUpdate, UseForList
  <2>2. PICK row, changes, label : label # "new" /\ Keep(r, row, changes, label)
    BY <2>1
  <2> QED BY <1>0, <1>5, <2>2, GoAlone DEF ReadCourse, ReadSpell, At, Keep, Alone, TypeOK
<1>6. CASE SaveCourse(r)
  <2>1. PICK label : label = CASE inp[r].kind \in {"add", "drop"} -> "user"
                               [] inp[r].kind = "hwdelete" -> "deletehw"
                               [] OTHER -> "done"
    OBVIOUS
  <2>2. label # "new"
    BY <2>1
  <2>3. Go(r, label)
    BY <1>6, <2>1 DEF SaveCourse
  <2> QED BY <1>0, <1>6, <2>2, <2>3, GoAlone DEF SaveCourse, Alone, locals
<1>7. CASE RemoveCourse(r) \/ Pull(r)
  <2>1. Go(r, "done") \/ Go(r, "pull")
    BY <1>7 DEF RemoveCourse, Pull
  <2> QED BY <1>0, <1>7, <2>1, GoAlone DEF RemoveCourse, Pull, At, Alone, TypeOK
<1>8. CASE ReadUser(r)
  BY <1>0, <1>8, GoAlone DEF ReadUser, Fail, Finish, Alone, locals, TypeOK
<1>9. CASE ReadOwnRow(r)
  BY <1>0, <1>9, GoAlone DEF ReadOwnRow, At, Alone, TypeOK
<1>10. CASE SaveUser(r)
  <2>1. PICK label : label = Loop(r, todo[r])
    OBVIOUS
  <2>2. label # "new" /\ Go(r, label)
    BY <1>10, <2>1 DEF Loop, SaveUser
  <2> QED BY <1>0, <1>10, <2>2, GoAlone DEF SaveUser, Alone, locals
<1>11. CASE InsertInUser(r) \/ InsertInCourse(r) \/ SaveHw(r) \/ DeleteHw(r)
            \/ InsertNotice(r) \/ DeleteNotice(r)
  BY <1>0, <1>11, GoAlone
  DEF InsertInUser, InsertInCourse, SaveHw, DeleteHw, InsertNotice, DeleteNotice, At, Alone, locals
<1>12. CASE ReadHw(r)
  BY <1>0, <1>12, GoAlone DEF ReadHw, UseForSet, UseForHwUpdate, UseForHwDelete, Alone, TypeOK
<1>13. CASE CreateState(r) \/ DeleteState(r)
  <2>1. PICK label : label = StatesLoop(r, states'[r])
    OBVIOUS
  <2>2. label # "new" /\ Go(r, label)
    BY <1>13, <2>1 DEF StatesLoop, CreateState, DeleteState
  <2> QED BY <1>0, <1>13, <2>2, GoAlone DEF CreateState, DeleteState, At, Alone, TypeOK
<1>14. CASE FindNotice(r)
  BY <1>0, <1>14, GoAlone DEF FindNotice, At, Alone, TypeOK
<1> QED BY <1>1, <1>2, <1>3, <1>4, <1>5, <1>6, <1>7, <1>8, <1>9, <1>10, <1>11, <1>12, <1>13,
           <1>14 DEF Serve

(* What a step does to the course rows and to the one in memory.            *)
LEMMA CoursesStep ==
    ASSUME NEW r \in Reqs, Serve(r)
    PROVE  \/ courses' = courses
           \/ InsertCourse(r) \/ SaveCourse(r) \/ RemoveCourse(r) \/ InsertInCourse(r)
BY DEF Serve, Caller, GivesUp, Fail, FindCourse, ReadCourse, Pull, ReadUser, ReadOwnRow, SaveUser,
       ReadSpell, InsertInUser, InsertHw, ReadHw, SaveHw, DeleteHw, CreateState, DeleteState,
       InsertNotice, FindNotice, DeleteNotice, tables


(* What a handler reads of a course row it keeps in memory: everything that *)
(* is not its business stays as it was.                                     *)
Reads(r) == FindCourse(r) \/ ReadCourse(r) \/ ReadSpell(r)

LEMMA HeldStep ==
    ASSUME Typed, NEW r \in Reqs, Serve(r), HoldsCourse(r)', ~Reads(r)
    PROVE  /\ HoldsCourse(r)
           /\ ~FindNotice(r) => crow'[r] = crow[r]
           /\ FindNotice(r) => \E ns : /\ crow'[r].id = crow[r].id
                                       /\ crow'[r].row = [crow[r].row EXCEPT !.notices = ns]
<1>1. TypeOK /\ inp' = inp
  BY ServedAlone DEF Alone, Typed
<1>2. CASE Caller(r)
  <2>1. inp[r] # None /\ inp[r].kind \in Kinds \ {"add", "drop"} /\ pc[r] = "caller"
    BY <1>2, InputFacts DEF Caller, Typed, KindsAt
  <2>2. PICK label : label = IF inp[r].kind = "hwupdate" THEN StatesLoop(r, states[r])
                             ELSE AfterCaller(inp[r].kind)
    OBVIOUS
  <2>3. /\ label \in {"states", "savehw", "insert", "readcourse", "readspell", "saveuser", "inserthw",
                      "readhw", "insertnotice", "deletenotice"} /\ label \in Labels
        /\ label = "insertnotice" => inp[r].kind = "notice"
        /\ label = "states" => inp[r].kind = "hwupdate"
        /\ label = "saveuser" => inp[r].kind = "password"
    BY <2>1, <2>2 DEF AfterCaller, StatesLoop, Kinds, Labels
  <2>4. Go(r, label)
    BY <1>2, <2>2 DEF Caller
  <2>5. pc'[r] = label
    BY <1>1, <2>3, <2>4, GoType DEF TypeOK
  <2>6. pc'[r] = "insertnotice" /\ inp[r].kind = "notice"
    BY <1>1, <2>3, <2>5 DEF HoldsCourse
  <2> QED BY <1>2, <2>1, <2>6 DEF HoldsCourse, Caller, locals, FindNotice, At
<1>3. CASE GivesUp(r) \/ InsertCourse(r) \/ ReadOwnRow(r) \/ InsertHw(r) \/ SaveHw(r)
           \/ DeleteHw(r) \/ DeleteNotice(r)
  <2>1. \A label \in Labels : Go(r, label) => pc'[r] = label
    BY <1>1, GoType DEF TypeOK
  <2>2. pc'[r] \in {"done", "find", "readcourse"} \/ (pc'[r] = "caller" /\ inp'[r].kind = "password")
    BY <1>1, <1>3, <2>1 DEF GivesUp, InsertCourse, ReadOwnRow, InsertHw, SaveHw, DeleteHw, DeleteNotice,
       Fail, Finish, TypeOK, Labels, At
  <2> QED BY <2>2 DEF HoldsCourse
<1>4. CASE ReadHw(r)
  <2>1. \A label \in Labels : Go(r, label) => pc'[r] = label
    BY <1>1, GoType DEF TypeOK
  <2>2. pc'[r] \in {"savehw", "readcourse"} \/ (pc'[r] = "caller" /\ inp'[r].kind = "hwupdate")
    BY <1>1, <1>4, <2>1 DEF ReadHw, UseForSet, UseForHwUpdate, UseForHwDelete, Labels
  <2> QED BY <2>2 DEF HoldsCourse
<1>5. CASE SaveCourse(r) \/ RemoveCourse(r) \/ Pull(r) \/ ReadUser(r) \/ InsertInUser(r)
           \/ InsertInCourse(r) \/ InsertNotice(r)
  BY <1>5 DEF SaveCourse, RemoveCourse, Pull, ReadUser, InsertInUser, InsertInCourse, InsertNotice,
       At, Fail, locals, HoldsCourse, FindNotice
<1>6. CASE SaveUser(r)
  <2>1. PICK label : label = Loop(r, todo[r])
    OBVIOUS
  <2>2. Go(r, label) /\ label \in Labels
    BY <1>6, <2>1, LoopLabels DEF SaveUser
  <2>3. pc'[r] = label
    BY <1>1, <2>2, GoType DEF TypeOK
  <2>4. inp[r].kind # "password"
    BY <1>1, <2>1, <2>3, LoopLabels DEF HoldsCourse
  <2> QED BY <1>6, <2>4 DEF SaveUser, HoldsCourse, locals, FindNotice, At
<1>7. CASE CreateState(r) \/ DeleteState(r)
  <2>1. PICK label : label = StatesLoop(r, states'[r])
    OBVIOUS
  <2>2. Go(r, label) /\ label \in Labels
    BY <1>7, <2>1, StatesLabels DEF CreateState, DeleteState
  <2>3. pc'[r] = label
    BY <1>1, <2>2, GoType DEF TypeOK
  <2>4. inp[r].kind = "hwcreate"
    BY <1>1, <2>1, <2>3, StatesLabels DEF HoldsCourse
  <2> QED BY <1>7, <2>4 DEF CreateState, DeleteState, HoldsCourse, FindNotice, At
<1>8. CASE FindNotice(r)
  <2>1. HoldsCourse(r) /\ crow[r] \in Held /\ crow \in [Reqs -> [id : CourseIds, row : Rows] \cup {None}]
    BY <1>8 DEF FindNotice, At, HoldsCourse, Typed, StageOK, TypeOK
  <2>2. PICK n \in Reqs : crow' = [crow EXCEPT ![r].row.notices = @ \cup {n}]
    BY <1>8 DEF FindNotice, Like
  <2>3. /\ crow'[r].id = crow[r].id
        /\ crow'[r].row = [crow[r].row EXCEPT !.notices = crow[r].row.notices \cup {n}]
    BY <2>1, <2>2 DEF Held
  <2> QED BY <1>8, <2>1, <2>3
<1> QED BY <1>2, <1>3, <1>4, <1>5, <1>6, <1>7, <1>8 DEF Serve, Reads

-----------------------------------------------------------------------------
(* The history: what a request has read, and what it has overwritten.       *)
HistoryOK == /\ cread \in [Reqs -> Rows \cup {None}]
             /\ uread \in [Reqs -> UserRows \cup {None}]

LEMMA Served ==
    ASSUME NEW r \in Reqs, RServe(r)
    PROVE  Serve(r)
BY DEF RServe, RFindCourse, RGivesUp, RReadCourse, RSaveCourse, RReadUser, RSaveUser, RReadHw,
       ROther, Serve

LEMMA Steps == [RNext]_<<vars, history>> => [Next]_vars
<1>1. RNext => Next
  BY Served DEF RNext, RArrive, Next
<1> QED BY <1>1

(* A statement is watched by the part of the history that is about it.      *)
LEMMA Watched ==
    ASSUME NEW r \in Reqs, RServe(r)
    PROVE  /\ pc[r] = "find" => RFindCourse(r) \/ RGivesUp(r)
           /\ pc[r] \in {"readcourse", "readspell"} => RReadCourse(r) \/ RGivesUp(r)
           /\ pc[r] = "savecourse" => RSaveCourse(r)
           /\ pc[r] = "user" => RReadUser(r)
           /\ pc[r] = "saveuser" => RSaveUser(r)
           /\ pc[r] = "readhw" => RReadHw(r) \/ RGivesUp(r)
BY DEF RServe, RFindCourse, RGivesUp, RReadCourse, RSaveCourse, RReadUser, RSaveUser, RReadHw,
       ROther, FindCourse, GivesUp, ReadCourse, ReadSpell, SaveCourse, ReadUser, ReadOwnRow, SaveUser,
       ReadHw, Caller, InsertCourse, RemoveCourse, Pull, InsertInUser, InsertInCourse, InsertHw,
       SaveHw, DeleteHw, CreateState, DeleteState, InsertNotice, FindNotice, DeleteNotice, At

(* What was overwritten or crossed is not forgotten, and what another       *)
(* request has read stays.                                                  *)
LEMMA Remembered ==
    ASSUME Typed, HistoryOK, NEW r \in Reqs, RServe(r)
    PROVE  /\ lost \subseteq lost' /\ crossed \subseteq crossed' /\ twice \subseteq twice'
           /\ pc[r] # "readhw" => twice' = twice
           /\ \A q \in Reqs : q # r => cread'[q] = cread[q] /\ uread'[q] = uread[q]
           /\ cread' = cread \/ FindCourse(r) \/ ReadCourse(r) \/ ReadSpell(r)
           /\ uread' = uread \/ ReadUser(r) \/ ReadOwnRow(r)
BY DEF RServe, RFindCourse, RGivesUp, RReadCourse, RSaveCourse, RReadUser, RSaveUser, RReadHw,
       ROther, HistoryOK, history, ReadHw

LEMMA HistoryServe ==
    ASSUME Typed, HistoryOK, NEW r \in Reqs, RServe(r)
    PROVE  HistoryOK'
<1>1. CASE RFindCourse(r)
  <2>1. PICK k \in CourseIds : courses[k] # None /\ crow'[r].id = k
    <3>1. PICK k \in CourseIds :
             /\ courses[k] # None
             /\ crow' = [crow EXCEPT ![r] = [id |-> k, row |-> [courses[k] EXCEPT !.spell = TRUE]]]
      BY <1>1 DEF RFindCourse, FindCourse, Alike
    <3> QED BY <3>1 DEF Typed, TypeOK
  <2> QED BY <1>1, <2>1 DEF RFindCourse, HistoryOK, Typed, TypeOK
<1>2. CASE RReadCourse(r)
  <2>1. inp[r].course \in CourseIds
    BY <1>2, InputFacts DEF RReadCourse, ReadCourse, ReadSpell, At, Typed, KindsAt
  <2> QED BY <1>2, <2>1 DEF RReadCourse, HistoryOK, Typed, TypeOK
<1>3. CASE RReadUser(r)
  <2>1. pc'[r] = "done" \/ urow'[r].id \in Users
    <3>1. CASE ReadUser(r)
      <4>1. \A t \in todo[r] : t.user \in Users
        BY DEF Typed, TypeOK, Tasks
      <4>2. \/ Fail(r)
            \/ \E t \in todo[r] : urow' = [urow EXCEPT ![r] =
                   [id |-> t.user, row |-> Changed(users[t.user], t, crow[r].id)]]
        BY <3>1 DEF ReadUser, Foremost
      <4> QED BY <4>1, <4>2 DEF Fail, Finish, Typed, TypeOK
    <3>2. CASE ReadOwnRow(r)
      <4>1. inp[r].user \in Users
        BY <3>2, InputFacts DEF ReadOwnRow, At, Typed
      <4> QED BY <3>2, <4>1 DEF ReadOwnRow, Typed, TypeOK
    <3> QED BY <1>3, <3>1, <3>2 DEF RReadUser
  <2> QED BY <1>3, <2>1 DEF RReadUser, HistoryOK, Typed, TypeOK, Done
<1> QED BY <1>1, <1>2, <1>3
    DEF RServe, RGivesUp, RSaveCourse, RSaveUser, RReadHw, ROther, HistoryOK, history

-----------------------------------------------------------------------------
(* A course row in memory is the one that was read, but for what the        *)
(* handler is about.                                                        *)
KeepsRest(r, c, was, new) ==
    /\ c.kind = "hwcreate" => new.homeworks = was.homeworks \cup {r}
    /\ c.kind = "hwdelete" => new.homeworks = was.homeworks \ {c.hw}
    /\ c.kind \notin {"hwcreate", "hwdelete"} => new.homeworks = was.homeworks
    /\ \A s \in Sides, u \in Users :
           \/ new.members[s][u] = was.members[s][u]
           \/ c.kind \in {"add", "drop", "update"} /\ u \in UsersOf(c)

CopyOK(r) == HoldsCourse(r) => cread[r] \in Rows /\ KeepsRest(r, inp[r], cread[r], crow[r].row)

LEMMA ReadStep ==
    ASSUME Typed, NEW r \in Reqs, ReadCourse(r) \/ ReadSpell(r)
    PROVE  /\ inp[r].course \in CourseIds /\ courses[inp[r].course] \in Rows
           /\ crow'[r].id = inp[r].course
           /\ KeepsRest(r, inp[r], courses[inp[r].course], crow'[r].row)
<1>1. PICK row : row = courses[inp[r].course]
  OBVIOUS
<1>2. /\ inp[r].course \in CourseIds /\ row \in Rows
      /\ inp[r].kind \in {"add", "drop", "enrol"} => inp[r].user \in Users
      /\ inp[r].kind \in {"add", "drop"} => inp[r].side \in Sides
  <2>1. /\ pc[r] \in {"readcourse", "readspell"} /\ row # None
        /\ inp[r].kind \in KindsAt(pc[r]) /\ inp[r].kind \notin {"create", "password", "unnotice"}
    BY <1>1, InputFacts DEF ReadCourse, ReadSpell, HasSpell, At, Typed, KindsAt
  <2> QED BY <1>1, <2>1, InputFacts DEF Typed, TypeOK
<1>3. \E new, ts, label : Keep(r, new, ts, label) /\ KeepsRest(r, inp[r], row, new)
  <2>0. inp[r].kind \notin {"hwcreate", "hwdelete"} => KeepsRest(r, inp[r], row, row)
    BY DEF KeepsRest
  <2>1. CASE ReadSpell(r)
    BY <1>1, <2>0, <2>1 DEF ReadSpell, At
  <2>2. CASE UseForMember(r, row)
    <3>1. inp[r].kind \in {"add", "drop"}
      BY <2>2 DEF UseForMember
    <3>2. ASSUME NEW n
          PROVE  KeepsRest(r, inp[r], row, [row EXCEPT !.members[inp[r].side][inp[r].user] = n])
      <4>1. UsersOf(inp[r]) = {inp[r].user}
        BY <3>1 DEF UsersOf
      <4>2. \A s \in Sides, u \in Users : u # inp[r].user =>
               [row EXCEPT !.members[inp[r].side][inp[r].user] = n].members[s][u] = row.members[s][u]
        BY <1>2, <3>1 DEF Rows
      <4>3. [row EXCEPT !.members[inp[r].side][inp[r].user] = n].homeworks = row.homeworks
        BY <1>2 DEF Rows
      <4> QED BY <3>1, <4>1, <4>2, <4>3 DEF KeepsRest
    <3> QED BY <2>0, <2>2, <3>1, <3>2 DEF UseForMember
  <2>3. CASE UseForUpdate(r, row)
    <3>1. inp[r].kind = "update"
      BY <2>3 DEF UseForUpdate
    <3>2. ASSUME NEW ms, NEW st
          PROVE  KeepsRest(r, inp[r], row, [row EXCEPT !.members = ms, !.status = st])
      <4>1. UsersOf(inp[r]) = Users
        BY <3>1 DEF UsersOf
      <4>2. [row EXCEPT !.members = ms, !.status = st].homeworks = row.homeworks
        BY <1>2 DEF Rows
      <4> QED BY <3>1, <4>1, <4>2 DEF KeepsRest
    <3> QED BY <2>3, <3>2 DEF UseForUpdate
  <2>4. CASE UseForList(r, row)
    <3>1. /\ inp[r].kind = "hwcreate" => KeepsRest(r, inp[r], row, [row EXCEPT !.homeworks = @ \cup {r}])
          /\ inp[r].kind = "hwdelete" =>
                 KeepsRest(r, inp[r], row, [row EXCEPT !.homeworks = @ \ {inp[r].hw}])
      BY <1>2 DEF Rows, KeepsRest
    <3> QED BY <2>0, <2>4, <3>1 DEF UseForList
  <2>5. CASE inp[r].kind = "delete" /\ Keep(r, row, {}, "remove")
    BY <2>0, <2>5
  <2> QED BY <1>1, <2>1, <2>2, <2>3, <2>4, <2>5 DEF ReadCourse
<1>4. PICK new, ts, label : Keep(r, new, ts, label) /\ KeepsRest(r, inp[r], row, new)
  BY <1>3
<1>5. crow'[r] = [id |-> inp[r].course, row |-> new]
  BY <1>4 DEF Keep, Typed, TypeOK
<1> QED BY <1>1, <1>2, <1>4, <1>5

LEMMA FindStep ==
    ASSUME Typed, NEW r \in Reqs, FindCourse(r)
    PROVE  /\ inp[r].kind = "create"
           /\ \E k \in Alike(r) : /\ k \in CourseIds /\ courses[k] \in Rows
                                  /\ crow'[r] = [id |-> k, row |-> [courses[k] EXCEPT !.spell = TRUE]]
                                  /\ KeepsRest(r, inp[r], courses[k], crow'[r].row)
<1>1. inp[r].kind = "create"
  BY DEF FindCourse, At
<1>2. PICK k \in Alike(r) :
         crow' = [crow EXCEPT ![r] = [id |-> k, row |-> [courses[k] EXCEPT !.spell = TRUE]]]
  BY DEF FindCourse
<1>3. k \in CourseIds /\ courses[k] \in Rows
  BY DEF Alike, Typed, TypeOK
<1>4. crow'[r] = [id |-> k, row |-> [courses[k] EXCEPT !.spell = TRUE]]
  BY <1>2 DEF Typed, TypeOK
<1>5. /\ [courses[k] EXCEPT !.spell = TRUE].homeworks = courses[k].homeworks
      /\ [courses[k] EXCEPT !.spell = TRUE].members = courses[k].members
  BY <1>3 DEF Rows
<1>6. KeepsRest(r, inp[r], courses[k], crow'[r].row)
  <2>1. crow'[r].row = [courses[k] EXCEPT !.spell = TRUE]
    BY <1>4
  <2>2. PICK row : row = crow'[r].row
    OBVIOUS
  <2>3. row.homeworks = courses[k].homeworks /\ row.members = courses[k].members
    BY <1>5, <2>1, <2>2
  <2> QED BY <1>1, <2>2, <2>3 DEF KeepsRest
<1> QED BY <1>1, <1>3, <1>4, <1>6

LEMMA CopyServe ==
    ASSUME Typed, HistoryOK, \A q \in Reqs : CopyOK(q), NEW r \in Reqs, RServe(r), NEW q \in Reqs
    PROVE  CopyOK(q)'
<1>1. Serve(r) /\ Alone(r)
  BY Served, ServedAlone
<1>3. CASE q # r
  <2>1. /\ pc'[q] = pc[q] /\ inp'[q] = inp[q] /\ crow'[q] = crow[q] /\ cread'[q] = cread[q]
    BY <1>1, <1>3, Remembered DEF Alone
  <2>2. HoldsCourse(q)' <=> HoldsCourse(q)
    BY <2>1 DEF HoldsCourse
  <2> QED BY <1>1, <2>1, <2>2 DEF CopyOK, Alone
<1>4. CASE q = r /\ (ReadCourse(r) \/ ReadSpell(r))
  <2>1. RReadCourse(r)
    <3>1. pc[r] \in {"readcourse", "readspell"} /\ ~GivesUp(r)
      BY <1>4 DEF ReadCourse, ReadSpell, GivesUp, At, HasSpell, Useless, UseForMember, UseForUpdate,
                  UseForList
    <3> QED BY <3>1, Watched DEF RGivesUp
  <2>2. cread'[r] = courses[inp[r].course]
    BY <2>1 DEF RReadCourse, HistoryOK
  <2> QED BY <1>1, <1>4, <2>2, ReadStep DEF CopyOK, Alone
<1>5. CASE q = r /\ FindCourse(r)
  <2>1. RFindCourse(r)
    <3>1. pc[r] = "find" /\ Alike(r) # {}
      BY <1>5 DEF FindCourse, At
    <3>2. ~RGivesUp(r)
      BY <3>1 DEF RGivesUp, GivesUp
    <3> QED BY <3>1, <3>2, Watched
  <2>2. cread'[r] = courses[crow'[r].id]
    BY <2>1 DEF RFindCourse, HistoryOK
  <2>3. PICK k \in Alike(r) : /\ k \in CourseIds /\ courses[k] \in Rows
                              /\ crow'[r] = [id |-> k, row |-> [courses[k] EXCEPT !.spell = TRUE]]
                              /\ KeepsRest(r, inp[r], courses[k], crow'[r].row)
    BY <1>5, FindStep, Zenon
  <2>4. crow'[r].id = k
    BY <2>3
  <2> QED BY <1>1, <1>5, <2>2, <2>3, <2>4 DEF CopyOK, Alone
<1>6. CASE q = r /\ ~Reads(r)
  <2> SUFFICES ASSUME HoldsCourse(r)' PROVE CopyOK(r)'
    BY <1>6 DEF CopyOK
  <2>1. /\ HoldsCourse(r) /\ crow[r] \in Held
        /\ ~FindNotice(r) => crow'[r] = crow[r]
        /\ FindNotice(r) => \E ns : /\ crow'[r].id = crow[r].id
                                    /\ crow'[r].row = [crow[r].row EXCEPT !.notices = ns]
    BY <1>1, <1>6, HeldStep DEF Typed, StageOK
  <2>2. /\ crow'[r].row.homeworks = crow[r].row.homeworks
        /\ crow'[r].row.members = crow[r].row.members
    BY <2>1 DEF Held, Rows
  <2>3. cread' = cread
    BY <1>6, Remembered DEF Reads
  <2>4. KeepsRest(r, inp[r], cread[r], crow'[r].row)
    BY <2>1, <2>2 DEF CopyOK, KeepsRest
  <2> QED BY <1>1, <1>6, <2>1, <2>3, <2>4 DEF CopyOK, Alone
<1> QED BY <1>3, <1>4, <1>5, <1>6 DEF Reads
-----------------------------------------------------------------------------
(* The statements of the handlers of homeworks.                             *)
LEMMA HwPlaces ==
    ASSUME Typed, NEW r \in Reqs, IsHw(r)
    PROVE  /\ HwOf(r, inp[r]) \in HwIds /\ inp[r].course \in CourseIds
           /\ inp[r].kind = "hwcreate" =>
                  pc[r] \in {"caller", "inserthw", "readcourse", "states", "savecourse", "done"}
           /\ inp[r].kind = "hwdelete" =>
                  pc[r] \in {"caller", "readhw", "readcourse", "savecourse", "deletehw", "done"}
           /\ inp[r].kind = "hwupdate" => pc[r] \in {"readhw", "caller", "states", "savehw", "done"}
           /\ inp[r].kind = "hwset" => pc[r] \in {"caller", "readhw", "savehw", "done"}
<1>1. /\ pc[r] # "new" /\ pc[r] \in Labels /\ inp[r].kind \in KindsAt(pc[r])
      /\ inp[r].kind \in HwKinds
  BY DEF IsHw, Typed, TypeOK, StageOK
<1>2. HwOf(r, inp[r]) \in HwIds /\ inp[r].course \in CourseIds
  BY <1>1, InputFacts DEF Typed, HwOf, HwIds, HwKinds
<1> QED BY <1>1, <1>2 DEF HwKinds, KindsAt, Labels

LEMMA HwActs ==
    ASSUME Typed, NEW r \in Reqs, Serve(r), IsHw(r)
    PROVE  \/ GivesUp(r) \/ Caller(r) \/ InsertHw(r) \/ ReadHw(r) \/ SaveHw(r) \/ DeleteHw(r)
           \/ CreateState(r) \/ DeleteState(r) \/ ReadCourse(r) \/ SaveCourse(r)
<1>1. inp[r].kind \in HwKinds /\ pc[r] \notin {"user", "saveuser"}
  BY HwPlaces DEF IsHw, HwKinds
<1> QED BY <1>1 DEF HwKinds, Serve, InsertCourse, FindCourse, RemoveCourse, Pull, ReadUser, ReadOwnRow,
          SaveUser, ReadSpell, InsertInUser, InsertInCourse, InsertNotice, FindNotice,
          DeleteNotice, At

(* A step that is not of such a handler leaves homeworks alone, and what    *)
(* such a handler has left to do.                                           *)
LEMMA NotHw ==
    ASSUME Typed, NEW r \in Reqs, Serve(r), ~IsHw(r)
    PROVE  homeworks' = homeworks /\ judgestates' = judgestates
<1>1. inp[r] # None /\ inp[r].kind \in KindsAt(pc[r]) /\ inp[r].kind \notin HwKinds
  BY ServedAlone, InputFacts DEF Alone, Active, Typed, IsHw
<1>2. pc[r] \notin {"inserthw", "savehw", "deletehw", "states"}
  BY <1>1 DEF KindsAt, HwKinds
<1> QED BY <1>2 DEF Serve, Caller, GivesUp, Fail, InsertCourse, FindCourse, ReadCourse, SaveCourse,
          RemoveCourse, Pull, ReadUser, ReadOwnRow, SaveUser, ReadSpell, InsertInUser,
          InsertInCourse, InsertHw, ReadHw, SaveHw, DeleteHw, CreateState, DeleteState,
          InsertNotice, FindNotice, DeleteNotice, At, tables

LEMMA OwnHw ==
    ASSUME Typed, NEW r \in Reqs, Serve(r), NEW h \in HwIds, ~IsHw(r) \/ h # HwOf(r, inp[r])
    PROVE  homeworks'[h] = homeworks[h] /\ judgestates'[h] = judgestates[h]
<1>1. CASE ~IsHw(r)
  BY <1>1, NotHw
<1>2. CASE IsHw(r)
  <2>1. h # HwOf(r, inp[r])
    BY <1>2
  <2>2. inp[r].kind \in HwKinds
    BY <1>2 DEF IsHw
  <2> QED BY <1>2, <2>1, <2>2, HwActs, HwPlaces
      DEF GivesUp, Fail, Caller, InsertHw, ReadHw, SaveHw, DeleteHw, CreateState, DeleteState,
          ReadCourse, SaveCourse, At, tables, HwOf, Typed, TypeOK, HwKinds
<1> QED BY <1>1, <1>2

LEMMA HwMoves ==
    ASSUME Typed, NEW r \in Reqs, Serve(r), IsHw(r)
    PROVE  /\ GivesUp(r) \/ SaveHw(r) \/ DeleteHw(r) => pc'[r] = "done"
           /\ Caller(r) => /\ inp[r].kind = "hwcreate" => pc'[r] = "inserthw"
                           /\ inp[r].kind \in {"hwdelete", "hwset"} => pc'[r] = "readhw"
                           /\ inp[r].kind = "hwupdate" => pc'[r] = StatesLoop(r, states[r])
           /\ InsertHw(r) => pc'[r] = "readcourse"
           /\ ReadHw(r) => /\ inp[r].kind = "hwset" => pc'[r] = "savehw"
                           /\ inp[r].kind = "hwupdate" => pc'[r] = "caller"
                           /\ inp[r].kind = "hwdelete" => pc'[r] = "readcourse"
           /\ CreateState(r) \/ DeleteState(r) => pc'[r] = StatesLoop(r, states'[r])
           /\ ReadCourse(r) => /\ inp[r].kind = "hwcreate" => pc'[r] = StatesLoop(r, states[r])
                               /\ inp[r].kind = "hwdelete" => pc'[r] = "savecourse"
                               /\ inp[r].kind \in {"hwcreate", "hwdelete"}
           /\ SaveCourse(r) => /\ inp[r].kind = "hwcreate" => pc'[r] = "done"
                               /\ inp[r].kind = "hwdelete" => pc'[r] = "deletehw"
                               /\ inp[r].kind \in {"hwcreate", "hwdelete"}
<1>1. TypeOK /\ inp[r].kind \in HwKinds
  BY DEF Typed, IsHw
<1>2. \A label \in Labels : Go(r, label) => pc'[r] = label
  BY <1>1, GoType DEF TypeOK
<1>3. GivesUp(r) \/ SaveHw(r) \/ DeleteHw(r) => pc'[r] = "done"
  BY <1>1, <1>2 DEF GivesUp, Fail, Finish, SaveHw, DeleteHw, Labels, TypeOK
<1>4. Caller(r) => /\ inp[r].kind = "hwcreate" => pc'[r] = "inserthw"
                   /\ inp[r].kind \in {"hwdelete", "hwset"} => pc'[r] = "readhw"
                   /\ inp[r].kind = "hwupdate" => pc'[r] = StatesLoop(r, states[r])
  <2>1. AfterCaller("hwcreate") = "inserthw" /\ AfterCaller("hwdelete") = "readhw"
        /\ AfterCaller("hwset") = "readhw" /\ "inserthw" \in Labels /\ "readhw" \in Labels
    BY DEF AfterCaller, Labels
  <2> QED BY <1>2, <2>1, StatesLabels DEF Caller
<1>5. /\ InsertHw(r) => pc'[r] = "readcourse"
      /\ ReadHw(r) => /\ inp[r].kind = "hwset" => pc'[r] = "savehw"
                      /\ inp[r].kind = "hwupdate" => pc'[r] = "caller"
                      /\ inp[r].kind = "hwdelete" => pc'[r] = "readcourse"
  BY <1>2 DEF InsertHw, ReadHw, UseForSet, UseForHwUpdate, UseForHwDelete, Labels
<1>6. CreateState(r) \/ DeleteState(r) => pc'[r] = StatesLoop(r, states'[r])
  BY <1>2, StatesLabels DEF CreateState, DeleteState
<1>7. ReadCourse(r) => /\ inp[r].kind = "hwcreate" => pc'[r] = StatesLoop(r, states[r])
                       /\ inp[r].kind = "hwdelete" => pc'[r] = "savecourse"
                       /\ inp[r].kind \in {"hwcreate", "hwdelete"}
  <2>1. pc[r] = "readcourse" => inp[r].kind \in {"hwcreate", "hwdelete"}
    BY <1>1, HwPlaces DEF HwKinds
  <2>2. "savecourse" \in Labels
    BY DEF Labels
  <2> QED BY <1>2, <2>1, <2>2, StatesLabels
      DEF ReadCourse, UseForMember, UseForUpdate, UseForList, Keep
<1>8. SaveCourse(r) => /\ inp[r].kind = "hwcreate" => pc'[r] = "done"
                       /\ inp[r].kind = "hwdelete" => pc'[r] = "deletehw"
                       /\ inp[r].kind \in {"hwcreate", "hwdelete"}
  <2>1. pc[r] = "savecourse" => inp[r].kind \in {"hwcreate", "hwdelete"}
    BY <1>1, HwPlaces DEF HwKinds
  <2> QED BY <1>2, <2>1 DEF SaveCourse, Labels
<1> QED BY <1>3, <1>4, <1>5, <1>6, <1>7, <1>8

-----------------------------------------------------------------------------
(* Lists of homeworks.                                                      *)
Creator(h) == h \in Reqs /\ inp[h] # None /\ inp[h].kind = "hwcreate"
Home(h) == IF h = OldHw THEN OldCourse ELSE inp[h].course

(* A request that has not inserted its homework, one that is making it, and *)
(* a homework that was made to the end.                                     *)
Unmade(r) == inp[r] = None \/ inp[r].kind # "hwcreate" \/ pc[r] \in {"new", "caller", "inserthw"}
InMaking(h) == Creator(h) /\ pc[h] \in {"readcourse", "states", "savecourse"}
Made(h) == h = OldHw \/ (Creator(h) /\ pc[h] = "done" /\ answer[h] = "ok")

Deletes(q) == IsHw(q) /\ inp[q].kind = "hwdelete"
Deleting(h) == \E q \in Reqs : Deletes(q) /\ pc[q] = "deletehw" /\ inp[q].hw = h

(* Requests about one homework are about one course, which is there.        *)
SameCourse ==
    /\ \A r \in Reqs : IsHw(r) /\ HwOf(r, inp[r]) = OldHw => inp[r].course = OldCourse
    /\ \A r, q \in Reqs : IsHw(r) /\ IsHw(q) /\ HwOf(r, inp[r]) = HwOf(q, inp[q]) =>
           inp[r].course = inp[q].course
    /\ \A r \in Reqs : Creator(r) => Inserted(inp[r].course)

HwRowsOK ==
    /\ \A h \in HwIds : homeworks[h] # None =>
           homeworks[h].course = Home(h) /\ (h = OldHw \/ ~Unmade(h))
    /\ \A q \in Reqs : HoldsHw(q) => /\ hrow[q].course = inp[q].course
                                     /\ \A h \in HwIds : h = inp[q].hw =>
                                            h = OldHw \/ ~Unmade(h)
    /\ \A r \in Reqs : Unmade(r) => judgestates[r] = Listed({}, Problems)
    /\ \A r \in Reqs : InMaking(r) => homeworks[r] # None

(* A list, in the table or in memory, holds what was made for its course.   *)
Past ==
    /\ \A k \in CourseIds : courses[k] # None =>
           \A h \in courses[k].homeworks : Made(h) /\ Home(h) = k
    /\ \A q \in Reqs : HoldsCourse(q) => \A h \in crow[q].row.homeworks :
           (Made(h) \/ (h = q /\ InMaking(q))) /\ Home(h) = crow[q].id
    /\ \A q \in Reqs : Deletes(q) /\ pc[q] \in {"savecourse", "deletehw"} => Made(inp[q].hw)

(* The list of a course that was never overwritten.                         *)
ListOK(k) ==
    courses[k] # None /\ <<"courses", k>> \notin lost => \A h \in HwIds :
        /\ h \in courses[k].homeworks => homeworks[h] # None /\ ~Deleting(h)
        /\ h \notin courses[k].homeworks /\ homeworks[h] # None /\ Home(h) = k =>
               Deleting(h) \/ InMaking(h)

ListsInv == /\ SameCourse /\ HwRowsOK /\ Past
            /\ \A k \in CourseIds : ListOK(k)

(* A created course has its row for good: no step leads back.               *)
LEMMA NoWayBack ==
    ASSUME Typed, NEW r \in Reqs, Serve(r), inp[r].kind = "create",
           pc[r] \notin {"caller", "insert"}
    PROVE  pc'[r] \notin {"new", "caller", "insert"}
<1>1. pc[r] \in {"find", "user", "saveuser", "savecourse"}
  <2>1. inp[r] # None /\ pc[r] \in Labels /\ inp[r].kind \in KindsAt(pc[r]) /\ Active(r)
    BY ServedAlone, InputFacts DEF Alone, Active, Typed, TypeOK
  <2> QED BY <2>1 DEF KindsAt, Labels, Active
<1>2. TypeOK
  BY DEF Typed
<1>3. \/ FindCourse(r) \/ SaveCourse(r) \/ ReadUser(r) \/ SaveUser(r) \/ GivesUp(r)
  BY <1>1 DEF Serve, Caller, InsertCourse, ReadCourse, RemoveCourse, Pull, ReadOwnRow,
       ReadSpell, InsertInUser, InsertInCourse, InsertHw, ReadHw, SaveHw, DeleteHw, CreateState,
       DeleteState, InsertNotice, FindNotice, DeleteNotice, At
<1>4. \A label : Go(r, label) /\ label \notin {"new", "caller", "insert"} =>
         pc'[r] \notin {"new", "caller", "insert"}
  BY <1>2 DEF Go, Finish, TypeOK
<1>5. \A left : Loop(r, left) \notin {"new", "caller", "insert"}
  BY DEF Loop
<1> QED BY <1>2, <1>3, <1>4, <1>5
    DEF FindCourse, SaveCourse, ReadUser, SaveUser, GivesUp, Fail, Finish, TypeOK

LEMMA UnmadeStep ==
    ASSUME Typed, NEW r \in Reqs, Serve(r), IsHw(r)
    PROVE  /\ Unmade(r)' => Unmade(r) /\ ~InsertHw(r)
           /\ Unmade(r) /\ ~Unmade(r)' => InsertHw(r) \/ (GivesUp(r) /\ pc[r] = "caller")
<1>1. inp' = inp /\ inp[r] # None
  BY ServedAlone DEF Alone, IsHw
<1>2. CASE inp[r].kind # "hwcreate"
  BY <1>1, <1>2 DEF Unmade, InsertHw, At
<1>3. CASE inp[r].kind = "hwcreate"
  <2>1. /\ GivesUp(r) => pc[r] \in {"caller", "readcourse"} /\ pc'[r] = "done"
        /\ Caller(r) => pc[r] = "caller" /\ pc'[r] = "inserthw"
        /\ InsertHw(r) => pc[r] = "inserthw" /\ pc'[r] = "readcourse"
        /\ ReadCourse(r) => pc[r] = "readcourse" /\ pc'[r] \in {"states", "savecourse"}
        /\ CreateState(r) => pc[r] = "states" /\ pc'[r] \in {"states", "savecourse"}
        /\ SaveCourse(r) => pc[r] = "savecourse" /\ pc'[r] = "done"
        /\ ~ReadHw(r) /\ ~SaveHw(r) /\ ~DeleteHw(r) /\ ~DeleteState(r)
    BY <1>3, HwMoves, HwPlaces, StatesLabels
    DEF GivesUp, Caller, InsertHw, ReadCourse, CreateState, SaveCourse, ReadHw, SaveHw,
        DeleteHw, DeleteState, At
  <2>2. /\ Unmade(r) <=> pc[r] \in {"new", "caller", "inserthw"}
        /\ Unmade(r)' <=> pc'[r] \in {"new", "caller", "inserthw"}
    BY <1>1, <1>3 DEF Unmade
  <2> QED BY <2>1, <2>2, HwActs
<1> QED BY <1>2, <1>3

(* A created homework is never uncreated.                                   *)
LEMMA StillMade ==
    ASSUME Typed, NEW r \in Reqs, Serve(r), NEW q \in Reqs, Unmade(q)'
    PROVE  Unmade(q)
<1>1. Alone(r)
  BY ServedAlone
<1>2. CASE q # r
  BY <1>1, <1>2 DEF Alone, Unmade
<1>3. CASE q = r /\ IsHw(r)
  BY <1>3, UnmadeStep
<1>4. CASE q = r /\ ~IsHw(r)
  BY <1>1, <1>4 DEF Alone, Unmade, IsHw, HwKinds
<1> QED BY <1>2, <1>3, <1>4


(* What a step does to a course row.                                        *)
Overwrites(r, k) == SaveCourse(r) /\ crow[r].id = k /\ courses[k] # None

LEMMA CourseChange ==
    ASSUME Typed, NEW r \in Reqs, RServe(r), NEW k \in CourseIds
    PROVE  \/ courses'[k] = courses[k] /\ ~Overwrites(r, k)
           \/ /\ InsertCourse(r) /\ k = r /\ ~Inserted(k)
              /\ courses'[k] = NewCourse(inp[r].name, inp[r].members)
           \/ /\ Overwrites(r, k) /\ courses'[k] = crow[r].row
              /\ courses[k] = cread[r] \/ <<"courses", k>> \in lost'
           \/ RemoveCourse(r) /\ k = inp[r].course /\ courses'[k] = None
           \/ /\ InsertInCourse(r) /\ crow[r].id = k /\ courses[k] # None
              /\ courses'[k] = [courses[k] EXCEPT !.members["students"][inp[r].user] = Once(@)]
<1>1. TypeOK /\ Serve(r)
  BY Served DEF Typed
<1>2. CASE InsertCourse(r)
  <2>1. courses'[k] = IF k = r THEN NewCourse(inp[r].name, inp[r].members) ELSE courses[k]
    BY <1>1, <1>2 DEF InsertCourse, TypeOK
  <2>2. ~Inserted(r) /\ ~SaveCourse(r)
    BY <1>2 DEF InsertCourse, At, Inserted, SaveCourse
  <2> QED BY <1>2, <2>1, <2>2 DEF Overwrites
<1>3. CASE SaveCourse(r)
  <2>1. courses'[k] = IF k = crow[r].id THEN IF courses[k] = None THEN None ELSE crow[r].row
                      ELSE courses[k]
    BY <1>1, <1>3 DEF SaveCourse, SaveRow, TypeOK
  <2>2. RSaveCourse(r)
    BY <1>3, Watched DEF SaveCourse
  <2>3. k = crow[r].id /\ courses[k] # None => courses[k] = cread[r] \/ <<"courses", k>> \in lost'
    BY <2>2 DEF RSaveCourse
  <2> QED BY <1>3, <2>1, <2>3 DEF Overwrites
<1>4. CASE RemoveCourse(r)
  <2>1. courses'[k] = IF k = inp[r].course THEN None ELSE courses[k]
    BY <1>1, <1>4 DEF RemoveCourse, TypeOK
  <2>2. ~SaveCourse(r)
    BY <1>4 DEF RemoveCourse, At, SaveCourse
  <2> QED BY <1>4, <2>1, <2>2 DEF Overwrites
<1>5. CASE InsertInCourse(r)
  <2>1. PICK row : row = courses[crow[r].id]
    OBVIOUS
  <2>2. PICK new : new = [row EXCEPT !.members["students"][inp[r].user] = Once(@)]
    OBVIOUS
  <2>3. courses' = [courses EXCEPT ![crow[r].id] = IF courses[crow[r].id] = None THEN None
                        ELSE IF row = None THEN None ELSE new]
    BY <1>5, <2>1, <2>2 DEF InsertInCourse, SaveRow
  <2>4. courses'[k] = IF k = crow[r].id THEN IF courses[k] = None THEN None ELSE new
                      ELSE courses[k]
    BY <1>1, <2>1, <2>3 DEF TypeOK
  <2>5. ~SaveCourse(r)
    BY <1>5 DEF InsertInCourse, At, SaveCourse
  <2> QED BY <1>5, <2>1, <2>2, <2>4, <2>5 DEF Overwrites
<1>6. CASE courses' = courses /\ ~SaveCourse(r)
  BY <1>6 DEF Overwrites
<1> QED BY <1>1, <1>2, <1>3, <1>4, <1>5, <1>6, CoursesStep

LEMMA InsertedStays ==
    ASSUME Typed, NEW r \in Reqs, Serve(r), NEW k \in CourseIds, Inserted(k)
    PROVE  Inserted(k)'
<1>1. Alone(r) /\ inp' = inp
  BY ServedAlone DEF Alone
<1>2. CASE k \in Reqs /\ inp[k].kind = "create"
  <2>1. inp[k] # None /\ pc[k] \notin {"caller", "insert"}
    BY <1>2 DEF Inserted
  <2>2. CASE k = r
    BY <1>1, <1>2, <2>1, <2>2, NoWayBack DEF Inserted, Alone, Active
  <2>3. CASE k # r
    BY <1>1, <1>2, <2>1, <2>3 DEF Inserted, Alone
  <2> QED BY <2>2, <2>3
<1> QED BY <1>1, <1>2 DEF Inserted

LEMMA MadeStays ==
    ASSUME Typed, NEW r \in Reqs, Serve(r), NEW h, Made(h)
    PROVE  Made(h)'
<1>1. Alone(r)
  BY ServedAlone
<1>2. Creator(h)' <=> Creator(h)
  BY <1>1 DEF Alone, Creator
<1>3. h # OldHw => h \in Reqs /\ h # r
  BY <1>1 DEF Made, Creator, Alone, Active
<1> QED BY <1>1, <1>2, <1>3 DEF Made, Alone

(* The course of a homework, as the requests about it name it.              *)
LEMMA HomeIs ==
    ASSUME SameCourse, NEW q \in Reqs, IsHw(q), NEW h, h = HwOf(q, inp[q]),
           h = OldHw \/ Creator(h)
    PROVE  Home(h) = inp[q].course
<1>1. CASE h = OldHw
  BY <1>1 DEF SameCourse, Home
<1>2. CASE h # OldHw
  <2>1. h \in Reqs /\ IsHw(h) /\ HwOf(h, inp[h]) = h
    BY <1>2 DEF Creator, IsHw, HwOf, HwKinds
  <2> QED BY <1>2, <2>1 DEF SameCourse, Home
<1> QED BY <1>1, <1>2

LEMMA NotUnmade ==
    ASSUME NEW h \in HwIds, h = OldHw \/ ~Unmade(h)
    PROVE  h = OldHw \/ Creator(h)
BY DEF Unmade, Creator, HwIds

LEMMA DeletingStep ==
    ASSUME Typed, NEW r \in Reqs, Serve(r), NEW h
    PROVE  /\ Deleting(h)' => Deleting(h) \/ (SaveCourse(r) /\ Deletes(r) /\ inp[r].hw = h)
           /\ Deleting(h) => Deleting(h)' \/ (DeleteHw(r) /\ Deletes(r) /\ inp[r].hw = h)
           /\ SaveCourse(r) /\ Deletes(r) /\ inp[r].hw = h => Deleting(h)'
<1>1. Alone(r) /\ inp' = inp
  BY ServedAlone DEF Alone
<1>2. \A q \in Reqs : Deletes(q)' <=> Deletes(q)
  BY <1>1 DEF Deletes, IsHw
<1>3. Deletes(r) /\ pc'[r] = "deletehw" => SaveCourse(r) \/ pc[r] = "deletehw"
  <2> SUFFICES ASSUME Deletes(r), pc'[r] = "deletehw", ~SaveCourse(r) PROVE FALSE
    OBVIOUS
  <2>1. IsHw(r) /\ inp[r].kind = "hwdelete"
    BY DEF Deletes
  <2> QED BY <2>1, HwActs, HwMoves, StatesLabels DEF InsertHw, CreateState, DeleteState, At
<1>4. Deletes(r) /\ pc[r] = "deletehw" => DeleteHw(r)
  <2> SUFFICES ASSUME Deletes(r), pc[r] = "deletehw" PROVE DeleteHw(r)
    OBVIOUS
  <2> QED BY HwActs DEF Deletes, GivesUp, Caller, InsertHw, ReadHw, SaveHw, CreateState, DeleteState,
          ReadCourse, SaveCourse, At
<1>5. SaveCourse(r) /\ Deletes(r) => pc'[r] = "deletehw"
  BY HwMoves DEF Deletes
<1> QED BY <1>1, <1>2, <1>3, <1>4, <1>5 DEF Deleting, Alone

LEMMA MakingStep ==
    ASSUME Typed, NEW r \in Reqs, Serve(r), NEW h
    PROVE  /\ InMaking(h) => \/ InMaking(h)' \/ (h = r /\ SaveCourse(r))
                             \/ h = r /\ GivesUp(r) /\ pc[r] = "readcourse"
           /\ InMaking(h)' => InMaking(h) \/ (h = r /\ InsertHw(r))
           /\ InsertHw(r) => InMaking(r)'
<1>1. Alone(r) /\ inp' = inp
  BY ServedAlone DEF Alone
<1>2. Creator(h)' <=> Creator(h)
  BY <1>1 DEF Creator
<1>3. CASE h = r /\ Creator(r)
  <2>1. IsHw(r) /\ inp[r].kind = "hwcreate"
    BY <1>3 DEF Creator, IsHw, HwKinds
  <2>2. /\ GivesUp(r) => pc[r] \in {"caller", "readcourse"} /\ pc'[r] = "done"
        /\ Caller(r) => pc[r] = "caller" /\ pc'[r] = "inserthw"
        /\ InsertHw(r) => pc[r] = "inserthw" /\ pc'[r] = "readcourse"
        /\ ReadCourse(r) => pc[r] = "readcourse" /\ pc'[r] \in {"states", "savecourse"}
        /\ CreateState(r) => pc[r] = "states" /\ pc'[r] \in {"states", "savecourse"}
        /\ SaveCourse(r) => pc[r] = "savecourse" /\ pc'[r] = "done"
        /\ ~ReadHw(r) /\ ~SaveHw(r) /\ ~DeleteHw(r) /\ ~DeleteState(r)
    BY <2>1, HwMoves, HwPlaces, StatesLabels
    DEF GivesUp, Caller, InsertHw, ReadCourse, CreateState, SaveCourse, ReadHw, SaveHw,
        DeleteHw, DeleteState, At
  <2> QED BY <1>1, <1>2, <1>3, <2>1, <2>2, HwActs DEF InMaking
<1>4. CASE h # r
  <2>1. InMaking(h)' <=> InMaking(h)
    BY <1>1, <1>2, <1>4 DEF InMaking, Creator, Alone
  <2>2. InsertHw(r) => InMaking(r)'
    <3> SUFFICES ASSUME InsertHw(r) PROVE InMaking(r)'
      OBVIOUS
    <3>1. IsHw(r) /\ Creator(r)
      BY <1>1, InputFacts DEF InsertHw, At, IsHw, HwKinds, Creator, Typed
    <3> QED BY <1>1, <3>1, HwMoves DEF InMaking, Creator
  <2> QED BY <1>4, <2>1, <2>2
<1>5. CASE h = r /\ ~Creator(r)
  <2>1. ~InsertHw(r)
    BY <1>5, InputFacts DEF InsertHw, At, Creator, Typed
  <2> QED BY <1>2, <1>5, <2>1 DEF InMaking
<1> QED BY <1>3, <1>4, <1>5

-----------------------------------------------------------------------------
(* A request that arrives has nothing in memory and changes no table.       *)
LEMMA Arrives ==
    ASSUME Typed, NEW r \in Reqs, NEW c \in Inputs, Arrive(r, c)
    PROVE  /\ pc[r] = "new" /\ inp[r] = None /\ c # None /\ c.kind \in Kinds
           /\ inp'[r] = c /\ pc'[r] = First(c) /\ tables' = tables /\ locals' = locals
           /\ pc'[r] \in {"readcourse", "user", "readhw", "caller"}
           /\ ~HoldsCourse(r)' /\ ~HoldsHw(r)' /\ ~HoldsUser(r)'
           /\ ~HoldsCourse(r) /\ ~HoldsHw(r) /\ ~HoldsUser(r)
           /\ c.kind = "hwcreate" => pc'[r] = "caller"
           /\ \A q \in Reqs : q # r => /\ inp'[q] = inp[q] /\ pc'[q] = pc[q] /\ answer'[q] = answer[q]
                                       /\ HoldsCourse(q)' = HoldsCourse(q)
                                       /\ HoldsHw(q)' = HoldsHw(q) /\ HoldsUser(q)' = HoldsUser(q)
<1>1. pc[r] = "new" /\ inp[r] = None
  BY DEF Typed, StageOK, Arrive
<1>2. c.kind \in Kinds /\ First(c) \in Labels /\ First(c) \notin {"new", "done"} /\ c # None
  BY CoursesAssumption DEF Arguments, Kinds, First, Labels
<1>3. /\ inp'[r] = c /\ pc'[r] = First(c) /\ tables' = tables /\ locals' = locals
      /\ \A q \in Reqs : q # r => inp'[q] = inp[q] /\ pc'[q] = pc[q] /\ answer'[q] = answer[q]
  <2>1. pc' = [pc EXCEPT ![r] = First(c)]
    BY <1>1, <1>2, GoType DEF Arrive, Typed
  <2>2. answer' = answer
    BY <1>2 DEF Arrive, Go
  <2> QED BY <1>1, <2>1, <2>2 DEF Arrive, Typed, TypeOK
<1>4. /\ pc'[r] \in {"readcourse", "user", "readhw", "caller"}
      /\ ~HoldsCourse(r)' /\ ~HoldsHw(r)' /\ ~HoldsUser(r)'
  <2>1. inp'[r].kind \in {"notice", "hwupdate", "password"} => pc'[r] \in {"readcourse", "readhw", "user"}
    BY <1>3 DEF First
  <2>2. pc'[r] = "user" => inp'[r].kind = "password"
    BY <1>2, <1>3 DEF First, Kinds
  <2>3. pc'[r] \in {"readcourse", "user", "readhw", "caller"}
    BY <1>3 DEF First
  <2> QED BY <2>1, <2>2, <2>3 DEF HoldsCourse, HoldsHw, HoldsUser
<1>5. \A q \in Reqs : q # r => /\ HoldsCourse(q)' = HoldsCourse(q)
                               /\ HoldsHw(q)' = HoldsHw(q) /\ HoldsUser(q)' = HoldsUser(q)
  BY <1>3 DEF HoldsCourse, HoldsHw, HoldsUser
<1>6. ~HoldsCourse(r) /\ ~HoldsHw(r) /\ ~HoldsUser(r)
  BY <1>1 DEF HoldsCourse, HoldsHw, HoldsUser
<1>7. c.kind = "hwcreate" => pc'[r] = "caller"
  BY <1>3 DEF First
<1> QED BY <1>1, <1>2, <1>3, <1>4, <1>5, <1>6, <1>7

(* What was made stays made, and nothing else starts to be listed.          *)
LEMMA ArriveNames ==
    ASSUME Typed, ListsInv, NEW r \in Reqs, NEW c \in Inputs, Arrive(r, c)
    PROVE  /\ Unmade(r) /\ Unmade(r)' /\ ~InMaking(r) /\ ~InMaking(r)' /\ ~Made(r) /\ ~Made(r)'
           /\ \A h \in HwIds : h # r => /\ Unmade(h)' = Unmade(h) /\ InMaking(h)' = InMaking(h)
                                        /\ Made(h)' = Made(h) /\ Home(h)' = Home(h)
           /\ \A q \in Reqs : q # r => IsHw(q)' = IsHw(q) /\ Deletes(q)' = Deletes(q)
           /\ \A h : Deleting(h)' <=> Deleting(h)
           /\ r # OldHw
<1>1. /\ pc[r] = "new" /\ inp[r] = None /\ r # OldHw
      /\ inp'[r] = c /\ pc'[r] \in {"readcourse", "user", "readhw", "caller"}
      /\ c.kind = "hwcreate" => pc'[r] = "caller"
      /\ \A q \in Reqs : q # r => inp'[q] = inp[q] /\ pc'[q] = pc[q] /\ answer'[q] = answer[q]
  BY Arrives, CoursesAssumption
<1>2. /\ Unmade(r) /\ Unmade(r)' /\ ~InMaking(r) /\ ~InMaking(r)' /\ ~Made(r) /\ ~Made(r)'
  BY <1>1 DEF Unmade, InMaking, Made, Creator
<1>3. \A h \in HwIds : h # r => /\ Unmade(h)' = Unmade(h) /\ InMaking(h)' = InMaking(h)
                                /\ Made(h)' = Made(h) /\ Home(h)' = Home(h)
  <2> SUFFICES ASSUME NEW h \in HwIds, h # r
               PROVE  /\ Unmade(h)' = Unmade(h) /\ InMaking(h)' = InMaking(h)
                      /\ Made(h)' = Made(h) /\ Home(h)' = Home(h)
    OBVIOUS
  <2>1. CASE h = OldHw
    <3>1. h \notin Reqs
      BY <2>1, CoursesAssumption
    <3>2. inp' = [inp EXCEPT ![r] = c] /\ pc' = [pc EXCEPT ![r] = First(c)]
      BY Arrives, GoType DEF Arrive, Typed, First, Labels
    <3>3. inp'[h] = inp[h] /\ pc'[h] = pc[h]
      BY <3>1, <3>2 DEF Typed, TypeOK
    <3> QED BY <2>1, <3>1, <3>3 DEF Unmade, InMaking, Made, Creator, Home
  <2>2. CASE h # OldHw
    <3>1. h \in Reqs
      BY <2>2 DEF HwIds
    <3> QED BY <1>1, <2>2, <3>1 DEF Unmade, InMaking, Made, Creator, Home
  <2> QED BY <2>1, <2>2
<1>4. \A q \in Reqs : q # r => IsHw(q)' = IsHw(q) /\ Deletes(q)' = Deletes(q)
  BY <1>1 DEF IsHw, Deletes
<1>5. \A h : Deleting(h)' <=> Deleting(h)
  BY <1>1, <1>4 DEF Deleting
<1> QED BY <1>1, <1>2, <1>3, <1>4, <1>5

LEMMA ListsArrive ==
    ASSUME Typed, ListsInv, NEW r \in Reqs, NEW c \in Inputs, Arrive(r, c), lost' = lost
    PROVE  ListsInv'
<1>0. /\ pc[r] = "new" /\ inp[r] = None /\ c # None /\ c.kind \in Kinds
      /\ inp'[r] = c /\ pc'[r] \in {"readcourse", "user", "readhw", "caller"}
      /\ UNCHANGED <<courses, users, homeworks, judgestates, crow, urow, hrow>>
      /\ ~HoldsCourse(r)' /\ ~HoldsHw(r)'
      /\ \A q \in Reqs : q # r => /\ inp'[q] = inp[q] /\ pc'[q] = pc[q]
                                  /\ HoldsCourse(q)' = HoldsCourse(q) /\ HoldsHw(q)' = HoldsHw(q)
  BY Arrives DEF tables, locals
<1>1. NamesCourse(r, c) /\ (c.kind = "hwcreate" => Inserted(c.course))
  BY DEF Arrive
<1>2. /\ Unmade(r) /\ Unmade(r)' /\ ~InMaking(r) /\ ~InMaking(r)' /\ ~Made(r) /\ ~Made(r)'
      /\ \A h \in HwIds : h # r => /\ Unmade(h)' = Unmade(h) /\ InMaking(h)' = InMaking(h)
                                   /\ Made(h)' = Made(h) /\ Home(h)' = Home(h)
      /\ \A q \in Reqs : q # r => IsHw(q)' = IsHw(q) /\ Deletes(q)' = Deletes(q)
      /\ \A h : Deleting(h)' <=> Deleting(h)
      /\ r # OldHw
  BY ArriveNames
<1>3. \A q \in Reqs : q # r => HwOf(q, inp[q])' = HwOf(q, inp[q])
  BY <1>0 DEF HwOf
<1>4. IsHw(r)' = (c.kind \in HwKinds) /\ HwOf(r, inp[r])' = HwOf(r, c) /\ ~IsHw(r)
  BY <1>0 DEF IsHw, HwOf
<1>5. SameCourse'
  <2>1. ASSUME NEW q \in Reqs, IsHw(q)', HwOf(q, inp[q])' = OldHw PROVE inp'[q].course = OldCourse
    <3>1. CASE q # r
      BY <1>0, <1>2, <1>3, <2>1, <3>1 DEF ListsInv, SameCourse
    <3>2. CASE q = r
      <4>1. c.kind \in HwKinds /\ c.hw = OldHw
        BY <1>2, <1>4, <2>1, <3>2 DEF HwOf
      <4> QED BY <1>0, <1>1, <3>2, <4>1 DEF NamesCourse
    <3> QED BY <3>1, <3>2
  <2>2. ASSUME NEW x \in Reqs, NEW y \in Reqs, IsHw(x)', IsHw(y)',
               HwOf(x, inp[x])' = HwOf(y, inp[y])'
        PROVE  inp'[x].course = inp'[y].course
    <3>1. CASE x # r /\ y # r
      BY <1>0, <1>2, <1>3, <2>2, <3>1 DEF ListsInv, SameCourse
    <3>2. CASE x = r /\ y # r
      BY <1>0, <1>1, <1>2, <1>3, <1>4, <2>2, <3>2 DEF NamesCourse, IsHw
    <3>3. CASE x # r /\ y = r
      BY <1>0, <1>1, <1>2, <1>3, <1>4, <2>2, <3>3 DEF NamesCourse, IsHw
    <3> QED BY <3>1, <3>2, <3>3
  <2>3. ASSUME NEW k, Inserted(k) PROVE Inserted(k)'
    <3>1. k \in Reqs => k # r
      BY <1>0, <2>3 DEF Inserted
    <3> QED BY <1>0, <2>3, <3>1 DEF Inserted
  <2>4. ASSUME NEW q \in Reqs, Creator(q)' PROVE Inserted(inp[q].course)'
    <3>1. Inserted(inp'[q].course)
      BY <1>0, <1>1, <2>4 DEF ListsInv, SameCourse, Creator
    <3>2. PICK k : k = inp'[q].course
      OBVIOUS
    <3> QED BY <2>3, <3>1, <3>2 DEF Inserted
  <2> QED BY <2>1, <2>2, <2>4 DEF SameCourse
<1>6. \A h \in HwIds : homeworks[h] # None => h # r
  BY <1>2 DEF ListsInv, HwRowsOK
<1>7. HwRowsOK'
  <2>1. ASSUME NEW q \in Reqs, HoldsHw(q)'
        PROVE  /\ hrow'[q].course = inp'[q].course
               /\ \A h \in HwIds : h = inp'[q].hw => h = OldHw \/ ~Unmade(h)'
    <3>1. q # r /\ HoldsHw(q)
      BY <1>0, <2>1
    <3>2. \A h \in HwIds : h = inp[q].hw => h = OldHw \/ ~Unmade(h)
      BY <3>1 DEF ListsInv, HwRowsOK
    <3>3. \A h \in HwIds : h = inp[q].hw => h = OldHw \/ ~Unmade(h)'
      BY <1>2, <3>2
    <3> QED BY <1>0, <3>1, <3>3 DEF ListsInv, HwRowsOK
  <2>2. \A q \in Reqs : Unmade(q)' => judgestates'[q] = Listed({}, Problems)
    BY <1>0, <1>2 DEF ListsInv, HwRowsOK, HwIds
  <2>3. \A q \in Reqs : InMaking(q)' => homeworks'[q] # None
    BY <1>0, <1>2 DEF ListsInv, HwRowsOK, HwIds
  <2>4. \A h \in HwIds : homeworks'[h] # None =>
           homeworks'[h].course = Home(h)' /\ (h = OldHw \/ ~Unmade(h)')
    BY <1>0, <1>2, <1>6 DEF ListsInv, HwRowsOK
  <2> QED BY <2>1, <2>2, <2>3, <2>4 DEF HwRowsOK
<1>8. \A h \in HwIds : (Made(h) => h # r) /\ (InMaking(h) => h # r)
  BY <1>2
<1>9. Past'
  <2>1. ASSUME NEW k \in CourseIds, courses'[k] # None, NEW h \in courses'[k].homeworks
        PROVE  Made(h)' /\ Home(h)' = k
    <3>1. h \in HwIds
      BY <1>0, <2>1 DEF Typed, TypeOK, Rows
    <3>2. Made(h) /\ Home(h) = k
      BY <1>0, <2>1 DEF ListsInv, Past
    <3> QED BY <1>2, <1>8, <3>1, <3>2
  <2>2. ASSUME NEW q \in Reqs, HoldsCourse(q)', NEW h \in crow'[q].row.homeworks
        PROVE  (Made(h)' \/ (h = q /\ InMaking(q)')) /\ Home(h)' = crow'[q].id
    <3>1. q # r /\ HoldsCourse(q) /\ crow[q] \in Held
      BY <1>0, <2>2 DEF Typed, StageOK
    <3>2. h \in HwIds /\ (Made(h) \/ (h = q /\ InMaking(q))) /\ Home(h) = crow[q].id
      BY <1>0, <2>2, <3>1 DEF ListsInv, Past, Held, Rows
    <3> QED BY <1>0, <1>2, <1>8, <3>2
  <2>3. ASSUME NEW q \in Reqs, Deletes(q)', pc'[q] \in {"savecourse", "deletehw"}
        PROVE  Made(inp[q].hw)'
    <3>1. q # r /\ Deletes(q) /\ pc[q] \in {"savecourse", "deletehw"} /\ inp'[q] = inp[q]
      BY <1>0, <1>2, <2>3
    <3>2. Made(inp[q].hw) /\ inp[q].hw \in HwIds
      BY <3>1, InputFacts DEF ListsInv, Past, Deletes, Typed
    <3>3. PICK h \in HwIds : h = inp[q].hw
      BY <3>2
    <3>4. Made(h)'
      BY <1>2, <1>8, <3>2, <3>3
    <3> QED BY <3>1, <3>3, <3>4 DEF Made, Creator
  <2> QED BY <2>1, <2>2, <2>3 DEF Past
<1>10. ASSUME NEW k \in CourseIds PROVE ListOK(k)'
  BY <1>0, <1>2, <1>6 DEF ListsInv, ListOK
<1> QED BY <1>5, <1>7, <1>9, <1>10 DEF ListsInv

LEMMA SameCourseServe ==
    ASSUME Typed, SameCourse, NEW r \in Reqs, Serve(r)
    PROVE  SameCourse'
<1>1. inp' = inp
  BY ServedAlone DEF Alone
<1>2. ASSUME NEW q \in Reqs, Creator(q)' PROVE Inserted(inp[q].course)'
  <2>1. Creator(q) /\ pc[q] # "new"
    BY <1>1, <1>2 DEF Creator, Typed, StageOK
  <2>2. inp[q].course \in CourseIds
    BY <2>1, InputFacts DEF Creator, Typed
  <2>3. PICK k \in CourseIds : k = inp[q].course
    BY <2>2
  <2>4. Inserted(k)'
    BY <2>1, <2>3, InsertedStays DEF SameCourse
  <2> QED BY <1>1, <2>3, <2>4 DEF Inserted
<1> QED BY <1>1, <1>2 DEF SameCourse, IsHw, Creator

(* What a step does to a homework row.                                      *)
LEMMA HomeworkStep ==
    ASSUME Typed, NEW r \in Reqs, Serve(r), NEW h \in HwIds
    PROVE  \/ homeworks'[h] = homeworks[h]
           \/ /\ InsertHw(r) /\ h = r /\ InMaking(r)'
              /\ homeworks'[h] = [course |-> inp[r].course, problems |-> inp[r].problems, open |-> 1]
           \/ /\ SaveHw(r) /\ IsHw(r) /\ HoldsHw(r) /\ h = inp[r].hw /\ homeworks[h] # None
              /\ inp[r].kind \in {"hwupdate", "hwset"}
              /\ homeworks'[h] = hrow[r]
           \/ /\ DeleteHw(r) /\ Deletes(r) /\ pc[r] = "deletehw" /\ h = inp[r].hw
              /\ homeworks'[h] = None
<1>1. CASE IsHw(r) /\ h = HwOf(r, inp[r])
  <2>1. CASE InsertHw(r)
    BY <1>1, <2>1, MakingStep DEF InsertHw, At, HwOf, Typed, TypeOK
  <2>2. CASE SaveHw(r)
    <3>1. HoldsHw(r) /\ h = inp[r].hw /\ inp[r].kind \in {"hwupdate", "hwset"}
      BY <1>1, <2>2, HwPlaces DEF SaveHw, HoldsHw, HwOf, IsHw, HwKinds
    <3> QED BY <1>1, <2>2, <3>1 DEF SaveHw, Typed, TypeOK
  <2>3. CASE DeleteHw(r)
    BY <1>1, <2>3 DEF DeleteHw, At, HwOf, Typed, TypeOK, Deletes
  <2> QED BY <1>1, <2>1, <2>2, <2>3, HwActs
      DEF GivesUp, Fail, Caller, ReadHw, CreateState, DeleteState, ReadCourse, SaveCourse, tables
<1>2. CASE ~(IsHw(r) /\ h = HwOf(r, inp[r]))
  BY <1>2, OwnHw
<1> QED BY <1>1, <1>2

(* What a step does to the judgestates rows of a homework.                  *)
LEMMA StatesStep ==
    ASSUME Typed, NEW r \in Reqs, Serve(r), NEW h \in HwIds
    PROVE  \/ judgestates'[h] = judgestates[h]
           \/ /\ pc[r] = "states" /\ IsHw(r) /\ h = HwOf(r, inp[r])
              /\ CreateState(r) \/ DeleteState(r)
<1>1. CASE IsHw(r) /\ h = HwOf(r, inp[r])
  BY <1>1, HwActs DEF GivesUp, Fail, Caller, InsertHw, ReadHw, SaveHw, DeleteHw, CreateState, DeleteState,
      ReadCourse, SaveCourse, At, tables
<1>2. CASE ~(IsHw(r) /\ h = HwOf(r, inp[r]))
  BY <1>2, OwnHw
<1> QED BY <1>1, <1>2

(* Where a homework row in memory comes from.                               *)
LEMMA HwHeldStep ==
    ASSUME Typed, NEW r \in Reqs, Serve(r), HoldsHw(r)'
    PROVE  /\ IsHw(r) /\ inp[r].kind \in {"hwupdate", "hwset"} /\ inp[r].hw \in HwIds
           /\ \/ HoldsHw(r) /\ hrow'[r] = hrow[r] /\ ~ReadHw(r)
              \/ /\ ReadHw(r) /\ homeworks[inp[r].hw] \in HwRows
                 /\ hrow'[r].course = homeworks[inp[r].hw].course
<1>1. Typed' /\ inp' = inp /\ Active(r) /\ pc'[r] # "new"
  BY ServedAlone, TypedNext DEF Alone, Next
<1>2. inp[r].kind \in {"hwupdate", "hwset"}
  BY <1>1, InputFacts DEF HoldsHw, KindsAt, Typed, StageOK
<1>3. IsHw(r) /\ inp[r].hw \in HwIds
  BY <1>1, <1>2, InputFacts DEF IsHw, HwKinds, Typed, Active
<1>4. CASE ReadHw(r)
  <2>1. PICK row : row = homeworks[inp[r].hw]
    OBVIOUS
  <2>2. row \in HwRows
    BY <1>3, <1>4, <2>1 DEF ReadHw, Typed, TypeOK
  <2>3. hrow'[r] = [row EXCEPT !.open = 1 - @] \/ hrow'[r] = [row EXCEPT !.problems = inp[r].problems]
    BY <1>2, <1>4, <2>1 DEF ReadHw, UseForSet, UseForHwUpdate, UseForHwDelete, Typed, TypeOK
  <2>4. hrow'[r].course = row.course
    BY <2>2, <2>3 DEF HwRows
  <2> QED BY <1>2, <1>3, <1>4, <2>1, <2>2, <2>4
<1>5. CASE ~ReadHw(r)
  <2>1. \/ GivesUp(r) \/ Caller(r) \/ SaveHw(r) \/ CreateState(r) \/ DeleteState(r)
    BY <1>2, <1>3, <1>5, HwActs, HwPlaces
    DEF InsertHw, DeleteHw, ReadCourse, SaveCourse, At
  <2>2. pc'[r] # "done"
    BY DEF HoldsHw
  <2>3. \/ Caller(r) \/ CreateState(r) \/ DeleteState(r)
    BY <1>3, <2>1, <2>2, HwMoves
  <2>4. hrow' = hrow
    BY <2>3 DEF Caller, CreateState, DeleteState, locals
  <2>5. HoldsHw(r)
    <3>1. CASE Caller(r)
      <4>1. inp[r].kind = "hwset" => pc'[r] = "readhw"
        BY <1>3, <3>1, HwMoves
      <4>2. inp[r].kind = "hwupdate"
        BY <1>1, <1>2, <4>1 DEF HoldsHw
      <4> QED BY <3>1, <4>2 DEF Caller, HoldsHw
    <3>2. CASE CreateState(r) \/ DeleteState(r)
      <4>1. pc[r] = "states"
        BY <3>2 DEF CreateState, DeleteState, At
      <4>2. inp[r].kind = "hwupdate"
        BY <1>2, <1>3, <4>1, HwPlaces
      <4> QED BY <4>1, <4>2 DEF HoldsHw
    <3> QED BY <2>3, <3>1, <3>2
  <2> QED BY <1>2, <1>3, <1>5, <2>4, <2>5
<1> QED BY <1>4, <1>5

LEMMA HwRowsServe ==
    ASSUME Typed, SameCourse, HwRowsOK, Past, NEW r \in Reqs, Serve(r)
    PROVE  HwRowsOK'
<1>1. Alone(r) /\ inp' = inp /\ OldHw \notin Reqs
  BY ServedAlone, CoursesAssumption DEF Alone
<1>2. \A h \in HwIds : Home(h)' = Home(h)
  BY <1>1 DEF Home
<1>3. \A h \in HwIds : h = OldHw \/ ~Unmade(h) => h = OldHw \/ ~Unmade(h)'
  BY StillMade DEF HwIds
<1>4. ASSUME NEW h \in HwIds, homeworks'[h] # None
      PROVE  homeworks'[h].course = Home(h)' /\ (h = OldHw \/ ~Unmade(h)')
  <2>1. CASE homeworks'[h] = homeworks[h]
    BY <1>2, <1>3, <1>4, <2>1 DEF HwRowsOK
  <2>2. CASE InsertHw(r) /\ h = r /\ InMaking(r)'
             /\ homeworks'[h] = [course |-> inp[r].course, problems |-> inp[r].problems, open |-> 1]
    <3>1. homeworks'[h].course = inp[r].course
      BY <2>2
    <3>2. Home(h)' = inp[r].course
      BY <1>1, <2>2 DEF Home
    <3>3. ~Unmade(h)'
      BY <2>2 DEF InMaking, Creator, Unmade
    <3> QED BY <3>1, <3>2, <3>3
  <2>3. CASE /\ SaveHw(r) /\ IsHw(r) /\ HoldsHw(r) /\ h = inp[r].hw /\ homeworks[h] # None
             /\ inp[r].kind \in {"hwupdate", "hwset"} /\ homeworks'[h] = hrow[r]
    <3>1. hrow[r].course = inp[r].course /\ (h = OldHw \/ ~Unmade(h))
      BY <2>3 DEF HwRowsOK
    <3>2. h = HwOf(r, inp[r])
      BY <2>3 DEF HwOf
    <3>3. Home(h) = inp[r].course
      BY <2>3, <3>1, <3>2, HomeIs, NotUnmade
    <3> QED BY <1>2, <1>3, <2>3, <3>1, <3>3
  <2> QED BY <1>4, <2>1, <2>2, <2>3, HomeworkStep
<1>5. ASSUME NEW q \in Reqs, HoldsHw(q)'
      PROVE  /\ hrow'[q].course = inp[q].course
             /\ \A h \in HwIds : h = inp[q].hw => h = OldHw \/ ~Unmade(h)'
  <2>1. CASE q # r
    <3>1. HoldsHw(q) /\ hrow'[q] = hrow[q]
      BY <1>1, <1>5, <2>1 DEF HoldsHw, Alone
    <3>2. /\ hrow[q].course = inp[q].course
          /\ \A h \in HwIds : h = inp[q].hw => h = OldHw \/ ~Unmade(h)
      BY <3>1 DEF HwRowsOK
    <3> QED BY <1>3, <3>1, <3>2
  <2>2. CASE q = r
    <3>1. PICK h \in HwIds : /\ IsHw(r) /\ inp[r].kind \in {"hwupdate", "hwset"} /\ h = inp[r].hw
      BY <1>5, <2>2, HwHeldStep
    <3>2. CASE HoldsHw(r) /\ hrow'[r] = hrow[r]
      <4>1. hrow[r].course = inp[r].course /\ (h = OldHw \/ ~Unmade(h))
        BY <3>1, <3>2 DEF HwRowsOK
      <4> QED BY <1>3, <2>2, <3>1, <3>2, <4>1
    <3>3. CASE /\ ReadHw(r) /\ homeworks[inp[r].hw] \in HwRows
               /\ hrow'[r].course = homeworks[inp[r].hw].course
      <4>1. homeworks[h] # None
        BY <3>1, <3>3, CoursesAssumption
      <4>2. homeworks[h].course = Home(h) /\ (h = OldHw \/ ~Unmade(h))
        BY <4>1 DEF HwRowsOK
      <4>3. h = HwOf(r, inp[r])
        BY <3>1 DEF HwOf
      <4>4. Home(h) = inp[r].course
        BY <3>1, <4>2, <4>3, HomeIs, NotUnmade
      <4> QED BY <1>3, <2>2, <3>1, <3>3, <4>2, <4>4
    <3> QED BY <1>5, <2>2, <3>2, <3>3, HwHeldStep
  <2> QED BY <2>1, <2>2
<1>6. ASSUME NEW q \in Reqs, Unmade(q)' PROVE judgestates'[q] = Listed({}, Problems)
  <2>1. Unmade(q) /\ judgestates[q] = Listed({}, Problems) /\ q \in HwIds
    BY <1>6, StillMade DEF HwRowsOK, HwIds
  <2>2. CASE pc[r] = "states" /\ IsHw(r) /\ q = HwOf(r, inp[r])
    <3>1. inp[r].kind \in {"hwcreate", "hwupdate"}
      BY <2>2, HwPlaces DEF IsHw, HwKinds
    <3>2. CASE inp[r].kind = "hwcreate"
      BY <2>1, <2>2, <3>2 DEF HwOf, Unmade, IsHw
    <3>3. CASE inp[r].kind = "hwupdate"
      <4>1. inp[r].hw = q /\ HoldsHw(r)
        BY <2>2, <3>3 DEF HoldsHw, HwOf
      <4> QED BY <1>1, <2>1, <4>1 DEF HwRowsOK
    <3> QED BY <3>1, <3>2, <3>3
  <2> QED BY <2>1, <2>2, StatesStep
<1>7. ASSUME NEW q \in Reqs, InMaking(q)' PROVE homeworks'[q] # None
  <2>1. q \in HwIds
    BY DEF HwIds
  <2>2. CASE InMaking(q)
    <3>1. homeworks[q] # None /\ ~Made(q)
      BY <1>1, <2>2 DEF HwRowsOK, InMaking, Made
    <3>2. CASE DeleteHw(r) /\ Deletes(r) /\ pc[r] = "deletehw" /\ q = inp[r].hw
      BY <3>1, <3>2 DEF Past
    <3>3. CASE /\ SaveHw(r) /\ IsHw(r) /\ HoldsHw(r) /\ homeworks'[q] = hrow[r]
      BY <3>3, CoursesAssumption DEF Typed, StageOK
    <3>4. CASE InsertHw(r) /\ q = r
      BY <2>2, <3>4 DEF InsertHw, At, InMaking
    <3> QED BY <2>1, <3>1, <3>2, <3>3, <3>4, HomeworkStep
  <2>3. CASE q = r /\ InsertHw(r)
    <3>1. homeworks'[q] = [course |-> inp[r].course, problems |-> inp[r].problems, open |-> 1]
      BY <2>1, <2>3 DEF InsertHw, Typed, TypeOK
    <3>2. inp[r].course \in CourseIds /\ inp[r].problems \in SUBSET Problems
      BY <2>3, InputFacts DEF InsertHw, At, Typed, Arguments
    <3>3. homeworks'[q] \in HwRows
      BY <3>1, <3>2 DEF HwRows
    <3> QED BY <3>3, CoursesAssumption
  <2> QED BY <1>7, <2>2, <2>3, MakingStep
<1>8. \A q \in Reqs : HoldsHw(q)' =>
         /\ hrow'[q].course = inp'[q].course
         /\ \A h \in HwIds : h = inp'[q].hw => h = OldHw \/ ~Unmade(h)'
  BY <1>1, <1>5
<1>9. /\ \A h \in HwIds : homeworks'[h] # None =>
            homeworks'[h].course = Home(h)' /\ (h = OldHw \/ ~Unmade(h)')
      /\ \A q \in Reqs : Unmade(q)' => judgestates'[q] = Listed({}, Problems)
      /\ \A q \in Reqs : InMaking(q)' => homeworks'[q] # None
  BY <1>4, <1>6, <1>7
<1> QED BY <1>8, <1>9 DEF HwRowsOK

LEMMA PastServe ==
    ASSUME Typed, HistoryOK, ListsInv, \A q \in Reqs : CopyOK(q), NEW r \in Reqs, RServe(r)
    PROVE  Past'
<1>1. /\ Serve(r) /\ Alone(r) /\ inp' = inp /\ Active(r) /\ OldHw \notin Reqs
      /\ Typed' /\ \A q \in Reqs : CopyOK(q)'
  BY Served, ServedAlone, CopyServe, TypedNext, CoursesAssumption DEF Alone, Next
<1>2. \A h : Home(h)' = Home(h) /\ (Made(h) => Made(h)')
  BY <1>1, MadeStays DEF Home
<1>3. ASSUME NEW k \in CourseIds, courses'[k] # None, NEW h \in courses'[k].homeworks
      PROVE  Made(h)' /\ Home(h) = k
  <2>1. CASE courses'[k] = courses[k]
    BY <1>2, <1>3, <2>1 DEF ListsInv, Past
  <2>2. CASE courses'[k] = NewCourse(inp[r].name, inp[r].members)
    BY <1>3, <2>2 DEF NewCourse
  <2>3. CASE Overwrites(r, k) /\ courses'[k] = crow[r].row
    <3>1. HoldsCourse(r) /\ pc[r] = "savecourse" /\ crow[r].id = k
      BY <2>3 DEF Overwrites, SaveCourse, HoldsCourse
    <3>2. (Made(h) \/ (h = r /\ InMaking(r))) /\ Home(h) = k
      BY <1>3, <2>3, <3>1 DEF ListsInv, Past
    <3>3. CASE h = r /\ InMaking(r)
      <4>1. IsHw(r) /\ inp[r].kind = "hwcreate"
        BY <3>3 DEF InMaking, Creator, IsHw, HwKinds
      <4>2. pc'[r] = "done" /\ answer'[r] = "ok"
        <5>1. Go(r, "done")
          BY <2>3, <4>1 DEF Overwrites, SaveCourse
        <5> QED BY <5>1 DEF Go, Finish, Typed, TypeOK
      <4> QED BY <1>1, <3>2, <3>3, <4>2 DEF Made, InMaking, Creator
    <3> QED BY <1>2, <3>2, <3>3
  <2>4. CASE InsertInCourse(r) /\ courses[k] # None
             /\ courses'[k] = [courses[k] EXCEPT !.members["students"][inp[r].user] = Once(@)]
    <3>1. courses'[k].homeworks = courses[k].homeworks
      BY <2>4 DEF Typed, TypeOK, Rows
    <3> QED BY <1>2, <1>3, <2>4, <3>1 DEF ListsInv, Past
  <2> QED BY <1>3, <2>1, <2>2, <2>3, <2>4, CourseChange
<1>4. ASSUME NEW q \in Reqs, HoldsCourse(q)', NEW h \in crow'[q].row.homeworks
      PROVE  (Made(h)' \/ (h = q /\ InMaking(q)')) /\ Home(h) = crow'[q].id
  <2>1. CASE q # r
    <3>1. HoldsCourse(q) /\ crow'[q] = crow[q] /\ InMaking(q)' = InMaking(q)
      BY <1>1, <1>4, <2>1 DEF HoldsCourse, InMaking, Creator, Alone
    <3> QED BY <1>2, <1>4, <3>1 DEF ListsInv, Past
  <2>2. CASE q = r
    <3>1. Creator(r) => InMaking(r)'
      <4>1. Creator(r) => pc'[r] \in {"states", "savecourse"}
        BY <1>1, <1>4, <2>2 DEF Creator, HoldsCourse, Typed, StageOK, KindsAt
      <4> QED BY <1>1, <4>1 DEF InMaking, Creator
    <3>2. CASE ReadCourse(r) \/ ReadSpell(r)
      <4>1. PICK k \in CourseIds : k = inp[r].course /\ courses[k] \in Rows /\ crow'[r].id = k
                 /\ KeepsRest(r, inp[r], courses[k], crow'[r].row)
        BY <3>2, ReadStep
      <4>2. courses[k] # None
        BY <4>1, CoursesAssumption
      <4>3. CASE h \in courses[k].homeworks
        BY <1>2, <2>2, <4>1, <4>2, <4>3 DEF ListsInv, Past
      <4>4. CASE h \notin courses[k].homeworks
        <5>1. h = r /\ inp[r].kind = "hwcreate"
          BY <1>4, <2>2, <4>1, <4>4 DEF KeepsRest
        <5>2. Creator(r) /\ r # OldHw
          BY <1>1, <5>1, InputFacts DEF Creator, Active, Typed
        <5> QED BY <2>2, <3>1, <4>1, <5>1, <5>2 DEF Home
      <4> QED BY <4>3, <4>4
    <3>3. CASE FindCourse(r)
      <4>1. PICK k \in Alike(r) :
               /\ k \in CourseIds /\ courses[k] \in Rows
               /\ crow'[r] = [id |-> k, row |-> [courses[k] EXCEPT !.spell = TRUE]]
               /\ KeepsRest(r, inp[r], courses[k], crow'[r].row)
        BY <3>3, FindStep, Zenon
      <4>2. courses[k] # None /\ crow'[r].id = k
        BY <4>1, CoursesAssumption
      <4>3. h \in courses[k].homeworks
        BY <1>4, <2>2, <3>3, <4>1 DEF KeepsRest, FindCourse, At
      <4> QED BY <1>2, <2>2, <4>1, <4>2, <4>3 DEF ListsInv, Past
    <3>4. CASE ~Reads(r)
      <4>1. /\ HoldsCourse(r) /\ crow[r] \in Held
            /\ ~FindNotice(r) => crow'[r] = crow[r]
            /\ FindNotice(r) => \E ns : /\ crow'[r].id = crow[r].id
                                        /\ crow'[r].row = [crow[r].row EXCEPT !.notices = ns]
        BY <1>1, <1>4, <2>2, <3>4, HeldStep DEF Typed, StageOK
      <4>2. crow'[r].row.homeworks = crow[r].row.homeworks /\ crow'[r].id = crow[r].id
        BY <4>1 DEF Held, Rows
      <4>3. (Made(h) \/ (h = r /\ InMaking(r))) /\ Home(h) = crow[r].id
        BY <1>4, <2>2, <4>1, <4>2 DEF ListsInv, Past
      <4> QED BY <1>2, <2>2, <3>1, <4>2, <4>3 DEF InMaking
    <3> QED BY <2>2, <3>2, <3>3, <3>4 DEF Reads
  <2> QED BY <2>1, <2>2
<1>5. ASSUME NEW q \in Reqs, Deletes(q), pc'[q] \in {"savecourse", "deletehw"}
      PROVE  Made(inp[q].hw)'
  <2>1. PICK h : h = inp[q].hw
    OBVIOUS
  <2>2. CASE q # r
    <3>1. Made(h)
      BY <1>1, <1>5, <2>1, <2>2 DEF ListsInv, Past, Alone
    <3> QED BY <1>1, <1>2, <2>1, <3>1 DEF Made, Creator
  <2>3. CASE q = r
    <3>1. IsHw(r) /\ inp[r].kind = "hwdelete"
      BY <1>5, <2>3 DEF Deletes
    <3>2. SaveCourse(r) \/ ReadCourse(r)
      BY <1>1, <1>5, <2>3, <3>1, HwActs, HwMoves, StatesLabels, HwPlaces
      DEF InsertHw, CreateState, DeleteState, At, DeleteHw, SaveHw
    <3>3. Made(h)
      <4>1. CASE SaveCourse(r)
        BY <1>5, <2>1, <2>3, <4>1 DEF ListsInv, Past, SaveCourse
      <4>2. CASE ReadCourse(r)
        <5>1. PICK row : row = courses[inp[r].course]
          OBVIOUS
        <5>2. h \in row.homeworks /\ row # None
          BY <2>1, <2>3, <3>1, <4>2, <5>1 DEF ReadCourse, UseForMember, UseForUpdate, UseForList
        <5>3. inp[r].course \in CourseIds
          BY <3>1, HwPlaces
        <5> QED BY <5>1, <5>2, <5>3 DEF ListsInv, Past
      <4> QED BY <3>2, <4>1, <4>2
    <3> QED BY <1>1, <1>2, <2>1, <2>3, <3>3 DEF Made, Creator
  <2> QED BY <2>2, <2>3
<1>6. \A q \in Reqs : Deletes(q)' <=> Deletes(q)
  BY <1>1 DEF Deletes, IsHw
<1> QED BY <1>1, <1>2, <1>3, <1>4, <1>5, <1>6 DEF Past

LEMMA ListServe ==
    ASSUME Typed, HistoryOK, ListsInv, \A q \in Reqs : CopyOK(q), NEW r \in Reqs, RServe(r),
           NEW k \in CourseIds
    PROVE  ListOK(k)'
<1> SUFFICES ASSUME courses'[k] # None, <<"courses", k>> \notin lost', NEW h \in HwIds
             PROVE  /\ h \in courses'[k].homeworks => homeworks'[h] # None /\ ~Deleting(h)'
                    /\ h \notin courses'[k].homeworks /\ homeworks'[h] # None /\ Home(h)' = k =>
                           Deleting(h)' \/ InMaking(h)'
  BY DEF ListOK
<1>1. /\ Serve(r) /\ inp' = inp /\ Active(r) /\ <<"courses", k>> \notin lost /\ OldHw \notin Reqs
  BY Served, ServedAlone, Remembered, CoursesAssumption DEF Alone
<1>2. Home(h)' = Home(h)
  BY <1>1 DEF Home
<1>3. /\ Deleting(h)' => Deleting(h) \/ (SaveCourse(r) /\ Deletes(r) /\ inp[r].hw = h)
      /\ Deleting(h) => Deleting(h)' \/ (DeleteHw(r) /\ Deletes(r) /\ inp[r].hw = h)
      /\ InMaking(h) => \/ InMaking(h)' \/ (h = r /\ SaveCourse(r))
                        \/ h = r /\ GivesUp(r) /\ pc[r] = "readcourse"
      /\ InsertHw(r) => InMaking(r)'
      /\ SaveCourse(r) /\ Deletes(r) /\ inp[r].hw = h => Deleting(h)'
  BY <1>1, DeletingStep, MakingStep
<1>4. /\ homeworks[h] # None => homeworks'[h] # None \/ (Deleting(h) /\ DeleteHw(r))
      /\ homeworks[h] = None /\ homeworks'[h] # None => h = r /\ InsertHw(r)
      /\ DeleteHw(r) /\ Deletes(r) /\ inp[r].hw = h => homeworks'[h] = None
  <2>1. InsertHw(r) /\ h = r => homeworks[h] = None \/ homeworks'[h] # None
    <3> SUFFICES ASSUME InsertHw(r), h = r PROVE homeworks[h] = None
      OBVIOUS
    <3> QED BY <1>1 DEF InsertHw, At, ListsInv, HwRowsOK, Unmade
  <2>2. HoldsHw(r) => hrow[r] # None
    BY CoursesAssumption DEF Typed, StageOK
  <2>3. DeleteHw(r) /\ Deletes(r) /\ inp[r].hw = h => homeworks'[h] = None
    BY DEF DeleteHw, Typed, TypeOK
  <2> QED BY <1>1, <2>1, <2>2, <2>3, HomeworkStep DEF Deleting
<1>5. SaveCourse(r) => HoldsCourse(r) /\ crow[r] \in Held
                       /\ (inp[r].kind # "create" => crow[r].id = inp[r].course)
  BY DEF SaveCourse, HoldsCourse, Typed, StageOK
(* The homework that a save is about is of the course that is saved.        *)
<1>6. ASSUME SaveCourse(r), IsHw(r), HwOf(r, inp[r]) = h, Home(h) = k
      PROVE  crow[r].id = k
  <2>1. inp[r].kind # "create" /\ inp[r].kind \in {"hwcreate", "hwdelete"}
    BY <1>1, <1>6, HwMoves DEF IsHw, HwKinds
  <2>2. h = OldHw \/ Creator(h)
    BY <1>6, <2>1 DEF ListsInv, Past, SaveCourse, Deletes, Made, HwOf, Creator, IsHw
  <2>3. Home(h) = inp[r].course
    BY <1>6, <2>2, HomeIs DEF ListsInv
  <2> QED BY <1>5, <1>6, <2>1, <2>3
(* A list that stays as it is.                                              *)
<1>7. ASSUME courses[k] # None, courses'[k].homeworks = courses[k].homeworks,
             ~(Overwrites(r, k) /\ IsHw(r))
      PROVE  /\ h \in courses'[k].homeworks => homeworks'[h] # None /\ ~Deleting(h)'
             /\ h \notin courses'[k].homeworks /\ homeworks'[h] # None /\ Home(h)' = k =>
                    Deleting(h)' \/ InMaking(h)'
  <2>1. /\ h \in courses[k].homeworks => homeworks[h] # None /\ ~Deleting(h)
        /\ h \notin courses[k].homeworks /\ homeworks[h] # None /\ Home(h) = k =>
               Deleting(h) \/ InMaking(h)
    BY <1>1, <1>7 DEF ListsInv, ListOK
  <2>2. SaveCourse(r) /\ IsHw(r) /\ HwOf(r, inp[r]) = h => Home(h) # k
    BY <1>6, <1>7 DEF Overwrites
  <2>3. ASSUME h \in courses[k].homeworks PROVE homeworks'[h] # None /\ ~Deleting(h)'
    <3>1. homeworks'[h] # None
      BY <1>4, <2>1, <2>3
    <3>2. Home(h) = k
      BY <1>7, <2>3 DEF ListsInv, Past
    <3>3. ~(SaveCourse(r) /\ Deletes(r) /\ inp[r].hw = h)
      BY <2>2, <3>2 DEF Deletes, HwOf
    <3> QED BY <1>3, <2>1, <2>3, <3>1, <3>3
  <2>4. ASSUME h \notin courses[k].homeworks, homeworks'[h] # None, Home(h) = k
        PROVE  Deleting(h)' \/ InMaking(h)'
    <3>1. CASE homeworks[h] = None
      BY <1>3, <1>4, <2>4, <3>1
    <3>2. CASE Deleting(h)
      BY <1>3, <1>4, <2>4, <3>2
    <3>3. CASE InMaking(h)
      <4>1. h = r => IsHw(r) /\ inp[r].kind = "hwcreate" /\ HwOf(r, inp[r]) = r /\ inp[r].course = k
        BY <1>1, <2>4, <3>3 DEF InMaking, Creator, IsHw, HwKinds, HwOf, Home
      <4>2. ~(h = r /\ SaveCourse(r))
        BY <2>2, <2>4, <4>1
      <4>3. ~(h = r /\ GivesUp(r) /\ pc[r] = "readcourse")
        BY <1>7, <4>1 DEF GivesUp, Useless
      <4> QED BY <1>3, <3>3, <4>2, <4>3
    <3> QED BY <2>1, <2>4, <3>1, <3>2, <3>3
  <2> QED BY <1>2, <1>7, <2>3, <2>4
<1>8. CASE courses'[k] = courses[k] /\ ~Overwrites(r, k)
  BY <1>7, <1>8
<1>9. CASE InsertCourse(r) /\ k = r /\ ~Inserted(k)
           /\ courses'[k] = NewCourse(inp[r].name, inp[r].members)
  <2>1. courses'[k].homeworks = {}
    BY <1>9 DEF NewCourse
  <2>2. homeworks'[h] = homeworks[h]
    BY <1>9 DEF InsertCourse
  <2>3. homeworks[h] # None => Home(h) # k
    <3>1. CASE h = OldHw
      BY <1>9, <3>1, CoursesAssumption DEF Home
    <3>2. CASE h # OldHw
      <4>1. homeworks[h] # None => Creator(h)
        BY <3>2, NotUnmade DEF ListsInv, HwRowsOK
      <4> QED BY <1>9, <3>2, <4>1 DEF ListsInv, SameCourse, Home, Creator
    <3> QED BY <3>1, <3>2
  <2> QED BY <1>2, <2>1, <2>2, <2>3
<1>10. CASE Overwrites(r, k) /\ courses'[k] = crow[r].row /\ courses[k] = cread[r]
  <2>1. KeepsRest(r, inp[r], courses[k], crow[r].row) /\ courses[k] # None
    BY <1>5, <1>10 DEF Overwrites, CopyOK
  <2>2. CASE ~IsHw(r)
    <3>1. courses'[k].homeworks = courses[k].homeworks
      BY <1>1, <1>10, <2>1, <2>2, InputFacts DEF KeepsRest, IsHw, HwKinds, Active, Typed
    <3> QED BY <1>7, <2>1, <2>2, <3>1
  <2>3. CASE IsHw(r)
    <3>1. /\ inp[r].kind \in {"hwcreate", "hwdelete"} /\ homeworks' = homeworks
          /\ SaveCourse(r) /\ pc[r] = "savecourse"
      BY <1>1, <1>10, <2>3, HwMoves DEF Overwrites, SaveCourse
    <3>2. /\ h \in courses[k].homeworks => homeworks[h] # None /\ ~Deleting(h)
          /\ h \notin courses[k].homeworks /\ homeworks[h] # None /\ Home(h) = k =>
                 Deleting(h) \/ InMaking(h)
      BY <1>1, <2>1 DEF ListsInv, ListOK
    <3>3. CASE inp[r].kind = "hwcreate"
      <4>1. courses'[k].homeworks = courses[k].homeworks \cup {r}
        BY <1>10, <2>1, <3>3 DEF KeepsRest
      <4>2. InMaking(r) /\ ~Deletes(r) /\ homeworks[r] # None
        BY <2>3, <3>1, <3>3 DEF InMaking, Creator, IsHw, Deletes, ListsInv, HwRowsOK
      <4>3. ~Deleting(r)
        <5> SUFFICES ASSUME NEW q \in Reqs, Deletes(q), pc[q] = "deletehw", inp[q].hw = r PROVE FALSE
          BY DEF Deleting
        <5>1. Made(r)
          BY DEF ListsInv, Past
        <5> QED BY <1>1, <3>1, <5>1 DEF Made
      <4>4. ~DeleteHw(r)
        BY <3>1 DEF DeleteHw, At
      <4>5. h # r => InMaking(h)' \/ ~InMaking(h)
        BY <1>3
      <4>6. (Deleting(h)' <=> Deleting(h)) /\ homeworks'[h] = homeworks[h]
        BY <1>3, <3>1, <4>2, <4>4
      <4>7. CASE h = r
        BY <3>1, <4>1, <4>2, <4>3, <4>6, <4>7
      <4>8. CASE h # r
        BY <1>2, <3>2, <4>1, <4>5, <4>6, <4>8
      <4> QED BY <4>7, <4>8
    <3>4. CASE inp[r].kind = "hwdelete"
      <4>1. courses'[k].homeworks = courses[k].homeworks \ {inp[r].hw}
        BY <1>10, <2>1, <3>4 DEF KeepsRest
      <4>2. Deletes(r) /\ (inp[r].hw = h => Deleting(h)')
        BY <1>3, <2>3, <3>1, <3>4 DEF Deletes
      <4>3. ~DeleteHw(r) /\ ~GivesUp(r)
        BY <3>1 DEF DeleteHw, GivesUp, At
      <4>4. InMaking(h) => InMaking(h)'
        BY <1>3, <3>4, <4>3 DEF InMaking, Creator
      <4>5. (Deleting(h) => Deleting(h)') /\ homeworks'[h] = homeworks[h]
        BY <1>3, <3>1, <4>3
      <4>6. CASE h = inp[r].hw
        BY <4>1, <4>2, <4>6
      <4>7. CASE h # inp[r].hw
        <5>1. Deleting(h)' => Deleting(h)
          BY <1>3, <4>7
        <5> QED BY <1>2, <3>2, <4>1, <4>4, <4>5, <4>7, <5>1
      <4> QED BY <4>6, <4>7
    <3> QED BY <3>1, <3>3, <3>4
  <2> QED BY <2>2, <2>3
<1>11. CASE InsertInCourse(r) /\ courses[k] # None
            /\ courses'[k] = [courses[k] EXCEPT !.members["students"][inp[r].user] = Once(@)]
  <2>1. courses'[k].homeworks = courses[k].homeworks
    BY <1>11 DEF Typed, TypeOK, Rows
  <2>2. ~Overwrites(r, k)
    BY <1>11 DEF InsertInCourse, At, Overwrites, SaveCourse
  <2> QED BY <1>7, <1>11, <2>1, <2>2
<1> QED BY <1>8, <1>9, <1>10, <1>11, CourseChange

LEMMA ListsInit == RInit => Typed /\ HistoryOK /\ ListsInv /\ \A q \in Reqs : CopyOK(q)
<1> SUFFICES ASSUME RInit PROVE Typed /\ HistoryOK /\ ListsInv /\ \A q \in Reqs : CopyOK(q)
  OBVIOUS
<1>1. Init /\ Typed /\ HistoryOK
  BY TypedInit DEF RInit, HistoryOK
<1>2. \A q \in Reqs : pc[q] = "new" /\ inp[q] = None /\ ~HoldsCourse(q) /\ ~HoldsHw(q)
  BY <1>1 DEF Init, HoldsCourse, HoldsHw
<1>3. \A q \in Reqs : CopyOK(q) /\ ~IsHw(q) /\ ~Creator(q) /\ ~InMaking(q) /\ ~Deletes(q)
  BY <1>2 DEF CopyOK, IsHw, Creator, InMaking, Deletes
<1>4. OldHw \notin Reqs /\ None \notin HwRows
  BY CoursesAssumption
<1>5. \A h \in HwIds : homeworks[h] # None =>
         homeworks[h].course = Home(h) /\ (h = OldHw \/ ~Unmade(h))
  BY <1>1 DEF Init, Home
<1>6. \A q \in Reqs : judgestates[q] = Listed({}, Problems)
  BY <1>1, <1>4 DEF Init, Listed, HwIds
<1>7. \A k \in CourseIds : courses[k] # None => k = OldCourse /\ courses[k].homeworks = {OldHw}
  BY <1>1 DEF Init, NewCourse
<1>8. HwRowsOK /\ SameCourse
  BY <1>2, <1>3, <1>5, <1>6 DEF HwRowsOK, SameCourse
<1>9. Past
  BY <1>2, <1>3, <1>7 DEF Past, Made, Home
<1>10. ASSUME NEW k \in CourseIds PROVE ListOK(k)
  <2>1. homeworks[OldHw] = [course |-> OldCourse, problems |-> OldProblems, open |-> 1]
        /\ \A h \in HwIds : h # OldHw => homeworks[h] = None
    BY <1>1 DEF Init, HwIds
  <2>2. [course |-> OldCourse, problems |-> OldProblems, open |-> 1] # None
    BY CoursesAssumption DEF HwRows, CourseIds
  <2>3. \A h : ~Deleting(h)
    BY <1>3 DEF Deleting
  <2> QED BY <1>7, <2>1, <2>2, <2>3 DEF ListOK
<1> QED BY <1>1, <1>3, <1>8, <1>9, <1>10 DEF ListsInv

CourseInv == Typed /\ HistoryOK /\ ListsInv /\ \A q \in Reqs : CopyOK(q)

LEMMA CourseNext == CourseInv /\ [RNext]_<<vars, history>> => CourseInv'
<1> SUFFICES ASSUME CourseInv, [RNext]_<<vars, history>> PROVE CourseInv'
  OBVIOUS
<1>1. Typed'
  BY Steps, TypedNext DEF CourseInv
<1>2. ASSUME NEW r \in Reqs, RServe(r) PROVE CourseInv'
  <2>1. Serve(r)
    BY <1>2, Served
  <2> QED BY <1>1, <1>2, <2>1, HistoryServe, CopyServe, SameCourseServe, HwRowsServe, PastServe,
             ListServe DEF CourseInv, ListsInv
<1>3. ASSUME NEW r \in Reqs, NEW c \in Inputs, RArrive(r, c) PROVE CourseInv'
  <2>1. Arrive(r, c) /\ UNCHANGED <<cread, uread, lost>> /\ crow' = crow
    BY <1>3 DEF RArrive, Arrive, locals
  <2>2. ListsInv'
    BY <2>1, ListsArrive DEF CourseInv
  <2>3. HistoryOK'
    BY <2>1 DEF CourseInv, HistoryOK
  <2>4. ASSUME NEW q \in Reqs PROVE CopyOK(q)'
    <3>1. ~HoldsCourse(r)' /\ (q # r => HoldsCourse(q)' = HoldsCourse(q) /\ inp'[q] = inp[q])
      BY <2>1, Arrives DEF CourseInv
    <3> QED BY <2>1, <3>1 DEF CourseInv, CopyOK
  <2> QED BY <1>1, <2>2, <2>3, <2>4 DEF CourseInv
<1>4. CASE UNCHANGED <<vars, history>>
  <2>1. /\ UNCHANGED <<courses, users, homeworks, judgestates, pc, inp, answer, crow, hrow>>
        /\ UNCHANGED <<cread, uread, lost>>
    BY <1>4 DEF vars, tables, locals, history
  <2>2. HistoryOK' /\ \A q \in Reqs : CopyOK(q)'
    BY <2>1 DEF CourseInv, HistoryOK, CopyOK, HoldsCourse
  <2>3. ListsInv'
    BY <2>1 DEF CourseInv, ListsInv, SameCourse, HwRowsOK, Past, ListOK, IsHw, HwOf, Creator, Inserted,
       Home, Unmade, InMaking, Made, Deletes, Deleting, HoldsHw, HoldsCourse
  <2> QED BY <1>1, <2>2, <2>3 DEF CourseInv
<1> QED BY <1>2, <1>3, <1>4 DEF RNext, Rest

LEMMA CourseAlways == RSpec => []CourseInv
<1>1. RInit => CourseInv
  BY ListsInit DEF CourseInv
<1> QED BY <1>1, CourseNext, PTL DEF RSpec

(* A course lists a homework exactly when the homework is there and its own, *)
(* unless the homework is just being made or deleted, whatever requests      *)
(* overlap; only a course row that was itself saved over the change of       *)
(* another request is excepted.  Along what a list may hold at all (Past)    *)
(* and what a row in memory keeps of the row that was read (CopyOK): a save  *)
(* over an unchanged row is as good as one statement (course.py,             *)
(* homework.py:46, notice.py).                                               *)
THEOREM ListsAreExact == RSpec => []HomeworksListed
<1>1. CourseInv => HomeworksListed
  <2> SUFFICES ASSUME CourseInv, NEW k \in CourseIds, NEW h \in HwIds,
                      courses[k] # None, <<"courses", k>> \notin lost,
                      ~\E r \in Reqs : /\ Active(r) /\ inp[r].kind \in {"hwcreate", "hwdelete"}
                                       /\ HwOf(r, inp[r]) = h
               PROVE  h \in courses[k].homeworks <=> homeworks[h] # None /\ homeworks[h].course = k
    BY DEF HomeworksListed
  <2>1. ~Deleting(h)
    BY DEF Deleting, Deletes, IsHw, HwOf, Active
  <2>2. ~InMaking(h)
    BY DEF InMaking, Creator, HwOf, Active
  <2>3. homeworks[h] # None => homeworks[h].course = Home(h)
    BY DEF CourseInv, ListsInv, HwRowsOK
  <2>4. /\ h \in courses[k].homeworks => homeworks[h] # None /\ Home(h) = k
        /\ h \notin courses[k].homeworks /\ homeworks[h] # None /\ Home(h) = k => FALSE
    BY <2>1, <2>2 DEF CourseInv, ListsInv, ListOK, Past
  <2> QED BY <2>3, <2>4
<1> QED BY <1>1, CourseAlways, PTL

-----------------------------------------------------------------------------
(* Rows of judgestates that are created and deleted one by one.             *)
LEMMA OneMore ==
    ASSUME NEW f, NEW ps, NEW p \in Problems, p \notin ps, f = Listed(ps, Problems)
    PROVE  [f EXCEPT ![p] = @ + 1] = Listed(ps \cup {p}, Problems)
<1>1. f[p] = 0
  BY DEF Listed
<1>2. f[p] + 1 = 1
  BY <1>1
<1>3. [f EXCEPT ![p] = 1] = Listed(ps \cup {p}, Problems)
  BY DEF Listed
<1> QED BY <1>2, <1>3

LEMMA OneLess ==
    ASSUME NEW f, NEW ps, NEW p \in Problems, f = Listed(ps, Problems)
    PROVE  [f EXCEPT ![p] = 0] = Listed(ps \ {p}, Problems)
BY DEF Listed

(* The requests that hold the row of homework h: updates and switches.      *)
Upd(q, h) == HoldsHw(q) /\ inp[q].kind = "hwupdate" /\ inp[q].hw = h
Sets(q, h) == HoldsHw(q) /\ inp[q].kind = "hwset" /\ inp[q].hw = h

(* The problems that have their judgestates row while q changes them.       *)
Built(q) == (inp[q].problems \ states[q].create) \cup states[q].delete

UpdateOK(q) ==
    HoldsHw(q) /\ inp[q].kind = "hwupdate" =>
        /\ hrow[q].problems = inp[q].problems
        /\ states[q].create \subseteq inp[q].problems
        /\ states[q].delete \cap inp[q].problems = {}
        /\ pc[q] = "savehw" => states[q].create = {} /\ states[q].delete = {}

(* An update is alone with its homework, which is not just being made.      *)
Sole(h) ==
    \A q \in Reqs : Upd(q, h) => /\ ~(Creator(h) /\ Active(h))
                                 /\ \A o \in Reqs : Upd(o, h) \/ Sets(o, h) => o = q
MakingOK(h) ==
    InMaking(h) => /\ homeworks[h].problems = inp[h].problems
                   /\ judgestates[h] = Listed(inp[h].problems \ states[h].create, Problems)
                   /\ states[h].create \subseteq inp[h].problems
                   /\ states[h].delete = {}
                   /\ pc[h] = "savecourse" => states[h].create = {}
(* A switch saves the problems that are there.                              *)
Switched(h) ==
    homeworks[h] # None =>
        \A q \in Reqs : Sets(q, h) => hrow[q].problems = homeworks[h].problems
RowsOK(h) ==
    homeworks[h] # None /\ Made(h) =>
        /\ (\A q \in Reqs : ~Upd(q, h)) => judgestates[h] = Listed(homeworks[h].problems, Problems)
        /\ \A q \in Reqs : Upd(q, h) =>
               /\ judgestates[h] = Listed(Built(q), Problems)
               /\ pc[q] = "caller" => Built(q) = homeworks[h].problems
Match(h) == h \notin twice => Sole(h) /\ MakingOK(h) /\ Switched(h) /\ RowsOK(h)

LEMMA OthersHold ==
    ASSUME Typed, NEW r \in Reqs, Serve(r), NEW q \in Reqs, q # r, NEW h
    PROVE  /\ Upd(q, h)' <=> Upd(q, h)
           /\ Sets(q, h)' <=> Sets(q, h)
           /\ hrow'[q] = hrow[q] /\ states'[q] = states[q] /\ pc'[q] = pc[q] /\ inp' = inp
<1>1. Alone(r)
  BY ServedAlone
<1> QED BY <1>1 DEF Alone, Upd, Sets, HoldsHw

LEMMA StatesLoopEnd ==
    ASSUME NEW r, NEW left, StatesLoop(r, left) \in {"savehw", "savecourse"}
    PROVE  left.create = {} /\ left.delete = {}
BY DEF StatesLoop

LEMMA UpdateServe ==
    ASSUME Typed, NEW r \in Reqs, Serve(r), \A q \in Reqs : UpdateOK(q), NEW q \in Reqs
    PROVE  UpdateOK(q)'
<1>1. Alone(r) /\ inp' = inp
  BY ServedAlone DEF Alone
<1>2. CASE q # r
  BY <1>1, <1>2 DEF Alone, UpdateOK, HoldsHw
<1>3. CASE q = r
  <2> SUFFICES ASSUME HoldsHw(r)', inp[r].kind = "hwupdate"
               PROVE  /\ hrow'[r].problems = inp[r].problems
                      /\ states'[r].create \subseteq inp[r].problems
                      /\ states'[r].delete \cap inp[r].problems = {}
                      /\ pc'[r] = "savehw" => states'[r].create = {} /\ states'[r].delete = {}
    BY <1>1, <1>3 DEF UpdateOK
  <2>1. IsHw(r) /\ inp[r].hw \in HwIds
    BY HwHeldStep
  <2>2. CASE ReadHw(r)
    <3>1. PICK row : row = homeworks[inp[r].hw]
      OBVIOUS
    <3>2. row \in HwRows
      BY <2>1, <2>2, <3>1 DEF ReadHw, Typed, TypeOK
    <3>3. UseForHwUpdate(r, row)
      BY <2>2, <3>1 DEF ReadHw, UseForSet, UseForHwDelete
    <3>4. /\ hrow'[r] = [row EXCEPT !.problems = inp[r].problems]
          /\ states'[r] = [create |-> inp[r].problems \ row.problems,
                           delete |-> row.problems \ inp[r].problems]
      BY <3>3 DEF UseForHwUpdate, Typed, TypeOK
    <3>5. pc'[r] = "caller"
      BY <2>1, <2>2, HwMoves
    <3> QED BY <3>2, <3>4, <3>5 DEF HwRows
  <2>3. CASE ~ReadHw(r)
    <3>1. HoldsHw(r) /\ hrow'[r] = hrow[r]
      BY <2>3, HwHeldStep
    <3>2. /\ hrow[r].problems = inp[r].problems
          /\ states[r].create \subseteq inp[r].problems
          /\ states[r].delete \cap inp[r].problems = {}
      BY <3>1 DEF UpdateOK
    <3>3. \/ Caller(r) \/ CreateState(r) \/ DeleteState(r)
      <4>1. pc'[r] # "done"
        BY DEF HoldsHw
      <4> QED BY <2>1, <2>3, <4>1, HwActs, HwMoves, HwPlaces DEF InsertHw, DeleteHw, ReadCourse, SaveCourse, At
    <3>4. pc'[r] = StatesLoop(r, states'[r])
      BY <2>1, <3>3, HwMoves DEF Caller, locals
    <3>5. states'[r].create \subseteq states[r].create /\ states'[r].delete \subseteq states[r].delete
      <4>1. CASE Caller(r)
        BY <4>1 DEF Caller, locals
      <4>2. CASE CreateState(r)
        <5>1. PICK p : states' = [states EXCEPT ![r].create = @ \ {p}]
          BY <4>2 DEF CreateState
        <5>2. states'[r].create = states[r].create \ {p} /\ states'[r].delete = states[r].delete
          BY <5>1 DEF Typed, TypeOK
        <5> QED BY <5>2
      <4>3. CASE DeleteState(r)
        <5>1. PICK p : states' = [states EXCEPT ![r].delete = @ \ {p}]
          BY <4>3 DEF DeleteState
        <5>2. states'[r].delete = states[r].delete \ {p} /\ states'[r].create = states[r].create
          BY <5>1 DEF Typed, TypeOK
        <5> QED BY <5>2
      <4> QED BY <3>3, <4>1, <4>2, <4>3
    <3> QED BY <3>1, <3>2, <3>4, <3>5, StatesLoopEnd
  <2> QED BY <2>2, <2>3
<1> QED BY <1>2, <1>3

(* A step that is not about a homework leaves its rows as they are.         *)
LEMMA MatchElsewhere ==
    ASSUME Typed, NEW r \in Reqs, Serve(r), NEW h \in HwIds, Match(h), twice \subseteq twice',
           ~(IsHw(r) /\ HwOf(r, inp[r]) = h)
    PROVE  Match(h)'
<1>1. Alone(r) /\ inp' = inp /\ OldHw \notin Reqs
  BY ServedAlone, CoursesAssumption DEF Alone
<1>2. homeworks'[h] = homeworks[h] /\ judgestates'[h] = judgestates[h]
  BY OwnHw
<1>3. ASSUME NEW q \in Reqs
      PROVE  /\ (Upd(q, h)' <=> Upd(q, h)) /\ (Sets(q, h)' <=> Sets(q, h))
             /\ Upd(q, h) \/ Sets(q, h) => hrow'[q] = hrow[q] /\ states'[q] = states[q] /\ pc'[q] = pc[q]
  <2>1. CASE q # r
    BY <2>1, OthersHold
  <2>2. CASE q = r
    <3>1. ~(HoldsHw(r) /\ inp[r].hw = h)
      <4> SUFFICES ASSUME HoldsHw(r), inp[r].hw = h PROVE FALSE
        OBVIOUS
      <4>1. inp[r].kind \in {"hwupdate", "hwset"} /\ inp[r] # None
        BY <1>1, InputFacts DEF Alone, Active, HoldsHw, KindsAt, Typed
      <4> QED BY <4>1 DEF IsHw, HwKinds, HwOf
    <3>2. ~(HoldsHw(r)' /\ inp[r].hw = h)
      <4> SUFFICES ASSUME HoldsHw(r)', inp[r].hw = h PROVE FALSE
        OBVIOUS
      <4>1. IsHw(r) /\ inp[r].kind \in {"hwupdate", "hwset"}
        BY HwHeldStep
      <4> QED BY <4>1 DEF HwOf
    <3> QED BY <1>1, <2>2, <3>1, <3>2 DEF Upd, Sets
  <2> QED BY <2>1, <2>2
<1>4. /\ Creator(h)' <=> Creator(h)
      /\ Creator(h) => pc'[h] = pc[h] /\ answer'[h] = answer[h] /\ states'[h] = states[h]
  <2>1. Creator(h) => h # r
    BY DEF Creator, IsHw, HwKinds, HwOf
  <2> QED BY <1>1, <2>1 DEF Alone, Creator
<1>5. Sole(h) => Sole(h)'
  BY <1>3, <1>4 DEF Sole, Active
<1>6. MakingOK(h) => MakingOK(h)'
  BY <1>1, <1>2, <1>4 DEF MakingOK, InMaking
<1>7. Switched(h) => Switched(h)'
  BY <1>2, <1>3 DEF Switched
<1>8. RowsOK(h) => RowsOK(h)'
  <2>1. Made(h)' <=> Made(h)
    BY <1>4 DEF Made
  <2>2. \A q \in Reqs : Upd(q, h) => Built(q)' = Built(q)
    BY <1>1, <1>3 DEF Built
  <2> QED BY <1>2, <1>3, <2>1, <2>2 DEF RowsOK
<1> QED BY <1>5, <1>6, <1>7, <1>8 DEF Match

(* A homework that is being made.                                           *)
LEMMA MatchCreate ==
    ASSUME Typed, HwRowsOK, NEW r \in Reqs, Serve(r), NEW h \in HwIds, Match(h), twice \subseteq twice',
           IsHw(r), inp[r].kind = "hwcreate", h = r
    PROVE  Match(h)'
<1> SUFFICES ASSUME h \notin twice' PROVE Sole(h)' /\ MakingOK(h)' /\ Switched(h)' /\ RowsOK(h)'
  BY DEF Match
<1>1. /\ Alone(r) /\ inp' = inp /\ Active(r) /\ h \in Reqs /\ OldHw \notin Reqs /\ TypeOK
      /\ Sole(h) /\ MakingOK(h) /\ Switched(h)
  BY ServedAlone, CoursesAssumption DEF Alone, Match, Typed
<1>2. Creator(h) /\ HwOf(r, inp[r]) = h
  BY <1>1 DEF Creator, IsHw, HwOf
<1>3. \A q \in Reqs : ~Upd(q, h)
  BY <1>1, <1>2 DEF Sole, Active
<1>4. \A q \in Reqs : /\ ~Upd(q, h)'
                      /\ Sets(q, h)' => Sets(q, h) /\ hrow'[q] = hrow[q]
  <2>1. ~Upd(r, h)' /\ ~Sets(r, h)'
    BY <1>1 DEF Upd, Sets
  <2> QED BY <1>3, <2>1, OthersHold
<1>5. Sole(h)'
  BY <1>4 DEF Sole
<1>6. homeworks'[h] = homeworks[h] => Switched(h)'
  BY <1>1, <1>4 DEF Switched
<1>7. ~Made(h)' => RowsOK(h)'
  BY DEF RowsOK
<1>8. pc'[h] # "done" \/ answer'[h] # "ok" => ~Made(h)'
  BY <1>1 DEF Made
<1>9. CASE GivesUp(r)
  <2>1. homeworks'[h] = homeworks[h] /\ answer'[h] = "failed" /\ pc'[h] = "done"
    BY <1>1, <1>9 DEF GivesUp, Fail, Finish, tables, TypeOK
  <2>2. ~InMaking(h)'
    BY <2>1 DEF InMaking
  <2> QED BY <1>5, <1>6, <1>7, <1>8, <2>1, <2>2 DEF MakingOK
<1>10. CASE Caller(r)
  <2>1. homeworks'[h] = homeworks[h] /\ pc'[h] = "inserthw"
    BY <1>10, HwMoves DEF Caller, tables
  <2>2. ~InMaking(h)'
    BY <2>1 DEF InMaking
  <2> QED BY <1>5, <1>6, <1>7, <1>8, <2>1, <2>2 DEF MakingOK
<1>11. CASE InsertHw(r)
  <2>1. /\ homeworks'[h] = [course |-> inp[r].course, problems |-> inp[r].problems, open |-> 1]
        /\ states'[h] = [create |-> inp[r].problems, delete |-> {}]
        /\ judgestates' = judgestates /\ pc[h] = "inserthw" /\ pc'[h] = "readcourse"
    BY <1>1, <1>11, HwMoves DEF InsertHw, At, TypeOK
  <2>2. Unmade(h)
    BY <2>1 DEF Unmade
  <2>3. judgestates[h] = Listed({}, Problems) /\ \A q \in Reqs : ~Sets(q, h)
    BY <1>1, <2>2 DEF HwRowsOK, Sets
  <2>4. inp[h].problems \ states'[h].create = {}
    BY <2>1
  <2>5. MakingOK(h)'
    BY <1>1, <2>1, <2>3, <2>4 DEF MakingOK
  <2>6. Switched(h)'
    BY <1>4, <2>3 DEF Switched
  <2> QED BY <1>5, <1>7, <1>8, <2>1, <2>5, <2>6
<1>12. CASE ReadCourse(r)
  <2>1. /\ homeworks' = homeworks /\ judgestates' = judgestates /\ states' = states
        /\ pc[h] = "readcourse" /\ pc'[h] = StatesLoop(r, states[r])
    BY <1>12, HwMoves DEF ReadCourse, tables
  <2>2. InMaking(h) /\ pc'[h] # "done"
    BY <1>2, <2>1 DEF InMaking, StatesLoop
  <2>3. pc'[h] = "savecourse" => states'[h].create = {}
    <3>1. PICK left : left = states[r]
      OBVIOUS
    <3> QED BY <2>1, <3>1 DEF StatesLoop
  <2>4. MakingOK(h)'
    BY <1>1, <2>1, <2>2, <2>3 DEF MakingOK
  <2> QED BY <1>5, <1>6, <1>7, <1>8, <2>1, <2>2, <2>4
<1>13. CASE CreateState(r)
  <2>1. PICK p \in states[r].create :
           /\ judgestates' = [judgestates EXCEPT ![HwOf(r, inp[r])][p] = @ + 1]
           /\ states' = [states EXCEPT ![r].create = @ \ {p}]
    BY <1>13 DEF CreateState
  <2>2. /\ homeworks' = homeworks /\ pc[h] = "states" /\ pc'[h] = StatesLoop(r, states'[r])
    BY <1>13, HwMoves DEF CreateState
  <2>3. InMaking(h) /\ pc'[h] # "done"
    BY <1>2, <2>2 DEF InMaking, StatesLoop
  <2>4. /\ homeworks[h].problems = inp[h].problems
        /\ judgestates[h] = Listed(inp[h].problems \ states[h].create, Problems)
        /\ states[h].create \subseteq inp[h].problems
        /\ states[h].delete = {}
    BY <1>1, <2>3 DEF MakingOK
  <2>5. /\ states'[h].create = states[h].create \ {p} /\ states'[h].delete = states[h].delete
        /\ p \in Problems
    BY <1>1, <2>1 DEF TypeOK
  <2>6. judgestates'[h] = [judgestates[h] EXCEPT ![p] = @ + 1]
    BY <1>1, <1>2, <2>1 DEF TypeOK
  <2>7. judgestates'[h] = Listed((inp[h].problems \ states[h].create) \cup {p}, Problems)
    <3>1. PICK ps : ps = inp[h].problems \ states[h].create
      OBVIOUS
    <3>2. p \notin ps /\ judgestates[h] = Listed(ps, Problems)
      BY <2>1, <2>4, <3>1
    <3>3. PICK f : f = judgestates[h]
      OBVIOUS
    <3>4. [f EXCEPT ![p] = @ + 1] = Listed(ps \cup {p}, Problems)
      BY <2>5, <3>2, <3>3, OneMore
    <3> QED BY <2>6, <3>1, <3>3, <3>4
  <2>8. (inp[h].problems \ states[h].create) \cup {p} = inp[h].problems \ states'[h].create
    BY <2>1, <2>4, <2>5
  <2>9. pc'[h] = "savecourse" => states'[h].create = {}
    <3>1. PICK left : left = states'[r]
      OBVIOUS
    <3> QED BY <2>2, <3>1 DEF StatesLoop
  <2>10. MakingOK(h)'
    BY <1>1, <2>2, <2>4, <2>5, <2>7, <2>8, <2>9 DEF MakingOK
  <2> QED BY <1>5, <1>6, <1>7, <1>8, <2>2, <2>3, <2>10
<1>14. CASE SaveCourse(r)
  <2>1. /\ homeworks' = homeworks /\ judgestates' = judgestates
        /\ pc[h] = "savecourse" /\ pc'[h] = "done"
    BY <1>14, HwMoves DEF SaveCourse
  <2>2. InMaking(h) /\ ~InMaking(h)'
    BY <1>2, <2>1 DEF InMaking
  <2>3. judgestates[h] = Listed(homeworks[h].problems, Problems)
    <3>1. /\ homeworks[h].problems = inp[h].problems /\ states[h].create = {}
          /\ judgestates[h] = Listed(inp[h].problems \ states[h].create, Problems)
      BY <1>1, <2>1, <2>2 DEF MakingOK
    <3>2. inp[h].problems \ states[h].create = inp[h].problems
      BY <3>1
    <3> QED BY <3>1, <3>2
  <2>4. RowsOK(h)'
    BY <1>4, <2>1, <2>3 DEF RowsOK
  <2> QED BY <1>5, <1>6, <2>1, <2>2, <2>4 DEF MakingOK
<1> QED BY <1>2, <1>9, <1>10, <1>11, <1>12, <1>13, <1>14, HwActs, HwPlaces
       DEF ReadHw, SaveHw, DeleteHw, DeleteState, At

(* A homework that is being deleted.                                        *)
LEMMA MatchDelete ==
    ASSUME Typed, Past, NEW r \in Reqs, Serve(r), NEW h \in HwIds, Match(h), twice \subseteq twice',
           IsHw(r), inp[r].kind = "hwdelete", h = inp[r].hw
    PROVE  Match(h)'
<1> SUFFICES ASSUME h \notin twice' PROVE Sole(h)' /\ MakingOK(h)' /\ Switched(h)' /\ RowsOK(h)'
  BY DEF Match
<1>1. /\ Alone(r) /\ inp' = inp /\ Active(r) /\ OldHw \notin Reqs /\ TypeOK
      /\ Sole(h) /\ MakingOK(h) /\ Switched(h) /\ RowsOK(h)
  BY ServedAlone, CoursesAssumption DEF Alone, Match, Typed
<1>2. /\ Creator(h)' <=> Creator(h)
      /\ Creator(h) => /\ pc'[h] = pc[h] /\ answer'[h] = answer[h] /\ states'[h] = states[h]
  <2>1. Creator(h) => h # r
    BY DEF Creator
  <2> QED BY <1>1, <2>1 DEF Alone, Creator
<1>3. ASSUME NEW q \in Reqs
      PROVE  /\ (Upd(q, h)' <=> Upd(q, h)) /\ (Sets(q, h)' <=> Sets(q, h))
             /\ Upd(q, h) \/ Sets(q, h) => hrow'[q] = hrow[q] /\ states'[q] = states[q] /\ pc'[q] = pc[q]
  <2>1. CASE q # r
    BY <2>1, OthersHold
  <2>2. CASE q = r
    BY <1>1, <2>2 DEF Upd, Sets
  <2> QED BY <2>1, <2>2
<1>4. Sole(h)'
  BY <1>1, <1>2, <1>3 DEF Sole, Active
<1>5. judgestates' = judgestates
  BY HwActs, HwPlaces DEF GivesUp, Fail, Caller, InsertHw, ReadHw, SaveHw, DeleteHw, CreateState,
     DeleteState, ReadCourse, SaveCourse, At, tables
<1>6. \/ homeworks'[h] = homeworks[h]
      \/ homeworks'[h] = None /\ pc[r] = "deletehw"
  <2>1. ~InsertHw(r) /\ ~SaveHw(r)
    BY HwPlaces DEF InsertHw, SaveHw, At
  <2> QED BY <2>1, HomeworkStep
<1>7. MakingOK(h)'
  <2>1. pc[r] = "deletehw" => ~InMaking(h)
    BY <1>1 DEF Past, Deletes, Made, InMaking, Creator
  <2> QED BY <1>1, <1>2, <1>5, <1>6, <2>1 DEF MakingOK, InMaking
<1>8. Switched(h)'
  BY <1>1, <1>3, <1>6 DEF Switched
<1>9. RowsOK(h)'
  <2>1. Made(h)' <=> Made(h)
    BY <1>2 DEF Made
  <2>2. \A q \in Reqs : Upd(q, h) => Built(q)' = Built(q)
    BY <1>1, <1>3 DEF Built
  <2> QED BY <1>1, <1>3, <1>5, <1>6, <2>1, <2>2 DEF RowsOK
<1> QED BY <1>4, <1>7, <1>8, <1>9

(* A switch of a homework.                                                  *)
LEMMA MatchSet ==
    ASSUME Typed, NEW r \in Reqs, RServe(r), NEW h \in HwIds, Match(h), twice \subseteq twice',
           IsHw(r), inp[r].kind = "hwset", h = inp[r].hw
    PROVE  Match(h)'
<1> SUFFICES ASSUME h \notin twice' PROVE Sole(h)' /\ MakingOK(h)' /\ Switched(h)' /\ RowsOK(h)'
  BY DEF Match
<1>1. /\ Alone(r) /\ inp' = inp /\ Active(r) /\ OldHw \notin Reqs /\ TypeOK /\ Serve(r)
      /\ Sole(h) /\ MakingOK(h) /\ Switched(h) /\ RowsOK(h)
  BY ServedAlone, Served, CoursesAssumption DEF Alone, Match, Typed
<1>2. /\ Creator(h)' <=> Creator(h)
      /\ Creator(h) => /\ pc'[h] = pc[h] /\ answer'[h] = answer[h] /\ states'[h] = states[h]
  <2>1. Creator(h) => h # r
    BY DEF Creator
  <2> QED BY <1>1, <2>1 DEF Alone, Creator
<1>3. ASSUME NEW q \in Reqs
      PROVE  /\ Upd(q, h)' <=> Upd(q, h)
             /\ Upd(q, h) => states'[q] = states[q] /\ pc'[q] = pc[q]
             /\ q # r => (Sets(q, h)' <=> Sets(q, h)) /\ hrow'[q] = hrow[q]
  <2>1. CASE q # r
    BY <1>1, <2>1, OthersHold
  <2>2. CASE q = r
    BY <1>1, <2>2 DEF Upd
  <2> QED BY <2>1, <2>2
<1>4. judgestates' = judgestates
  BY <1>1, HwActs, HwPlaces DEF GivesUp, Fail, Caller, InsertHw, ReadHw, SaveHw, DeleteHw, CreateState,
     DeleteState, ReadCourse, SaveCourse, At, tables
<1>5. \/ ~SaveHw(r) /\ homeworks'[h] = homeworks[h]
      \/ /\ SaveHw(r) /\ HoldsHw(r) /\ homeworks'[h] \in {homeworks[h], hrow[r]}
         /\ homeworks[h] = None => homeworks'[h] = None
  <2>1. ~InsertHw(r) /\ ~DeleteHw(r)
    BY <1>1, HwPlaces DEF InsertHw, DeleteHw, At
  <2>2. SaveHw(r) => HoldsHw(r)
    BY DEF SaveHw, HoldsHw
  <2> QED BY <1>1, <2>1, <2>2, HomeworkStep
(* The problems stay.                                                       *)
<1>6. homeworks'[h] # None => /\ homeworks[h] # None
                              /\ homeworks'[h].problems = homeworks[h].problems
  <2>1. HoldsHw(r) => Sets(r, h)
    BY DEF Sets
  <2> QED BY <1>1, <1>5, <2>1 DEF Switched
<1>7. Sets(r, h)' => \/ Sets(r, h) /\ hrow'[r] = hrow[r] /\ ~ReadHw(r)
                     \/ ReadHw(r) /\ homeworks[h] # None /\ hrow'[r].problems = homeworks[h].problems
  <2> SUFFICES ASSUME HoldsHw(r)' PROVE \/ HoldsHw(r) /\ hrow'[r] = hrow[r] /\ ~ReadHw(r)
                                        \/ ReadHw(r) /\ homeworks[h] # None /\ hrow'[r].problems = homeworks[h].problems
    BY <1>1 DEF Sets
  <2>1. CASE ReadHw(r)
    <3>1. PICK row : row = homeworks[h]
      OBVIOUS
    <3>2. row \in HwRows /\ row # None
      BY <1>1, <2>1, <3>1 DEF ReadHw, TypeOK
    <3>3. hrow'[r] = [row EXCEPT !.open = 1 - @]
      BY <1>1, <2>1, <3>1 DEF ReadHw, UseForSet, UseForHwUpdate, UseForHwDelete, TypeOK
    <3>4. hrow'[r].problems = row.problems
      BY <3>2, <3>3 DEF HwRows
    <3> QED BY <2>1, <3>1, <3>2, <3>4
  <2> QED BY <1>1, <2>1, HwHeldStep
<1>8. ReadHw(r) => \A q \in Reqs : ~Upd(q, h)
  <2> SUFFICES ASSUME ReadHw(r), NEW q \in Reqs, Upd(q, h) PROVE FALSE
    OBVIOUS
  <2>1. RReadHw(r)
    BY Watched DEF ReadHw, GivesUp, RGivesUp, RReadHw
  <2>2. q \in Rewriting(h) /\ inp[q].kind = "hwupdate"
    BY DEF Upd, HoldsHw, Rewriting
  <2>3. h \in twice'
    BY <2>1, <2>2 DEF RReadHw
  <2> QED BY <2>3
<1>9. Sole(h)'
  <2> SUFFICES ASSUME NEW q \in Reqs, Upd(q, h)
               PROVE  /\ ~(Creator(h) /\ Active(h))'
                      /\ \A o \in Reqs : Upd(o, h)' \/ Sets(o, h)' => o = q
    BY <1>3 DEF Sole
  <2>1. ~(Creator(h) /\ Active(h)) /\ \A o \in Reqs : Upd(o, h) \/ Sets(o, h) => o = q
    BY <1>1 DEF Sole
  <2>2. ~Sets(r, h)' \/ Sets(r, h)
    BY <1>7, <1>8
  <2> QED BY <1>2, <1>3, <2>1, <2>2 DEF Active
<1>10. MakingOK(h)'
  <2>1. InMaking(h)' => InMaking(h) /\ h \in Reqs
    BY <1>2 DEF InMaking, Creator
  <2>2. InMaking(h) => homeworks'[h].problems = homeworks[h].problems
    <3>1. CASE homeworks'[h] = homeworks[h]
      BY <3>1
    <3>2. CASE SaveHw(r) /\ HoldsHw(r) /\ homeworks[h] # None /\ homeworks'[h] = hrow[r]
      BY <1>1, <3>2 DEF Switched, Sets
    <3> QED BY <1>5, <3>1, <3>2
  <2> QED BY <1>1, <1>2, <1>4, <2>1, <2>2 DEF MakingOK, InMaking
<1>11. Switched(h)'
  <2> SUFFICES ASSUME homeworks'[h] # None, NEW q \in Reqs, Sets(q, h)'
               PROVE  hrow'[q].problems = homeworks[h].problems
    BY <1>6 DEF Switched
  <2>1. homeworks[h] # None
    BY <1>6
  <2>2. CASE q # r
    BY <1>1, <1>3, <2>1, <2>2 DEF Switched
  <2>3. CASE q = r
    BY <1>1, <1>7, <2>1, <2>3 DEF Switched
  <2> QED BY <2>2, <2>3
<1>12. RowsOK(h)'
  <2>1. Made(h)' <=> Made(h)
    BY <1>2 DEF Made
  <2>2. \A q \in Reqs : Upd(q, h) => Built(q)' = Built(q)
    BY <1>1, <1>3 DEF Built
  <2> QED BY <1>1, <1>3, <1>4, <1>6, <2>1, <2>2 DEF RowsOK
<1> QED BY <1>9, <1>10, <1>11, <1>12

(* An update of a homework.                                                 *)
LEMMA MatchUpdate ==
    ASSUME Typed, HwRowsOK, NEW r \in Reqs, RServe(r), NEW h \in HwIds, Match(h), twice \subseteq twice',
           UpdateOK(r), IsHw(r), inp[r].kind = "hwupdate", h = inp[r].hw
    PROVE  Match(h)'
<1> SUFFICES ASSUME h \notin twice' PROVE Sole(h)' /\ MakingOK(h)' /\ Switched(h)' /\ RowsOK(h)'
  BY DEF Match
<1>1. /\ Alone(r) /\ inp' = inp /\ Active(r) /\ OldHw \notin Reqs /\ TypeOK /\ Serve(r)
      /\ Sole(h) /\ MakingOK(h) /\ Switched(h) /\ RowsOK(h) /\ HwOf(r, inp[r]) = h
  BY ServedAlone, Served, CoursesAssumption DEF Alone, Match, Typed, HwOf
<1>2. /\ Creator(h)' <=> Creator(h)
      /\ Creator(h) => /\ pc'[h] = pc[h] /\ answer'[h] = answer[h] /\ states'[h] = states[h]
  <2>1. Creator(h) => h # r
    BY DEF Creator
  <2> QED BY <1>1, <2>1 DEF Alone, Creator
<1>3. ASSUME NEW q \in Reqs
      PROVE  /\ Sets(q, h)' <=> Sets(q, h)
             /\ Sets(q, h) => hrow'[q] = hrow[q]
             /\ q # r => (Upd(q, h)' <=> Upd(q, h))
             /\ q # r => pc'[q] = pc[q] /\ states'[q] = states[q]
  <2>1. CASE q # r
    BY <1>1, <2>1, OthersHold
  <2>2. CASE q = r
    BY <1>1, <2>2 DEF Sets
  <2> QED BY <2>1, <2>2
<1>4. Made(h)' <=> Made(h)
  BY <1>2 DEF Made
(* Reading the row: nobody else has it, and nobody is making it.            *)
<1>5. CASE ReadHw(r)
  <2>1. RReadHw(r)
    BY <1>5, Watched DEF ReadHw, GivesUp, RGivesUp, RReadHw
  <2>2. Making(h) = {} /\ Rewriting(h) = {}
    BY <2>1 DEF RReadHw
  <2>3. \A q \in Reqs : ~Upd(q, h) /\ ~Sets(q, h)
    BY <2>2 DEF Upd, Sets, HoldsHw, Rewriting
  <2>4. ~(Creator(h) /\ Active(h))
    BY <2>2 DEF Making, Creator
  <2>5. Sole(h)'
    BY <1>2, <1>3, <2>3, <2>4 DEF Sole, Active
  <2>6. ~InMaking(h)'
    BY <1>2, <2>4 DEF InMaking, Active
  <2>7. PICK row : row = homeworks[h]
    OBVIOUS
  <2>8. UseForHwUpdate(r, row) /\ row # None /\ homeworks' = homeworks /\ judgestates' = judgestates
    BY <1>1, <1>5, <2>7 DEF ReadHw, UseForSet, UseForHwDelete, tables
  <2>9. states'[r] = [create |-> inp[r].problems \ row.problems,
                      delete |-> row.problems \ inp[r].problems]
    BY <1>1, <2>8 DEF UseForHwUpdate, TypeOK
  <2>10. Built(r)' = row.problems
    BY <1>1, <2>9 DEF Built
  <2>11. RowsOK(h)'
    <3>1. Made(h) => judgestates[h] = Listed(homeworks[h].problems, Problems)
      BY <1>1, <2>3, <2>7, <2>8 DEF RowsOK
    <3>2. Upd(r, h)'
      <4>1. pc'[r] = "caller"
        BY <1>1, <1>5, HwMoves
      <4> QED BY <1>1, <4>1 DEF Upd, HoldsHw
    <3>3. \A q \in Reqs : Upd(q, h)' => q = r
      BY <1>3, <2>3
    <3> QED BY <1>4, <2>7, <2>8, <2>10, <3>1, <3>2, <3>3 DEF RowsOK
  <2>12. Switched(h)'
    BY <1>3, <2>3 DEF Switched
  <2> QED BY <2>5, <2>6, <2>11, <2>12 DEF MakingOK
(* A refusal before the row is read.                                        *)
<1>6. CASE pc[r] = "readhw" /\ ~ReadHw(r)
  <2>1. GivesUp(r) /\ ~HoldsHw(r)
    BY <1>1, <1>6, HwActs
    DEF Caller, InsertHw, SaveHw, DeleteHw, CreateState, DeleteState, ReadCourse, SaveCourse, At, HoldsHw
  <2>2. UNCHANGED <<homeworks, judgestates>> /\ ~HoldsHw(r)'
    BY <1>1, <2>1, HwMoves DEF GivesUp, Fail, tables, HoldsHw
  <2>3. \A q \in Reqs : /\ Upd(q, h)' <=> Upd(q, h)
                        /\ Upd(q, h) => states'[q] = states[q] /\ pc'[q] = pc[q]
    BY <1>3, <2>1, <2>2 DEF Upd
  <2>4. Sole(h)'
    BY <1>1, <1>2, <1>3, <2>3 DEF Sole, Active
  <2>5. MakingOK(h)'
    BY <1>1, <1>2, <2>2 DEF MakingOK, InMaking
  <2>6. Switched(h)'
    BY <1>1, <1>3, <2>2 DEF Switched
  <2>7. \A q \in Reqs : Upd(q, h) => Built(q)' = Built(q)
    BY <1>1, <2>3 DEF Built
  <2>8. RowsOK(h)'
    BY <1>1, <1>4, <2>2, <2>3, <2>7 DEF RowsOK
  <2> QED BY <2>4, <2>5, <2>6, <2>8
(* The update at work.                                                      *)
<1>7. CASE pc[r] # "readhw"
  <2>1. HoldsHw(r) /\ Upd(r, h)
    <3>1. pc[r] \in {"caller", "states", "savehw"}
      BY <1>1, <1>7, HwPlaces DEF Active
    <3> QED BY <3>1 DEF HoldsHw, Upd
  <2>2. /\ ~(Creator(h) /\ Active(h))
        /\ \A o \in Reqs : Upd(o, h) \/ Sets(o, h) => o = r
    BY <1>1, <2>1 DEF Sole
  <2>3. \A o \in Reqs : Upd(o, h)' \/ Sets(o, h)' => o = r
    BY <1>3, <2>2
  <2>4. Sole(h)'
    BY <1>2, <2>2, <2>3 DEF Sole, Active
  <2>5. MakingOK(h)'
    <3>1. ~InMaking(h)'
      BY <1>2, <2>2 DEF InMaking, Active
    <3> QED BY <3>1 DEF MakingOK
  <2>6. \A q \in Reqs : ~Sets(q, h)'
    <3>1. ~Sets(r, h)
      BY DEF Sets
    <3> QED BY <1>3, <2>2, <3>1
  <2>7. Switched(h)'
    BY <2>6 DEF Switched
  <2>8. /\ hrow[r].problems = inp[r].problems
        /\ states[r].create \subseteq inp[r].problems
        /\ states[r].delete \cap inp[r].problems = {}
        /\ pc[r] = "savehw" => states[r].create = {} /\ states[r].delete = {}
    BY <2>1 DEF UpdateOK
  <2>9. homeworks'[h] # None => homeworks[h] # None
    <3>1. ~InsertHw(r)
      BY DEF InsertHw, At
    <3> QED BY <1>1, <3>1, HomeworkStep
  <2> SUFFICES ASSUME homeworks'[h] # None, Made(h)
               PROVE  /\ ~Upd(r, h)' => judgestates'[h] = Listed(homeworks'[h].problems, Problems)
                      /\ Upd(r, h)' => /\ judgestates'[h] = Listed(Built(r)', Problems)
                                       /\ pc'[r] # "caller"
    BY <1>4, <2>3, <2>4, <2>5, <2>7 DEF RowsOK
  <2>10. judgestates[h] = Listed(Built(r), Problems)
         /\ (pc[r] = "caller" => Built(r) = homeworks[h].problems)
    BY <1>1, <2>1, <2>9 DEF RowsOK
  <2>11. CASE GivesUp(r)
    <3>1. pc[r] = "caller" /\ pc'[r] = "done" /\ UNCHANGED <<homeworks, judgestates>>
      BY <1>1, <1>7, <2>11, HwMoves, HwPlaces DEF GivesUp, Fail, tables
    <3>2. ~Upd(r, h)'
      BY <3>1 DEF Upd, HoldsHw
    <3> QED BY <2>10, <3>1, <3>2
  <2>12. CASE Caller(r)
    <3>1. pc[r] = "caller" /\ pc'[r] \in {"states", "savehw"} /\ UNCHANGED <<homeworks, judgestates, states>>
      BY <1>1, <2>12, HwMoves DEF Caller, StatesLoop, tables, locals
    <3>2. Upd(r, h)' /\ Built(r)' = Built(r)
      BY <1>1, <3>1 DEF Upd, HoldsHw, Built
    <3> QED BY <2>10, <3>1, <3>2
  <2>13. CASE CreateState(r)
    <3>1. PICK p \in states[r].create :
             /\ judgestates' = [judgestates EXCEPT ![h][p] = @ + 1]
             /\ states' = [states EXCEPT ![r].create = @ \ {p}]
      BY <1>1, <2>13 DEF CreateState
    <3>2. /\ states'[r].create = states[r].create \ {p} /\ states'[r].delete = states[r].delete
          /\ p \in Problems /\ p \in inp[r].problems /\ p \notin states[r].delete
      BY <1>1, <2>8, <3>1 DEF TypeOK
    <3>3. judgestates'[h] = [judgestates[h] EXCEPT ![p] = @ + 1]
      BY <1>1, <3>1 DEF TypeOK
    <3>4. p \notin Built(r) /\ Built(r)' = Built(r) \cup {p}
      BY <1>1, <3>1, <3>2 DEF Built
    <3>5. PICK f : f = judgestates[h]
      OBVIOUS
    <3>6. [f EXCEPT ![p] = @ + 1] = Listed(Built(r) \cup {p}, Problems)
      BY <2>10, <3>2, <3>4, <3>5, OneMore
    <3>7. pc'[r] \in {"states", "savehw"}
      BY <1>1, <2>13, HwMoves DEF StatesLoop
    <3>8. Upd(r, h)'
      BY <1>1, <3>7 DEF Upd, HoldsHw
    <3> QED BY <3>3, <3>4, <3>5, <3>6, <3>7, <3>8
  <2>14. CASE DeleteState(r)
    <3>1. PICK p \in states[r].delete :
             /\ judgestates' = [judgestates EXCEPT ![h][p] = 0]
             /\ states' = [states EXCEPT ![r].delete = @ \ {p}]
      BY <1>1, <2>14 DEF DeleteState
    <3>2. /\ states'[r].delete = states[r].delete \ {p} /\ states'[r].create = states[r].create
          /\ p \in Problems /\ p \notin inp[r].problems
      BY <1>1, <2>8, <3>1 DEF TypeOK
    <3>3. judgestates'[h] = [judgestates[h] EXCEPT ![p] = 0]
      BY <1>1, <3>1 DEF TypeOK
    <3>4. Built(r)' = Built(r) \ {p}
      BY <1>1, <3>1, <3>2 DEF Built
    <3>5. PICK f : f = judgestates[h]
      OBVIOUS
    <3>6. [f EXCEPT ![p] = 0] = Listed(Built(r) \ {p}, Problems)
      BY <2>10, <3>2, <3>5, OneLess
    <3>7. pc'[r] \in {"states", "savehw"}
      BY <1>1, <2>14, HwMoves DEF StatesLoop
    <3>8. Upd(r, h)'
      BY <1>1, <3>7 DEF Upd, HoldsHw
    <3> QED BY <3>3, <3>4, <3>5, <3>6, <3>7, <3>8
  <2>15. CASE SaveHw(r)
    <3>1. pc[r] = "savehw" /\ pc'[r] = "done" /\ judgestates' = judgestates /\ homeworks'[h] = hrow[r]
      BY <1>1, <2>9, <2>15, HwMoves DEF SaveHw, TypeOK
    <3>2. ~Upd(r, h)'
      BY <3>1 DEF Upd, HoldsHw
    <3>3. Built(r) = inp[r].problems
      BY <2>8, <3>1 DEF Built
    <3> QED BY <2>8, <2>10, <3>1, <3>2, <3>3
  <2> QED BY <1>1, <1>7, <2>11, <2>12, <2>13, <2>14, <2>15, HwActs, HwPlaces
         DEF InsertHw, ReadHw, DeleteHw, ReadCourse, SaveCourse, At
<1> QED BY <1>5, <1>6, <1>7

StatesInv == (\A q \in Reqs : UpdateOK(q)) /\ \A h \in HwIds : Match(h)

LEMMA StatesServe ==
    ASSUME CourseInv, StatesInv, NEW r \in Reqs, RServe(r)
    PROVE  StatesInv'
<1>1. /\ Typed /\ HwRowsOK /\ Past /\ Serve(r) /\ twice \subseteq twice' /\ UpdateOK(r)
  BY Served, Remembered DEF CourseInv, ListsInv, StatesInv
<1>2. \A q \in Reqs : UpdateOK(q)'
  BY <1>1, UpdateServe DEF StatesInv
<1>3. ASSUME NEW h \in HwIds PROVE Match(h)'
  <2>1. Match(h)
    BY DEF StatesInv
  <2>2. CASE ~(IsHw(r) /\ HwOf(r, inp[r]) = h)
    BY <1>1, <2>1, <2>2, MatchElsewhere
  <2>3. CASE IsHw(r) /\ HwOf(r, inp[r]) = h
    <3>1. CASE inp[r].kind = "hwcreate"
      <4>1. h = r
        BY <2>3, <3>1 DEF HwOf
      <4> QED BY <1>1, <2>1, <2>3, <3>1, <4>1, MatchCreate
    <3>2. CASE inp[r].kind # "hwcreate"
      <4>1. h = inp[r].hw /\ inp[r].kind \in {"hwdelete", "hwset", "hwupdate"}
        BY <2>3, <3>2 DEF HwOf, IsHw, HwKinds
      <4> QED BY <1>1, <2>1, <2>3, <4>1, MatchDelete, MatchSet, MatchUpdate
    <3> QED BY <3>1, <3>2
  <2> QED BY <2>2, <2>3
<1> QED BY <1>2, <1>3 DEF StatesInv

LEMMA StatesArrive ==
    ASSUME CourseInv, StatesInv, NEW r \in Reqs, NEW c \in Inputs, Arrive(r, c), twice' = twice
    PROVE  StatesInv'
<1>1. /\ pc[r] = "new" /\ inp[r] = None /\ inp'[r] = c
      /\ UNCHANGED <<homeworks, judgestates, hrow, states>>
      /\ ~HoldsHw(r)' /\ ~HoldsHw(r)
      /\ \A q \in Reqs : q # r => /\ inp'[q] = inp[q] /\ pc'[q] = pc[q]
                                  /\ HoldsHw(q)' = HoldsHw(q)
  BY Arrives DEF tables, locals, CourseInv
<1>2. /\ Unmade(r) /\ ~InMaking(r)' /\ ~Made(r)'
      /\ \A h \in HwIds : h # r => InMaking(h)' = InMaking(h) /\ Made(h)' = Made(h)
  BY ArriveNames DEF CourseInv
<1>3. \A q \in Reqs : UpdateOK(q)'
  BY <1>1 DEF UpdateOK, StatesInv
<1>4. ASSUME NEW h \in HwIds, h \notin twice PROVE Sole(h)' /\ MakingOK(h)' /\ Switched(h)' /\ RowsOK(h)'
  <2>1. Sole(h) /\ MakingOK(h) /\ Switched(h) /\ RowsOK(h)
    BY <1>4 DEF StatesInv, Match
  <2>2. \A q \in Reqs : /\ (Upd(q, h)' <=> Upd(q, h)) /\ (Sets(q, h)' <=> Sets(q, h))
                        /\ Upd(q, h) => q # r
    BY <1>1 DEF Upd, Sets
  <2>3. CASE h = r
    <3>1. \A q \in Reqs : ~Upd(q, h)
      <4> SUFFICES ASSUME NEW q \in Reqs, HoldsHw(q), inp[q].hw = h PROVE FALSE
        BY DEF Upd
      <4>1. h = OldHw \/ ~Unmade(h)
        BY DEF CourseInv, ListsInv, HwRowsOK
      <4> QED BY <1>2, <2>3, <4>1, CoursesAssumption
    <3>2. Sole(h)'
      BY <2>2, <3>1 DEF Sole
    <3>3. Switched(h)'
      BY <1>1, <2>1, <2>2 DEF Switched
    <3> QED BY <1>2, <2>3, <3>2, <3>3 DEF MakingOK, RowsOK
  <2>4. CASE h # r
    <3>1. (Creator(h) /\ Active(h))' <=> Creator(h) /\ Active(h)
      BY <1>1, <2>4 DEF Creator, Active
    <3>2. Sole(h)'
      BY <2>1, <2>2, <3>1 DEF Sole
    <3>3. InMaking(h) => h \in Reqs
      BY DEF InMaking, Creator
    <3>4. MakingOK(h)'
      BY <1>1, <1>2, <2>1, <2>4, <3>3 DEF MakingOK
    <3>5. Switched(h)'
      BY <1>1, <2>1, <2>2 DEF Switched
    <3>6. \A q \in Reqs : Upd(q, h) => Built(q)' = Built(q) /\ pc'[q] = pc[q]
      BY <1>1, <2>2 DEF Built
    <3>7. RowsOK(h)'
      BY <1>1, <1>2, <2>1, <2>2, <2>4, <3>6 DEF RowsOK
    <3> QED BY <3>2, <3>4, <3>5, <3>7
  <2> QED BY <2>3, <2>4
<1> QED BY <1>3, <1>4 DEF StatesInv, Match

LEMMA StatesNext ==
    CourseInv /\ StatesInv /\ [RNext]_<<vars, history>> => StatesInv'
<1> SUFFICES ASSUME CourseInv, StatesInv, [RNext]_<<vars, history>> PROVE StatesInv'
  OBVIOUS
<1>1. ASSUME NEW r \in Reqs, NEW c \in Inputs, RArrive(r, c) PROVE StatesInv'
  BY <1>1, StatesArrive DEF RArrive
<1>2. CASE UNCHANGED <<vars, history>>
  <2>1. /\ UNCHANGED <<homeworks, judgestates, pc, inp, answer, hrow, states, twice>>
    BY <1>2 DEF vars, tables, locals, history
  <2> QED BY <2>1 DEF StatesInv, UpdateOK, Match, Sole, MakingOK, Switched, RowsOK, Upd, Sets, Built,
           HoldsHw, Creator, Active, InMaking, Made
<1> QED BY <1>1, <1>2, StatesServe DEF RNext, Rest

LEMMA StatesInit == RInit => StatesInv
<1> SUFFICES ASSUME RInit PROVE StatesInv
  OBVIOUS
<1>1. /\ \A q \in Reqs : pc[q] = "new" /\ inp[q] = None
      /\ homeworks = [h \in HwIds |-> IF h = OldHw
            THEN [course |-> OldCourse, problems |-> OldProblems, open |-> 1] ELSE None]
      /\ judgestates = [h \in HwIds |-> [p \in Problems |->
            IF h = OldHw /\ p \in OldProblems THEN 1 ELSE 0]]
  BY DEF RInit, Init
<1>2. \A q \in Reqs : ~HoldsHw(q) /\ ~Creator(q)
  BY <1>1 DEF HoldsHw, Creator
<1>3. \A h : ~InMaking(h) /\ \A q \in Reqs : ~Upd(q, h) /\ ~Sets(q, h)
  BY <1>2 DEF InMaking, Creator, Upd, Sets
<1>4. ASSUME NEW h \in HwIds PROVE RowsOK(h)
  <2>1. Made(h) => h = OldHw
    BY <1>1 DEF Made, Creator
  <2>2. homeworks[OldHw].problems = OldProblems
        /\ judgestates[OldHw] = [p \in Problems |-> IF p \in OldProblems THEN 1 ELSE 0]
    BY <1>1 DEF HwIds
  <2> QED BY <1>3, <2>1, <2>2 DEF RowsOK, Listed
<1> QED BY <1>2, <1>3, <1>4 DEF StatesInv, UpdateOK, Match, Sole, MakingOK, Switched

(* A homework that a course lists has one row of judgestates for each of    *)
(* its problems and none for another, unless it is just being updated or    *)
(* two requests were rewriting it at once; whatever else overlaps, lists    *)
(* that were overwritten included.  Along which problems a request has      *)
(* dealt with (Built) and that nobody else holds the row (Sole)             *)
(* (homework.py:46, 118).                                                   *)
THEOREM StatesAreExact == RSpec => []StatesMatch
<1>1. CourseInv /\ StatesInv => StatesMatch
  <2> SUFFICES ASSUME CourseInv, StatesInv, NEW k \in CourseIds, courses[k] # None,
                      NEW h \in courses[k].homeworks, homeworks[h] # None, h \notin twice,
                      ~\E r \in Rewriting(h) : inp[r].kind = "hwupdate"
               PROVE  judgestates[h] = Listed(homeworks[h].problems, Problems)
    BY DEF StatesMatch
  <2>1. h \in HwIds
    BY DEF CourseInv, Typed, TypeOK, Rows
  <2>2. Made(h)
    BY DEF CourseInv, ListsInv, Past
  <2>3. ASSUME NEW q \in Reqs, Upd(q, h) PROVE FALSE
    BY <2>3 DEF Upd, HoldsHw, Rewriting
  <2> QED BY <2>1, <2>2, <2>3 DEF StatesInv, Match, RowsOK
<1>2. RSpec => []StatesInv
  BY StatesInit, StatesNext, CourseAlways, PTL DEF RSpec
<1> QED BY <1>1, <1>2, CourseAlways, PTL

-----------------------------------------------------------------------------
(* Members.  A request that is about course k and user u, before and after  *)
(* its own step.                                                            *)
P(q, k, u) == Active(q) /\ CourseOf(q, inp[q]) = k /\ u \in UsersOf(inp[q])

(* How often the course lists the user, and the user the course once the    *)
(* row in memory is saved.                                                  *)
T(k, u, s) == IF courses[k] = None THEN 0 ELSE courses[k].members[s][u]
Eff(r, k, u, s) == IF pc[r] = "saveuser" /\ urow[r].id = u THEN urow[r].row[s][k] ELSE users[u][s][k]

Agree(k, u) == \A s \in Sides : users[u][s][k] = T(k, u, s)
Clean(k, u) == <<k, u>> \notin crossed /\ <<"courses", k>> \notin lost /\ <<"users", u>> \notin lost

(* Where the two sides may differ.                                          *)
Torn(r) == \/ pc[r] = "find"
           \/ pc[r] \in {"user", "saveuser", "savecourse"} /\ inp[r].kind \in {"create", "update"}
           \/ pc[r] \in {"user", "saveuser"} /\ inp[r].kind \in {"add", "drop"}
           \/ pc[r] \in {"pull", "inscourse"}

(* The course row in memory says what the user row is to become: what is    *)
(* left to do, and nothing else, is between them.                           *)
Removal(r) == IF inp[r].kind = "drop" THEN "drop" ELSE "sub"
Goal(r, k, u) ==
    \A s \in Sides :
        /\ crow[r].row.members[s][u] <= 1
        /\ (\A t \in todo[r] : ~(t.user = u /\ t.side = s)) => Eff(r, k, u, s) = crow[r].row.members[s][u]
        /\ \A t \in todo[r] : t.user = u /\ t.side = s =>
               \/ t.op = "add" /\ Eff(r, k, u, s) = 0 /\ crow[r].row.members[s][u] = 1
               \/ t.op = Removal(r) /\ Eff(r, k, u, s) = 1 /\ crow[r].row.members[s][u] = 0

Stage(r, k, u) ==
    /\ HoldsCourse(r) => crow[r].id = k /\ (pc[r] # "pull" => courses[k] # None)
    /\ pc[r] = "find" => courses[k] # None /\ \A s \in Sides : users[u][s][k] = 0
    /\ pc[r] \in {"user", "saveuser", "savecourse"} => Goal(r, k, u)
    /\ (pc[r] \in {"user", "saveuser"} /\ inp[r].kind \in {"add", "drop"}) \/ pc[r] = "remove" =>
           \A s \in Sides : T(k, u, s) = crow[r].row.members[s][u]
    /\ pc[r] = "pull" => /\ courses[k] = None
                         /\ \A s \in Sides : users[u][s][k] # 0 =>
                                \E t \in todo[r] : t.user = u /\ t.side = s
    /\ pc[r] = "inscourse" => /\ users[u]["students"][k] = 1
                              /\ users[u]["tas"][k] = T(k, u, "tas")
                              /\ T(k, u, "students") <= 1

PairOK(k, u) ==
    /\ \A r, q \in Reqs : P(r, k, u) /\ P(q, k, u) => r = q \/ (Enrols(r) /\ Enrols(q))
    /\ \A s \in Sides : users[u][s][k] <= 1
    /\ (\A r \in Reqs : P(r, k, u) => ~Torn(r)) => Agree(k, u)
    /\ \A r \in Reqs : P(r, k, u) => Stage(r, k, u)
Pair(k, u) == Clean(k, u) => PairOK(k, u)

(* What a request knows of user rows, whatever the others do.               *)
UserCopyOK(r) ==
    HoldsUser(r) =>
        /\ uread[r] \in UserRows
        /\ inp[r].kind # "password" => urow[r].id \in UsersOf(inp[r])
        /\ \A s \in Sides, k \in CourseIds :
               \/ urow[r].row[s][k] = uread[r][s][k]
               \/ uread[r][s][k] > 1
               \/ inp[r].kind # "password" /\ crow[r].id = k
TodoOK(r) ==
    /\ HoldsCourse(r) => \A t \in todo[r] : t.user \in UsersOf(inp[r]) /\ (t.op = "drop" => inp[r].kind = "drop")
    /\ pc[r] = "savecourse" /\ inp[r].kind \in {"create", "update"} => todo[r] = {}
StrangeOK(r) ==
    HoldsCourse(r) /\ inp[r].kind = "create" =>
        \A k \in CourseIds : k = crow[r].id /\ k # r =>
            \A u \in Users : <<k, u>> \in crossed /\ <<r, u>> \in crossed

(* A course whose row is not inserted yet is nowhere.                       *)
Nowhere(k) ==
    /\ courses[k] = None
    /\ \A u \in Users, s \in Sides : users[u][s][k] = 0
    /\ \A q \in Reqs : HoldsCourse(q) => crow[q].id # k
    /\ \A q \in Reqs, s \in Sides : HoldsUser(q) => urow[q].row[s][k] = 0
UnbornOK(k) == ~Inserted(k) => Nowhere(k)

KnownOK == /\ \A q \in Reqs : UserCopyOK(q) /\ TodoOK(q) /\ StrangeOK(q)
           /\ \A k \in CourseIds : UnbornOK(k)
MembersInv == KnownOK /\ \A k \in CourseIds, u \in Users : Pair(k, u)

LEMMA UsersOfFacts ==
    ASSUME NEW c, c.kind \in Kinds
    PROVE  /\ c.kind = "create" => UsersOf(c) = c.members["students"] \cup c.members["tas"]
           /\ c.kind \in {"update", "delete"} => UsersOf(c) = Users
           /\ c.kind \in {"add", "drop", "enrol"} => UsersOf(c) = {c.user}
           /\ c.kind \in {"password", "hwcreate", "hwdelete", "hwupdate", "hwset", "notice", "unnotice"} =>
                  UsersOf(c) = {}
BY DEF UsersOf, Kinds

(* Where a request about a member may be, and what it may do.               *)
LEMMA PairPlaces ==
    ASSUME Typed, NEW r \in Reqs, NEW k, NEW u, P(r, k, u)
    PROVE  /\ Active(r) /\ inp[r] # None /\ inp[r] \in Inputs /\ inp[r] \in Arguments
           /\ inp[r].kind \in {"create", "update", "delete", "add", "drop", "enrol"}
           /\ inp[r].kind = "create" =>
                  k = r /\ pc[r] \in {"caller", "insert", "find", "user", "saveuser", "savecourse"}
           /\ inp[r].kind # "create" => k = inp[r].course
           /\ inp[r].kind = "update" =>
                  pc[r] \in {"caller", "readcourse", "user", "saveuser", "savecourse"}
           /\ inp[r].kind = "delete" => pc[r] \in {"caller", "readcourse", "remove", "pull"}
           /\ inp[r].kind \in {"add", "drop"} =>
                  u = inp[r].user /\ pc[r] \in {"readcourse", "savecourse", "user", "saveuser"}
           /\ inp[r].kind = "enrol" =>
                  u = inp[r].user /\ pc[r] \in {"caller", "readspell", "insuser", "inscourse"}
<1>1. /\ Active(r) /\ pc[r] \in Labels /\ pc[r] # "new" /\ inp[r] # None
      /\ inp[r] \in Inputs /\ inp[r] \in Arguments /\ inp[r].kind \in KindsAt(pc[r])
  BY InputFacts DEF P, Active, Typed, TypeOK
<1>2. inp[r].kind \in Kinds
  BY <1>1 DEF Arguments
<1>3. inp[r].kind \in {"create", "update", "delete", "add", "drop", "enrol"}
  BY <1>2, UsersOfFacts DEF P, Kinds
<1>4. u \in UsersOf(inp[r]) /\ CourseOf(r, inp[r]) = k
  BY DEF P
<1>5. inp[r].kind \in {"add", "drop", "enrol"} => u = inp[r].user
  BY <1>2, <1>4, UsersOfFacts
<1> QED BY <1>1, <1>3, <1>4, <1>5 DEF CourseOf, KindsAt, Labels, Active

LEMMA PairActs ==
    ASSUME Typed, NEW r \in Reqs, NEW k, NEW u, P(r, k, u), Serve(r)
    PROVE  \/ Caller(r) \/ GivesUp(r) \/ InsertCourse(r) \/ FindCourse(r) \/ ReadCourse(r)
           \/ SaveCourse(r) \/ RemoveCourse(r) \/ Pull(r) \/ ReadUser(r) \/ SaveUser(r)
           \/ ReadSpell(r) \/ InsertInUser(r) \/ InsertInCourse(r)
<1>1. /\ inp[r].kind \in {"create", "update", "delete", "add", "drop", "enrol"}
      /\ pc[r] \notin {"inserthw", "readhw", "savehw", "deletehw", "states", "insertnotice",
                       "findnotice", "deletenotice"}
  BY PairPlaces
<1> QED BY <1>1 DEF Serve, ReadOwnRow, InsertHw, ReadHw, SaveHw, DeleteHw, CreateState, DeleteState,
          InsertNotice, FindNotice, DeleteNotice, At

(* A change of a user row.                                                  *)
LEMMA ChangedFacts ==
    ASSUME NEW row \in UserRows, NEW t \in Tasks, t.op \in {"add", "drop", "sub"}, NEW id \in CourseIds
    PROVE  /\ \A s \in Sides, k \in CourseIds :
                  \/ Changed(row, t, id)[s][k] = row[s][k]
                  \/ row[s][k] > 1
                  \/ s = t.side /\ k = id
           /\ t.op = "add" => Changed(row, t, id)[t.side][id] = row[t.side][id] + 1
           /\ t.op = "drop" => Changed(row, t, id)[t.side][id] = row[t.side][id] - 1
           /\ t.op = "sub" => Changed(row, t, id)[t.side][id] = 0
           /\ \A s \in Sides : s # t.side => Changed(row, t, id)[s] = row[s]
<1>1. t.side \in Sides /\ row \in [Sides -> [CourseIds -> Nat]]
  BY DEF Tasks, UserRows
<1>2. CASE t.op = "add"
  <2>1. Changed(row, t, id) = [row EXCEPT ![t.side][id] = @ + 1]
    BY <1>2 DEF Changed
  <2> QED BY <1>1, <1>2, <2>1
<1>3. CASE t.op = "drop"
  <2>1. Changed(row, t, id) = [row EXCEPT ![t.side][id] = @ - 1]
    BY <1>3 DEF Changed
  <2> QED BY <1>1, <1>3, <2>1
<1>4. CASE t.op = "sub"
  <2>1. Changed(row, t, id) = [row EXCEPT ![t.side] = SubList(@, id)]
    BY <1>4 DEF Changed
  <2>2. PICK f : f = SubList(row[t.side], id)
    OBVIOUS
  <2>3. f = [k \in CourseIds |-> IF k = id \/ row[t.side][k] = 0 THEN 0 ELSE 1]
    BY <1>1, <2>2 DEF SubList
  <2>4. f[id] = 0 /\ \A k \in CourseIds : f[k] = row[t.side][k] \/ row[t.side][k] > 1 \/ k = id
    BY <1>1, <2>3
  <2>5. Changed(row, t, id)[t.side] = f /\ \A s \in Sides : s # t.side => Changed(row, t, id)[s] = row[s]
    BY <1>1, <2>1, <2>2
  <2> QED BY <1>1, <1>4, <2>4, <2>5
<1> QED BY <1>2, <1>3, <1>4

(* What a step does to a user row.                                          *)
Saves(r, u) ==
    /\ SaveUser(r) /\ pc[r] = "saveuser" /\ urow[r].id = u /\ users'[u] = urow[r].row
    /\ users[u] = uread[r] \/ <<"users", u>> \in lost'
Enters(r, u) ==
    /\ InsertInUser(r) /\ inp[r].kind = "enrol" /\ inp[r].user = u /\ pc[r] = "insuser"
    /\ crow[r].id = inp[r].course
    /\ users'[u] = [users[u] EXCEPT !["students"][inp[r].course] = Once(@)]
Pulls(r, u) ==
    /\ Pull(r) /\ inp[r].kind = "delete"
    /\ \E t \in todo[r] : /\ t.user = u
                         /\ users'[u] = [users[u] EXCEPT ![t.side][inp[r].course] = 0]

LEMMA UsersChange ==
    ASSUME Typed, NEW r \in Reqs, RServe(r), NEW u \in Users
    PROVE  users'[u] = users[u] \/ Saves(r, u) \/ Enters(r, u) \/ Pulls(r, u)
<1>1. TypeOK /\ Serve(r)
  BY Served DEF Typed
<1>2. CASE SaveUser(r)
  <2>1. users'[u] = IF urow[r].id = u THEN urow[r].row ELSE users[u]
    BY <1>1, <1>2 DEF SaveUser, TypeOK
  <2>2. RSaveUser(r)
    BY <1>2, Watched DEF SaveUser
  <2>3. urow[r].id = u => users[u] = uread[r] \/ <<"users", u>> \in lost'
    BY <2>2 DEF RSaveUser
  <2> QED BY <1>2, <2>1, <2>3 DEF SaveUser, Saves
<1>3. CASE InsertInUser(r)
  <2>1. crow[r].id = inp[r].course /\ inp[r].kind = "enrol" /\ pc[r] = "insuser"
    BY <1>3 DEF InsertInUser, At, Typed, StageOK, HoldsCourse
  <2>2. users' = [users EXCEPT ![inp[r].user]["students"][inp[r].course] = Once(@)]
    BY <1>3, <2>1 DEF InsertInUser
  <2>3. CASE inp[r].user = u
    BY <1>1, <1>3, <2>1, <2>2, <2>3 DEF TypeOK, Enters
  <2>4. CASE inp[r].user # u
    BY <1>1, <2>1, <2>2, <2>4 DEF TypeOK
  <2> QED BY <2>3, <2>4
<1>4. CASE Pull(r)
  <2>1. PICK t \in todo[r] : users' = [users EXCEPT ![t.user][t.side][inp[r].course] = 0]
    BY <1>4 DEF Pull, Foremost
  <2>2. inp[r].kind = "delete"
    BY <1>4 DEF Pull, At
  <2>3. CASE t.user = u
    BY <1>1, <1>4, <2>1, <2>2, <2>3 DEF TypeOK, Pulls
  <2>4. CASE t.user # u
    BY <1>1, <2>1, <2>2, <2>4 DEF TypeOK
  <2> QED BY <2>3, <2>4
<1>5. CASE users' = users
  BY <1>5
<1>6. users' = users \/ Pull(r) \/ SaveUser(r) \/ InsertInUser(r)
  BY <1>1 DEF Serve, Caller, GivesUp, Fail, InsertCourse, FindCourse, ReadCourse, SaveCourse, RemoveCourse,
       ReadUser, ReadOwnRow, ReadSpell, InsertInCourse, InsertHw, ReadHw, SaveHw, DeleteHw,
       CreateState, DeleteState, InsertNotice, FindNotice, DeleteNotice, tables
<1> QED BY <1>2, <1>3, <1>4, <1>5, <1>6

-----------------------------------------------------------------------------
(* What a request knows of user rows.                                       *)
LEMMA ReadUserStep ==
    ASSUME Typed, HistoryOK, NEW r \in Reqs, RServe(r), ReadUser(r)
    PROVE  /\ HoldsCourse(r) /\ crow[r] \in Held /\ pc[r] = "user"
           /\ inp[r].kind \in {"add", "drop", "create", "update"}
           /\ UNCHANGED <<tables, inp, crow>>
           /\ \E t \in todo[r] :
                 /\ t \in Tasks /\ t.op \in {"add", "drop", "sub"}
                 /\ \/ /\ pc'[r] = "done" /\ t.op = "drop" /\ users[t.user][t.side][crow[r].id] = 0
                    \/ /\ pc'[r] = "saveuser" /\ todo'[r] = todo[r] \ {t}
                       /\ urow'[r].id = t.user /\ uread'[r] = users[t.user]
                       /\ urow'[r].row = Changed(users[t.user], t, crow[r].id)
<1>1. /\ pc[r] = "user" /\ inp[r] # None /\ inp[r].kind \in {"add", "drop", "create", "update"}
      /\ HoldsCourse(r) /\ crow[r] \in Held
      /\ \A t \in todo[r] : t.op # "pull" /\ t \in Tasks
  BY InputFacts DEF ReadUser, Typed, TypeOK, KindsAt, HoldsCourse, StageOK
<1>2. PICK t \in Foremost(todo[r]) :
          IF t.op = "drop" /\ users[t.user][t.side][crow[r].id] = 0
          THEN Fail(r)
          ELSE /\ urow' = [urow EXCEPT ![r] =
                      [id |-> t.user, row |-> Changed(users[t.user], t, crow[r].id)]]
               /\ todo' = [todo EXCEPT ![r] = @ \ {t}]
               /\ Go(r, "saveuser")
               /\ UNCHANGED <<tables, inp, crow, hrow, states>>
  BY DEF ReadUser
<1>3. t \in todo[r] /\ t \in Tasks /\ t.op \in {"add", "drop", "sub"}
  BY <1>1 DEF Foremost, Tasks
<1>4. CASE t.op = "drop" /\ users[t.user][t.side][crow[r].id] = 0
  <2>1. pc'[r] = "done" /\ UNCHANGED <<tables, inp, crow>>
    BY <1>2, <1>4 DEF Fail, Finish, locals, Typed, TypeOK
  <2> QED BY <1>1, <1>3, <1>4, <2>1
<1>5. CASE ~(t.op = "drop" /\ users[t.user][t.side][crow[r].id] = 0)
  <2>1. PICK row : row = Changed(users[t.user], t, crow[r].id)
    OBVIOUS
  <2>2. /\ urow' = [urow EXCEPT ![r] = [id |-> t.user, row |-> row]]
        /\ todo' = [todo EXCEPT ![r] = @ \ {t}] /\ Go(r, "saveuser")
        /\ UNCHANGED <<tables, inp, crow>>
    BY <1>2, <1>5, <2>1
  <2>3. pc'[r] = "saveuser"
    BY <2>2, GoType DEF Labels, Typed, TypeOK
  <2>4. urow'[r].id = t.user /\ urow'[r].row = row /\ todo'[r] = todo[r] \ {t}
    BY <2>2 DEF Typed, TypeOK
  <2>5. RReadUser(r)
    BY <1>1, Watched
  <2>6. uread'[r] = users[t.user]
    BY <2>3, <2>4, <2>5 DEF RReadUser, HistoryOK, Done
  <2> QED BY <1>1, <1>3, <2>1, <2>2, <2>3, <2>4, <2>6
<1> QED BY <1>4, <1>5

LEMMA HeldUserStep ==
    ASSUME Typed, HistoryOK, NEW r \in Reqs, RServe(r), HoldsUser(r)'
    PROVE  \/ /\ HoldsUser(r) /\ inp[r].kind = "password"
              /\ urow'[r] = urow[r] /\ uread'[r] = uread[r]
           \/ /\ inp[r].kind = "password" /\ uread'[r] \in UserRows /\ urow'[r].row = uread'[r]
              /\ \E u \in Users : uread'[r] = users[u]
           \/ ReadUser(r) /\ pc'[r] = "saveuser"
<1>1. TypeOK /\ inp' = inp /\ Serve(r) /\ Active(r)
  BY Served, ServedAlone DEF Alone, Typed
<1>2. CASE ReadUser(r)
  BY <1>2, ReadUserStep DEF HoldsUser
<1>3. CASE ReadOwnRow(r)
  <2>1. inp[r].user \in Users /\ pc[r] = "user" /\ inp[r].kind = "password" /\ pc'[r] # "done"
    BY <1>1, <1>3, InputFacts DEF ReadOwnRow, At, Typed, HoldsUser
  <2>2. RReadUser(r)
    BY <2>1, Watched
  <2>3. urow'[r].id = inp[r].user /\ urow'[r].row = users[inp[r].user]
    BY <1>1, <1>3 DEF ReadOwnRow, TypeOK
  <2>4. uread'[r] = users[inp[r].user]
    BY <2>1, <2>2, <2>3 DEF RReadUser, HistoryOK, Done
  <2> QED BY <1>1, <2>1, <2>3, <2>4 DEF TypeOK
<1>4. CASE Caller(r)
  <2>1. inp[r] # None /\ inp[r].kind \in Kinds \ {"add", "drop"} /\ pc[r] = "caller"
    BY <1>4, InputFacts DEF Caller, Typed, KindsAt
  <2>2. PICK label : label = IF inp[r].kind = "hwupdate" THEN StatesLoop(r, states[r])
                             ELSE AfterCaller(inp[r].kind)
    OBVIOUS
  <2>3. label \in Labels /\ label # "caller" /\ (label = "saveuser" => inp[r].kind = "password")
    BY <2>1, <2>2 DEF AfterCaller, StatesLoop, Kinds, Labels
  <2>4. Go(r, label)
    BY <1>4, <2>2 DEF Caller
  <2>5. pc'[r] = label
    BY <1>1, <2>3, <2>4, GoType
  <2>6. inp[r].kind = "password"
    BY <2>3, <2>5 DEF HoldsUser
  <2> QED BY <1>4, <2>1, <2>6, Remembered DEF Caller, HoldsUser, locals, ReadUser, ReadOwnRow, At
<1>5. CASE ReadCourse(r) \/ FindCourse(r) \/ ReadSpell(r) \/ SaveUser(r) \/ Pull(r) \/ RemoveCourse(r)
           \/ CreateState(r) \/ DeleteState(r)
  <2>1. \A label \in Labels : Go(r, label) => pc'[r] = label
    BY <1>1, GoType
  <2>2. \A left : pc'[r] = Loop(r, left) \/ pc'[r] = StatesLoop(r, left) =>
                     pc'[r] \notin {"saveuser", "caller"}
    BY LoopLabels, StatesLabels
  <2>3. \A left : /\ Go(r, Loop(r, left)) => pc'[r] \notin {"saveuser", "caller"}
                  /\ Go(r, StatesLoop(r, left)) => pc'[r] \notin {"saveuser", "caller"}
    BY <2>1, <2>2, LoopLabels, StatesLabels
  <2>4. \A label \in {"remove", "pull", "done", "insuser", "savecourse"} :
           Go(r, label) => pc'[r] \notin {"saveuser", "caller"}
    BY <2>1 DEF Labels
  <2>5. Go(r, "caller") => pc'[r] = "caller"
    BY <2>1 DEF Labels
  <2>6. CASE ReadCourse(r)
    <3>1. PICK row : UseForMember(r, row) \/ UseForUpdate(r, row) \/ UseForList(r, row)
                     \/ Keep(r, row, {}, "remove")
      BY <2>6 DEF ReadCourse
    <3>2. UseForMember(r, row) \/ Keep(r, row, {}, "remove") => pc'[r] \notin {"saveuser", "caller"}
      BY <2>4 DEF UseForMember, Keep
    <3>3. UseForUpdate(r, row) => pc'[r] \notin {"saveuser", "caller"}
      BY <2>3 DEF UseForUpdate, Keep
    <3>4. UseForList(r, row) => pc'[r] \notin {"saveuser", "caller"} \/ (pc'[r] = "caller" /\ inp[r].kind = "notice")
      BY <2>3, <2>4, <2>5 DEF UseForList, Keep
    <3> QED BY <1>1, <3>1, <3>2, <3>3, <3>4 DEF HoldsUser
  <2>7. CASE FindCourse(r) \/ SaveUser(r) \/ CreateState(r) \/ DeleteState(r)
    <3>1. pc'[r] \notin {"saveuser", "caller"}
      BY <2>3, <2>7 DEF FindCourse, SaveUser, CreateState, DeleteState
    <3> QED BY <3>1 DEF HoldsUser
  <2>8. CASE ReadSpell(r) \/ Pull(r) \/ RemoveCourse(r)
    <3>1. pc'[r] \notin {"saveuser", "caller"}
      BY <2>4, <2>8 DEF ReadSpell, Pull, RemoveCourse, Keep
    <3> QED BY <3>1 DEF HoldsUser
  <2> QED BY <1>5, <2>6, <2>7, <2>8
<1>6. CASE GivesUp(r) \/ InsertCourse(r) \/ SaveCourse(r) \/ InsertInUser(r)
           \/ InsertInCourse(r) \/ InsertHw(r) \/ SaveHw(r) \/ DeleteHw(r) \/ InsertNotice(r)
           \/ FindNotice(r) \/ DeleteNotice(r) \/ ReadHw(r)
  <2>1. \A label \in Labels : Go(r, label) => pc'[r] = label
    BY <1>1, GoType
  <2>2. pc'[r] \notin {"saveuser"} /\ (pc'[r] = "caller" => inp[r].kind = "hwupdate")
    BY <1>1, <1>6, <2>1
    DEF GivesUp, Fail, Finish, InsertCourse, SaveCourse, InsertInUser, InsertInCourse, InsertHw,
        SaveHw, DeleteHw, InsertNotice, FindNotice, DeleteNotice, ReadHw, UseForSet, UseForHwUpdate,
        UseForHwDelete, Labels, TypeOK
  <2> QED BY <1>1, <2>2 DEF HoldsUser
<1> QED BY <1>1, <1>2, <1>3, <1>4, <1>5, <1>6 DEF Serve

LEMMA UserCopyServe ==
    ASSUME Typed, HistoryOK, KnownOK, NEW r \in Reqs, RServe(r), NEW q \in Reqs
    PROVE  UserCopyOK(q)'
<1>1. Alone(r) /\ inp' = inp /\ Serve(r) /\ TypeOK
  BY Served, ServedAlone DEF Alone, Typed
<1>2. CASE q # r
  <2>1. /\ pc'[q] = pc[q] /\ crow'[q] = crow[q] /\ urow'[q] = urow[q] /\ uread'[q] = uread[q]
        /\ UserCopyOK(q)
    BY <1>1, <1>2, Remembered DEF Alone, KnownOK
  <2> QED BY <1>1, <2>1 DEF UserCopyOK, HoldsUser
<1>3. CASE q = r
  <2> SUFFICES ASSUME HoldsUser(r)' PROVE UserCopyOK(r)'
    BY <1>3 DEF UserCopyOK
  <2>1. CASE /\ HoldsUser(r) /\ inp[r].kind = "password"
             /\ urow'[r] = urow[r] /\ uread'[r] = uread[r]
    BY <1>1, <2>1 DEF KnownOK, UserCopyOK
  <2>2. CASE /\ inp[r].kind = "password" /\ uread'[r] \in UserRows /\ urow'[r].row = uread'[r]
    BY <1>1, <2>2 DEF UserCopyOK
  <2>3. CASE ReadUser(r) /\ pc'[r] = "saveuser"
    <3>1. PICK t \in todo[r] :
             /\ t \in Tasks /\ t.op \in {"add", "drop", "sub"}
             /\ urow'[r].id = t.user /\ uread'[r] = users[t.user]
             /\ urow'[r].row = Changed(users[t.user], t, crow[r].id)
      BY <2>3, ReadUserStep
    <3>2. /\ crow' = crow /\ inp[r].kind # "password" /\ HoldsCourse(r) /\ crow[r].id \in CourseIds
      BY <2>3, ReadUserStep DEF Held
    <3>3. t.user \in UsersOf(inp[r])
      BY <3>2 DEF KnownOK, TodoOK
    <3>4. users[t.user] \in UserRows
      BY <1>1, <3>1 DEF TypeOK, Tasks
    <3>5. PICK row : row = users[t.user]
      OBVIOUS
    <3>6. \A s \in Sides, k \in CourseIds :
             \/ Changed(row, t, crow[r].id)[s][k] = row[s][k]
             \/ row[s][k] > 1
             \/ k = crow[r].id
      BY <3>1, <3>2, <3>4, <3>5, ChangedFacts
    <3> QED BY <1>1, <3>1, <3>2, <3>3, <3>4, <3>5, <3>6 DEF UserCopyOK
  <2> QED BY <2>1, <2>2, <2>3, HeldUserStep
<1> QED BY <1>2, <1>3

LEMMA TodoChange ==
    ASSUME Typed, NEW r \in Reqs, Serve(r), ~Reads(r), ~RemoveCourse(r)
    PROVE  todo'[r] \subseteq todo[r]
<1>1. TypeOK
  BY DEF Typed
<1>2. CASE Pull(r)
  <2>1. PICK t : todo' = [todo EXCEPT ![r] = @ \ {t}]
    BY <1>2 DEF Pull
  <2> QED BY <1>1, <2>1 DEF TypeOK
<1>3. CASE ReadUser(r)
  <2>1. PICK t : todo' = [todo EXCEPT ![r] = @ \ {t}] \/ Fail(r)
    BY <1>3 DEF ReadUser
  <2> QED BY <1>1, <2>1 DEF TypeOK, Fail, locals
<1>4. CASE ~Pull(r) /\ ~ReadUser(r)
  <2>1. todo' = todo
    BY <1>4 DEF Serve, Reads, Caller, GivesUp, Fail, InsertCourse, SaveCourse, ReadOwnRow, SaveUser,
       InsertInUser, InsertInCourse, InsertHw, ReadHw, SaveHw, DeleteHw, CreateState,
       DeleteState, InsertNotice, FindNotice, DeleteNotice, tables, locals
  <2> QED BY <2>1
<1> QED BY <1>2, <1>3, <1>4

(* What a request that has read a course row is to change.                  *)
LEMMA TodoRead ==
    ASSUME Typed, NEW r \in Reqs, Serve(r), Reads(r) \/ RemoveCourse(r)
    PROVE  \A t \in todo'[r] : t.user \in UsersOf(inp[r]) /\ (t.op = "drop" => inp[r].kind = "drop")
<1>1. /\ TypeOK /\ inp[r] # None /\ inp[r] \in Arguments /\ inp[r].kind \in Kinds
      /\ \A t \in todo'[r] : t \in Tasks
  <2>1. Typed'
    BY TypedNext DEF Next
  <2> QED BY <2>1, ServedAlone, InputFacts DEF Alone, Active, Typed, TypeOK, Arguments
<1>2. CASE inp[r].kind \in {"update", "delete"}
  <2>1. UsersOf(inp[r]) = Users
    BY <1>1, <1>2, UsersOfFacts
  <2>2. \A t \in todo'[r] : t.op # "drop"
    <3>1. CASE RemoveCourse(r)
      BY <1>1, <3>1 DEF RemoveCourse, TypeOK
    <3>2. CASE ReadCourse(r)
      <4>1. \E row, a, b, label : Keep(r, row, {}, label) \/ Keep(r, row, Changes("add", a) \cup Changes("sub", b), label)
        BY <1>2, <3>2 DEF ReadCourse, UseForMember, UseForUpdate, UseForList
      <4>2. PICK row, a, b, label : Keep(r, row, {}, label) \/ Keep(r, row, Changes("add", a) \cup Changes("sub", b), label)
        BY <4>1
      <4> QED BY <1>1, <4>2 DEF Keep, Changes, TypeOK
    <3> QED BY <1>2, <3>1, <3>2 DEF Reads, FindCourse, ReadSpell, At
  <2> QED BY <1>1, <2>1, <2>2 DEF Tasks
<1>3. CASE FindCourse(r)
  <2>1. inp[r].kind = "create" /\ todo'[r] = Changes("add", inp[r].members)
    BY <1>1, <1>3 DEF FindCourse, At, TypeOK
  <2>2. UsersOf(inp[r]) = inp[r].members["students"] \cup inp[r].members["tas"]
    BY <1>1, <2>1, UsersOfFacts
  <2> QED BY <2>1, <2>2 DEF Changes, Sides
<1>4. CASE ReadSpell(r)
  BY <1>1, <1>4 DEF ReadSpell, Keep, TypeOK
<1>5. CASE ReadCourse(r) /\ inp[r].kind \notin {"update", "delete"}
  <2>1. PICK row : UseForMember(r, row) \/ UseForList(r, row)
    BY <1>5 DEF ReadCourse, UseForUpdate
  <2>2. UseForList(r, row) => todo'[r] = {}
    BY <1>1 DEF UseForList, Keep, TypeOK
  <2>3. CASE UseForMember(r, row)
    <3>1. inp[r].kind \in {"add", "drop"}
      BY <2>3 DEF UseForMember
    <3>2. UsersOf(inp[r]) = {inp[r].user}
      BY <1>1, <3>1, UsersOfFacts
    <3>3. \/ todo'[r] = {}
          \/ todo'[r] = {[user |-> inp[r].user, side |-> inp[r].side, op |-> inp[r].kind]}
      BY <1>1, <2>3 DEF UseForMember, Keep, TypeOK
    <3> QED BY <3>2, <3>3
  <2> QED BY <2>1, <2>2, <2>3
<1>6. RemoveCourse(r) => inp[r].kind = "delete"
  BY DEF RemoveCourse, At
<1> QED BY <1>2, <1>3, <1>4, <1>5, <1>6 DEF Reads

LEMMA TodoServe ==
    ASSUME Typed, KnownOK, NEW r \in Reqs, Serve(r), NEW q \in Reqs
    PROVE  TodoOK(q)'
<1>1. Alone(r) /\ inp' = inp /\ TypeOK /\ Active(r) /\ TodoOK(q) /\ TodoOK(r)
  BY ServedAlone DEF Alone, Typed, KnownOK
<1>2. CASE q # r
  BY <1>1, <1>2 DEF Alone, TodoOK, HoldsCourse
<1>3. CASE q = r
  <2>1. ASSUME HoldsCourse(r)' PROVE \A t \in todo'[r] : t.user \in UsersOf(inp[r]) /\ (t.op = "drop" => inp[r].kind = "drop")
    <3>1. CASE Reads(r) \/ RemoveCourse(r)
      BY <3>1, TodoRead
    <3>2. CASE ~Reads(r) /\ ~RemoveCourse(r)
      <4>1. HoldsCourse(r) /\ todo'[r] \subseteq todo[r]
        BY <2>1, <3>2, HeldStep, TodoChange
      <4> QED BY <1>1, <4>1 DEF TodoOK
    <3> QED BY <3>1, <3>2
  <2>2. ASSUME pc'[r] = "savecourse", inp[r].kind \in {"create", "update"}
        PROVE  todo'[r] = {}
    <3>1. /\ pc[r] \in {"caller", "insert", "find", "readcourse", "user", "saveuser", "savecourse"}
          /\ inp[r] # None
      <4>1. inp[r] # None /\ pc[r] \in Labels /\ inp[r].kind \in KindsAt(pc[r])
        BY <1>1, InputFacts DEF Active, Typed, TypeOK
      <4> QED BY <1>1, <2>2, <4>1 DEF KindsAt, Labels, Active
    <3>2. \A label \in Labels : Go(r, label) => label = "savecourse"
      BY <1>1, <2>2, GoType
    <3>3. \A left : Loop(r, left) = "savecourse" => left = {}
      BY DEF Loop
    <3>4. \/ FindCourse(r) \/ SaveUser(r) \/ ReadCourse(r)
      <4>1. \A label \in {"insert", "readcourse", "find", "done", "saveuser"} : ~Go(r, label)
        BY <3>2 DEF Labels
      <4>2. ~Caller(r)
        <5>1. AfterCaller("create") = "insert" /\ AfterCaller("update") = "readcourse"
          BY DEF AfterCaller
        <5>2. Caller(r) => Go(r, AfterCaller(inp[r].kind))
          BY <2>2 DEF Caller
        <5> QED BY <2>2, <4>1, <5>1, <5>2
      <4>3. ~GivesUp(r)
        BY <1>1, <2>2 DEF GivesUp, Fail, Finish, TypeOK
      <4>4. ~InsertCourse(r)
        BY <4>1 DEF InsertCourse
      <4>5. ~SaveCourse(r)
        BY <2>2, <4>1 DEF SaveCourse
      <4>6. ~ReadUser(r)
        BY <1>1, <2>2, <4>1 DEF ReadUser, Fail, Finish, TypeOK
      <4> QED BY <2>2, <3>1, <4>2, <4>3, <4>4, <4>5, <4>6
          DEF Serve, RemoveCourse, Pull, ReadOwnRow, ReadSpell, InsertInUser, InsertInCourse, InsertHw,
              ReadHw, SaveHw, DeleteHw, CreateState, DeleteState, InsertNotice, FindNotice,
              DeleteNotice, At
    <3>5. CASE FindCourse(r)
      BY <3>2, <3>3, <3>5, LoopLabels DEF FindCourse
    <3>6. CASE SaveUser(r)
      <4>1. todo' = todo /\ Go(r, Loop(r, todo[r]))
        BY <3>6 DEF SaveUser, locals
      <4> QED BY <3>2, <3>3, <4>1, LoopLabels
    <3>7. CASE ReadCourse(r)
      <4>1. PICK row, left : Keep(r, row, left, Loop(r, left)) \/ UseForMember(r, row) \/ UseForList(r, row)
                             \/ inp[r].kind = "delete"
        BY <3>7 DEF ReadCourse, UseForUpdate
      <4>2. Keep(r, row, left, Loop(r, left))
        BY <2>2, <4>1 DEF UseForMember, UseForList
      <4>3. Go(r, Loop(r, left)) /\ todo'[r] = left
        BY <1>1, <4>2 DEF Keep, TypeOK
      <4> QED BY <3>2, <3>3, <4>3, LoopLabels
    <3> QED BY <3>4, <3>5, <3>6, <3>7
  <2> QED BY <1>1, <1>3, <2>1, <2>2 DEF TodoOK
<1> QED BY <1>2, <1>3

LEMMA StrangeServe ==
    ASSUME Typed, HistoryOK, KnownOK, NEW r \in Reqs, RServe(r), NEW q \in Reqs
    PROVE  StrangeOK(q)'
<1>1. /\ Alone(r) /\ inp' = inp /\ TypeOK /\ Serve(r) /\ StrangeOK(q) /\ StrangeOK(r)
      /\ crossed \subseteq crossed'
  BY Served, ServedAlone, Remembered DEF Alone, Typed, KnownOK
<1>2. CASE q # r
  BY <1>1, <1>2 DEF Alone, StrangeOK, HoldsCourse
<1>3. CASE q = r
  <2> SUFFICES ASSUME HoldsCourse(r)', inp[r].kind = "create", NEW k \in CourseIds, k = crow'[r].id, k # r,
                      NEW u \in Users
               PROVE  <<k, u>> \in crossed' /\ <<r, u>> \in crossed'
    BY <1>1, <1>3 DEF StrangeOK
  <2>1. CASE FindCourse(r)
    <3>1. RFindCourse(r)
      <4>1. pc[r] = "find" /\ Alike(r) # {}
        BY <2>1 DEF FindCourse, At
      <4> QED BY <4>1, Watched DEF RGivesUp, GivesUp
    <3> QED BY <3>1 DEF RFindCourse
  <2>2. CASE ~FindCourse(r)
    <3>1. inp[r].kind \in KindsAt(pc[r]) /\ pc[r] # "new"
      BY <1>1, InputFacts DEF Alone, Active, Typed
    <3>2. ~Reads(r) /\ ~FindNotice(r)
      BY <2>2, <3>1 DEF Reads, ReadCourse, ReadSpell, FindNotice, At, KindsAt
    <3>3. HoldsCourse(r) /\ crow'[r] = crow[r]
      BY <1>1, <3>2, HeldStep
    <3> QED BY <1>1, <3>3 DEF StrangeOK
  <2> QED BY <2>1, <2>2
<1> QED BY <1>2, <1>3

LEMMA UnbornServe ==
    ASSUME Typed, HistoryOK, KnownOK, NEW r \in Reqs, RServe(r), NEW k \in CourseIds
    PROVE  UnbornOK(k)'
<1>1. /\ Alone(r) /\ inp' = inp /\ TypeOK /\ Serve(r) /\ UnbornOK(k)
  BY Served, ServedAlone DEF Alone, Typed, KnownOK
<1> SUFFICES ASSUME ~Inserted(k)' PROVE Nowhere(k)'
  BY DEF UnbornOK
<1>2. ~Inserted(k)
  BY <1>1, InsertedStays
<1>3. /\ courses[k] = None
      /\ \A u \in Users, s \in Sides : users[u][s][k] = 0
      /\ \A q \in Reqs : HoldsCourse(q) => crow[q].id # k
      /\ \A q \in Reqs, s \in Sides : HoldsUser(q) => urow[q].row[s][k] = 0
  BY <1>1, <1>2 DEF UnbornOK, Nowhere
<1>4. courses'[k] = None
  <2>1. ~(InsertCourse(r) /\ k = r)
    <3> SUFFICES ASSUME InsertCourse(r), k = r PROVE FALSE
      OBVIOUS
    <3>1. pc'[r] = "find" /\ inp[r] # None /\ inp[r].kind = "create"
      BY <1>1, GoType, InputFacts DEF InsertCourse, At, Labels, Typed
    <3> QED BY <1>1, <3>1 DEF Inserted
  <2> QED BY <1>3, <2>1, CourseChange DEF Overwrites
<1>5. ASSUME NEW u \in Users, NEW s \in Sides PROVE users'[u][s][k] = 0
  <2>1. CASE users'[u] = users[u]
    BY <1>3, <2>1
  <2>2. CASE Saves(r, u)
    BY <1>3, <2>2 DEF HoldsUser, Saves
  <2>3. CASE Enters(r, u)
    <3>1. inp[r].course # k
      BY <1>3, <2>3 DEF Enters, HoldsCourse
    <3>2. PICK n : users'[u] = [users[u] EXCEPT !["students"][inp[r].course] = n]
      BY <2>3 DEF Enters
    <3> QED BY <1>1, <1>3, <3>1, <3>2 DEF TypeOK, UserRows
  <2>4. CASE Pulls(r, u)
    <3>1. PICK t \in todo[r] : users'[u] = [users[u] EXCEPT ![t.side][inp[r].course] = 0]
      BY <2>4 DEF Pulls
    <3> QED BY <1>1, <1>3, <3>1 DEF TypeOK, UserRows, Tasks
  <2> QED BY <2>1, <2>2, <2>3, <2>4, UsersChange
<1>6. ASSUME NEW q \in Reqs, HoldsCourse(q)' PROVE crow'[q].id # k
  <2>1. CASE q # r
    BY <1>1, <1>3, <1>6, <2>1 DEF Alone, HoldsCourse
  <2>2. CASE q = r /\ Reads(r)
    <3>1. CASE FindCourse(r)
      <4>1. PICK j \in Alike(r) : j \in CourseIds /\ courses[j] \in Rows
                                  /\ crow'[r] = [id |-> j, row |-> [courses[j] EXCEPT !.spell = TRUE]]
        BY <3>1, FindStep, Zenon
      <4>2. courses[j] # None /\ crow'[r].id = j
        BY <4>1, CoursesAssumption
      <4> QED BY <1>3, <2>2, <4>2
    <3>2. CASE ReadCourse(r) \/ ReadSpell(r)
      <4>1. courses[inp[r].course] # None /\ crow'[r].id = inp[r].course
        BY <3>2, ReadStep, CoursesAssumption
      <4> QED BY <1>3, <2>2, <4>1
    <3> QED BY <2>2, <3>1, <3>2 DEF Reads
  <2>3. CASE q = r /\ ~Reads(r)
    BY <1>1, <1>3, <1>6, <2>3, HeldStep
  <2> QED BY <2>1, <2>2, <2>3
<1>7. ASSUME NEW q \in Reqs, NEW s \in Sides, HoldsUser(q)' PROVE urow'[q].row[s][k] = 0
  <2>1. CASE q # r
    BY <1>1, <1>3, <1>7, <2>1 DEF Alone, HoldsUser
  <2>2. CASE q = r
    <3>1. CASE HoldsUser(r) /\ urow'[r] = urow[r]
      BY <1>3, <2>2, <3>1
    <3>2. CASE urow'[r].row = uread'[r] /\ \E u \in Users : uread'[r] = users[u]
      BY <1>3, <2>2, <3>2
    <3>3. CASE ReadUser(r) /\ pc'[r] = "saveuser"
      <4>1. PICK t \in todo[r] :
               /\ t \in Tasks /\ t.op \in {"add", "drop", "sub"}
               /\ urow'[r].row = Changed(users[t.user], t, crow[r].id)
        BY <3>3, ReadUserStep
      <4>2. HoldsCourse(r) /\ crow[r].id \in CourseIds /\ t.user \in Users /\ users[t.user] \in UserRows
        BY <1>1, <3>3, <4>1, ReadUserStep DEF Held, Tasks, TypeOK
      <4>3. PICK row \in UserRows : row = users[t.user]
        BY <4>2
      <4>4. row[s][k] = 0 /\ crow[r].id # k
        BY <1>3, <4>2, <4>3
      <4>5. Changed(row, t, crow[r].id)[s][k] = row[s][k]
        BY <4>1, <4>2, <4>4, ChangedFacts
      <4> QED BY <2>2, <4>1, <4>3, <4>4, <4>5
    <3> QED BY <1>7, <2>2, <3>1, <3>2, <3>3, HeldUserStep
  <2> QED BY <2>1, <2>2
<1> QED BY <1>4, <1>5, <1>6, <1>7 DEF Nowhere

LEMMA KnownServe ==
    ASSUME Typed, HistoryOK, KnownOK, NEW r \in Reqs, RServe(r)
    PROVE  KnownOK'
BY Served, UserCopyServe, TodoServe, StrangeServe, UnbornServe DEF KnownOK

-----------------------------------------------------------------------------
(* Steps of requests that are about other members: the two sides stay, when *)
(* nothing was overwritten.                                                 *)
LEMMA CleanBefore ==
    ASSUME Typed, HistoryOK, NEW r \in Reqs, RServe(r), NEW k, NEW u, Clean(k, u)'
    PROVE  Clean(k, u)
BY Remembered DEF Clean

LEMMA CourseSide ==
    ASSUME Typed, HistoryOK, KnownOK, NEW r \in Reqs, CopyOK(r), RServe(r),
           NEW k \in CourseIds, NEW u \in Users, ~P(r, k, u), Clean(k, u)'
    PROVE  /\ \A s \in Sides : T(k, u, s)' = T(k, u, s)
           /\ (courses'[k] = None <=> courses[k] = None) \/ ~Inserted(k)
<1>1. /\ TypeOK /\ Serve(r) /\ Active(r) /\ inp[r] # None /\ inp[r] \in Arguments
      /\ inp[r].kind \in Kinds /\ inp[r].kind \in KindsAt(pc[r]) /\ None \notin Rows
  BY Served, ServedAlone, InputFacts, CoursesAssumption DEF Alone, Active, Typed, Arguments
<1>2. inp[r].kind # "create" /\ inp[r].course = k => u \notin UsersOf(inp[r])
  BY <1>1 DEF P, CourseOf
<1>3. CASE courses'[k] = courses[k]
  BY <1>3 DEF T
<1>4. CASE /\ InsertCourse(r) /\ k = r /\ ~Inserted(k)
           /\ courses'[k] = NewCourse(inp[r].name, inp[r].members)
  <2>1. inp[r].kind = "create" /\ u \notin UsersOf(inp[r])
    BY <1>1, <1>4 DEF InsertCourse, At, P, CourseOf
  <2>2. \A s \in Sides : u \notin inp[r].members[s]
    BY <1>1, <2>1, UsersOfFacts DEF Sides
  <2>3. \A s \in Sides : courses'[k].members[s][u] = 0
    BY <1>4, <2>2 DEF NewCourse, Listed
  <2>4. courses[k] = None
    BY <1>4 DEF KnownOK, UnbornOK, Nowhere
  <2> QED BY <1>4, <2>3, <2>4 DEF T
<1>5. CASE Overwrites(r, k) /\ courses'[k] = crow[r].row /\ courses[k] = cread[r]
  <2>1. /\ HoldsCourse(r) /\ crow[r] \in Held /\ crow[r].id = k /\ courses[k] # None
        /\ inp[r].kind # "create" => inp[r].course = k
    BY <1>5 DEF Overwrites, SaveCourse, HoldsCourse, Typed, StageOK
  <2>2. \A s \in Sides : crow[r].row.members[s][u] = courses[k].members[s][u]
    BY <1>2, <1>5, <2>1 DEF CopyOK, KeepsRest
  <2>3. courses'[k] # None
    BY <1>1, <1>5, <2>1 DEF Held
  <2> QED BY <1>5, <2>1, <2>2, <2>3 DEF T
<1>6. ~(RemoveCourse(r) /\ k = inp[r].course)
  BY <1>1, <1>2, UsersOfFacts DEF RemoveCourse, At
<1>7. CASE /\ InsertInCourse(r) /\ crow[r].id = k /\ courses[k] # None
           /\ courses'[k] = [courses[k] EXCEPT !.members["students"][inp[r].user] = Once(@)]
  <2>1. inp[r].kind = "enrol" /\ inp[r].course = k
    BY <1>7 DEF InsertInCourse, At, HoldsCourse, Typed, StageOK
  <2>2. u # inp[r].user /\ inp[r].user \in Users
    BY <1>1, <1>2, <2>1, UsersOfFacts, InputFacts DEF Typed, Active
  <2>3. courses[k] \in Rows
    BY <1>1, <1>7 DEF TypeOK
  <2>4. PICK n : courses'[k] = [courses[k] EXCEPT !.members["students"][inp[r].user] = n]
    BY <1>7
  <2>5. \A s \in Sides : courses'[k].members[s][u] = courses[k].members[s][u]
    BY <2>2, <2>3, <2>4 DEF Rows
  <2>6. courses'[k] # None
    <3>1. Typed'
      BY <1>1, TypedNext DEF Next
    <3>2. Once(courses[k].members["students"][inp[r].user]) \in Nat
      BY <2>2, <2>3 DEF Once, Rows, Sides
    <3>3. [courses[k] EXCEPT !.members["students"][inp[r].user] =
              Once(courses[k].members["students"][inp[r].user])] \in Rows
      BY <2>2, <2>3, <3>2, RowTypes DEF Sides
    <3> QED BY <1>1, <1>7, <3>3
  <2> QED BY <1>7, <2>5, <2>6 DEF T
<1>8. <<"courses", k>> \notin lost'
  BY DEF Clean
<1> QED BY <1>3, <1>4, <1>5, <1>6, <1>7, <1>8, CourseChange

LEMMA UserSide ==
    ASSUME Typed, HistoryOK, KnownOK, NEW r \in Reqs, RServe(r),
           NEW k \in CourseIds, NEW u \in Users, ~P(r, k, u), Clean(k, u)',
           NEW s \in Sides, users[u][s][k] <= 1
    PROVE  users'[u][s][k] = users[u][s][k]
<1>1. /\ TypeOK /\ Serve(r) /\ Active(r) /\ inp[r] # None /\ inp[r] \in Arguments
      /\ inp[r].kind \in Kinds /\ inp[r].kind \in KindsAt(pc[r])
      /\ <<"users", u>> \notin lost' /\ <<k, u>> \notin crossed
  BY Served, ServedAlone, InputFacts, CleanBefore DEF Alone, Active, Typed, Arguments, Clean
<1>2. inp[r].kind # "create" /\ inp[r].course = k => u \notin UsersOf(inp[r])
  BY <1>1 DEF P, CourseOf
<1>3. CASE Saves(r, u)
  <2>1. users'[u] = urow[r].row /\ users[u] = uread[r] /\ HoldsUser(r) /\ urow[r].id = u
    BY <1>1, <1>3 DEF Saves, HoldsUser
  <2>2. ~(inp[r].kind # "password" /\ crow[r].id = k)
    <3> SUFFICES ASSUME inp[r].kind # "password", crow[r].id = k PROVE FALSE
      OBVIOUS
    <3>1. HoldsCourse(r) /\ u \in UsersOf(inp[r])
      BY <1>3, <2>1 DEF Saves, HoldsCourse, KnownOK, UserCopyOK
    <3>2. inp[r].kind = "create"
      BY <1>2, <3>1 DEF Typed, StageOK
    <3>3. k # r
      BY <1>1, <3>1, <3>2 DEF P, CourseOf
    <3> QED BY <1>1, <3>1, <3>2, <3>3 DEF KnownOK, StrangeOK
  <2>3. \/ urow[r].row[s][k] = uread[r][s][k]
        \/ uread[r][s][k] > 1
    BY <2>1, <2>2 DEF KnownOK, UserCopyOK
  <2>4. users[u][s][k] \in Nat
    BY <1>1 DEF TypeOK, UserRows
  <2> QED BY <2>1, <2>3, <2>4
<1>4. CASE Enters(r, u)
  <2>1. inp[r].course # k
    BY <1>1, <1>2, <1>4, UsersOfFacts DEF Enters
  <2>2. PICK n : users'[u] = [users[u] EXCEPT !["students"][inp[r].course] = n]
    BY <1>4 DEF Enters
  <2> QED BY <1>1, <2>1, <2>2 DEF TypeOK, UserRows
<1>5. CASE Pulls(r, u)
  <2>1. inp[r].course # k
    BY <1>1, <1>2, <1>5, UsersOfFacts DEF Pulls
  <2>2. PICK t \in todo[r] : users'[u] = [users[u] EXCEPT ![t.side][inp[r].course] = 0]
    BY <1>5 DEF Pulls
  <2> QED BY <1>1, <2>1, <2>2 DEF TypeOK, UserRows, Tasks
<1> QED BY <1>3, <1>4, <1>5, UsersChange

(* What another request keeps when the two sides of its member stay.        *)
LEMMA StageKept ==
    ASSUME Typed, NEW q \in Reqs, NEW k \in CourseIds, NEW u \in Users, Stage(q, k, u),
           pc'[q] = pc[q], inp'[q] = inp[q], crow'[q] = crow[q], urow'[q] = urow[q], todo'[q] = todo[q],
           \A s \in Sides : T(k, u, s)' = T(k, u, s) /\ users'[u][s][k] = users[u][s][k],
           HoldsCourse(q) \/ pc[q] = "find" => (courses'[k] = None <=> courses[k] = None)
    PROVE  Stage(q, k, u)'
<1>1. HoldsCourse(q)' <=> HoldsCourse(q)
  BY DEF HoldsCourse
<1>2. \A s \in Sides : Eff(q, k, u, s)' = Eff(q, k, u, s)
  BY DEF Eff
<1>3. Goal(q, k, u)' <=> Goal(q, k, u)
  <2>1. Removal(q)' = Removal(q)
    BY DEF Removal
  <2> QED BY <1>2, <2>1 DEF Goal
<1>4. pc[q] = "pull" => HoldsCourse(q)
  BY DEF HoldsCourse
<1>5. "students" \in Sides /\ "tas" \in Sides
  BY DEF Sides
<1> QED BY <1>1, <1>3, <1>4, <1>5 DEF Stage

LEMMA PairElsewhere ==
    ASSUME Typed, HistoryOK, KnownOK, NEW r \in Reqs, CopyOK(r), RServe(r),
           NEW k \in CourseIds, NEW u \in Users, ~P(r, k, u), Pair(k, u)
    PROVE  Pair(k, u)'
<1> SUFFICES ASSUME Clean(k, u)' PROVE PairOK(k, u)'
  BY DEF Pair
<1>1. /\ Alone(r) /\ inp' = inp /\ Active(r) /\ PairOK(k, u)
  BY Served, ServedAlone, CleanBefore DEF Alone, Pair
<1>2. ASSUME NEW s \in Sides
      PROVE  T(k, u, s)' = T(k, u, s) /\ users'[u][s][k] = users[u][s][k]
  <2>1. users[u][s][k] <= 1
    BY <1>1 DEF PairOK
  <2> QED BY <2>1, CourseSide, UserSide
<1>3. ASSUME NEW q \in Reqs
      PROVE  /\ P(q, k, u)' <=> P(q, k, u)
             /\ P(q, k, u) => q # r /\ (Torn(q)' <=> Torn(q))
             /\ Enrols(q)' <=> Enrols(q)
  <2>1. CASE q = r
    BY <1>1, <2>1 DEF P, Enrols
  <2>2. CASE q # r
    BY <1>1, <2>2 DEF P, Active, Alone, Torn, Enrols
  <2> QED BY <2>1, <2>2
<1>4. ASSUME NEW q \in Reqs, P(q, k, u) PROVE Stage(q, k, u)'
  <2>1. Stage(q, k, u) /\ q # r
    BY <1>1, <1>3, <1>4 DEF PairOK
  <2>2. HoldsCourse(q) \/ pc[q] = "find" => (courses'[k] = None <=> courses[k] = None)
    <3>1. Inserted(k) => (courses'[k] = None <=> courses[k] = None)
      BY CourseSide
    <3>2. ~Inserted(k) => ~HoldsCourse(q) /\ pc[q] # "find"
      BY <2>1 DEF Stage, KnownOK, UnbornOK, Nowhere
    <3> QED BY <3>1, <3>2
  <2> QED BY <1>1, <1>2, <2>1, <2>2, StageKept DEF Alone
<1>5. Agree(k, u)' <=> Agree(k, u)
  BY <1>2 DEF Agree
<1>6. \A q, o \in Reqs : P(q, k, u)' /\ P(o, k, u)' => q = o \/ (Enrols(q)' /\ Enrols(o)')
  BY <1>1, <1>3 DEF PairOK
<1>7. \A s \in Sides : users'[u][s][k] <= 1
  BY <1>1, <1>2 DEF PairOK
<1>8. (\A q \in Reqs : P(q, k, u)' => ~Torn(q)') => Agree(k, u)'
  BY <1>1, <1>3, <1>5 DEF PairOK
<1>9. \A q \in Reqs : P(q, k, u)' => Stage(q, k, u)'
  BY <1>3, <1>4
<1> QED BY <1>6, <1>7, <1>8, <1>9 DEF PairOK

-----------------------------------------------------------------------------
(* Steps of a request about the member.                                     *)
Own(r, k, u) == /\ Typed /\ HistoryOK /\ KnownOK /\ RServe(r)
                /\ P(r, k, u) /\ PairOK(k, u) /\ Clean(k, u)'

LEMMA OwnFacts ==
    ASSUME NEW r \in Reqs, NEW k \in CourseIds, NEW u \in Users, Own(r, k, u)
    PROVE  /\ TypeOK /\ Typed' /\ Alone(r) /\ inp' = inp /\ Serve(r) /\ Active(r)
           /\ Clean(k, u) /\ Stage(r, k, u)
           /\ inp[r] # None /\ inp[r] \in Inputs /\ inp[r] \in Arguments
           /\ users[u] \in UserRows /\ courses[k] \in Rows \cup {None} /\ None \notin Rows
           /\ HoldsCourse(r) => crow[r] \in Held /\ crow[r].id = k
           /\ ~Enrols(r) /\ ~Torn(r) => Agree(k, u)
           /\ \A s \in Sides : users[u][s][k] \in {0, 1}
<1>1. TypeOK /\ Serve(r) /\ Alone(r) /\ Clean(k, u)
  BY Served, ServedAlone, CleanBefore DEF Own, Typed
<1>2. Typed'
  BY <1>1, TypedNext DEF Next, Own
<1>3. inp[r] # None /\ inp[r] \in Inputs /\ inp[r] \in Arguments
  BY PairPlaces, <1>1 DEF Own
<1>4. users[u] \in UserRows /\ courses[k] \in Rows \cup {None} /\ None \notin Rows
  BY <1>1, CoursesAssumption DEF TypeOK
<1>5. Stage(r, k, u) /\ \A s \in Sides : users[u][s][k] <= 1
  BY DEF Own, PairOK
<1>6. HoldsCourse(r) => crow[r] \in Held /\ crow[r].id = k
  BY <1>5 DEF Own, Typed, StageOK, Stage
<1>7. ~Enrols(r) /\ ~Torn(r) => Agree(k, u)
  <2> SUFFICES ASSUME ~Enrols(r), ~Torn(r) PROVE Agree(k, u)
    OBVIOUS
  <2>1. \A q \in Reqs : P(q, k, u) => q = r
    BY DEF Own, PairOK
  <2> QED BY <2>1 DEF Own, PairOK
<1>8. \A s \in Sides : users[u][s][k] \in {0, 1}
  <2> TAKE s \in Sides
  <2>1. users[u][s][k] \in Nat /\ users[u][s][k] <= 1
    BY <1>4, <1>5 DEF UserRows
  <2> QED BY <2>1
<1> QED BY <1>1, <1>2, <1>3, <1>4, <1>5, <1>6, <1>7, <1>8 DEF Alone

(* Except for enrolments, only one request is about the member.             *)
LEMMA SoleOwner ==
    ASSUME NEW r \in Reqs, NEW k \in CourseIds, NEW u \in Users, Own(r, k, u), ~Enrols(r),
           \A s \in Sides : users'[u][s][k] \in {0, 1},
           pc'[r] = "done" \/ ~Torn(r)' => Agree(k, u)',
           pc'[r] # "done" => Stage(r, k, u)'
    PROVE  PairOK(k, u)'
<1>1. Alone(r) /\ inp' = inp
  BY OwnFacts
<1>2. \A q \in Reqs : P(q, k, u)' => q = r
  <2>1. \A q \in Reqs : q # r => (P(q, k, u)' <=> P(q, k, u))
    BY <1>1 DEF P, Active, Alone
  <2> QED BY <2>1 DEF Own, PairOK
<1>3. P(r, k, u)' <=> pc'[r] # "done"
  BY <1>1 DEF P, Active, Alone, Own
<1>4. \A s \in Sides : users'[u][s][k] <= 1
  OBVIOUS
<1>5. (\A q \in Reqs : P(q, k, u)' => ~Torn(q)') => Agree(k, u)'
  BY <1>3
<1>6. \A q \in Reqs : P(q, k, u)' => Stage(q, k, u)'
  BY <1>2, <1>3
<1> QED BY <1>2, <1>4, <1>5, <1>6 DEF PairOK

LEMMA AgreeStays ==
    ASSUME NEW k, NEW u, Agree(k, u), courses' = courses, users' = users
    PROVE  Agree(k, u)'
BY DEF Agree, T

(* Nothing is changed before the rows are read.                             *)
LEMMA OwnStill ==
    ASSUME NEW r \in Reqs, NEW k \in CourseIds, NEW u \in Users, Own(r, k, u), ~Enrols(r),
           courses' = courses, users' = users, pc[r] \in {"caller", "readcourse"},
           pc'[r] \in {"done", "insert", "readcourse"}
    PROVE  PairOK(k, u)'
<1>1. Agree(k, u)
  BY OwnFacts DEF Torn
<1>2. Agree(k, u)'
  BY <1>1, AgreeStays
<1>3. Stage(r, k, u)'
  BY DEF Stage, HoldsCourse
<1>4. \A s \in Sides : users'[u][s][k] \in {0, 1}
  BY OwnFacts
<1> QED BY <1>2, <1>3, <1>4, SoleOwner

LEMMA OwnInsert ==
    ASSUME NEW r \in Reqs, NEW k \in CourseIds, NEW u \in Users, Own(r, k, u), InsertCourse(r)
    PROVE  PairOK(k, u)'
<1>1. /\ inp[r].kind = "create" /\ pc[r] = "insert" /\ TypeOK /\ users' = users
      /\ inp' = inp /\ inp[r] # None /\ inp[r] \in Arguments
  BY OwnFacts DEF InsertCourse, At
<1>2. k = r /\ ~Enrols(r)
  BY <1>1, PairPlaces DEF Own, Enrols
<1>3. pc'[r] = "find"
  BY <1>1, GoType DEF InsertCourse, Labels, TypeOK
<1>4. ~Inserted(k)
  BY <1>1, <1>2 DEF Inserted
<1>5. \A s \in Sides : users'[u][s][k] = 0
  BY <1>1, <1>4 DEF Own, KnownOK, UnbornOK, Nowhere
<1>6. courses'[k] # None
  <2>1. courses'[k] = NewCourse(inp[r].name, inp[r].members)
    BY <1>1, <1>2 DEF InsertCourse, TypeOK
  <2>2. NewCourse(inp[r].name, inp[r].members) \in Rows
    BY <1>1, NewCourseType DEF Arguments
  <2> QED BY <2>1, <2>2, CoursesAssumption
<1>7. Stage(r, k, u)' /\ Torn(r)'
  BY <1>3, <1>5, <1>6 DEF Stage, HoldsCourse, Torn
<1> QED BY <1>2, <1>3, <1>5, <1>7, SoleOwner

LEMMA OwnFind ==
    ASSUME NEW r \in Reqs, NEW k \in CourseIds, NEW u \in Users, Own(r, k, u), FindCourse(r)
    PROVE  PairOK(k, u)'
<1>1. /\ inp[r].kind = "create" /\ pc[r] = "find" /\ TypeOK /\ users' = users /\ courses' = courses
      /\ inp' = inp /\ inp[r] # None /\ inp[r] \in Arguments /\ Alike(r) # {} /\ None \notin Rows
  BY OwnFacts DEF FindCourse, At, tables
<1>2. k = r /\ ~Enrols(r)
  BY <1>1, PairPlaces DEF Own, Enrols
<1>3. RFindCourse(r)
  BY <1>1, Watched DEF RGivesUp, GivesUp, Own
<1>4. PICK j \in Alike(r) : /\ j \in CourseIds /\ courses[j] \in Rows
                            /\ crow'[r] = [id |-> j, row |-> [courses[j] EXCEPT !.spell = TRUE]]
                            /\ KeepsRest(r, inp[r], courses[j], crow'[r].row)
  BY FindStep, Zenon DEF Own
<1>5. j = k
  <2>1. crow'[r].id = j
    BY <1>4
  <2>2. j # r => <<r, u>> \in crossed'
    BY <1>3, <2>1 DEF RFindCourse
  <2> QED BY <1>2, <2>2 DEF Own, Clean
<1>6. /\ crow'[r].id = k
      /\ \A s \in Sides : crow'[r].row.members[s][u] = IF u \in inp[r].members[s] THEN 1 ELSE 0
  <2>1. PICK row : row = courses[j]
    OBVIOUS
  <2>2. \A s \in Sides : row.members[s] = Listed(inp[r].members[s], Users)
    BY <1>4, <2>1 DEF Alike
  <2>3. [row EXCEPT !.spell = TRUE].members = row.members
    BY <1>4, <2>1 DEF Rows
  <2>4. crow'[r].row = [row EXCEPT !.spell = TRUE] /\ crow'[r].id = j
    BY <1>4, <2>1
  <2>5. \A s \in Sides : crow'[r].row.members[s] = Listed(inp[r].members[s], Users)
    BY <2>2, <2>3, <2>4
  <2>6. \A ids : Listed(ids, Users)[u] = IF u \in ids THEN 1 ELSE 0
    BY DEF Listed
  <2>7. \A s \in Sides : crow'[r].row.members[s][u] = Listed(inp[r].members[s], Users)[u]
    BY <2>5
  <2> QED BY <1>5, <2>4, <2>6, <2>7
<1>7. todo'[r] = Changes("add", inp[r].members)
  BY <1>1 DEF FindCourse, TypeOK
<1>8. pc'[r] \in {"user", "savecourse"}
  <2>1. Go(r, Loop(r, todo'[r]))
    BY DEF FindCourse
  <2>2. PICK left : left = todo'[r]
    OBVIOUS
  <2>3. Loop(r, left) \in {"user", "savecourse"} /\ Loop(r, left) \in Labels
    BY <1>1, LoopLabels
  <2> QED BY <1>1, <2>1, <2>2, <2>3, GoType DEF TypeOK
<1>9. Goal(r, k, u)'
  <2>1. ASSUME NEW s \in Sides
        PROVE  /\ Eff(r, k, u, s)' = 0
               /\ (\E t \in todo'[r] : t.user = u /\ t.side = s) <=> u \in inp[r].members[s]
               /\ \A t \in todo'[r] : t.op = "add"
    <3>1. Eff(r, k, u, s)' = users[u][s][k]
      BY <1>1, <1>8 DEF Eff
    <3>2. users[u][s][k] = 0
      BY <1>1, OwnFacts DEF Stage
    <3>3. u \in inp[r].members[s] => [user |-> u, side |-> s, op |-> "add"] \in todo'[r]
      BY <1>7 DEF Changes
    <3>4. \A t \in todo'[r] : t.op = "add" /\ t.user \in inp[r].members[t.side]
      BY <1>7 DEF Changes
    <3> QED BY <3>1, <3>2, <3>3, <3>4
  <2> QED BY <1>6, <2>1 DEF Goal
<1>10. courses'[k] # None
  BY <1>1, <1>4, <1>5
<1>11. Stage(r, k, u)' /\ Torn(r)'
  BY <1>1, <1>6, <1>8, <1>9, <1>10 DEF Stage, HoldsCourse, Torn
<1>12. \A s \in Sides : users'[u][s][k] \in {0, 1}
  BY <1>1, OwnFacts
<1> QED BY <1>2, <1>8, <1>11, <1>12, SoleOwner

(* Reading the course row, with the two sides agreed.                       *)
LEMMA OwnReadFacts ==
    ASSUME NEW r \in Reqs, NEW k \in CourseIds, NEW u \in Users, Own(r, k, u), ReadCourse(r)
    PROVE  /\ pc[r] = "readcourse" /\ inp[r].course = k /\ ~Enrols(r)
           /\ inp[r].kind \in {"update", "delete", "add", "drop"}
           /\ inp[r].kind \in {"add", "drop"} => inp[r].user = u /\ inp[r].side \in Sides
           /\ UNCHANGED <<courses, users>> /\ courses[k] \in Rows /\ courses[k] # None
           /\ Agree(k, u)'
           /\ \A s \in Sides : /\ users[u][s][k] = courses[k].members[s][u]
                               /\ users[u][s][k] \in {0, 1} /\ users'[u][s][k] \in {0, 1}
           /\ UseForMember(r, courses[k]) \/ UseForUpdate(r, courses[k])
              \/ (inp[r].kind = "delete" /\ Keep(r, courses[k], {}, "remove"))
<1>1. pc[r] = "readcourse" /\ UNCHANGED <<courses, users>> /\ courses[inp[r].course] # None
  BY DEF ReadCourse, tables
<1>2. /\ inp[r].course = k /\ inp[r].kind \in {"update", "delete", "add", "drop"}
      /\ inp[r].kind \in {"add", "drop"} => inp[r].user = u /\ inp[r].side \in Sides
  <2>1. inp[r].kind \in {"update", "delete", "add", "drop"}
    BY <1>1, PairPlaces DEF Own
  <2> QED BY <1>1, <2>1, PairPlaces, InputFacts DEF Own, Typed
<1>3. Agree(k, u) /\ courses[k] \in Rows
  BY <1>1, <1>2, OwnFacts DEF Torn, Enrols
<1>4. Agree(k, u)'
  BY <1>1, <1>3, AgreeStays
<1>5. \A s \in Sides : /\ users[u][s][k] = courses[k].members[s][u]
                       /\ users[u][s][k] \in {0, 1} /\ users'[u][s][k] \in {0, 1}
  <2> TAKE s \in Sides
  <2>1. users[u][s][k] \in {0, 1}
    BY OwnFacts
  <2>2. users'[u][s][k] = users[u][s][k]
    BY <1>1
  <2>3. users[u][s][k] = courses[k].members[s][u]
    BY <1>1, <1>2, <1>3 DEF Agree, T
  <2> QED BY <2>1, <2>2, <2>3
<1>6. UseForMember(r, courses[k]) \/ UseForUpdate(r, courses[k])
      \/ (inp[r].kind = "delete" /\ Keep(r, courses[k], {}, "remove"))
  BY <1>2 DEF ReadCourse, UseForList
<1> QED BY <1>1, <1>2, <1>3, <1>4, <1>5, <1>6 DEF Enrols

LEMMA OwnMember ==
    ASSUME NEW r \in Reqs, NEW k \in CourseIds, NEW u \in Users, Own(r, k, u), ReadCourse(r),
           UseForMember(r, courses[k])
    PROVE  PairOK(k, u)'
<1>1. PICK row : row = courses[k]
  OBVIOUS
<1>2. PICK c : c = inp[r]
  OBVIOUS
<1>3. /\ TypeOK /\ row \in Rows /\ row # None /\ users' = users /\ courses' = courses
      /\ c.course = k /\ c.user = u /\ inp' = inp /\ c.kind \in {"add", "drop"}
      /\ c.side \in Sides /\ ~Enrols(r) /\ Agree(k, u)'
      /\ \A s \in Sides : /\ users[u][s][k] = row.members[s][u] /\ users[u][s][k] \in {0, 1}
                          /\ users'[u][s][k] \in {0, 1}
  <2>1. inp[r].kind \in {"add", "drop"}
    BY DEF UseForMember
  <2> QED BY <1>1, <1>2, <2>1, OwnReadFacts, OwnFacts
<1>4. PICK t : t = [user |-> u, side |-> c.side, op |-> c.kind]
  OBVIOUS
<1>5. \/ Keep(r, row, {}, "done")
      \/ /\ c.kind = "add" /\ row.members[c.side][u] = 0
         /\ Keep(r, [row EXCEPT !.members[c.side][u] = 1], {t}, "savecourse")
      \/ /\ c.kind = "drop" /\ row.members[c.side][u] > 0
         /\ Keep(r, [row EXCEPT !.members[c.side][u] = @ - 1], {t}, "savecourse")
  BY <1>1, <1>2, <1>3, <1>4 DEF UseForMember
<1>6. CASE Keep(r, row, {}, "done")
  <2>1. pc'[r] = "done"
    BY <1>3, <1>6, GoType DEF Keep, Labels, TypeOK
  <2> QED BY <1>3, <2>1, SoleOwner
<1>7. ASSUME NEW n \in {0, 1},
             Keep(r, [row EXCEPT !.members[c.side][u] = n], {t}, "savecourse"),
             \/ c.kind = "add" /\ n = 1 /\ row.members[c.side][u] = 0
             \/ c.kind = "drop" /\ n = 0 /\ row.members[c.side][u] = 1
      PROVE  PairOK(k, u)'
  <2>1. pc'[r] = "savecourse"
    BY <1>3, <1>7, GoType DEF Keep, Labels, TypeOK
  <2>2. /\ crow'[r] = [id |-> k, row |-> [row EXCEPT !.members[c.side][u] = n]]
        /\ todo'[r] = {t}
    BY <1>2, <1>3, <1>7 DEF Keep, TypeOK
  <2>3. PICK new : new = [row EXCEPT !.members[c.side][u] = n]
    OBVIOUS
  <2>4. \A s \in Sides : new.members[s][u] = IF s = c.side THEN n ELSE row.members[s][u]
    BY <1>3, <2>3 DEF Rows
  <2>5. crow'[r].id = k /\ crow'[r].row = new
    BY <2>2, <2>3
  <2>6. \A s \in Sides : Eff(r, k, u, s)' = row.members[s][u]
    BY <1>3, <2>1 DEF Eff
  <2>7. Removal(r)' = "drop" <=> c.kind = "drop"
    BY <1>2, <1>3 DEF Removal
  <2>8. Goal(r, k, u)'
    <3>1. ASSUME NEW s \in Sides
          PROVE  /\ crow'[r].row.members[s][u] <= 1
                 /\ (\A x \in todo'[r] : ~(x.user = u /\ x.side = s)) =>
                        Eff(r, k, u, s)' = crow'[r].row.members[s][u]
                 /\ \A x \in todo'[r] : x.user = u /\ x.side = s =>
                      \/ x.op = "add" /\ Eff(r, k, u, s)' = 0 /\ crow'[r].row.members[s][u] = 1
                      \/ x.op = Removal(r)' /\ Eff(r, k, u, s)' = 1 /\ crow'[r].row.members[s][u] = 0
      <4>1. CASE s = c.side
        BY <1>4, <1>7, <2>2, <2>4, <2>5, <2>6, <2>7, <4>1
      <4>2. CASE s # c.side
        <5>1. \A x \in todo'[r] : ~(x.user = u /\ x.side = s)
          BY <1>4, <2>2, <4>2
        <5>2. crow'[r].row.members[s][u] = row.members[s][u]
          BY <2>4, <2>5, <4>2
        <5>3. row.members[s][u] \in {0, 1}
          BY <1>3
        <5> QED BY <2>6, <5>1, <5>2, <5>3
      <4> QED BY <4>1, <4>2
    <3> QED BY <3>1 DEF Goal
  <2>9. Stage(r, k, u)'
    BY <1>1, <1>3, <2>1, <2>5, <2>8 DEF Stage, HoldsCourse
  <2> QED BY <1>3, <2>9, SoleOwner
<1>8. CASE /\ c.kind = "drop" /\ row.members[c.side][u] > 0
           /\ Keep(r, [row EXCEPT !.members[c.side][u] = @ - 1], {t}, "savecourse")
  <2>1. row.members[c.side][u] = 1
    <3>1. row.members[c.side][u] \in {0, 1}
      BY <1>3
    <3> QED BY <1>8, <3>1
  <2>2. [row EXCEPT !.members[c.side][u] = @ - 1] = [row EXCEPT !.members[c.side][u] = 0]
    BY <1>3, <2>1 DEF Rows
  <2> QED BY <1>7, <1>8, <2>1, <2>2
<1> QED BY <1>5, <1>6, <1>7, <1>8

LEMMA OwnUpdate ==
    ASSUME NEW r \in Reqs, NEW k \in CourseIds, NEW u \in Users, Own(r, k, u), ReadCourse(r),
           UseForUpdate(r, courses[k])
    PROVE  PairOK(k, u)'
<1>1. PICK row : row = courses[k]
  OBVIOUS
<1>2. PICK new : new = inp[r].members
  OBVIOUS
<1>3. /\ TypeOK /\ row \in Rows /\ row # None /\ users' = users /\ courses' = courses
      /\ inp[r].course = k /\ inp' = inp /\ ~Enrols(r) /\ inp[r].kind = "update"
      /\ \A s \in Sides : /\ users[u][s][k] = row.members[s][u] /\ users[u][s][k] \in {0, 1}
                          /\ users'[u][s][k] \in {0, 1}
  <2>1. inp[r].kind = "update"
    BY DEF UseForUpdate
  <2> QED BY <1>1, <2>1, OwnReadFacts, OwnFacts
<1>4. PICK was : was = [s \in Sides |-> {x \in Users : row.members[s][x] > 0}]
  OBVIOUS
<1>5. PICK left : left = Changes("add", [s \in Sides |-> new[s] \ was[s]])
                       \cup Changes("sub", [s \in Sides |-> was[s] \ new[s]])
  OBVIOUS
<1>6. PICK after : after = [row EXCEPT !.members = [s \in Sides |-> Listed(new[s], Users)],
                                       !.status = inp[r].status]
  OBVIOUS
<1>7. Keep(r, after, left, Loop(r, left))
  BY <1>1, <1>2, <1>4, <1>5, <1>6 DEF UseForUpdate
<1>8. crow'[r].id = k /\ crow'[r].row = after /\ todo'[r] = left
  BY <1>3, <1>7 DEF Keep, TypeOK
<1>9. pc'[r] \in {"user", "savecourse"}
  <2>1. Loop(r, left) \in {"user", "savecourse"} /\ Loop(r, left) \in Labels
    BY <1>3, LoopLabels
  <2>2. Go(r, Loop(r, left))
    BY <1>7 DEF Keep
  <2>3. PICK label \in Labels : label = Loop(r, left)
    BY <2>1
  <2> QED BY <1>3, <2>1, <2>2, <2>3, GoType DEF TypeOK
<1>10. \A s \in Sides : after.members[s][u] = IF u \in new[s] THEN 1 ELSE 0
  <2>1. after.members = [s \in Sides |-> Listed(new[s], Users)]
    BY <1>3, <1>6 DEF Rows
  <2> QED BY <2>1 DEF Listed
<1>11. Goal(r, k, u)'
  <2>1. Removal(r)' = "sub"
    BY <1>3 DEF Removal
  <2>2. ASSUME NEW s \in Sides
        PROVE  /\ Eff(r, k, u, s)' = IF u \in was[s] THEN 1 ELSE 0
               /\ (\E t \in left : t.user = u /\ t.side = s) <=> ((u \in new[s]) # (u \in was[s]))
               /\ \A t \in left : t.user = u /\ t.side = s =>
                     \/ t.op = "add" /\ u \in new[s] /\ u \notin was[s]
                     \/ t.op = "sub" /\ u \in was[s] /\ u \notin new[s]
    <3>1. Eff(r, k, u, s)' = row.members[s][u] /\ row.members[s][u] \in {0, 1}
      BY <1>3, <1>9 DEF Eff
    <3>2. u \in was[s] <=> row.members[s][u] > 0
      BY <1>4
    <3>3. \A t \in left : t.user = u /\ t.side = s =>
             \/ t.op = "add" /\ u \in new[s] /\ u \notin was[s]
             \/ t.op = "sub" /\ u \in was[s] /\ u \notin new[s]
      BY <1>5 DEF Changes
    <3>4. /\ u \in new[s] /\ u \notin was[s] => [user |-> u, side |-> s, op |-> "add"] \in left
          /\ u \in was[s] /\ u \notin new[s] => [user |-> u, side |-> s, op |-> "sub"] \in left
      BY <1>5 DEF Changes
    <3> QED BY <3>1, <3>2, <3>3, <3>4
  <2> QED BY <1>8, <1>10, <2>1, <2>2 DEF Goal
<1>12. Stage(r, k, u)' /\ Torn(r)'
  BY <1>1, <1>3, <1>8, <1>9, <1>11 DEF Stage, HoldsCourse, Torn
<1> QED BY <1>3, <1>9, <1>12, SoleOwner

LEMMA OwnRead ==
    ASSUME NEW r \in Reqs, NEW k \in CourseIds, NEW u \in Users, Own(r, k, u), ReadCourse(r)
    PROVE  PairOK(k, u)'
<1>1. CASE inp[r].kind = "delete" /\ Keep(r, courses[k], {}, "remove")
  <2>1. /\ TypeOK /\ UNCHANGED <<courses, users>> /\ courses[k] # None /\ inp[r].course = k
        /\ inp' = inp /\ ~Enrols(r) /\ Agree(k, u)' /\ \A s \in Sides : users'[u][s][k] \in {0, 1}
    BY OwnReadFacts, OwnFacts
  <2>2. pc'[r] = "remove"
    BY <1>1, <2>1, GoType DEF Keep, Labels, TypeOK
  <2>3. crow'[r].id = k /\ crow'[r].row = courses[k]
    BY <1>1, <2>1 DEF Keep, TypeOK
  <2>4. \A s \in Sides : T(k, u, s)' = crow'[r].row.members[s][u]
    BY <2>1, <2>3 DEF T
  <2>5. Stage(r, k, u)'
    BY <2>1, <2>2, <2>3, <2>4 DEF Stage, HoldsCourse
  <2> QED BY <2>1, <2>5, SoleOwner
<1> QED BY <1>1, OwnReadFacts, OwnMember, OwnUpdate

LEMMA OwnSaveCourse ==
    ASSUME NEW r \in Reqs, NEW k \in CourseIds, NEW u \in Users, Own(r, k, u), SaveCourse(r)
    PROVE  PairOK(k, u)'
<1>1. /\ TypeOK /\ pc[r] = "savecourse" /\ HoldsCourse(r) /\ users' = users /\ inp' = inp
      /\ crow' = crow /\ todo' = todo /\ SaveRow(crow[r].id, crow[r].row)
  BY OwnFacts DEF SaveCourse, HoldsCourse, locals
<1>2. /\ inp[r].kind \in {"add", "drop", "create", "update"} /\ ~Enrols(r)
  BY <1>1, PairPlaces DEF Own, Enrols
<1>3. crow[r] \in Held /\ crow[r].id = k /\ courses[k] # None /\ Goal(r, k, u)
  BY <1>1, OwnFacts DEF Stage
<1>4. courses'[k] = crow[r].row /\ courses'[k] # None
  <2>1. crow[r].row \in Rows
    BY <1>3 DEF Held
  <2> QED BY <1>1, <1>3, <2>1, OwnFacts DEF SaveRow, TypeOK
<1>5. \A s \in Sides : T(k, u, s)' = crow[r].row.members[s][u]
  BY <1>4 DEF T
<1>6. \A s \in Sides : Eff(r, k, u, s) = users[u][s][k] /\ users'[u][s][k] \in {0, 1}
  BY <1>1, OwnFacts DEF Eff
<1>7. CASE inp[r].kind \in {"add", "drop"}
  <2>1. pc'[r] = "user"
    BY <1>1, <1>7, GoType DEF SaveCourse, Labels, TypeOK
  <2>2. \A s \in Sides : Eff(r, k, u, s)' = Eff(r, k, u, s)
    BY <1>1, <1>6, <2>1 DEF Eff
  <2>3. Goal(r, k, u)'
    <3>1. Removal(r)' = Removal(r)
      BY <1>1 DEF Removal
    <3> QED BY <1>1, <1>3, <2>2, <3>1 DEF Goal
  <2>4. Stage(r, k, u)' /\ Torn(r)'
    BY <1>1, <1>3, <1>4, <1>5, <1>7, <2>1, <2>3 DEF Stage, HoldsCourse, Torn
  <2> QED BY <1>2, <1>6, <2>1, <2>4, SoleOwner
<1>8. CASE inp[r].kind \in {"create", "update"}
  <2>1. pc'[r] = "done"
    BY <1>1, <1>8, GoType DEF SaveCourse, Labels, TypeOK
  <2>2. todo[r] = {}
    BY <1>1, <1>8 DEF Own, KnownOK, TodoOK
  <2>3. Agree(k, u)'
    BY <1>1, <1>3, <1>5, <1>6, <2>2 DEF Goal, Agree
  <2> QED BY <1>2, <1>6, <2>1, <2>3, SoleOwner
<1> QED BY <1>2, <1>7, <1>8

LEMMA OwnReadUser ==
    ASSUME NEW r \in Reqs, NEW k \in CourseIds, NEW u \in Users, Own(r, k, u), ReadUser(r)
    PROVE  PairOK(k, u)'
<1>1. /\ TypeOK /\ HoldsCourse(r) /\ crow[r] \in Held /\ crow[r].id = k /\ pc[r] = "user"
      /\ inp[r].kind \in {"add", "drop", "create", "update"} /\ ~Enrols(r)
      /\ users' = users /\ courses' = courses /\ inp' = inp /\ crow' = crow
  BY ReadUserStep, OwnFacts DEF Own, tables, Enrols
<1>2. PICK t \in todo[r] :
         /\ t \in Tasks /\ t.op \in {"add", "drop", "sub"}
         /\ \/ /\ pc'[r] = "done" /\ t.op = "drop" /\ users[t.user][t.side][crow[r].id] = 0
            \/ /\ pc'[r] = "saveuser" /\ todo'[r] = todo[r] \ {t}
               /\ urow'[r].id = t.user /\ uread'[r] = users[t.user]
               /\ urow'[r].row = Changed(users[t.user], t, crow[r].id)
  BY ReadUserStep DEF Own
<1>3. Goal(r, k, u) /\ courses[k] # None /\ t.side \in Sides
  BY <1>1, <1>2, OwnFacts DEF Stage, Tasks
<1>4. \A s \in Sides : Eff(r, k, u, s) = users[u][s][k] /\ users'[u][s][k] \in {0, 1}
  BY <1>1, OwnFacts DEF Eff
<1>5. ~(pc'[r] = "done" /\ t.op = "drop" /\ users[t.user][t.side][crow[r].id] = 0)
  <2> SUFFICES ASSUME t.op = "drop", users[t.user][t.side][crow[r].id] = 0 PROVE FALSE
    OBVIOUS
  <2>1. inp[r].kind = "drop" /\ t.user \in UsersOf(inp[r])
    BY <1>1 DEF Own, KnownOK, TodoOK
  <2>2. t.user = u
    BY <2>1, UsersOfFacts, PairPlaces, OwnFacts DEF Own, Kinds
  <2> QED BY <1>1, <1>3, <1>4, <2>2 DEF Goal
<1>6. /\ pc'[r] = "saveuser" /\ todo'[r] = todo[r] \ {t} /\ urow'[r].id = t.user
      /\ urow'[r].row = Changed(users[t.user], t, k)
  BY <1>1, <1>2, <1>5
<1>7. Removal(r)' = Removal(r) /\ Removal(r) # "add"
  BY <1>1 DEF Removal
<1>8. ASSUME NEW s \in Sides
      PROVE  /\ crow[r].row.members[s][u] <= 1
             /\ (\A x \in todo'[r] : ~(x.user = u /\ x.side = s)) =>
                    Eff(r, k, u, s)' = crow[r].row.members[s][u]
             /\ \A x \in todo'[r] : x.user = u /\ x.side = s =>
                  \/ x.op = "add" /\ Eff(r, k, u, s)' = 0 /\ crow[r].row.members[s][u] = 1
                  \/ x.op = Removal(r) /\ Eff(r, k, u, s)' = 1 /\ crow[r].row.members[s][u] = 0
  <2>1. /\ crow[r].row.members[s][u] <= 1
        /\ (\A x \in todo[r] : ~(x.user = u /\ x.side = s)) =>
               users[u][s][k] = crow[r].row.members[s][u]
        /\ \A x \in todo[r] : x.user = u /\ x.side = s =>
             \/ x.op = "add" /\ users[u][s][k] = 0 /\ crow[r].row.members[s][u] = 1
             \/ x.op = Removal(r) /\ users[u][s][k] = 1 /\ crow[r].row.members[s][u] = 0
    BY <1>3, <1>4 DEF Goal
  <2>2. PICK row \in UserRows : row = users[u]
    BY OwnFacts
  <2>3. CASE t.user = u /\ t.side = s
    <3>1. Eff(r, k, u, s)' = Changed(row, t, k)[s][k]
      BY <1>6, <2>2, <2>3 DEF Eff
    <3>2. Changed(row, t, k)[s][k] = crow[r].row.members[s][u]
      <4>1. \/ t.op = "add" /\ row[s][k] = 0 /\ crow[r].row.members[s][u] = 1
            \/ t.op = Removal(r) /\ row[s][k] = 1 /\ crow[r].row.members[s][u] = 0
        BY <2>1, <2>2, <2>3
      <4>2. /\ t.op = "add" => Changed(row, t, k)[s][k] = row[s][k] + 1
            /\ t.op = "drop" => Changed(row, t, k)[s][k] = row[s][k] - 1
            /\ t.op = "sub" => Changed(row, t, k)[s][k] = 0
        BY <1>2, <2>2, <2>3, ChangedFacts
      <4>3. t.op # "add" => t.op \in {"drop", "sub"}
        BY <1>2
      <4> QED BY <1>7, <4>1, <4>2, <4>3
    <3>3. \A x \in todo'[r] : ~(x.user = u /\ x.side = s)
      <4> SUFFICES ASSUME NEW x \in todo[r], x # t, x.user = u, x.side = s PROVE FALSE
        BY <1>6
      <4>1. x.op = t.op
        BY <1>7, <2>1, <2>3
      <4>2. x \in Tasks /\ t \in Tasks
        BY <1>1 DEF TypeOK
      <4> QED BY <2>3, <4>1, <4>2 DEF Tasks
    <3> QED BY <2>1, <3>1, <3>2, <3>3
  <2>4. CASE ~(t.user = u /\ t.side = s)
    <3>1. Eff(r, k, u, s)' = users[u][s][k]
      <4>1. CASE t.user # u
        BY <1>1, <1>6, <4>1 DEF Eff
      <4>2. CASE t.user = u
        <5>1. Eff(r, k, u, s)' = Changed(row, t, k)[s][k]
          BY <1>6, <2>2, <4>2 DEF Eff
        <5>2. Changed(row, t, k)[s] = row[s]
          BY <1>2, <2>2, <2>4, <4>2, ChangedFacts
        <5> QED BY <2>2, <5>1, <5>2
      <4> QED BY <4>1, <4>2
    <3>2. \A x \in todo[r] : x.user = u /\ x.side = s => x \in todo'[r]
      BY <1>6, <2>4
    <3>3. todo'[r] \subseteq todo[r]
      BY <1>6
    <3> QED BY <2>1, <3>1, <3>2, <3>3
  <2> QED BY <2>3, <2>4
<1>9. Goal(r, k, u)'
  BY <1>1, <1>7, <1>8 DEF Goal
<1>10. inp[r].kind \in {"add", "drop"} => \A s \in Sides : T(k, u, s)' = crow'[r].row.members[s][u]
  <2>1. \A s \in Sides : T(k, u, s)' = T(k, u, s)
    BY <1>1 DEF T
  <2>2. Stage(r, k, u)
    BY OwnFacts
  <2> QED BY <1>1, <2>1, <2>2 DEF Stage
<1>11. Stage(r, k, u)' /\ Torn(r)'
  BY <1>1, <1>3, <1>6, <1>9, <1>10 DEF Stage, HoldsCourse, Torn
<1> QED BY <1>1, <1>4, <1>6, <1>11, SoleOwner

LEMMA OwnSaveUser ==
    ASSUME NEW r \in Reqs, NEW k \in CourseIds, NEW u \in Users, Own(r, k, u), SaveUser(r)
    PROVE  PairOK(k, u)'
<1>1. /\ TypeOK /\ pc[r] = "saveuser" /\ courses' = courses /\ inp' = inp /\ crow' = crow
      /\ todo' = todo /\ urow[r] \in HeldUser
      /\ users' = [users EXCEPT ![urow[r].id] = urow[r].row]
  BY OwnFacts DEF SaveUser, locals, Own, Typed, StageOK, HoldsUser
<1>2. inp[r].kind \in {"create", "update", "add", "drop"} /\ ~Enrols(r)
  BY <1>1, PairPlaces DEF Own, Enrols
<1>3. HoldsCourse(r) /\ crow[r].id = k /\ courses[k] # None /\ Goal(r, k, u)
  BY <1>1, <1>2, OwnFacts DEF Stage, HoldsCourse
<1>4. \A s \in Sides : users'[u][s][k] = Eff(r, k, u, s)
  BY <1>1 DEF Eff, TypeOK, HeldUser
<1>5. \A s \in Sides : users'[u][s][k] \in {0, 1}
  <2> TAKE s \in Sides
  <2>1. crow[r].row.members[s][u] \in Nat
    BY <1>3, OwnFacts DEF Held, Rows
  <2>2. Eff(r, k, u, s) = crow[r].row.members[s][u] \/ Eff(r, k, u, s) \in {0, 1}
    BY <1>3 DEF Goal
  <2>3. crow[r].row.members[s][u] <= 1
    BY <1>3 DEF Goal
  <2> QED BY <1>4, <2>1, <2>2, <2>3
<1>6. Go(r, Loop(r, todo[r])) /\ pc'[r] = Loop(r, todo[r])
  <2>1. PICK label \in Labels : label = Loop(r, todo[r])
    BY LoopLabels
  <2>2. Go(r, label)
    BY <2>1 DEF SaveUser
  <2> QED BY <1>1, <2>1, <2>2, GoType DEF TypeOK
<1>7. \/ pc'[r] = "user"
      \/ pc'[r] = "savecourse" /\ inp[r].kind \in {"create", "update"}
      \/ pc'[r] = "done" /\ todo[r] = {} /\ inp[r].kind \in {"add", "drop"}
  BY <1>2, <1>6 DEF Loop
<1>8. CASE pc'[r] = "done" /\ todo[r] = {} /\ inp[r].kind \in {"add", "drop"}
  <2>1. \A s \in Sides : T(k, u, s) = crow[r].row.members[s][u]
    <3>1. Stage(r, k, u)
      BY OwnFacts
    <3> QED BY <1>1, <1>8, <3>1 DEF Stage
  <2>2. \A s \in Sides : T(k, u, s)' = T(k, u, s)
    BY <1>1 DEF T
  <2>3. \A s \in Sides : Eff(r, k, u, s) = crow[r].row.members[s][u]
    BY <1>3, <1>8 DEF Goal
  <2>4. Agree(k, u)'
    BY <1>4, <2>1, <2>2, <2>3 DEF Agree
  <2> QED BY <1>2, <1>5, <1>8, <2>4, SoleOwner
<1>9. CASE pc'[r] \in {"user", "savecourse"} /\ (pc'[r] = "savecourse" => inp[r].kind \in {"create", "update"})
  <2>1. \A s \in Sides : Eff(r, k, u, s)' = Eff(r, k, u, s)
    <3>1. \A s \in Sides : Eff(r, k, u, s)' = users'[u][s][k]
      BY <1>9 DEF Eff
    <3> QED BY <1>4, <3>1
  <2>2. Goal(r, k, u)'
    <3>1. Removal(r)' = Removal(r)
      BY <1>1 DEF Removal
    <3> QED BY <1>1, <1>3, <2>1, <3>1 DEF Goal
  <2>3. inp[r].kind \in {"add", "drop"} => \A s \in Sides : T(k, u, s)' = crow'[r].row.members[s][u]
    <3>1. \A s \in Sides : T(k, u, s)' = T(k, u, s)
      BY <1>1 DEF T
    <3>2. Stage(r, k, u)
      BY OwnFacts
    <3> QED BY <1>1, <3>1, <3>2 DEF Stage
  <2>4. Stage(r, k, u)' /\ Torn(r)'
    BY <1>1, <1>2, <1>3, <1>9, <2>2, <2>3 DEF Stage, HoldsCourse, Torn
  <2> QED BY <1>2, <1>5, <1>9, <2>4, SoleOwner
<1> QED BY <1>7, <1>8, <1>9

(* Deleting the course: its row first, then the users it listed.            *)
LEMMA OwnRemove ==
    ASSUME NEW r \in Reqs, NEW k \in CourseIds, NEW u \in Users, Own(r, k, u), RemoveCourse(r)
    PROVE  PairOK(k, u)'
<1>1. /\ TypeOK /\ pc[r] = "remove" /\ inp[r].kind = "delete" /\ users' = users /\ inp' = inp
      /\ crow' = crow /\ HoldsCourse(r)
      /\ courses' = [courses EXCEPT ![inp[r].course] = None]
  BY OwnFacts DEF RemoveCourse, At, HoldsCourse
<1>2. crow[r].id = k /\ inp[r].course = k /\ ~Enrols(r)
  BY <1>1, PairPlaces, OwnFacts DEF Own, Enrols
<1>3. courses'[k] = None
  BY <1>1, <1>2 DEF TypeOK
<1>4. \A s \in Sides : users'[u][s][k] = crow[r].row.members[s][u] /\ users'[u][s][k] \in {0, 1}
  <2>1. \A s \in Sides : T(k, u, s) = crow[r].row.members[s][u]
    <3>1. Stage(r, k, u)
      BY OwnFacts
    <3> QED BY <1>1, <3>1 DEF Stage
  <2>2. Agree(k, u) /\ \A s \in Sides : users[u][s][k] \in {0, 1}
    BY <1>1, <1>2, OwnFacts DEF Torn
  <2> QED BY <1>1, <2>1, <2>2 DEF Agree
<1>5. todo'[r] = {t \in [user : Users, side : Sides, op : {"pull"}] :
                     crow[r].row.members[t.side][t.user] > 0}
  BY <1>1 DEF RemoveCourse, TypeOK
<1>6. \A s \in Sides : users'[u][s][k] # 0 => [user |-> u, side |-> s, op |-> "pull"] \in todo'[r]
  <2> SUFFICES ASSUME NEW s \in Sides, users'[u][s][k] # 0
               PROVE  [user |-> u, side |-> s, op |-> "pull"] \in todo'[r]
    OBVIOUS
  <2>1. crow[r].row.members[s][u] > 0
    <3>1. users'[u][s][k] \in {0, 1}
      BY <1>4
    <3> QED BY <1>4, <3>1
  <2> QED BY <1>5, <2>1
<1>7. pc'[r] = IF todo'[r] = {} THEN "done" ELSE "pull"
  <2>1. PICK label \in Labels : label = IF todo'[r] = {} THEN "done" ELSE "pull"
    BY DEF Labels
  <2>2. Go(r, label)
    BY <2>1 DEF RemoveCourse
  <2> QED BY <1>1, <2>1, <2>2, GoType DEF TypeOK
<1>8. CASE todo'[r] = {}
  <2>1. Agree(k, u)'
    BY <1>3, <1>6, <1>8 DEF Agree, T
  <2> QED BY <1>2, <1>4, <1>7, <1>8, <2>1, SoleOwner
<1>9. CASE todo'[r] # {}
  <2>1. \A s \in Sides : users'[u][s][k] # 0 => \E t \in todo'[r] : t.user = u /\ t.side = s
    BY <1>6
  <2>2. Stage(r, k, u)' /\ Torn(r)'
    BY <1>1, <1>2, <1>3, <1>7, <1>9, <2>1 DEF Stage, HoldsCourse, Torn
  <2> QED BY <1>2, <1>4, <1>7, <1>9, <2>2, SoleOwner
<1> QED BY <1>8, <1>9

LEMMA OwnPull ==
    ASSUME NEW r \in Reqs, NEW k \in CourseIds, NEW u \in Users, Own(r, k, u), Pull(r)
    PROVE  PairOK(k, u)'
<1>1. /\ TypeOK /\ pc[r] = "pull" /\ inp[r].kind = "delete" /\ courses' = courses /\ inp' = inp
      /\ crow' = crow /\ HoldsCourse(r)
  BY OwnFacts DEF Pull, At, HoldsCourse
<1>2. crow[r].id = k /\ inp[r].course = k /\ ~Enrols(r)
  BY <1>1, PairPlaces, OwnFacts DEF Own, Enrols
<1>3. /\ courses[k] = None
      /\ \A s \in Sides : users[u][s][k] # 0 => \E t \in todo[r] : t.user = u /\ t.side = s
  BY <1>1, OwnFacts DEF Stage
<1>4. PICK t \in todo[r] : /\ users' = [users EXCEPT ![t.user][t.side][k] = 0]
                           /\ todo' = [todo EXCEPT ![r] = @ \ {t}]
  BY <1>2 DEF Pull, Foremost
<1>5. t \in Tasks /\ todo'[r] = todo[r] \ {t}
  BY <1>1, <1>4 DEF TypeOK
<1>6. \A s \in Sides : users'[u][s][k] = IF t.user = u /\ t.side = s THEN 0 ELSE users[u][s][k]
  BY <1>1, <1>4, <1>5 DEF TypeOK, UserRows, Tasks
<1>7. \A s \in Sides : users'[u][s][k] \in {0, 1}
  BY <1>6, OwnFacts
<1>8. \A s \in Sides : users'[u][s][k] # 0 => \E x \in todo'[r] : x.user = u /\ x.side = s
  BY <1>3, <1>5, <1>6
<1>9. pc'[r] = IF todo'[r] = {} THEN "done" ELSE "pull"
  <2>1. PICK label \in Labels : label = IF todo'[r] = {} THEN "done" ELSE "pull"
    BY DEF Labels
  <2>2. Go(r, label)
    BY <2>1 DEF Pull
  <2> QED BY <1>1, <2>1, <2>2, GoType DEF TypeOK
<1>10. CASE todo'[r] = {}
  <2>1. Agree(k, u)'
    BY <1>1, <1>3, <1>8, <1>10 DEF Agree, T
  <2> QED BY <1>2, <1>7, <1>9, <1>10, <2>1, SoleOwner
<1>11. CASE todo'[r] # {}
  <2>1. Stage(r, k, u)' /\ Torn(r)'
    BY <1>1, <1>2, <1>3, <1>8, <1>9, <1>11 DEF Stage, HoldsCourse, Torn
  <2> QED BY <1>2, <1>7, <1>9, <1>11, <2>1, SoleOwner
<1> QED BY <1>10, <1>11

-----------------------------------------------------------------------------
(* Enrolments, several of which may be about one member.                    *)
EnrolStage(q, k, u) ==
    /\ HoldsCourse(q) => crow[q].id = k /\ courses[k] # None
    /\ pc[q] = "inscourse" => /\ users[u]["students"][k] = 1
                              /\ users[u]["tas"][k] = T(k, u, "tas")
                              /\ T(k, u, "students") <= 1

LEMMA EnrolStages ==
    ASSUME Typed, NEW q \in Reqs, NEW k, NEW u, P(q, k, u), Enrols(q)
    PROVE  /\ Stage(q, k, u) <=> EnrolStage(q, k, u)
           /\ pc[q] \in {"caller", "readspell", "insuser", "inscourse"}
           /\ Torn(q) <=> pc[q] = "inscourse"
           /\ inp[q].user = u /\ inp[q].course = k
<1>1. /\ pc[q] \in {"caller", "readspell", "insuser", "inscourse"}
      /\ inp[q].kind = "enrol" /\ inp[q].user = u /\ inp[q].course = k
  BY PairPlaces DEF Enrols
<1>2. Stage(q, k, u) <=> EnrolStage(q, k, u)
  BY <1>1 DEF Stage, EnrolStage
<1>3. Torn(q) <=> pc[q] = "inscourse"
  BY <1>1 DEF Torn
<1> QED BY <1>1, <1>2, <1>3

LEMMA EnrolFacts ==
    ASSUME NEW r \in Reqs, NEW k \in CourseIds, NEW u \in Users, Own(r, k, u), Enrols(r)
    PROVE  /\ pc[r] \in {"caller", "readspell", "insuser", "inscourse"}
           /\ inp[r].user = u /\ inp[r].course = k
           /\ EnrolStage(r, k, u) /\ (Torn(r) <=> pc[r] = "inscourse")
           /\ \A q \in Reqs : q # r =>
                 /\ P(q, k, u)' <=> P(q, k, u)
                 /\ P(q, k, u) => /\ Enrols(q) /\ EnrolStage(q, k, u) /\ (Torn(q)' <=> Torn(q))
                                  /\ Torn(q) <=> pc[q] = "inscourse"
                                  /\ (HoldsCourse(q)' <=> HoldsCourse(q))
                                  /\ pc'[q] = pc[q] /\ crow'[q] = crow[q]
                                  /\ Stage(q, k, u)' <=> EnrolStage(q, k, u)'
           /\ P(r, k, u)' <=> pc'[r] # "done"
           /\ P(r, k, u)' => (Stage(r, k, u)' <=> EnrolStage(r, k, u)')
<1>1. Alone(r) /\ Stage(r, k, u) /\ inp' = inp /\ Typed /\ P(r, k, u) /\ Typed' /\ PairOK(k, u)
  BY OwnFacts DEF Own
<1>2. Typed' => \A q \in Reqs : P(q, k, u)' /\ Enrols(q)' => (Stage(q, k, u)' <=> EnrolStage(q, k, u)')
  <2>1. Typed => \A q \in Reqs : P(q, k, u) /\ Enrols(q) => (Stage(q, k, u) <=> EnrolStage(q, k, u))
    BY EnrolStages
  <2> SUFFICES ASSUME Typed', NEW q \in Reqs, P(q, k, u)', Enrols(q)'
               PROVE  Stage(q, k, u)' <=> EnrolStage(q, k, u)'
    OBVIOUS
  <2>2. inp[q].kind = "enrol" /\ inp'[q].kind = "enrol"
    BY <1>1 DEF Enrols
  <2>3. pc'[q] \in {"caller", "readspell", "insuser", "inscourse"}
    <3>1. /\ inp'[q].kind \in KindsAt(pc'[q]) /\ pc'[q] \in Labels /\ pc'[q] \notin {"new", "done"}
      <4>1. pc'[q] \notin {"new", "done"} /\ pc'[q] \in Labels
        BY DEF P, Active, Typed, TypeOK
      <4>2. StageOK(q)' /\ inp'[q] # None
        BY <4>1 DEF Typed, StageOK
      <4>3. inp'[q].kind \in KindsAt(pc[q])'
        BY <4>2 DEF StageOK
      <4> QED BY <4>1, <4>3 DEF KindsAt
    <3> QED BY <2>2, <3>1 DEF KindsAt, Labels
  <2> QED BY <2>2, <2>3 DEF Stage, EnrolStage
<1>3. ASSUME NEW q \in Reqs, q # r
      PROVE  /\ P(q, k, u)' <=> P(q, k, u)
             /\ P(q, k, u) => /\ Enrols(q) /\ EnrolStage(q, k, u) /\ (Torn(q)' <=> Torn(q))
                              /\ Torn(q) <=> pc[q] = "inscourse"
                              /\ (HoldsCourse(q)' <=> HoldsCourse(q))
                              /\ pc'[q] = pc[q] /\ crow'[q] = crow[q]
                              /\ Stage(q, k, u)' <=> EnrolStage(q, k, u)'
  <2>1. P(q, k, u)' <=> P(q, k, u)
    BY <1>1, <1>3 DEF P, Active, Alone
  <2>2. ASSUME P(q, k, u)
        PROVE  /\ Enrols(q) /\ Stage(q, k, u) /\ (Torn(q)' <=> Torn(q))
               /\ (HoldsCourse(q)' <=> HoldsCourse(q)) /\ pc'[q] = pc[q] /\ crow'[q] = crow[q]
    <3>1. Enrols(q) /\ Stage(q, k, u)
      BY <1>1, <1>3, <2>2 DEF PairOK
    <3> QED BY <1>1, <1>3, <3>1 DEF Torn, HoldsCourse, Alone
  <2>3. Enrols(q)' <=> Enrols(q)
    BY <1>1 DEF Enrols
  <2> QED BY <1>1, <1>2, <2>1, <2>2, <2>3, EnrolStages
<1>4. P(r, k, u)' <=> pc'[r] # "done"
  BY <1>1 DEF P, Active, Alone
<1>5. Enrols(r)'
  BY <1>1 DEF Enrols
<1>6. /\ pc[r] \in {"caller", "readspell", "insuser", "inscourse"}
      /\ inp[r].user = u /\ inp[r].course = k
      /\ EnrolStage(r, k, u) /\ (Torn(r) <=> pc[r] = "inscourse")
  BY <1>1, EnrolStages
<1> QED BY <1>1, <1>2, <1>3, <1>4, <1>5, <1>6

LEMMA EnrolOwner ==
    ASSUME NEW r \in Reqs, NEW k \in CourseIds, NEW u \in Users, Own(r, k, u), Enrols(r),
           \A s \in Sides : users'[u][s][k] \in {0, 1},
           \A q \in Reqs : q # r /\ P(q, k, u) => EnrolStage(q, k, u)',
           pc'[r] # "done" => EnrolStage(r, k, u)',
           (\A q \in Reqs : q # r /\ P(q, k, u) => ~Torn(q)) /\ (pc'[r] = "done" \/ ~Torn(r)')
               => Agree(k, u)'
    PROVE  PairOK(k, u)'
<1>1. inp' = inp
  BY OwnFacts
<1>2. \A q, o \in Reqs : P(q, k, u)' /\ P(o, k, u)' => q = o \/ (Enrols(q)' /\ Enrols(o)')
  <2>1. \A q \in Reqs : P(q, k, u)' => Enrols(q)'
    <3>1. \A q \in Reqs : P(q, k, u)' => Enrols(q)
      BY EnrolFacts
    <3> QED BY <1>1, <3>1 DEF Enrols
  <2> QED BY <2>1
<1>3. \A s \in Sides : users'[u][s][k] <= 1
  OBVIOUS
<1>4. \A q \in Reqs : P(q, k, u)' => Stage(q, k, u)'
  <2> SUFFICES ASSUME NEW q \in Reqs, P(q, k, u)' PROVE Stage(q, k, u)'
    OBVIOUS
  <2>1. CASE q = r
    BY <2>1, EnrolFacts
  <2>2. CASE q # r
    BY <2>2, EnrolFacts
  <2> QED BY <2>1, <2>2
<1>5. (\A q \in Reqs : P(q, k, u)' => ~Torn(q)') => Agree(k, u)'
  <2> SUFFICES ASSUME \A q \in Reqs : P(q, k, u)' => ~Torn(q)' PROVE Agree(k, u)'
    OBVIOUS
  <2>1. \A q \in Reqs : q # r /\ P(q, k, u) => ~Torn(q)
    BY EnrolFacts
  <2>2. pc'[r] = "done" \/ ~Torn(r)'
    BY EnrolFacts
  <2> QED BY <2>1, <2>2
<1> QED BY <1>2, <1>3, <1>4, <1>5 DEF PairOK

LEMMA EnrolStill ==
    ASSUME NEW r \in Reqs, NEW k \in CourseIds, NEW u \in Users, Own(r, k, u), Enrols(r),
           courses' = courses, users' = users, pc[r] # "inscourse",
           \/ pc'[r] \in {"done", "readspell"}
           \/ pc'[r] = "insuser" /\ crow'[r].id = k /\ courses[k] # None
    PROVE  PairOK(k, u)'
<1>1. \A q \in Reqs : q # r /\ P(q, k, u) => EnrolStage(q, k, u)'
  <2>1. \A s : T(k, u, s)' = T(k, u, s)
    BY DEF T
  <2> QED BY <2>1, EnrolFacts DEF EnrolStage
<1>2. pc'[r] # "done" => EnrolStage(r, k, u)'
  BY DEF EnrolStage, HoldsCourse
<1>3. (\A q \in Reqs : q # r /\ P(q, k, u) => ~Torn(q)) => Agree(k, u)'
  <2> SUFFICES ASSUME \A q \in Reqs : q # r /\ P(q, k, u) => ~Torn(q) PROVE Agree(k, u)'
    OBVIOUS
  <2>1. ~Torn(r)
    BY EnrolFacts
  <2>2. Agree(k, u)
    BY <2>1 DEF Own, PairOK
  <2> QED BY <2>2, AgreeStays
<1>4. \A s \in Sides : users'[u][s][k] \in {0, 1}
  BY OwnFacts
<1> QED BY <1>1, <1>2, <1>3, <1>4, EnrolOwner

LEMMA OwnInsertInUser ==
    ASSUME NEW r \in Reqs, NEW k \in CourseIds, NEW u \in Users, Own(r, k, u), InsertInUser(r)
    PROVE  PairOK(k, u)'
<1>1. /\ TypeOK /\ pc[r] = "insuser" /\ Enrols(r) /\ courses' = courses /\ crow' = crow
      /\ HoldsCourse(r)
      /\ users' = [users EXCEPT ![inp[r].user]["students"][crow[r].id] = Once(@)]
  BY OwnFacts DEF InsertInUser, At, Enrols, locals, HoldsCourse
<1>2. /\ inp[r].user = u /\ crow[r].id = k /\ courses[k] # None /\ ~Torn(r)
      /\ "students" \in Sides /\ "tas" \in Sides
  BY <1>1, EnrolFacts DEF EnrolStage, Sides
<1>3. users' = [users EXCEPT ![u]["students"][k] = Once(@)]
  BY <1>1, <1>2
<1>4. /\ users'[u]["students"][k] = Once(users[u]["students"][k])
      /\ users'[u]["tas"] = users[u]["tas"]
  BY <1>1, <1>2, <1>3 DEF TypeOK, UserRows
<1>5. /\ users'[u]["students"][k] = 1 /\ users'[u]["tas"][k] = users[u]["tas"][k]
      /\ \A s \in Sides : users'[u][s][k] \in {0, 1}
  <2>1. \A s \in Sides : users[u][s][k] \in {0, 1}
    BY OwnFacts
  <2>2. users'[u]["students"][k] = 1
    BY <1>2, <1>4, <2>1 DEF Once
  <2>3. users'[u]["tas"][k] = users[u]["tas"][k]
    BY <1>4
  <2> QED BY <1>2, <2>1, <2>2, <2>3 DEF Sides
<1>6. users[u]["tas"][k] = T(k, u, "tas") /\ T(k, u, "students") <= 1
  <2>1. CASE \A q \in Reqs : P(q, k, u) => ~Torn(q)
    <3>1. Agree(k, u)
      BY <2>1 DEF Own, PairOK
    <3>2. users[u]["students"][k] \in {0, 1}
      BY <1>2, OwnFacts
    <3> QED BY <1>2, <3>1, <3>2 DEF Agree
  <2>2. CASE \E q \in Reqs : P(q, k, u) /\ Torn(q)
    <3>1. PICK q \in Reqs : P(q, k, u) /\ Torn(q)
      BY <2>2
    <3>2. q # r
      BY <1>2, <3>1
    <3>3. EnrolStage(q, k, u) /\ pc[q] = "inscourse"
      BY <1>1, <3>1, <3>2, EnrolFacts
    <3> QED BY <3>3 DEF EnrolStage
  <2> QED BY <2>1, <2>2
<1>7. \A s : T(k, u, s)' = T(k, u, s)
  BY <1>1 DEF T
<1>8. pc'[r] = "inscourse"
  BY <1>1, GoType DEF InsertInUser, Labels, TypeOK
<1>9. EnrolStage(r, k, u)'
  BY <1>1, <1>2, <1>5, <1>6, <1>7 DEF EnrolStage
<1>10. \A q \in Reqs : q # r /\ P(q, k, u) => EnrolStage(q, k, u)'
  <2> SUFFICES ASSUME NEW q \in Reqs, q # r, P(q, k, u) PROVE EnrolStage(q, k, u)'
    OBVIOUS
  <2>1. /\ EnrolStage(q, k, u) /\ (HoldsCourse(q)' <=> HoldsCourse(q))
        /\ pc'[q] = pc[q] /\ crow'[q] = crow[q]
    BY <1>1, EnrolFacts
  <2> QED BY <1>1, <1>5, <1>6, <1>7, <2>1 DEF EnrolStage
<1>11. Torn(r)'
  BY <1>8 DEF Torn
<1> QED BY <1>1, <1>5, <1>8, <1>9, <1>10, <1>11, EnrolOwner

LEMMA OwnInsertInCourse ==
    ASSUME NEW r \in Reqs, NEW k \in CourseIds, NEW u \in Users, Own(r, k, u), InsertInCourse(r)
    PROVE  PairOK(k, u)'
<1>1. /\ TypeOK /\ pc[r] = "inscourse" /\ Enrols(r) /\ users' = users /\ crow' = crow
      /\ HoldsCourse(r)
  BY OwnFacts DEF InsertInCourse, At, Enrols, locals, HoldsCourse
<1>2. /\ inp[r].user = u /\ crow[r].id = k /\ courses[k] # None
      /\ users[u]["students"][k] = 1 /\ users[u]["tas"][k] = T(k, u, "tas") /\ T(k, u, "students") <= 1
  BY <1>1, EnrolFacts DEF EnrolStage
<1>3. PICK row \in Rows : row = courses[k]
  BY <1>2, OwnFacts
<1>4. row.members["students"][u] \in {0, 1} /\ "students" \in Sides /\ "tas" \in Sides
  <2>1. row.members["students"][u] \in Nat
    BY DEF Rows, Sides
  <2> QED BY <1>2, <1>3, <2>1 DEF T, Sides
<1>5. Once(row.members["students"][u]) = 1
  BY <1>4 DEF Once
<1>6. PICK new : new = [row EXCEPT !.members["students"][u] = 1]
  OBVIOUS
<1>7. new \in Rows
  BY <1>4, <1>6, RowTypes
<1>8. courses'[k] = new
  <2>1. courses'[k] = [row EXCEPT !.members["students"][u] = Once(@)]
    BY <1>1, <1>2, <1>3, OwnFacts DEF InsertInCourse, SaveRow, TypeOK
  <2> QED BY <1>5, <1>6, <2>1
<1>9. courses'[k] # None
  BY <1>7, <1>8, OwnFacts
<1>10. new.members["students"][u] = 1 /\ new.members["tas"] = row.members["tas"]
  BY <1>4, <1>6 DEF Rows
<1>11. T(k, u, "students")' = 1 /\ T(k, u, "tas")' = T(k, u, "tas")
  BY <1>2, <1>3, <1>8, <1>9, <1>10 DEF T
<1>12. Agree(k, u)'
  BY <1>1, <1>2, <1>11 DEF Agree, Sides
<1>13. \A q \in Reqs : q # r /\ P(q, k, u) => EnrolStage(q, k, u)'
  <2> SUFFICES ASSUME NEW q \in Reqs, q # r, P(q, k, u) PROVE EnrolStage(q, k, u)'
    OBVIOUS
  <2>1. /\ EnrolStage(q, k, u) /\ (HoldsCourse(q)' <=> HoldsCourse(q))
        /\ pc'[q] = pc[q] /\ crow'[q] = crow[q]
    BY <1>1, EnrolFacts
  <2> QED BY <1>1, <1>2, <1>9, <1>11, <2>1 DEF EnrolStage
<1>14. pc'[r] = "done"
  BY <1>1, GoType DEF InsertInCourse, Labels, TypeOK
<1>15. \A s \in Sides : users'[u][s][k] \in {0, 1}
  BY <1>1, OwnFacts
<1> QED BY <1>1, <1>12, <1>13, <1>14, <1>15, EnrolOwner

LEMMA OwnServe ==
    ASSUME NEW r \in Reqs, NEW k \in CourseIds, NEW u \in Users, Own(r, k, u)
    PROVE  PairOK(k, u)'
<1>1. /\ \/ Caller(r) \/ GivesUp(r) \/ InsertCourse(r) \/ FindCourse(r) \/ ReadCourse(r)
         \/ SaveCourse(r) \/ RemoveCourse(r) \/ Pull(r) \/ ReadUser(r) \/ SaveUser(r)
         \/ ReadSpell(r) \/ InsertInUser(r) \/ InsertInCourse(r)
      /\ TypeOK /\ inp' = inp /\ inp[r] # None
      /\ inp[r].kind \in {"create", "update", "delete", "add", "drop", "enrol"}
  BY PairActs, PairPlaces, OwnFacts DEF Own
<1>2. CASE Caller(r)
  <2>1. /\ pc[r] = "caller" /\ UNCHANGED <<courses, users>>
        /\ Go(r, IF inp[r].kind = "hwupdate" THEN StatesLoop(r, states[r])
                 ELSE AfterCaller(inp[r].kind))
    BY <1>2 DEF Caller, tables
  <2>2. inp[r].kind \in {"create", "update", "delete", "enrol"}
    BY <1>1, <2>1, PairPlaces DEF Own
  <2>3. /\ AfterCaller("create") = "insert" /\ AfterCaller("update") = "readcourse"
        /\ AfterCaller("delete") = "readcourse" /\ AfterCaller("enrol") = "readspell"
    BY DEF AfterCaller
  <2>4. \/ Go(r, "insert") /\ ~Enrols(r)
        \/ Go(r, "readcourse") /\ ~Enrols(r)
        \/ Go(r, "readspell") /\ Enrols(r)
    BY <2>1, <2>2, <2>3 DEF Enrols
  <2>5. \A label \in Labels : Go(r, label) => pc'[r] = label
    BY <1>1, GoType DEF TypeOK
  <2>6. \/ pc'[r] \in {"insert", "readcourse"} /\ ~Enrols(r)
        \/ pc'[r] = "readspell" /\ Enrols(r)
    BY <2>4, <2>5 DEF Labels
  <2> QED BY <2>1, <2>6, OwnStill, EnrolStill
<1>3. CASE GivesUp(r)
  <2>1. pc'[r] = "done" /\ UNCHANGED <<courses, users>>
    BY <1>1, <1>3 DEF GivesUp, Fail, Finish, tables, TypeOK
  <2>2. pc[r] \in {"caller", "readcourse", "readspell", "readhw", "find", "findnotice"}
    BY <1>3 DEF GivesUp
  <2>3. pc[r] # "find"
    <3> SUFFICES ASSUME pc[r] = "find" PROVE FALSE
      OBVIOUS
    <3>1. RGivesUp(r)
      <4>1. ~RFindCourse(r)
        BY <1>3 DEF RFindCourse, FindCourse, GivesUp
      <4> QED BY <4>1, Watched DEF Own
    <3>2. k = r
      BY <1>1, PairPlaces DEF Own
    <3> QED BY <3>1, <3>2 DEF RGivesUp, Own, Clean
  <2>4. \/ ~Enrols(r) /\ pc[r] \in {"caller", "readcourse"}
        \/ Enrols(r) /\ pc[r] # "inscourse"
    BY <1>1, <2>2, <2>3, PairPlaces DEF Own, Enrols
  <2> QED BY <2>1, <2>4, OwnStill, EnrolStill
<1>4. CASE ReadSpell(r)
  <2>1. /\ pc[r] = "readspell" /\ Enrols(r) /\ UNCHANGED <<courses, users>>
        /\ HasSpell(courses[inp[r].course])
        /\ Keep(r, courses[inp[r].course], {}, "insuser")
    BY <1>4 DEF ReadSpell, At, Enrols, tables
  <2>2. inp[r].course = k
    BY <2>1, EnrolFacts
  <2>3. pc'[r] = "insuser" /\ crow'[r].id = k /\ courses[k] # None
    BY <1>1, <2>1, <2>2, GoType DEF Keep, HasSpell, Labels, TypeOK
  <2> QED BY <2>1, <2>3, EnrolStill
<1> QED BY <1>1, <1>2, <1>3, <1>4, OwnInsert, OwnFind, OwnRead, OwnSaveCourse, OwnRemove, OwnPull,
           OwnReadUser, OwnSaveUser, OwnInsertInUser, OwnInsertInCourse

LEMMA MembersServe ==
    ASSUME CourseInv, MembersInv, NEW r \in Reqs, RServe(r)
    PROVE  MembersInv'
<1>1. Typed /\ HistoryOK /\ KnownOK /\ CopyOK(r) /\ KnownOK'
  BY KnownServe DEF CourseInv, MembersInv
<1>2. ASSUME NEW k \in CourseIds, NEW u \in Users PROVE Pair(k, u)'
  <2>1. Pair(k, u)
    BY DEF MembersInv
  <2>2. CASE ~P(r, k, u)
    BY <1>1, <2>1, <2>2, PairElsewhere
  <2>3. CASE P(r, k, u)
    <3> SUFFICES ASSUME Clean(k, u)' PROVE PairOK(k, u)'
      BY DEF Pair
    <3>1. Clean(k, u)
      BY <1>1, CleanBefore
    <3>2. Own(r, k, u)
      BY <1>1, <2>1, <2>3, <3>1 DEF Own, Pair
    <3> QED BY <3>2, OwnServe
  <2> QED BY <2>2, <2>3
<1> QED BY <1>1, <1>2 DEF MembersInv

LEMMA MembersArrive ==
    ASSUME CourseInv, MembersInv, NEW r \in Reqs, NEW c \in Inputs, RArrive(r, c)
    PROVE  MembersInv'
<1>1. /\ pc[r] = "new" /\ inp[r] = None /\ inp'[r] = c /\ c # None
      /\ UNCHANGED <<courses, users, crow, urow, todo, uread, lost>>
      /\ pc'[r] \in {"readcourse", "user", "readhw", "caller"}
      /\ ~HoldsCourse(r)' /\ ~HoldsUser(r)' /\ ~HoldsCourse(r) /\ ~HoldsUser(r)
      /\ \A q \in Reqs : q # r => /\ inp'[q] = inp[q] /\ pc'[q] = pc[q]
                                  /\ HoldsCourse(q)' = HoldsCourse(q) /\ HoldsUser(q)' = HoldsUser(q)
      /\ c.kind \in Kinds
  BY Arrives DEF RArrive, CourseInv, tables, locals
<1>2. crossed' = crossed \cup {m \in About(r, c) :
                      \E q \in Changing(m) : ~(c.kind = "enrol" /\ Enrols(q))}
  BY DEF RArrive
<1>3. ASSUME NEW q \in Reqs PROVE UserCopyOK(q)' /\ TodoOK(q)' /\ StrangeOK(q)'
  <2>1. CASE q = r
    BY <1>1, <2>1 DEF UserCopyOK, TodoOK, StrangeOK
  <2>2. CASE q # r
    <3>1. UserCopyOK(q) /\ TodoOK(q) /\ StrangeOK(q) /\ crossed \subseteq crossed'
      BY <1>2 DEF MembersInv, KnownOK
    <3> QED BY <1>1, <2>2, <3>1 DEF UserCopyOK, TodoOK, StrangeOK
  <2> QED BY <2>1, <2>2
<1>4. ASSUME NEW k \in CourseIds PROVE UnbornOK(k)'
  <2> SUFFICES ASSUME ~Inserted(k)' PROVE Nowhere(k)'
    BY DEF UnbornOK
  <2>1. ~Inserted(k)
    <3>1. CASE k = r
      BY <1>1, <3>1 DEF Inserted
    <3>2. CASE k # r
      BY <1>1, <3>2 DEF Inserted
    <3> QED BY <3>1, <3>2
  <2>2. Nowhere(k)
    BY <2>1 DEF MembersInv, KnownOK, UnbornOK
  <2>3. \A q \in Reqs : /\ HoldsCourse(q)' => HoldsCourse(q)
                        /\ HoldsUser(q)' => HoldsUser(q)
    BY <1>1
  <2> QED BY <1>1, <2>2, <2>3 DEF Nowhere
<1>5. ASSUME NEW k \in CourseIds, NEW u \in Users PROVE Pair(k, u)'
  <2> SUFFICES ASSUME Clean(k, u)' PROVE PairOK(k, u)'
    BY DEF Pair
  <2>1. PairOK(k, u)
    <3>1. Clean(k, u)
      BY <1>1, <1>2 DEF Clean
    <3> QED BY <3>1 DEF MembersInv, Pair
  <2>2. \A q \in Reqs : q # r => (P(q, k, u)' <=> P(q, k, u)) /\ (Enrols(q)' <=> Enrols(q))
                                 /\ (Torn(q)' <=> Torn(q))
    BY <1>1 DEF P, Active, Enrols, Torn
  <2>3. ~P(r, k, u)
    BY <1>1 DEF P, Active
  <2>4. P(r, k, u)' => \A q \in Reqs : P(q, k, u) => c.kind = "enrol" /\ Enrols(q)
    <3> SUFFICES ASSUME P(r, k, u)', NEW q \in Reqs, P(q, k, u) PROVE c.kind = "enrol" /\ Enrols(q)
      OBVIOUS
    <3>1. <<k, u>> \in About(r, c)
      <4>1. CourseOf(r, c) = k /\ u \in UsersOf(c)
        BY <1>1 DEF P
      <4> QED BY <4>1 DEF About
    <3>2. q \in Changing(<<k, u>>)
      BY DEF P, Changing, About
    <3>3. <<k, u>> \notin crossed'
      BY DEF Clean
    <3> QED BY <1>2, <3>1, <3>2, <3>3
  <2>5. \A q, o \in Reqs : P(q, k, u)' /\ P(o, k, u)' => q = o \/ (Enrols(q)' /\ Enrols(o)')
    <3>1. P(r, k, u)' => \A q \in Reqs : q # r /\ P(q, k, u)' => Enrols(r)' /\ Enrols(q)'
      BY <1>1, <2>2, <2>4 DEF Enrols
    <3>2. \A q, o \in Reqs : P(q, k, u) /\ P(o, k, u) => q = o \/ (Enrols(q) /\ Enrols(o))
      BY <2>1 DEF PairOK
    <3> QED BY <2>2, <3>1, <3>2
  <2>6. P(r, k, u)' => ~Torn(r)' /\ Stage(r, k, u)'
    <3> SUFFICES ASSUME P(r, k, u)' PROVE ~Torn(r)' /\ Stage(r, k, u)'
      OBVIOUS
    <3>1. pc'[r] \in {"readcourse", "readhw", "caller"}
      <4>1. u \in UsersOf(c)
        BY <1>1 DEF P
      <4>2. c.kind # "password"
        BY <1>1, <4>1, UsersOfFacts
      <4>3. pc'[r] = "user" => HoldsCourse(r)'
        BY <1>1, <4>2 DEF HoldsCourse
      <4> QED BY <1>1, <4>3
    <3> QED BY <1>1, <3>1 DEF Torn, Stage
  <2>7. \A s : T(k, u, s)' = T(k, u, s) /\ users'[u][s][k] = users[u][s][k]
    BY <1>1 DEF T
  <2>8. ASSUME NEW q \in Reqs, P(q, k, u)' PROVE Stage(q, k, u)'
    <3>1. CASE q = r
      BY <2>6, <2>8, <3>1
    <3>2. CASE q # r
      <4>1. Stage(q, k, u)
        BY <2>1, <2>2, <2>8, <3>2 DEF PairOK
      <4> QED BY <1>1, <2>7, <3>2, <4>1, StageKept DEF CourseInv
    <3> QED BY <3>1, <3>2
  <2>9. (\A q \in Reqs : P(q, k, u)' => ~Torn(q)') => Agree(k, u)'
    <3> SUFFICES ASSUME \A q \in Reqs : P(q, k, u)' => ~Torn(q)' PROVE Agree(k, u)'
      OBVIOUS
    <3>1. \A q \in Reqs : P(q, k, u) => ~Torn(q)
      BY <2>2, <2>3
    <3>2. Agree(k, u)
      BY <2>1, <3>1 DEF PairOK
    <3> QED BY <1>1, <3>2, AgreeStays
  <2>10. \A s \in Sides : users'[u][s][k] <= 1
    BY <2>1, <2>7 DEF PairOK
  <2> QED BY <2>5, <2>8, <2>9, <2>10 DEF PairOK
<1> QED BY <1>3, <1>4, <1>5 DEF MembersInv, KnownOK

LEMMA MembersNext ==
    CourseInv /\ MembersInv /\ [RNext]_<<vars, history>> => MembersInv'
<1> SUFFICES ASSUME CourseInv, MembersInv, [RNext]_<<vars, history>> PROVE MembersInv'
  OBVIOUS
<1>1. CASE UNCHANGED <<vars, history>>
  <2>1. UNCHANGED <<courses, users, pc, inp, crow, urow, todo, uread, lost, crossed>>
    BY <1>1 DEF vars, tables, locals, history
  <2>2. KnownOK'
    BY <2>1 DEF MembersInv, KnownOK, UserCopyOK, TodoOK, StrangeOK, UnbornOK, Nowhere, Inserted,
       HoldsCourse, HoldsUser
  <2>3. ASSUME NEW k \in CourseIds, NEW u \in Users PROVE Pair(k, u)'
    <3>1. Pair(k, u)
      BY DEF MembersInv
    <3> QED BY <2>1, <3>1 DEF Pair, PairOK, Clean, P, Active, Torn, Agree, T, Stage, Goal, Eff,
             Removal, HoldsCourse, Enrols
  <2> QED BY <2>2, <2>3 DEF MembersInv
<1> QED BY <1>1, MembersServe, MembersArrive DEF RNext, Rest

LEMMA MembersInit == RInit => MembersInv
<1> SUFFICES ASSUME RInit PROVE MembersInv
  OBVIOUS
<1>1. /\ \A q \in Reqs : pc[q] = "new" /\ inp[q] = None
      /\ courses = [k \in CourseIds |->
            IF k = OldCourse
            THEN [NewCourse(OldName, OldMembers) EXCEPT !.homeworks = {OldHw}, !.spell = TRUE]
            ELSE None]
      /\ users = [u \in Users |-> [s \in Sides |->
            Listed({k \in {OldCourse} : u \in OldMembers[s]}, CourseIds)]]
  BY DEF RInit, Init
<1>2. \A q \in Reqs : ~HoldsCourse(q) /\ ~HoldsUser(q) /\ ~Active(q)
  BY <1>1 DEF HoldsCourse, HoldsUser, Active
<1>3. \A k \in CourseIds, u \in Users, s \in Sides :
         users[u][s][k] = IF k = OldCourse /\ u \in OldMembers[s] THEN 1 ELSE 0
  BY <1>1 DEF Listed
<1>4. \A k \in CourseIds : k # OldCourse => courses[k] = None
  BY <1>1
<1>5. \A s \in Sides, u \in Users :
         T(OldCourse, u, s) = IF u \in OldMembers[s] THEN 1 ELSE 0
  <2>1. [NewCourse(OldName, OldMembers) EXCEPT !.homeworks = {OldHw}, !.spell = TRUE].members
          = [s \in Sides |-> Listed(OldMembers[s], Users)]
    BY DEF NewCourse
  <2>2. courses[OldCourse] = [NewCourse(OldName, OldMembers) EXCEPT !.homeworks = {OldHw}, !.spell = TRUE]
    BY <1>1 DEF CourseIds
  <2>3. courses[OldCourse] # None
    <3>1. courses[OldCourse] \in Rows \/ courses[OldCourse] # None
      <4>1. NewCourse(OldName, OldMembers) \in Rows
        BY NewCourseType, CoursesAssumption DEF Names
      <4> QED BY <2>2, <4>1 DEF Rows, HwIds
    <3> QED BY <3>1, CoursesAssumption
  <2> QED BY <2>1, <2>2, <2>3 DEF T, Listed
<1>6. \A k \in CourseIds : UnbornOK(k)
  <2>1. \A k \in CourseIds : ~Inserted(k) => k # OldCourse
    BY CoursesAssumption DEF Inserted
  <2> QED BY <1>2, <1>3, <1>4, <2>1 DEF UnbornOK, Nowhere
<1>7. KnownOK
  BY <1>1, <1>2, <1>6 DEF KnownOK, UserCopyOK, TodoOK, StrangeOK
<1>8. ASSUME NEW k \in CourseIds, NEW u \in Users PROVE Pair(k, u)
  <2>1. Agree(k, u)
    BY <1>3, <1>4, <1>5 DEF Agree, T
  <2>2. \A q \in Reqs : ~P(q, k, u)
    BY <1>2 DEF P
  <2> QED BY <1>3, <2>1, <2>2 DEF Pair, PairOK
<1> QED BY <1>7, <1>8 DEF MembersInv

(* The two sides of a membership agree whenever no request about it is      *)
(* served, whatever requests overlap: only a row that was itself saved over *)
(* the change of another request, or a membership that two requests were    *)
(* changing at once, is excepted.  Along where the two sides may differ     *)
(* while a request is on its way (Torn), what is then between them (Goal)   *)
(* and that it is alone on its way, but for enrolments (PairOK)             *)
(* (course.py, user.py:292).                                                *)
THEOREM MembersAgree == RSpec => []SidesAgree
<1>1. MembersInv => SidesAgree
  <2> SUFFICES ASSUME MembersInv, NEW k \in CourseIds, NEW u \in Users,
                      Clean(k, u), Changing(<<k, u>>) = {}, NEW s \in Sides
               PROVE  /\ users[u][s][k] <= 1
                      /\ users[u][s][k] = IF courses[k] = None THEN 0 ELSE courses[k].members[s][u]
    BY DEF SidesAgree, Clean
  <2>1. PairOK(k, u)
    BY DEF MembersInv, Pair
  <2>2. \A q \in Reqs : ~P(q, k, u)
    BY DEF P, Changing, About
  <2>3. Agree(k, u)
    BY <2>1, <2>2 DEF PairOK
  <2> QED BY <2>1, <2>3 DEF PairOK, Agree, T
<1>2. RSpec => []MembersInv
  BY MembersInit, MembersNext, CourseAlways, PTL DEF RSpec
<1> QED BY <1>1, <1>2, PTL
=============================================================================
