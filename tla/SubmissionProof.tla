--------------------------- MODULE SubmissionProof ---------------------------
(* Theorems about Submission, for every value of its constants.            *)
EXTENDS Submission, TLAPS, FiniteSetTheorems

(* The types need what a request knows at each of its statements.          *)
Stored == {"readprob", "saveprob", "readhw", "savehw", "write", "saverec", "post"}

StageOK(r) ==
    /\ pc[r] \in {"find", "readjs", "savejs", "match"} => inp[r].type \in {2, 4}
    /\ pc[r] \in {"ratio", "newratio", "charge"} => inp[r].type = 1
    /\ pc[r] \in {"readprob", "saveprob"} => inp[r].type = 4
    /\ pc[r] = "savejs" => js[r] \in States /\ Slot(r) \in HwProblems
    /\ pc[r] = "charge" => rat[r] \in RowIds /\ ratios[rat[r]] \in RatioRows
                           /\ used[r] \in [Gears -> Nat]
    /\ pc[r] \in {"readhw", "savehw"} => inp[r].hw \in Homeworks
    /\ pc[r] = "savehw" => hwrow[r] \in {0, 1}
    /\ pc[r] = "saveprob" => probrow[r] \in {0, 1}
    /\ pc[r] \in Stored => target[r] \in Reqs /\ snap[r] \in Rows

Typed == TypeOK /\ \A r \in Reqs : StageOK(r)

LEMMA InputFacts ==
    ASSUME Typed, NEW r \in Reqs
    PROVE  /\ inp[r] \in Columns
           /\ inp[r].user \in Users /\ inp[r].prob \in Problems
           /\ inp[r].type \in {0, 1, 2, 4}
           /\ inp[r].hw \in Homeworks \cup {None}
           /\ inp[r].type # 0 => inp[r].hw \in Homeworks /\ Slot(r) \in Slots
           /\ inp[r].type = 1 => inp[r].gear \in Gears
           /\ Filtered(r) \in Columns
           /\ Lock(r) \in Locks
<1>1. inp[r] \in Inputs /\ inp[r] \in Columns
  BY SubmissionAssumption DEF Typed, TypeOK
<1>2. /\ inp[r].type # 0 => inp[r].hw \in Homeworks
      /\ inp[r].type = 1 => inp[r].gear \in Gears
  BY <1>1, SubmissionAssumption DEF Columns
<1>3. Filtered(r) \in Columns
  BY <1>1 DEF Columns, Filtered
<1>4. Lock(r) \in Locks
  BY <1>1, SubmissionAssumption DEF Columns, Lock, Slot, Slots
<1> QED BY <1>1, <1>2, <1>3, <1>4 DEF Columns, Slot, Slots

LEMMA TypedInit == Init => Typed
<1> SUFFICES ASSUME Init PROVE Typed
  OBVIOUS
<1>1. TypeOK
  BY SubmissionAssumption DEF Init, TypeOK, Labels, Answers, States, Judgers, Existing
<1>2. \A r \in Reqs : StageOK(r)
  BY DEF Init, StageOK, Stored
<1> QED BY <1>1, <1>2 DEF Typed

(* Leaving the handler: the lock passes on and nothing is left to know.    *)
ControlOK ==
    /\ inp \in [Reqs -> Inputs]
    /\ pc \in [Reqs -> Labels]
    /\ queue \in [Locks -> Seq(Reqs)]
    /\ answer \in [Reqs -> Answers]
    /\ arrived \in Seq(Reqs)

LEMMA FinishControl ==
    ASSUME ControlOK, NEW r \in Reqs, Lock(r) \in Locks, Holds(r),
           NEW a \in Answers, Finish(r, a)
    PROVE  ControlOK' /\ inp' = inp /\ pc' = [pc EXCEPT ![r] = "done"]
<1>1. Tail(queue[Lock(r)]) \in Seq(Reqs)
  BY DEF ControlOK, Holds
<1>2. queue' \in [Locks -> Seq(Reqs)]
  BY <1>1 DEF ControlOK, Finish
<1>3. pc' \in [Reqs -> Labels] /\ answer' \in [Reqs -> Answers]
  BY DEF ControlOK, Finish, Labels
<1> QED
  BY <1>2, <1>3 DEF ControlOK, Finish

LEMMA OneMore ==
    ASSUME NEW x \in States
    PROVE  /\ [x EXCEPT !.total = @ + 1] \in States
           /\ [x EXCEPT !.total = @ + 1].total = x.total + 1
BY DEF States

LEMMA TypedNext == Typed /\ [Next]_vars => Typed'
<1> SUFFICES ASSUME Typed, [Next]_vars PROVE Typed'
  OBVIOUS
<1>1. ASSUME NEW r \in Reqs, Refuse(r) \/ Arrive(r) \/ Step(r)
      PROVE  Typed'
  <2>0. /\ inp[r].user \in Users /\ inp[r].prob \in Problems
        /\ inp[r].type \in {0, 1, 2, 4}
        /\ inp[r].hw \in Homeworks \cup {None}
        /\ inp[r].type # 0 => inp[r].hw \in Homeworks /\ Slot(r) \in Slots
        /\ inp[r].type = 1 => inp[r].gear \in Gears
        /\ Filtered(r) \in Columns
        /\ Lock(r) \in Locks
    BY InputFacts
  <2> USE DEF Typed, TypeOK, StageOK, Stored, Slot, localVars, dbVars, diskVars, At
  <2>1. CASE Refuse(r)
    BY <2>0, <2>1 DEF Refuse, Continue, Labels, Answers
  <2>2. CASE Arrive(r)
    <3>1. Append(queue[Lock(r)], r) \in Seq(Reqs) /\ Append(arrived, r) \in Seq(Reqs)
      BY <2>0
    <3>2. FirstStep(inp[r]) \in Labels
      BY <2>0 DEF FirstStep, Labels
    <3>3. TypeOK'
      BY <2>0, <2>2, <3>1, <3>2 DEF Arrive
    <3>4. \A q \in Reqs : StageOK(q)'
      BY <2>0, <2>2 DEF Arrive, FirstStep
    <3> QED
      BY <3>3, <3>4
  <2>3. CASE FindOld(r)
    BY <2>0, <2>3 DEF FindOld, Continue, Labels, Answers
  <2>4. CASE ReadJudgeState(r)
    BY <2>0, <2>4 DEF ReadJudgeState, Continue, Labels, Answers
  <2>5. CASE NoJudgeState(r)
    <3>1. ControlOK' /\ inp' = inp /\ pc' = [pc EXCEPT ![r] = "done"]
      BY <2>0, <2>5, FinishControl DEF NoJudgeState, ControlOK, Answers
    <3> QED
      BY <2>0, <2>5, <3>1 DEF NoJudgeState, ControlOK
  <2>6. CASE SaveJudgeState(r)
    <3> DEFINE row == [js[r] EXCEPT !.total = @ + 1]
    <3>1. js[r] \in States /\ Slot(r) \in HwProblems
      <4>1. pc[r] = "savejs"
        BY <2>6 DEF SaveJudgeState
      <4> QED BY <4>1
    <3>2. row \in States
      BY <3>1, OneMore
    <3>3. judgestates' = [judgestates EXCEPT ![Slot(r)] = row]
      BY <2>6 DEF SaveJudgeState
    <3> HIDE DEF row
    <3> QED
      BY <2>0, <2>6, <3>2, <3>3 DEF SaveJudgeState, Continue, Labels
  <2>7. CASE Match(r)
    <3>1. PICK q \in Reqs : /\ records[q] \in Rows
                             /\ target' = [target EXCEPT ![r] = q]
                             /\ snap' = [snap EXCEPT ![r] = records[q]]
      BY <2>7 DEF Match, Reusable, Existing
    <3> QED
      BY <2>0, <2>7, <3>1 DEF Match, Continue, Labels
  <2>8. CASE NoMatch(r)
    BY <2>0, <2>8 DEF NoMatch, Continue, Labels, Answers
  <2>9. CASE ReadRatio(r)
    <3>1. PICK q \in RowIds : /\ ratios[q] \in RatioRows
                               /\ rat' = [rat EXCEPT ![r] = q]
                               /\ used' = [used EXCEPT ![r] = ratios[q].used]
      BY <2>9 DEF ReadRatio, RatiosOf
    <3>2. ratios[q].used \in [Gears -> Nat]
      BY <3>1 DEF RatioRows
    <3> QED
      BY <2>0, <2>9, <3>1, <3>2 DEF ReadRatio, Continue, Labels
  <2>10. CASE NoRatio(r)
    BY <2>0, <2>10 DEF NoRatio, Continue, Labels, Answers
  <2>11. CASE CreateRatio(r)
    <3> DEFINE row == [user |-> inp[r].user, prob |-> inp[r].prob,
                       hw |-> inp[r].hw, used |-> NoUse]
    <3>1. NoUse \in [Gears -> Nat] /\ r \in RowIds
      BY SubmissionAssumption DEF NoUse
    <3>2. row \in RatioRows
      BY <2>0, <2>11, <3>1 DEF CreateRatio, RatioRows
    <3> HIDE DEF row
    <3>3. ratios' = [ratios EXCEPT ![r] = row]
      BY <2>11 DEF CreateRatio, row
    <3> QED
      BY <2>0, <2>11, <3>1, <3>2, <3>3 DEF CreateRatio, Continue, Labels
  <2>12. CASE Charge(r)
    <3> DEFINE row == [ratios[rat[r]] EXCEPT !.used = [used[r] EXCEPT ![inp[r].gear] = @ + 1]]
    <3>1. /\ rat[r] \in RowIds /\ ratios[rat[r]] \in RatioRows
          /\ used[r] \in [Gears -> Nat] /\ inp[r].gear \in Gears
      BY <2>0, <2>12 DEF Charge
    <3>2. [used[r] EXCEPT ![inp[r].gear] = @ + 1] \in [Gears -> Nat]
      BY <3>1
    <3>3. row \in RatioRows
      BY <3>1, <3>2 DEF RatioRows
    <3>4. ratios' = [ratios EXCEPT ![rat[r]] = row]
      BY <2>12 DEF Charge
    <3> HIDE DEF row
    <3>5. ratios' \in [RowIds -> RatioRows \cup {None}]
      BY <3>3, <3>4
    <3>6. \A q \in RowIds : ratios[q] \in RatioRows => ratios'[q] \in RatioRows
      BY <3>3, <3>4
    <3>7. TypeOK'
      BY <2>0, <2>12, <3>5 DEF Charge, Continue, Labels
    <3>8. \A q \in Reqs : StageOK(q)'
      BY <2>0, <2>12, <3>6 DEF Charge, Continue
    <3> QED
      BY <3>7, <3>8
  <2>13. CASE Exceed(r)
    <3>1. ControlOK' /\ inp' = inp /\ pc' = [pc EXCEPT ![r] = "done"]
      BY <2>0, <2>13, FinishControl DEF Exceed, ControlOK, Answers
    <3> QED
      BY <2>0, <2>13, <3>1 DEF Exceed, ControlOK
  <2>14. CASE Create(r)
    BY <2>0, <2>14 DEF Create, Rows, Continue, Labels, Answers
  <2>15. CASE ReadProblem(r)
    BY <2>0, <2>15 DEF ReadProblem, Continue, Labels, Answers
  <2>16. CASE SaveProblem(r)
    <3>1. probrow[r] \in {0, 1}
      BY <2>0, <2>16 DEF SaveProblem
    <3>2. problems' \in [Problems -> {0, 1}]
      BY <2>0, <2>16, <3>1 DEF SaveProblem
    <3> QED
      BY <2>0, <2>16, <3>2 DEF SaveProblem, Continue, Labels
  <2>17. CASE ReadHomework(r)
    BY <2>0, <2>17 DEF ReadHomework, Continue, Labels, Answers
  <2>18. CASE SaveHomework(r)
    BY <2>0, <2>18 DEF SaveHomework, Continue, Labels, Answers
  <2>19. CASE WriteCode(r)
    BY <2>0, <2>19 DEF WriteCode, Continue, Labels, Answers
  <2>20. CASE WriteZip(r)
    BY <2>0, <2>20 DEF WriteZip, Slots, Continue, Labels, Answers
  <2>21. CASE NoZip(r)
    <3>1. ControlOK' /\ inp' = inp /\ pc' = [pc EXCEPT ![r] = "done"]
      BY <2>0, <2>21, FinishControl DEF NoZip, ControlOK, Answers
    <3> QED
      BY <2>0, <2>21, <3>1 DEF NoZip, ControlOK
  <2>22. CASE SaveRecord(r)
    <3> DEFINE row == [snap[r] EXCEPT !.by = r]
    <3>1. target[r] \in Reqs /\ snap[r] \in Rows
      BY <2>0, <2>22 DEF SaveRecord
    <3>2. row \in Rows
      BY <3>1 DEF Rows
    <3>3. records' = [records EXCEPT ![target[r]] = row]
      BY <2>22 DEF SaveRecord
    <3>4. /\ ControlOK' /\ inp' = inp
          /\ pc' = [pc EXCEPT ![r] = "done"] \/ pc' = [pc EXCEPT ![r] = "post"]
      BY <2>0, <2>22, FinishControl
         DEF SaveRecord, ControlOK, Answers, Continue, Labels
    <3> HIDE DEF row
    <3>5. TypeOK'
      <4>1. records' \in [Reqs -> Rows \cup {None}]
        BY <3>2, <3>3
      <4> QED BY <2>22, <3>4, <4>1 DEF SaveRecord, ControlOK
    <3>6. \A q \in Reqs : StageOK(q)'
      BY <2>22, <3>4 DEF SaveRecord, ControlOK
    <3> QED
      BY <3>5, <3>6
  <2>23. CASE Post(r)
    <3>1. ControlOK' /\ inp' = inp /\ pc' = [pc EXCEPT ![r] = "done"]
      BY <2>0, <2>23, FinishControl DEF Post, ControlOK, Answers
    <3> QED
      BY <2>0, <2>23, <3>1 DEF Post, JudgerOf, Judgers, ControlOK
  <2>24. CASE PostFails(r)
    <3>1. ControlOK' /\ inp' = inp /\ pc' = [pc EXCEPT ![r] = "done"]
      BY <2>0, <2>24, FinishControl DEF PostFails, ControlOK, Answers
    <3> QED
      BY <2>0, <2>24, <3>1 DEF PostFails, ControlOK
  <2> QED
    BY <1>1, <2>1, <2>2, <2>3, <2>4, <2>5, <2>6, <2>7, <2>8, <2>9, <2>10, <2>11, <2>12, <2>13, <2>14, <2>15, <2>16, <2>17, <2>18, <2>19, <2>20, <2>21, <2>22, <2>23, <2>24 DEF Step
<1>2. CASE UNCHANGED vars
  BY <1>2 DEF vars, Typed, TypeOK, StageOK, Stored, Slot, localVars, dbVars, diskVars
<1> QED
  BY <1>1, <1>2 DEF Next, Quiet

(* Every variable keeps its type in every behaviour.                       *)
THEOREM TypeCorrect == Spec => []TypeOK
<1>1. Typed => TypeOK
  BY DEF Typed
<1> QED
  BY <1>1, TypedInit, TypedNext, PTL DEF Spec

-----------------------------------------------------------------------------
(* Past its first statement a request holds its lock.                      *)
Inside == {"readjs", "savejs", "match", "newratio", "charge"} \cup Stored

Entered(r) == pc[r] \in Inside \/ (pc[r] = "create" /\ inp[r].type # 0)

HolderOK == \A r \in Reqs : Entered(r) => Holds(r)

LEMMA HolderContinue ==
    ASSUME HolderOK, NEW r \in Reqs, NEW label, Holds(r), Continue(r, label),
           pc \in [Reqs -> Labels]
    PROVE  HolderOK'
BY DEF HolderOK, Continue, Entered, Holds, Lock, Slot

LEMMA HolderFinish ==
    ASSUME HolderOK, NEW r \in Reqs, NEW a, Holds(r), Finish(r, a),
           pc \in [Reqs -> Labels], queue \in [Locks -> Seq(Reqs)], Lock(r) \in Locks
    PROVE  HolderOK'
<1> SUFFICES ASSUME NEW q \in Reqs, Entered(q)'
             PROVE  Holds(q)'
  BY DEF HolderOK
<1>1. q # r /\ Entered(q)
  BY DEF Finish, Entered, Inside, Stored
<1>2. Holds(q)
  BY <1>1 DEF HolderOK
<1>3. Lock(q) # Lock(r)
  BY <1>1, <1>2 DEF Holds
<1>4. Lock(q)' = Lock(q)
  BY DEF Finish, Lock, Slot
<1> QED
  BY <1>2, <1>3, <1>4 DEF Finish, Holds

LEMMA HolderArrive ==
    ASSUME Typed, HolderOK, NEW r \in Reqs, Arrive(r)
    PROVE  HolderOK'
<1> SUFFICES ASSUME NEW q \in Reqs, Entered(q)'
             PROVE  Holds(q)'
  BY DEF HolderOK
<1>0. inp[r].type \in {0, 1, 2, 4} /\ Lock(r) \in Locks
  BY InputFacts
<1>1. q # r /\ Entered(q)
  BY <1>0 DEF Arrive, FirstStep, Entered, Inside, Stored, Typed, TypeOK
<1>2. Holds(q)
  BY <1>1 DEF HolderOK
<1>3. Lock(q)' = Lock(q) /\ Lock(q) \in Locks
  BY InputFacts DEF Arrive, Lock, Slot
<1>4. queue[Lock(q)] \in Seq(Reqs) /\ queue[Lock(q)] # <<>>
  BY <1>2, <1>3 DEF Typed, TypeOK, Holds
<1>5. Append(queue[Lock(q)], r) # <<>> /\ Head(Append(queue[Lock(q)], r)) = Head(queue[Lock(q)])
  BY <1>4
<1> QED
  BY <1>2, <1>3, <1>5 DEF Arrive, Holds, Typed, TypeOK

-----------------------------------------------------------------------------
(* What the records table and the requests' copies of its rows have in     *)
(* common.                                                                 *)
Fresh == {"idle", "find", "readjs", "savejs", "match", "ratio", "newratio",
          "charge", "create"}

RowOK ==
    /\ \A q \in Existing : records[q].status = 0
    /\ \A r \in Reqs : pc[r] \in Fresh => records[r] = None
    /\ \A r \in Reqs : pc[r] \in Stored =>
          /\ target[r] \in Existing
          /\ snap[r].args = records[target[r]].args
          /\ snap[r].status = 0

(* Who is about to create a final record has no record of that kind.       *)
NoTwin ==
    \A r \in Reqs : pc[r] = "create" /\ inp[r].type \in {2, 4} =>
        \A q \in Existing : records[q].args # Filtered(r)

Final == Typed /\ HolderOK /\ RowOK /\ NoTwin /\ OneFinalRecord

LEMMA FinalInit == Init => Final
<1> SUFFICES ASSUME Init PROVE Final
  OBVIOUS
<1>1. Existing = {}
  BY DEF Init, Existing
<1>2. HolderOK /\ RowOK /\ NoTwin /\ OneFinalRecord
  BY <1>1 DEF Init, HolderOK, Entered, Inside, Stored, RowOK, NoTwin, OneFinalRecord
<1> QED
  BY <1>2, TypedInit DEF Final

(* Steps that leave the records and the requests' copies of them alone.    *)
LEMMA FinalFrame ==
    ASSUME Final, NEW r \in Reqs, NEW label, label \in Labels,
           pc' = [pc EXCEPT ![r] = label],
           UNCHANGED <<inp, records, target, snap>>,
           label \in Fresh => pc[r] \in Fresh,
           label \in Stored => pc[r] \in Stored,
           label = "create" => inp[r].type \notin {2, 4}
    PROVE  RowOK' /\ NoTwin' /\ OneFinalRecord'
<1>1. Existing' = Existing
  BY DEF Existing
<1>2. RowOK'
  BY <1>1 DEF Final, RowOK, Typed, TypeOK
<1>3. NoTwin'
  BY <1>1 DEF Final, NoTwin, Filtered, Typed, TypeOK
<1>4. OneFinalRecord'
  BY <1>1 DEF Final, OneFinalRecord
<1> QED BY <1>2, <1>3, <1>4

(* A match: the request now works on an existing row.                      *)
LEMMA FinalMatch ==
    ASSUME Final, NEW r \in Reqs, Match(r)
    PROVE  RowOK' /\ NoTwin' /\ OneFinalRecord'
<1>1. PICK q \in Existing : /\ target' = [target EXCEPT ![r] = q]
                             /\ snap' = [snap EXCEPT ![r] = records[q]]
  BY DEF Match, Reusable
<1>2. /\ Existing' = Existing
      /\ pc' = [pc EXCEPT ![r] = IF inp[r].type = 4 THEN "write" ELSE "readhw"]
      /\ inp' = inp /\ records' = records
  BY DEF Match, Continue, Existing, dbVars
<1>3. RowOK'
  BY <1>1, <1>2 DEF Final, RowOK, Typed, TypeOK, Stored, Fresh, Existing
<1>4. NoTwin' /\ OneFinalRecord'
  BY <1>2 DEF Final, NoTwin, OneFinalRecord, Filtered, Typed, TypeOK
<1> QED BY <1>3, <1>4

(* No match: since every record still has status 0, none is of this kind.  *)
LEMMA FinalNoMatch ==
    ASSUME Final, NEW r \in Reqs, NoMatch(r)
    PROVE  RowOK' /\ NoTwin' /\ OneFinalRecord'
<1>1. /\ Existing' = Existing /\ pc' = [pc EXCEPT ![r] = "create"] /\ pc[r] = "match"
      /\ inp' = inp /\ records' = records /\ target' = target /\ snap' = snap
  BY DEF NoMatch, At, Continue, Existing, dbVars, localVars
<1>2. \A q \in Existing : records[q].args # Filtered(r)
  BY DEF NoMatch, Reusable, Final, RowOK
<1>3. RowOK'
  BY <1>1 DEF Final, RowOK, Typed, TypeOK, Stored, Fresh
<1>4. NoTwin'
  BY <1>1, <1>2 DEF Final, NoTwin, Filtered, Typed, TypeOK
<1>5. OneFinalRecord'
  BY <1>1 DEF Final, OneFinalRecord
<1> QED BY <1>3, <1>4, <1>5

(* Two requests with the same columns share a lock, so the one that is     *)
(* about to create is alone.                                               *)
LEMMA TwinsShareLock ==
    ASSUME Final, NEW r \in Reqs, NEW q \in Reqs, Filtered(q) = Filtered(r),
           inp[r].type \in {2, 4}, pc[r] = "create", pc[q] = "create"
    PROVE  q = r
<1>1. inp[q] \in Columns /\ inp[r] \in Columns
  BY InputFacts DEF Final
<1>2. /\ inp[q].hw = Filtered(q).hw /\ inp[q].prob = Filtered(q).prob
      /\ inp[q].type = Filtered(q).type
  BY <1>1 DEF Filtered, Columns
<1>3. /\ inp[r].hw = Filtered(r).hw /\ inp[r].prob = Filtered(r).prob
      /\ inp[r].type = Filtered(r).type
  BY <1>1 DEF Filtered, Columns
<1>4. inp[r].hw # None
  BY InputFacts, SubmissionAssumption DEF Final
<1>5. Lock(q) = Lock(r)
  BY <1>2, <1>3, <1>4 DEF Lock, Slot
<1>6. Holds(q) /\ Holds(r)
  BY <1>2, <1>3 DEF Final, HolderOK, Entered
<1> QED
  BY <1>5, <1>6 DEF Holds

LEMMA FinalCreate ==
    ASSUME Final, NEW r \in Reqs, Create(r)
    PROVE  RowOK' /\ NoTwin' /\ OneFinalRecord'
<1> DEFINE row == [args |-> Filtered(r), status |-> 0, by |-> None, result |-> None]
<1>1. /\ records' = [records EXCEPT ![r] = row]
      /\ target' = [target EXCEPT ![r] = r]
      /\ snap' = [snap EXCEPT ![r] = row]
      /\ inp' = inp /\ pc[r] = "create"
  BY DEF Create, Continue, At
<1>2. PICK label \in {"readprob", "readhw", "write"} : pc' = [pc EXCEPT ![r] = label]
  BY DEF Create, Continue
<1>3. row \in Rows /\ row # None
  BY InputFacts, SubmissionAssumption DEF Final, Rows
<1>4. row.args = Filtered(r) /\ row.status = 0
  OBVIOUS
<1> HIDE DEF row
<1>5. Existing' = Existing \cup {r} /\ r \notin Existing
  BY <1>1, <1>3 DEF Existing, Final, Typed, TypeOK, RowOK, Fresh
<1>6. \A q \in Existing : records'[q] = records[q]
  BY <1>1, <1>5 DEF Final, Typed, TypeOK
<1>7. records'[r] = row
  BY <1>1 DEF Final, Typed, TypeOK
<1>8. RowOK'
  <2>1. \A q \in Existing' : records'[q].status = 0
    BY <1>4, <1>5, <1>6, <1>7 DEF Final, RowOK
  <2>2. \A q \in Reqs : pc'[q] \in Fresh => records'[q] = None
    BY <1>1, <1>2 DEF Final, RowOK, Typed, TypeOK, Fresh
  <2>3. ASSUME NEW q \in Reqs, pc'[q] \in Stored
        PROVE  /\ target'[q] \in Existing'
               /\ snap'[q].args = records'[target'[q]].args
               /\ snap'[q].status = 0
    <3>1. CASE q = r
      BY <3>1, <1>1, <1>4, <1>5, <1>7 DEF Final, Typed, TypeOK
    <3>2. CASE q # r
      <4>1. pc[q] \in Stored /\ target'[q] = target[q] /\ snap'[q] = snap[q]
        BY <2>3, <3>2, <1>1, <1>2 DEF Final, Typed, TypeOK
      <4> QED
        BY <4>1, <1>5, <1>6 DEF Final, RowOK
    <3> QED BY <3>1, <3>2
  <2> QED BY <2>1, <2>2, <2>3 DEF RowOK
<1>9. NoTwin'
  <2> SUFFICES ASSUME NEW q \in Reqs, pc'[q] = "create", inp[q].type \in {2, 4},
                      NEW x \in Existing'
               PROVE  records'[x].args # Filtered(q)
    BY <1>1 DEF NoTwin, Filtered
  <2>1. pc[q] = "create" /\ q # r
    BY <1>1, <1>2 DEF Final, Typed, TypeOK
  <2>2. CASE x = r
    BY <2>1, <2>2, <1>1, <1>4, <1>7, TwinsShareLock
  <2>3. CASE x \in Existing
    BY <2>1, <2>3, <1>6 DEF Final, NoTwin
  <2> QED BY <2>2, <2>3, <1>5
<1>10. OneFinalRecord'
  <2>1. Filtered(r).type = inp[r].type
    BY InputFacts DEF Final, Filtered, Columns
  <2>2. inp[r].type \in {2, 4} => \A q \in Existing : records[q].args # Filtered(r)
    BY <1>1 DEF Final, NoTwin
  <2> QED
    BY <2>1, <2>2, <1>4, <1>5, <1>6, <1>7 DEF Final, OneFinalRecord
<1> QED BY <1>8, <1>9, <1>10

LEMMA FinalSaveRecord ==
    ASSUME Final, NEW r \in Reqs, SaveRecord(r)
    PROVE  RowOK' /\ NoTwin' /\ OneFinalRecord'
<1> DEFINE t == target[r]
           row == [snap[r] EXCEPT !.by = r]
<1>1. /\ t \in Existing /\ snap[r].args = records[t].args /\ snap[r].status = 0
      /\ snap[r] \in Rows
  BY DEF SaveRecord, At, Final, RowOK, Typed, StageOK, Stored
<1>2. row \in Rows /\ row.args = records[t].args /\ row.status = 0
  BY <1>1 DEF Rows
<1>3. records' = [records EXCEPT ![t] = row] /\ target' = target /\ snap' = snap
  BY DEF SaveRecord, localVars
<1>4. PICK label \in {"done", "post"} : pc' = [pc EXCEPT ![r] = label]
  BY DEF SaveRecord, Finish, Continue
<1>5. inp' = inp /\ pc[r] = "saverec"
  BY DEF SaveRecord, Finish, Continue, At
<1> HIDE DEF row, t
<1>6. Existing' = Existing
  BY <1>1, <1>2, <1>3, SubmissionAssumption DEF Existing, Final, Typed, TypeOK
<1>7. \A q \in Existing : /\ records'[q].args = records[q].args
                          /\ records'[q].status = 0
  BY <1>1, <1>2, <1>3 DEF Existing, Final, Typed, TypeOK, RowOK
<1>8. \A q \in Reqs : records[q] = None => records'[q] = None
  BY <1>6 DEF Existing
<1>9. \A q \in Reqs : /\ pc'[q] \in Stored => pc[q] \in Stored
                      /\ pc'[q] \in Fresh => pc[q] \in Fresh
                      /\ pc'[q] = "create" => pc[q] = "create"
  BY <1>4, <1>5 DEF Final, Typed, TypeOK, Stored, Fresh
<1>10. RowOK'
  <2>1. \A q \in Reqs : pc'[q] \in Stored =>
          /\ target'[q] \in Existing'
          /\ snap'[q].args = records'[target'[q]].args
          /\ snap'[q].status = 0
    <3> SUFFICES ASSUME NEW q \in Reqs, pc'[q] \in Stored
                 PROVE  /\ target[q] \in Existing
                        /\ snap[q].args = records'[target[q]].args
                        /\ snap[q].status = 0
      BY <1>3, <1>6
    <3>1. /\ target[q] \in Existing /\ snap[q].status = 0
          /\ snap[q].args = records[target[q]].args
      BY <1>9 DEF Final, RowOK
    <3> QED BY <3>1, <1>7
  <2>2. \A q \in Reqs : pc'[q] \in Fresh => records'[q] = None
    BY <1>8, <1>9 DEF Final, RowOK
  <2> QED
    BY <2>1, <2>2, <1>6, <1>7 DEF RowOK
<1>11. NoTwin'
  <2> SUFFICES ASSUME NEW q \in Reqs, pc'[q] = "create", inp[q].type \in {2, 4},
                      NEW x \in Existing
               PROVE  records'[x].args # Filtered(q)
    BY <1>5, <1>6 DEF NoTwin, Filtered
  <2>1. pc[q] = "create"
    BY <1>9
  <2> QED BY <2>1, <1>7 DEF Final, NoTwin
<1>12. OneFinalRecord'
  BY <1>6, <1>7 DEF Final, OneFinalRecord
<1> QED BY <1>10, <1>11, <1>12

LEMMA FinalNext == Final /\ [Next]_vars => Final'
<1> SUFFICES ASSUME Final, [Next]_vars PROVE Final'
  OBVIOUS
<1>0. Typed'
  BY TypedNext DEF Final
<1> USE DEF At, localVars, dbVars, diskVars
<1>1. ASSUME NEW r \in Reqs, Refuse(r) \/ Arrive(r) \/ Step(r)
      PROVE  HolderOK' /\ RowOK' /\ NoTwin' /\ OneFinalRecord'
  <2>0. /\ HolderOK /\ pc \in [Reqs -> Labels] /\ queue \in [Locks -> Seq(Reqs)]
        /\ Lock(r) \in Locks /\ inp[r].type \in {0, 1, 2, 4}
    BY InputFacts DEF Final, Typed, TypeOK
  <2>a. StageOK(r)
    BY DEF Final, Typed
  <2>b. inp[r].type \in {2, 4} => FirstStep(inp[r]) # "create"
    BY DEF FirstStep
  <2>c. FirstStep(inp[r]) \in {"find", "ratio", "create"}
    BY <2>0 DEF FirstStep
  <2>1. CASE Refuse(r)
    <3>1. HolderOK'
      BY <2>0, <2>1 DEF Refuse, HolderOK, Entered, Inside, Stored, Holds, Lock, Slot
    <3> QED
      BY <2>0, <2>1, <3>1, FinalFrame DEF Refuse, Labels, Fresh, Stored
  <2>2. CASE Arrive(r)
    <3>1. HolderOK'
      BY <2>2, HolderArrive DEF Final
    <3> QED
      BY <2>0, <2>b, <2>c, <2>2, <3>1, FinalFrame DEF Arrive, Labels, Fresh, Stored
  <2>3. CASE FindOld(r)
    <3>1. HolderOK'
      BY <2>0, <2>3, HolderContinue DEF FindOld
    <3> QED
      BY <2>0, <2>a, <2>3, <3>1, FinalFrame
         DEF FindOld, Continue, StageOK, Labels, Fresh, Stored
  <2>4. CASE ReadJudgeState(r)
    <3>1. HolderOK'
      BY <2>0, <2>4, HolderContinue DEF ReadJudgeState
    <3> QED
      BY <2>0, <2>a, <2>4, <3>1, FinalFrame
         DEF ReadJudgeState, Continue, StageOK, Labels, Fresh, Stored
  <2>5. CASE NoJudgeState(r)
    <3>1. HolderOK'
      BY <2>0, <2>5, HolderFinish DEF NoJudgeState
    <3> QED
      BY <2>0, <2>a, <2>5, <3>1, FinalFrame
         DEF NoJudgeState, Finish, StageOK, Labels, Fresh, Stored
  <2>6. CASE SaveJudgeState(r)
    <3>1. HolderOK'
      BY <2>0, <2>6, HolderContinue DEF SaveJudgeState
    <3> QED
      BY <2>0, <2>a, <2>6, <3>1, FinalFrame
         DEF SaveJudgeState, Continue, StageOK, Labels, Fresh, Stored
  <2>7. CASE Match(r)
    <3>1. HolderOK'
      BY <2>0, <2>7, HolderContinue DEF Match
    <3> QED
      BY <2>7, <3>1, FinalMatch
  <2>8. CASE NoMatch(r)
    <3>1. HolderOK'
      BY <2>0, <2>8, HolderContinue DEF NoMatch
    <3> QED
      BY <2>8, <3>1, FinalNoMatch
  <2>9. CASE ReadRatio(r)
    <3>1. HolderOK'
      BY <2>0, <2>9, HolderContinue DEF ReadRatio
    <3> QED
      BY <2>0, <2>a, <2>9, <3>1, FinalFrame
         DEF ReadRatio, Continue, StageOK, Labels, Fresh, Stored
  <2>10. CASE NoRatio(r)
    <3>1. HolderOK'
      BY <2>0, <2>10, HolderContinue DEF NoRatio
    <3> QED
      BY <2>0, <2>a, <2>10, <3>1, FinalFrame
         DEF NoRatio, Continue, StageOK, Labels, Fresh, Stored
  <2>11. CASE CreateRatio(r)
    <3>1. HolderOK'
      BY <2>0, <2>11, HolderContinue DEF CreateRatio
    <3> QED
      BY <2>0, <2>a, <2>11, <3>1, FinalFrame
         DEF CreateRatio, Continue, StageOK, Labels, Fresh, Stored
  <2>12. CASE Charge(r)
    <3>1. HolderOK'
      BY <2>0, <2>12, HolderContinue DEF Charge
    <3> QED
      <4>1. pc[r] = "charge" /\ inp[r].type = 1
        BY <2>a, <2>12 DEF Charge, StageOK
      <4>2. pc' = [pc EXCEPT ![r] = "create"] /\ UNCHANGED <<inp, records, target, snap>>
        BY <2>12 DEF Charge, Continue
      <4> QED
        <5>1. "create" \in Labels /\ "create" \notin Stored /\ pc[r] \in Fresh
              /\ inp[r].type \notin {2, 4}
          BY <4>1 DEF Labels, Fresh, Stored
        <5> QED BY <5>1, <4>2, <3>1, FinalFrame
  <2>13. CASE Exceed(r)
    <3>1. HolderOK'
      BY <2>0, <2>13, HolderFinish DEF Exceed
    <3> QED
      BY <2>0, <2>a, <2>13, <3>1, FinalFrame
         DEF Exceed, Finish, StageOK, Labels, Fresh, Stored
  <2>14. CASE Create(r)
    <3>1. HolderOK'
      BY <2>0, <2>14, HolderContinue DEF Create
    <3> QED
      BY <2>14, <3>1, FinalCreate
  <2>15. CASE ReadProblem(r)
    <3>1. HolderOK'
      BY <2>0, <2>15, HolderContinue DEF ReadProblem
    <3> QED
      BY <2>0, <2>a, <2>15, <3>1, FinalFrame
         DEF ReadProblem, Continue, StageOK, Labels, Fresh, Stored
  <2>16. CASE SaveProblem(r)
    <3>1. HolderOK'
      BY <2>0, <2>16, HolderContinue DEF SaveProblem
    <3> QED
      BY <2>0, <2>a, <2>16, <3>1, FinalFrame
         DEF SaveProblem, Continue, StageOK, Labels, Fresh, Stored
  <2>17. CASE ReadHomework(r)
    <3>1. HolderOK'
      BY <2>0, <2>17, HolderContinue DEF ReadHomework
    <3> QED
      BY <2>0, <2>a, <2>17, <3>1, FinalFrame
         DEF ReadHomework, Continue, StageOK, Labels, Fresh, Stored
  <2>18. CASE SaveHomework(r)
    <3>1. HolderOK'
      BY <2>0, <2>18, HolderContinue DEF SaveHomework
    <3> QED
      BY <2>0, <2>a, <2>18, <3>1, FinalFrame
         DEF SaveHomework, Continue, StageOK, Labels, Fresh, Stored
  <2>19. CASE WriteCode(r)
    <3>1. HolderOK'
      BY <2>0, <2>19, HolderContinue DEF WriteCode
    <3> QED
      BY <2>0, <2>a, <2>19, <3>1, FinalFrame
         DEF WriteCode, Continue, StageOK, Labels, Fresh, Stored
  <2>20. CASE WriteZip(r)
    <3>1. HolderOK'
      BY <2>0, <2>20, HolderContinue DEF WriteZip
    <3> QED
      BY <2>0, <2>a, <2>20, <3>1, FinalFrame
         DEF WriteZip, Continue, StageOK, Labels, Fresh, Stored
  <2>21. CASE NoZip(r)
    <3>1. HolderOK'
      BY <2>0, <2>21, HolderFinish DEF NoZip
    <3> QED
      BY <2>0, <2>a, <2>21, <3>1, FinalFrame
         DEF NoZip, Finish, StageOK, Labels, Fresh, Stored
  <2>22. CASE SaveRecord(r)
    <3>1. HolderOK'
      BY <2>0, <2>22, HolderContinue, HolderFinish DEF SaveRecord
    <3> QED
      BY <2>22, <3>1, FinalSaveRecord
  <2>23. CASE Post(r)
    <3>1. HolderOK'
      BY <2>0, <2>23, HolderFinish DEF Post
    <3> QED
      BY <2>0, <2>a, <2>23, <3>1, FinalFrame
         DEF Post, Finish, StageOK, Labels, Fresh, Stored
  <2>24. CASE PostFails(r)
    <3>1. HolderOK'
      BY <2>0, <2>24, HolderFinish DEF PostFails
    <3> QED
      BY <2>0, <2>a, <2>24, <3>1, FinalFrame
         DEF PostFails, Finish, StageOK, Labels, Fresh, Stored
  <2> QED
    BY <1>1, <2>1, <2>2, <2>3, <2>4, <2>5, <2>6, <2>7, <2>8, <2>9, <2>10, <2>11, <2>12, <2>13, <2>14, <2>15, <2>16, <2>17, <2>18, <2>19, <2>20, <2>21, <2>22, <2>23, <2>24 DEF Step
<1>2. CASE UNCHANGED vars
  <2>1. Existing' = Existing
    BY <1>2 DEF vars, Existing
  <2> QED
    BY <1>0, <1>2, <2>1 DEF vars, Final, HolderOK, Entered, Holds, Lock, Slot, RowOK,
       NoTwin, Filtered, OneFinalRecord
<1> QED
  BY <1>0, <1>1, <1>2 DEF Next, Quiet, Final

(* While no verdict has come back, a student has one final record per      *)
(* homework problem and language, whatever requests overlap and however    *)
(* the locks are shared.                                                   *)
THEOREM OneFinal == Spec => []OneFinalRecord
<1>1. Final => OneFinalRecord
  BY DEF Final
<1> QED
  BY <1>1, FinalInit, FinalNext, PTL DEF Spec

-----------------------------------------------------------------------------
(* Theorems about the counters a submission keeps: judgestates.total and    *)
(* the used-up tests of a ratios row, for every value of the constants.     *)

(* What is known of the row of judgestates while a request that holds the   *)
(* lock of its slot has read it and not yet saved it: nobody else changes   *)
(* it, and the student is not counted.                                      *)
Counting ==
    /\ TotalCountsSubmitters
    /\ \A r \in Reqs : pc[r] = "savejs" => js[r] = judgestates[Slot(r)]
    /\ \A r \in Reqs : pc[r] \in {"readjs", "savejs"} => OldRecords(r) = {}

LEMMA CountingInit == Init => Counting
<1> SUFFICES ASSUME Init PROVE Counting
  OBVIOUS
<1>1. Existing = {}
  BY DEF Init, Existing
<1>2. \A s \in HwProblems : Counted(s) = {}
  BY <1>1 DEF Init, Counted
<1>3. Cardinality({}) = 0
  BY FS_EmptySet
<1>4. TotalCountsSubmitters
  BY <1>2, <1>3 DEF Init, TotalCountsSubmitters
<1> QED
  BY <1>4 DEF Init, Counting

LEMMA CountedFinite == \A s : IsFiniteSet(Counted(s))
<1>1. IsFiniteSet({2, 4})
  <2>1. IsFiniteSet({2})
    BY FS_Singleton
  <2>2. IsFiniteSet({2} \cup {4})
    BY <2>1, FS_AddElement
  <2>3. {2} \cup {4} = {2, 4}
    OBVIOUS
  <2> QED BY <2>2, <2>3
<1>2. IsFiniteSet(Users \X {2, 4})
  BY <1>1, FS_Product, SubmissionAssumption
<1> QED
  BY <1>2, FS_Subset DEF Counted

(* A student who has a final record of the kind is counted.                 *)
LEMMA OldIsCounted ==
    ASSUME NEW r \in Reqs, OldRecords(r) # {}, NEW s, NEW k, SubmittedTo(inp[r], s, k)
    PROVE  \E q \in Existing : SubmittedTo(records[q].args, s, k)
BY DEF OldRecords, SameSlot, SubmittedTo

(* Steps that leave the set of counted students as it is.                   *)
LEMMA CountFrame ==
    ASSUME Final, Counting, NEW r \in Reqs, NEW label \in Labels,
           pc' = [pc EXCEPT ![r] = label],
           inp' = inp, judgestates' = judgestates, js' = js,
           Existing' = Existing,
           \A q \in Existing : records'[q].args = records[q].args,
           label # "savejs",
           label = "readjs" => OldRecords(r) = {},
           inp[r].type \in {2, 4} /\ OldRecords(r) = {} =>
               (pc[r] \in {"match", "create"} <=> label \in {"match", "create"})
    PROVE  Counting'
<1>1. \A q \in Reqs : pc'[q] = IF q = r THEN label ELSE pc[q]
  BY DEF Final, Typed, TypeOK
<1>2. ASSUME NEW s PROVE Counted(s)' = Counted(s)
  <2> SUFFICES ASSUME NEW k \in Users \X {2, 4}
               PROVE  k \in Counted(s)' <=> k \in Counted(s)
    BY DEF Counted
  <2>1. (\E q \in Existing : SubmittedTo(records[q].args, s, k))
          <=> (\E q \in Existing' : SubmittedTo(records'[q].args, s, k))
    BY DEF SubmittedTo
  <2>2. \A q \in Reqs : q # r => (pc'[q] \in {"match", "create"} /\ SubmittedTo(inp'[q], s, k)
                                  <=> pc[q] \in {"match", "create"} /\ SubmittedTo(inp[q], s, k))
    BY <1>1
  <2>3. SubmittedTo(inp[r], s, k) => inp[r].type \in {2, 4}
    BY DEF SubmittedTo
  <2>4. \/ pc'[r] \in {"match", "create"} /\ SubmittedTo(inp'[r], s, k)
           <=> pc[r] \in {"match", "create"} /\ SubmittedTo(inp[r], s, k)
        \/ \E q \in Existing : SubmittedTo(records[q].args, s, k)
    BY <1>1, <2>3, OldIsCounted
  <2> QED BY <2>1, <2>2, <2>4 DEF Counted
<1>3. TotalCountsSubmitters'
  BY <1>2 DEF Counting, TotalCountsSubmitters
<1>4. \A q \in Reqs : OldRecords(q)' = OldRecords(q)
  BY DEF OldRecords, SameSlot
<1>5. \A q \in Reqs : pc'[q] = "savejs" => js'[q] = judgestates'[Slot(q)']
  BY <1>1 DEF Counting, Slot
<1>6. \A q \in Reqs : pc'[q] \in {"readjs", "savejs"} => OldRecords(q)' = {}
  BY <1>1, <1>4 DEF Counting
<1> QED BY <1>3, <1>5, <1>6 DEF Counting

(* Saving the row: nobody else has it, and the student is new.              *)
LEMMA CountSaveJudgeState ==
    ASSUME Final, Counting, NEW r \in Reqs, SaveJudgeState(r)
    PROVE  Counting'
<1> DEFINE slot == Slot(r)
           key  == <<inp[r].user, inp[r].type>>
<1>1. /\ pc[r] = "savejs" /\ pc' = [pc EXCEPT ![r] = "match"] /\ inp' = inp /\ js' = js
      /\ judgestates' = [judgestates EXCEPT ![slot] = [js[r] EXCEPT !.total = @ + 1]]
      /\ records' = records
  BY DEF SaveJudgeState, At, Continue, localVars
<1>2. /\ inp[r].type \in {2, 4} /\ js[r] \in States /\ slot \in HwProblems
      /\ inp[r].user \in Users /\ js[r] = judgestates[slot] /\ OldRecords(r) = {}
  BY <1>1, InputFacts DEF Final, Typed, StageOK, Counting
<1>3. key \in Users \X {2, 4}
  BY <1>2
<1>4. \A q \in Reqs : pc'[q] = IF q = r THEN "match" ELSE pc[q]
  BY <1>1 DEF Final, Typed, TypeOK
<1>5. /\ Existing' = Existing
      /\ \A q \in Reqs : OldRecords(q)' = OldRecords(q) /\ Slot(q)' = Slot(q)
  BY <1>1 DEF Existing, OldRecords, SameSlot, Slot
<1>6. ASSUME NEW q \in Reqs, q # r, pc[q] \in {"savejs", "match"} \/ (pc[q] = "create" /\ inp[q].type \in {2, 4})
      PROVE  Slot(q) # slot
  <2>1. Holds(q) /\ Holds(r)
    BY <1>1, <1>6 DEF Final, HolderOK, Entered, Inside
  <2>2. Lock(q) # Lock(r)
    BY <1>6, <2>1 DEF Holds
  <2>3. pc[q] \in {"savejs", "match"} => inp[q].type \in {2, 4}
    BY DEF Final, Typed, StageOK
  <2>4. inp[q].hw # None /\ inp[r].hw # None
    BY <1>2, <1>6, <2>3, InputFacts, SubmissionAssumption DEF Final
  <2> QED BY <2>2, <2>4 DEF Lock
<1>7. Counted(slot)' = Counted(slot) \cup {key} /\ key \notin Counted(slot)
  <2>1. \A k : SubmittedTo(inp[r], slot, k) <=> k = key
    BY DEF SubmittedTo, Slot
  <2>2. ASSUME NEW k \in Users \X {2, 4}
        PROVE  k \in Counted(slot)' <=> k \in Counted(slot) \/ k = key
    BY <1>1, <1>4, <1>5, <2>1 DEF Counted, SubmittedTo
  <2>3. \A q \in Existing : ~SubmittedTo(records[q].args, slot, key)
    BY <1>2 DEF OldRecords, SameSlot, SubmittedTo, Slot
  <2>4. \A q \in Reqs : pc[q] \in {"match", "create"} => ~SubmittedTo(inp[q], slot, key)
    BY <1>1, <1>2, <1>6 DEF SubmittedTo, Slot
  <2> QED BY <1>3, <2>2, <2>3, <2>4 DEF Counted
<1>8. ASSUME NEW s \in HwProblems, s # slot
      PROVE  Counted(s)' = Counted(s)
  <2>1. \A k : ~SubmittedTo(inp[r], s, k)
    BY <1>8 DEF SubmittedTo, Slot
  <2> QED BY <1>1, <1>4, <1>5, <2>1 DEF Counted, SubmittedTo
<1>9. TotalCountsSubmitters'
  <2> SUFFICES ASSUME NEW s \in HwProblems
               PROVE  judgestates'[s].total = Cardinality(Counted(s)')
    BY DEF TotalCountsSubmitters
  <2>1. CASE s = slot
    <3>1. Cardinality(Counted(slot)') = Cardinality(Counted(slot)) + 1
      BY <1>7, CountedFinite, FS_AddElement
    <3>2. judgestates'[slot].total = js[r].total + 1
      <4>1. [js[r] EXCEPT !.total = @ + 1].total = js[r].total + 1
        BY <1>2, OneMore
      <4>2. judgestates'[slot] = [js[r] EXCEPT !.total = @ + 1]
        BY <1>1, <1>2 DEF Final, Typed, TypeOK
      <4> QED BY <4>1, <4>2
    <3>3. js[r].total = Cardinality(Counted(slot))
      BY <1>2 DEF Counting, TotalCountsSubmitters
    <3>4. Counted(s)' = Counted(slot)'
      BY <2>1, <1>5 DEF Counted, SubmittedTo
    <3> QED BY <2>1, <3>1, <3>2, <3>3, <3>4
  <2>2. CASE s # slot
    BY <2>2, <1>1, <1>8 DEF Counting, TotalCountsSubmitters, Final, Typed, TypeOK
  <2> QED BY <2>1, <2>2
<1>10. ASSUME NEW q \in Reqs, pc'[q] = "savejs"
       PROVE  js'[q] = judgestates'[Slot(q)']
  <2>1. q # r /\ pc[q] = "savejs"
    BY <1>4, <1>10
  <2>2. js[q] = judgestates[Slot(q)] /\ Slot(q) # slot /\ Slot(q) \in HwProblems
    BY <1>6, <2>1 DEF Counting, Final, Typed, StageOK
  <2> QED
    BY <1>1, <1>5, <2>2 DEF Final, Typed, TypeOK
<1>11. \A q \in Reqs : pc'[q] \in {"readjs", "savejs"} => OldRecords(q)' = {}
  BY <1>4, <1>5 DEF Counting
<1> QED BY <1>9, <1>10, <1>11 DEF Counting

(* Reading it: nothing else of interest happens.                            *)
LEMMA CountReadJudgeState ==
    ASSUME Final, Counting, NEW r \in Reqs, ReadJudgeState(r)
    PROVE  Counting'
<1>1. /\ pc[r] = "readjs" /\ pc' = [pc EXCEPT ![r] = "savejs"] /\ inp' = inp
      /\ js' = [js EXCEPT ![r] = judgestates[Slot(r)]]
      /\ records' = records /\ judgestates' = judgestates
  BY DEF ReadJudgeState, At, Continue, dbVars
<1>2. \A q \in Reqs : /\ pc'[q] = IF q = r THEN "savejs" ELSE pc[q]
                      /\ js'[q] = IF q = r THEN judgestates[Slot(r)] ELSE js[q]
                      /\ OldRecords(q)' = OldRecords(q) /\ Slot(q)' = Slot(q)
  BY <1>1 DEF Final, Typed, TypeOK, OldRecords, Existing, SameSlot, Slot
<1>3. \A s : Counted(s)' = Counted(s)
  BY <1>1, <1>2 DEF Counted, SubmittedTo, Existing
<1> QED
  BY <1>1, <1>2, <1>3 DEF Counting, TotalCountsSubmitters

(* A new final record: its student stays counted, for the record now.       *)
LEMMA CountCreate ==
    ASSUME Final, Counting, NEW r \in Reqs, Create(r)
    PROVE  Counting'
<1> DEFINE row == [args |-> Filtered(r), status |-> 0, by |-> None, result |-> None]
<1>1. /\ pc[r] = "create" /\ records' = [records EXCEPT ![r] = row]
      /\ inp' = inp /\ js' = js /\ judgestates' = judgestates
  BY DEF Create, Continue, At
<1>2. PICK label \in {"readprob", "readhw", "write"} : pc' = [pc EXCEPT ![r] = label]
  BY DEF Create, Continue
<1>3. row \in Rows /\ row # None /\ row.args = Filtered(r)
  BY InputFacts, SubmissionAssumption DEF Final, Rows
<1> HIDE DEF row
<1>4. Existing' = Existing \cup {r} /\ r \notin Existing /\ records'[r].args = Filtered(r)
  BY <1>1, <1>3 DEF Existing, Final, Typed, TypeOK, RowOK, Fresh
<1>5. \A q \in Existing : records'[q] = records[q]
  BY <1>1, <1>4 DEF Final, Typed, TypeOK
<1>6. \A q \in Reqs : pc'[q] = IF q = r THEN label ELSE pc[q]
  BY <1>2 DEF Final, Typed, TypeOK
<1>7. /\ Filtered(r).user = inp[r].user /\ Filtered(r).prob = inp[r].prob
      /\ Filtered(r).hw = inp[r].hw /\ Filtered(r).type = inp[r].type
  BY InputFacts DEF Final, Filtered, Columns
<1>8. \A s : Counted(s)' = Counted(s)
  <2> SUFFICES ASSUME NEW s, NEW k \in Users \X {2, 4}
               PROVE  k \in Counted(s)' <=> k \in Counted(s)
    BY DEF Counted
  <2>1. SubmittedTo(records'[r].args, s, k) <=> SubmittedTo(inp[r], s, k)
    BY <1>4, <1>7 DEF SubmittedTo
  <2>2. (\E q \in Existing' : SubmittedTo(records'[q].args, s, k))
          <=> \/ \E q \in Existing : SubmittedTo(records[q].args, s, k)
              \/ SubmittedTo(inp[r], s, k)
    BY <1>4, <1>5, <2>1
  <2>3. (\E q \in Reqs : pc[q] \in {"match", "create"} /\ SubmittedTo(inp[q], s, k))
          <=> \/ \E q \in Reqs : pc'[q] \in {"match", "create"} /\ SubmittedTo(inp'[q], s, k)
              \/ SubmittedTo(inp[r], s, k)
    BY <1>1, <1>6
  <2> QED BY <2>2, <2>3 DEF Counted
<1>9. ASSUME NEW q \in Reqs, pc'[q] \in {"readjs", "savejs"}
      PROVE  OldRecords(q)' = {}
  <2>1. q # r /\ pc[q] \in {"readjs", "savejs"} /\ inp[q].type \in {2, 4} /\ OldRecords(q) = {}
    BY <1>6, <1>9 DEF Counting, Final, Typed, StageOK
  <2>2. ~SameSlot(Filtered(r), inp[q])
    <3> SUFFICES ASSUME SameSlot(Filtered(r), inp[q]) PROVE FALSE
      OBVIOUS
    <3>1. /\ inp[r].type \in {2, 4} /\ inp[r].hw = inp[q].hw /\ inp[r].prob = inp[q].prob
          /\ inp[q].hw # None
      BY <1>7, <2>1, InputFacts, SubmissionAssumption DEF SameSlot, Final
    <3>2. Lock(q) = Lock(r) /\ Holds(q) /\ Holds(r)
      BY <1>1, <2>1, <3>1 DEF Lock, Slot, Final, HolderOK, Entered, Inside
    <3> QED BY <2>1, <3>2 DEF Holds
  <2>3. \A x \in Existing : ~SameSlot(records[x].args, inp[q])
    BY <2>1 DEF OldRecords
  <2> QED BY <1>1, <1>4, <1>5, <2>2, <2>3 DEF OldRecords
<1>10. \A q \in Reqs : pc'[q] = "savejs" => js'[q] = judgestates'[Slot(q)']
  BY <1>1, <1>2, <1>6 DEF Counting, Slot
<1> QED BY <1>1, <1>8, <1>9, <1>10 DEF Counting, TotalCountsSubmitters

(* What a record says of the submission it is for never changes, and only   *)
(* Create adds one.                                                         *)
LEMMA RecordsKept ==
    ASSUME Final, NEW r \in Reqs, Refuse(r) \/ Arrive(r) \/ Step(r), ~Create(r)
    PROVE  /\ inp' = inp /\ Existing' = Existing
           /\ \A q \in Existing : records'[q].args = records[q].args
<1>1. CASE SaveRecord(r)
  <2> DEFINE t == target[r]
             row == [snap[r] EXCEPT !.by = r]
  <2>1. /\ t \in Existing /\ snap[r].args = records[t].args /\ snap[r] \in Rows
    BY <1>1 DEF SaveRecord, At, Final, RowOK, Typed, StageOK, Stored
  <2>2. row \in Rows /\ row.args = records[t].args
    BY <2>1 DEF Rows
  <2>3. records' = [records EXCEPT ![t] = row] /\ inp' = inp
    BY <1>1 DEF SaveRecord, Finish, Continue
  <2> HIDE DEF row, t
  <2> QED
    BY <2>1, <2>2, <2>3, SubmissionAssumption DEF Existing, Final, Typed, TypeOK
<1>2. CASE ~SaveRecord(r)
  <2>1. records' = records /\ inp' = inp
    BY <1>2 DEF Step, dbVars, Finish, Continue, Refuse, Arrive, FindOld, ReadJudgeState,
       NoJudgeState, SaveJudgeState, Match, NoMatch, ReadRatio, NoRatio, CreateRatio,
       Charge, Exceed, ReadProblem, SaveProblem, ReadHomework, SaveHomework, WriteCode,
       WriteZip, NoZip, Post, PostFails
  <2> QED BY <2>1 DEF Existing
<1> QED BY <1>1, <1>2

(* Steps of the part of the handler that all record types share, and of the *)
(* tests': none of them is about who has been counted.                      *)
LEMMA CountElsewhere ==
    ASSUME Final, Counting, NEW r \in Reqs,
           Refuse(r) \/ Arrive(r) \/ Step(r), ~Create(r),
           judgestates' = judgestates, js' = js,
           NEW label \in Labels, pc' = [pc EXCEPT ![r] = label],
           label \notin {"readjs", "savejs"},
           inp[r].type \in {2, 4} =>
               (pc[r] \in {"match", "create"} <=> label \in {"match", "create"})
    PROVE  Counting'
BY RecordsKept, CountFrame

LEMMA CountingNext == Final /\ Counting /\ [Next]_vars => Counting'
<1> SUFFICES ASSUME Final, Counting, [Next]_vars PROVE Counting'
  OBVIOUS
<1> USE DEF At, localVars, dbVars
<1>1. ASSUME NEW r \in Reqs, Refuse(r) \/ Arrive(r) \/ Step(r)
      PROVE  Counting'
  <2>0. StageOK(r) /\ inp[r].type \in {0, 1, 2, 4}
    BY InputFacts DEF Final, Typed
  <2>1. CASE Refuse(r)
    BY <1>1, <2>1, CountElsewhere DEF Refuse, Create, Labels
  <2>2. CASE Arrive(r)
    <3>1. FirstStep(inp[r]) \in {"find", "ratio", "create"}
          /\ (inp[r].type \in {2, 4} => FirstStep(inp[r]) = "find")
      BY <2>0 DEF FirstStep
    <3>2. pc[r] = "idle" /\ pc' = [pc EXCEPT ![r] = FirstStep(inp[r])]
          /\ judgestates' = judgestates /\ js' = js
      BY <2>2 DEF Arrive
    <3>3. ~Create(r)
      BY <3>2 DEF Create
    <3> QED BY <1>1, <2>2, <3>1, <3>2, <3>3, CountElsewhere DEF Labels
  <2>3. CASE FindOld(r)
    <3>1. PICK label \in {"readjs", "match"} :
              /\ pc[r] = "find" /\ pc' = [pc EXCEPT ![r] = label]
              /\ label = "readjs" <=> OldRecords(r) = {}
      BY <2>3 DEF FindOld, Continue
    <3>2. /\ inp' = inp /\ judgestates' = judgestates /\ js' = js
          /\ records' = records /\ Existing' = Existing
      BY <2>3 DEF FindOld, Continue, Existing
    <3> QED BY <3>1, <3>2, CountFrame DEF Labels
  <2>4. CASE ReadJudgeState(r)
    BY <2>4, CountReadJudgeState
  <2>5. CASE NoJudgeState(r)
    BY <1>1, <2>5, CountElsewhere DEF NoJudgeState, Finish, Create, Labels
  <2>6. CASE SaveJudgeState(r)
    BY <2>6, CountSaveJudgeState
  <2>7. CASE Match(r)
    <3>1. PICK label \in {"write", "readhw"} :
              pc[r] = "match" /\ pc' = [pc EXCEPT ![r] = label]
      BY <2>7 DEF Match, Continue
    <3>2. /\ inp' = inp /\ judgestates' = judgestates /\ js' = js
          /\ records' = records /\ Existing' = Existing
      BY <2>7 DEF Match, Continue, Existing
    <3>3. PICK q \in Existing : records[q].args = Filtered(r)
      BY <2>7 DEF Match, Reusable
    <3>4. SameSlot(Filtered(r), inp[r])
      BY InputFacts DEF Final, Filtered, SameSlot, Columns
    <3>5. OldRecords(r) # {}
      BY <3>3, <3>4 DEF OldRecords
    <3> QED BY <3>1, <3>2, <3>5, CountFrame DEF Labels
  <2>8. CASE NoMatch(r)
    BY <1>1, <2>8, CountElsewhere DEF NoMatch, Continue, Create, Labels
  <2>9. CASE ReadRatio(r)
    BY <1>1, <2>9, CountElsewhere DEF ReadRatio, Continue, Create, Labels
  <2>10. CASE NoRatio(r)
    BY <1>1, <2>10, CountElsewhere DEF NoRatio, Continue, Create, Labels
  <2>11. CASE CreateRatio(r)
    BY <1>1, <2>11, CountElsewhere DEF CreateRatio, Continue, Create, Labels
  <2>12. CASE Charge(r)
    <3>1. inp[r].type \notin {2, 4} /\ ~Create(r)
      BY <2>0, <2>12 DEF Charge, Create, StageOK
    <3>2. pc' = [pc EXCEPT ![r] = "create"] /\ judgestates' = judgestates /\ js' = js
      BY <2>12 DEF Charge, Continue
    <3> QED BY <1>1, <3>1, <3>2, CountElsewhere DEF Labels
  <2>13. CASE Exceed(r)
    BY <1>1, <2>13, CountElsewhere DEF Exceed, Finish, Create, Labels
  <2>14. CASE Create(r)
    BY <2>14, CountCreate
  <2>15. CASE ReadProblem(r)
    BY <1>1, <2>15, CountElsewhere DEF ReadProblem, Continue, Create, Labels
  <2>16. CASE SaveProblem(r)
    BY <1>1, <2>16, CountElsewhere DEF SaveProblem, Continue, Create, Labels
  <2>17. CASE ReadHomework(r)
    BY <1>1, <2>17, CountElsewhere DEF ReadHomework, Continue, Create, Labels
  <2>18. CASE SaveHomework(r)
    BY <1>1, <2>18, CountElsewhere DEF SaveHomework, Continue, Create, Labels
  <2>19. CASE WriteCode(r)
    BY <1>1, <2>19, CountElsewhere DEF WriteCode, Continue, Create, Labels
  <2>20. CASE WriteZip(r)
    BY <1>1, <2>20, CountElsewhere DEF WriteZip, Continue, Create, Labels
  <2>21. CASE NoZip(r)
    BY <1>1, <2>21, CountElsewhere DEF NoZip, Finish, Create, Labels
  <2>22. CASE SaveRecord(r)
    <3>1. PICK label \in {"done", "post"} : pc' = [pc EXCEPT ![r] = label]
      BY <2>22 DEF SaveRecord, Finish, Continue
    <3>2. pc[r] = "saverec" /\ judgestates' = judgestates /\ js' = js /\ ~Create(r)
      BY <2>22 DEF SaveRecord, Create
    <3> QED BY <1>1, <3>1, <3>2, CountElsewhere DEF Labels
  <2>23. CASE Post(r)
    BY <1>1, <2>23, CountElsewhere DEF Post, Finish, Create, Labels
  <2>24. CASE PostFails(r)
    BY <1>1, <2>24, CountElsewhere DEF PostFails, Finish, Create, Labels
  <2> QED
    BY <1>1, <2>1, <2>2, <2>3, <2>4, <2>5, <2>6, <2>7, <2>8, <2>9, <2>10, <2>11, <2>12, <2>13, <2>14, <2>15, <2>16, <2>17, <2>18, <2>19, <2>20, <2>21, <2>22, <2>23, <2>24 DEF Step
<1>2. CASE UNCHANGED vars
  BY <1>2 DEF vars, Counting, TotalCountsSubmitters, Counted, OldRecords, Existing,
     SameSlot, SubmittedTo, Slot
<1> QED
  BY <1>1, <1>2 DEF Next, Quiet

(* judgestates.total is the number of students who have submitted, or whose *)
(* request has counted them and holds the lock under which the record is    *)
(* created, however many requests read and write the row back.              *)
THEOREM TotalExact == Spec => []TotalCountsSubmitters
<1>1. Init => Final /\ Counting
  BY FinalInit, CountingInit
<1>2. Final /\ Counting /\ [Next]_vars => (Final /\ Counting)'
  BY FinalNext, CountingNext
<1>3. Final /\ Counting => TotalCountsSubmitters
  BY DEF Counting
<1> QED
  BY <1>1, <1>2, <1>3, PTL DEF Spec

-----------------------------------------------------------------------------
(* Row q of ratios counts the tests of a submission with arguments a.       *)
RatioRowOf(q, a) == /\ ratios[q] # None       /\ ratios[q].user = a.user
                /\ ratios[q].prob = a.prob /\ ratios[q].hw = a.hw

(* The tests counted by column g of row q, with the request that has paid   *)
(* and has not stored its record yet.                                       *)
Bill(q, g) ==
    Tests(ratios[q].user, ratios[q].prob, ratios[q].hw, g)
        \cup {r \in Reqs : /\ pc[r] = "create" /\ inp[r].type = 1
                           /\ rat[r] = q /\ inp[r].gear = g}

Testing(r) == pc[r] \in {"newratio", "charge"} \/ (pc[r] = "create" /\ inp[r].type = 1)

(* A student has one row per homework problem; under its lock a request     *)
(* knows the row there is, or that there is none; and the row is his bill.  *)
OneRow == \A q1, q2 \in RowIds : ratios[q1] # None /\ RatioRowOf(q2, ratios[q1]) => q1 = q2

RowKnown ==
    \A r \in Reqs :
        /\ pc[r] \in {"idle", "ratio", "newratio"} => ratios[r] = None
        /\ pc[r] = "newratio" => \A q \in RowIds : ~RatioRowOf(q, inp[r])
        /\ pc[r] = "charge" \/ (pc[r] = "create" /\ inp[r].type = 1) =>
              rat[r] \in RowIds /\ RatioRowOf(rat[r], inp[r])
        /\ pc[r] = "charge" => used[r] = ratios[rat[r]].used

TestHasRow ==
    \A q \in Existing : records[q].args.type = 1 =>
        \E x \in RowIds : RatioRowOf(x, records[q].args)

RowIsBill ==
    \A q \in RowIds : ratios[q] # None =>
        \A g \in Gears : /\ IsFiniteSet(Bill(q, g))
                         /\ ratios[q].used[g] = Cardinality(Bill(q, g))
                         /\ ratios[q].used[g] <= Limit[ratios[q].prob][g]

Charging == OneRow /\ RowKnown /\ TestHasRow /\ RowIsBill

LEMMA ChargingInit == Init => Charging
BY SubmissionAssumption DEF Init, Charging, OneRow, RowKnown, RatioRowOf, TestHasRow, RowIsBill, Existing

(* Two requests that deal with the same row are one.                        *)
LEMMA RowHolder ==
    ASSUME Final, NEW r \in Reqs, NEW q \in Reqs, Testing(r), Testing(q),
           inp[r].prob = inp[q].prob, inp[r].hw = inp[q].hw
    PROVE  q = r
<1>1. inp[r].type = 1 /\ inp[q].type = 1
  BY DEF Testing, Final, Typed, StageOK
<1>2. Holds(r) /\ Holds(q)
  BY <1>1 DEF Testing, Final, HolderOK, Entered, Inside
<1>3. inp[r].hw # None
  BY <1>1, InputFacts, SubmissionAssumption DEF Final
<1>4. Lock(r) = Lock(q)
  BY <1>3 DEF Lock, Slot
<1> QED BY <1>2, <1>4 DEF Holds

(* Steps that leave the rows of ratios and the tests alone.                 *)
LEMMA ChargeFrame ==
    ASSUME Final, Charging, NEW r \in Reqs,
           Refuse(r) \/ Arrive(r) \/ Step(r), ~Create(r), pc[r] # "create",
           NEW label \in Labels, pc' = [pc EXCEPT ![r] = label],
           ratios' = ratios, rat' = rat, used' = used,
           label \notin {"newratio", "charge"},
           label = "create" => inp[r].type # 1,
           label = "ratio" => pc[r] = "idle", label # "idle"
    PROVE  Charging'
<1>1. /\ inp' = inp /\ Existing' = Existing
      /\ \A q \in Existing : records'[q].args = records[q].args
  BY RecordsKept
<1>2. \A q \in Reqs : pc'[q] = IF q = r THEN label ELSE pc[q]
  BY DEF Final, Typed, TypeOK
<1>3. OneRow'
  BY DEF Charging, OneRow, RatioRowOf
<1>4. RowKnown'
  BY <1>1, <1>2 DEF Charging, RowKnown, RatioRowOf
<1>5. TestHasRow'
  BY <1>1 DEF Charging, TestHasRow, RatioRowOf
<1>6. \A u, p, h, g : Tests(u, p, h, g)' = Tests(u, p, h, g)
  BY <1>1 DEF Tests
<1>7. \A q, g : Bill(q, g)' = Bill(q, g)
  BY <1>1, <1>2, <1>6 DEF Bill
<1>8. RowIsBill'
  BY <1>7 DEF Charging, RowIsBill
<1> QED BY <1>3, <1>4, <1>5, <1>8 DEF Charging

(* The row is looked up: what the request knows of it is what it read.      *)
LEMMA ChargeLookup ==
    ASSUME Final, Charging, NEW r \in Reqs, ReadRatio(r) \/ NoRatio(r)
    PROVE  Charging'
<1>1. /\ pc[r] = "ratio" /\ inp' = inp /\ ratios' = ratios
      /\ records' = records /\ Existing' = Existing
  BY DEF ReadRatio, NoRatio, At, Continue, dbVars, Existing
<1>2. inp[r].type = 1
  BY <1>1 DEF Final, Typed, StageOK
<1>3. ASSUME ReadRatio(r)
      PROVE  \E q \in RowIds :
                 /\ RatioRowOf(q, inp[r]) /\ rat' = [rat EXCEPT ![r] = q]
                 /\ used' = [used EXCEPT ![r] = ratios[q].used]
                 /\ pc' = [pc EXCEPT ![r] = "charge"]
  BY <1>3 DEF ReadRatio, RatiosOf, RatioRowOf, Continue
<1>4. ASSUME NoRatio(r)
      PROVE  /\ \A q \in RowIds : ~RatioRowOf(q, inp[r])
             /\ rat' = rat /\ used' = used /\ pc' = [pc EXCEPT ![r] = "newratio"]
  BY <1>4 DEF NoRatio, RatiosOf, RatioRowOf, Continue, localVars
<1>5. \A q \in Reqs : q # r => pc'[q] = pc[q] /\ rat'[q] = rat[q] /\ used'[q] = used[q]
  BY <1>3, <1>4 DEF Final, Typed, TypeOK
<1>6. pc'[r] \in {"charge", "newratio"}
  BY <1>3, <1>4 DEF Final, Typed, TypeOK
<1>7. RowKnown'
  <2>1. ASSUME NEW q \in Reqs, q # r
        PROVE  /\ pc'[q] \in {"idle", "ratio", "newratio"} => ratios'[q] = None
               /\ pc'[q] = "newratio" => \A x \in RowIds : ~RatioRowOf(x, inp[q])'
               /\ pc'[q] = "charge" \/ (pc'[q] = "create" /\ inp'[q].type = 1) =>
                      rat'[q] \in RowIds /\ RatioRowOf(rat[q], inp[q])'
               /\ pc'[q] = "charge" => used'[q] = ratios'[rat'[q]].used
    BY <1>1, <1>5, <2>1 DEF Charging, RowKnown, RatioRowOf
  <2>2. CASE ReadRatio(r)
    <3>1. PICK q \in RowIds :
               /\ RatioRowOf(q, inp[r]) /\ rat' = [rat EXCEPT ![r] = q]
               /\ used' = [used EXCEPT ![r] = ratios[q].used]
               /\ pc' = [pc EXCEPT ![r] = "charge"]
      BY <1>3, <2>2
    <3>2. pc'[r] = "charge" /\ rat'[r] = q /\ used'[r] = ratios[q].used
      BY <3>1 DEF Final, Typed, TypeOK
    <3>3. RatioRowOf(q, inp[r])'
      BY <1>1, <3>1 DEF RatioRowOf
    <3> QED BY <1>1, <2>1, <3>2, <3>3 DEF RowKnown, RatioRowOf
  <2>3. CASE NoRatio(r)
    <3>1. pc'[r] = "newratio" /\ ratios'[r] = None
      BY <1>1, <1>4, <2>3 DEF Charging, RowKnown, Final, Typed, TypeOK
    <3>2. \A x \in RowIds : ~RatioRowOf(x, inp[r])'
      BY <1>1, <1>4, <2>3 DEF RatioRowOf
    <3> QED BY <2>1, <3>1, <3>2 DEF RowKnown
  <2> QED BY <2>2, <2>3
<1>8. \A q, g : Bill(q, g)' = Bill(q, g)
  BY <1>1, <1>5, <1>6 DEF Bill, Tests
<1> QED
  BY <1>1, <1>7, <1>8 DEF Charging, OneRow, TestHasRow, RowIsBill, RatioRowOf

(* A new row: its owner has no tests, and nobody else is charging it.       *)
LEMMA ChargeCreateRatio ==
    ASSUME Final, Charging, NEW r \in Reqs, CreateRatio(r)
    PROVE  Charging'
<1> DEFINE row == [user |-> inp[r].user, prob |-> inp[r].prob,
                   hw |-> inp[r].hw, used |-> NoUse]
<1>1. /\ pc[r] = "newratio" /\ pc' = [pc EXCEPT ![r] = "charge"] /\ inp' = inp
      /\ ratios' = [ratios EXCEPT ![r] = row] /\ rat' = [rat EXCEPT ![r] = r]
      /\ used' = [used EXCEPT ![r] = NoUse]
      /\ records' = records /\ Existing' = Existing
  BY DEF CreateRatio, At, Continue, Existing
<1>2. /\ inp[r].type = 1 /\ r \in RowIds /\ ratios[r] = None
      /\ \A q \in RowIds : ~RatioRowOf(q, inp[r])
  BY <1>1, SubmissionAssumption DEF Charging, RowKnown, Final, Typed, StageOK
<1>3. /\ row.user = inp[r].user /\ row.prob = inp[r].prob /\ row.hw = inp[r].hw
      /\ row.used = NoUse
  OBVIOUS
<1>4. row # None
  <2>1. inp[r].user \in Users /\ inp[r].prob \in Problems /\ inp[r].hw \in Homeworks
    BY <1>2, InputFacts DEF Final
  <2>2. NoUse \in [Gears -> Nat]
    BY DEF NoUse
  <2> QED BY <2>1, <2>2, SubmissionAssumption DEF RatioRows
<1> HIDE DEF row
<1>5. \A q \in RowIds : ratios'[q] = IF q = r THEN row ELSE ratios[q]
  BY <1>1 DEF Final, Typed, TypeOK
<1>6. \A q \in Reqs : /\ pc'[q] = IF q = r THEN "charge" ELSE pc[q]
                      /\ rat'[q] = IF q = r THEN r ELSE rat[q]
                      /\ used'[q] = IF q = r THEN NoUse ELSE used[q]
  BY <1>1 DEF Final, Typed, TypeOK
<1>7. \A q \in RowIds : \A a : RatioRowOf(q, a) => q # r /\ ratios'[q] = ratios[q]
  BY <1>2, <1>5 DEF RatioRowOf
<1>8. RatioRowOf(r, inp[r])'
  BY <1>1, <1>2, <1>3, <1>4, <1>5 DEF RatioRowOf
<1>9. OneRow'
  <2> SUFFICES ASSUME NEW q1 \in RowIds, NEW q2 \in RowIds,
                      ratios'[q1] # None, RatioRowOf(q2, ratios[q1])'
               PROVE  q1 = q2
    BY DEF OneRow
  <2>1. CASE q1 # r /\ q2 # r
    BY <2>1, <1>5 DEF Charging, OneRow, RatioRowOf
  <2>2. CASE q1 = r /\ q2 # r
    BY <2>2, <1>2, <1>3, <1>5 DEF RatioRowOf
  <2>3. CASE q1 # r /\ q2 = r
    BY <2>3, <1>2, <1>3, <1>5 DEF RatioRowOf
  <2> QED BY <2>1, <2>2, <2>3
<1>10. RowKnown'
  <2> SUFFICES ASSUME NEW q \in Reqs
               PROVE  /\ pc'[q] \in {"idle", "ratio", "newratio"} => ratios'[q] = None
                      /\ pc'[q] = "newratio" => \A x \in RowIds : ~RatioRowOf(x, inp[q])'
                      /\ pc'[q] = "charge" \/ (pc'[q] = "create" /\ inp'[q].type = 1) =>
                             rat'[q] \in RowIds /\ RatioRowOf(rat[q], inp[q])'
                      /\ pc'[q] = "charge" => used'[q] = ratios'[rat'[q]].used
    BY DEF RowKnown
  <2>1. CASE q = r
    BY <2>1, <1>2, <1>3, <1>5, <1>6, <1>8
  <2>2. CASE q # r
    <3>1. pc[q] \in {"idle", "ratio", "newratio"} => ratios'[q] = None
      BY <2>2, <1>5, SubmissionAssumption DEF Charging, RowKnown
    <3>2. ASSUME pc[q] = "newratio", NEW x \in RowIds
          PROVE  ~RatioRowOf(x, inp[q])'
      <4>1. CASE x # r
        BY <3>2, <4>1, <1>1, <1>5 DEF Charging, RowKnown, RatioRowOf
      <4>2. CASE x = r
        <5>1. ~(inp[r].prob = inp[q].prob /\ inp[r].hw = inp[q].hw)
          BY <2>2, <3>2, <1>1, RowHolder DEF Testing
        <5> QED BY <4>2, <5>1, <1>1, <1>2, <1>3, <1>5 DEF RatioRowOf
      <4> QED BY <4>1, <4>2
    <3>3. ASSUME pc[q] = "charge" \/ (pc[q] = "create" /\ inp[q].type = 1)
          PROVE  rat[q] \in RowIds /\ rat[q] # r /\ RatioRowOf(rat[q], inp[q])
      BY <3>3, <1>7 DEF Charging, RowKnown
    <3>4. pc[q] = "charge" \/ (pc[q] = "create" /\ inp[q].type = 1) =>
              RatioRowOf(rat[q], inp[q])'
      BY <2>2, <3>3, <1>1, <1>5, <1>6 DEF RatioRowOf
    <3>5. pc[q] = "charge" => used[q] = ratios[rat[q]].used
      BY DEF Charging, RowKnown
    <3> QED BY <2>2, <3>1, <3>2, <3>3, <3>4, <3>5, <1>1, <1>5, <1>6
  <2> QED BY <2>1, <2>2
<1>11. TestHasRow'
  BY <1>1, <1>7 DEF Charging, TestHasRow, RatioRowOf
<1>12. RowIsBill'
  <2> SUFFICES ASSUME NEW q \in RowIds, ratios'[q] # None, NEW g \in Gears
               PROVE  /\ IsFiniteSet(Bill(q, g)')
                      /\ ratios'[q].used[g] = Cardinality(Bill(q, g)')
                      /\ ratios'[q].used[g] <= Limit[ratios'[q].prob][g]
    BY DEF RowIsBill
  <2>1. CASE q = r
    <3>1. Bill(q, g)' = {}
      <4>1. Tests(inp[r].user, inp[r].prob, inp[r].hw, g) = {}
        BY <1>2 DEF Charging, TestHasRow, Tests, RatioRowOf
      <4>2. \A x \in Reqs : ~(pc'[x] = "create" /\ inp'[x].type = 1 /\ rat'[x] = r)
        BY <1>1, <1>6, <1>7 DEF Charging, RowKnown
      <4>3. Tests(ratios[q].user, ratios[q].prob, ratios[q].hw, g)' = {}
        BY <2>1, <4>1, <1>1, <1>2, <1>3, <1>5 DEF Tests
      <4> QED BY <2>1, <4>2, <4>3 DEF Bill
    <3>2. ratios'[r].used[g] = 0 /\ ratios'[r].prob = inp[r].prob
      BY <1>2, <1>3, <1>5 DEF NoUse
    <3>3. 0 <= Limit[inp[r].prob][g]
      BY InputFacts, SubmissionAssumption DEF Final
    <3> QED BY <2>1, <3>1, <3>2, <3>3, FS_EmptySet
  <2>2. CASE q # r
    <3>1. ratios'[q] = ratios[q]
      BY <2>2, <1>5
    <3>2. Bill(q, g)' = Bill(q, g)
      BY <2>2, <3>1, <1>1, <1>6 DEF Bill, Tests
    <3> QED BY <3>1, <3>2 DEF Charging, RowIsBill
  <2> QED BY <2>1, <2>2
<1> QED BY <1>9, <1>10, <1>11, <1>12 DEF Charging

(* Paying: the counter the request read is still that of the row, and the   *)
(* test it pays for was not on the bill.                                    *)
LEMMA ChargePaid ==
    ASSUME Final, Charging, NEW r \in Reqs, Charge(r)
    PROVE  Charging'
<1> DEFINE gear == inp[r].gear
           row == [ratios[rat[r]] EXCEPT !.used = [used[r] EXCEPT ![gear] = @ + 1]]
<1>1. /\ pc[r] = "charge" /\ pc' = [pc EXCEPT ![r] = "create"] /\ inp' = inp
      /\ ratios' = [ratios EXCEPT ![rat[r]] = row] /\ rat' = rat /\ used' = used
      /\ records' = records /\ Existing' = Existing
  BY DEF Charge, At, Continue, localVars, Existing
<1>2. /\ inp[r].type = 1 /\ rat[r] \in RowIds /\ ratios[rat[r]] \in RatioRows
      /\ used[r] \in [Gears -> Nat] /\ gear \in Gears
      /\ RatioRowOf(rat[r], inp[r]) /\ used[r] = ratios[rat[r]].used
  BY <1>1, InputFacts DEF Charging, RowKnown, Final, Typed, StageOK
<1>3. used[r][gear] + 1 <= Limit[inp[r].prob][gear]
  BY DEF Charge, WithinLimit
<1>4. /\ row.user = ratios[rat[r]].user /\ row.prob = ratios[rat[r]].prob
      /\ row.hw = ratios[rat[r]].hw /\ row # None
      /\ \A g \in Gears : row.used[g] = IF g = gear THEN used[r][g] + 1 ELSE used[r][g]
  <2>1. [used[r] EXCEPT ![gear] = @ + 1] \in [Gears -> Nat]
    BY <1>2
  <2>2. row \in RatioRows
    BY <1>2, <2>1 DEF RatioRows
  <2> QED BY <1>2, <2>2, SubmissionAssumption DEF RatioRows
<1> HIDE DEF row
<1>5. \A q \in RowIds : ratios'[q] = IF q = rat[r] THEN row ELSE ratios[q]
  BY <1>1 DEF Final, Typed, TypeOK
<1>6. \A q \in Reqs : pc'[q] = IF q = r THEN "create" ELSE pc[q]
  BY <1>1 DEF Final, Typed, TypeOK
<1>7. ratios[rat[r]] # None
  BY <1>2 DEF RatioRowOf
<1>8. \A q \in RowIds : /\ ratios'[q] = None <=> ratios[q] = None
                        /\ ratios'[q].user = ratios[q].user
                        /\ ratios'[q].prob = ratios[q].prob
                        /\ ratios'[q].hw = ratios[q].hw
  BY <1>4, <1>5, <1>7
<1>10. OneRow'
  BY <1>8 DEF Charging, OneRow, RatioRowOf
<1>11. RowKnown'
  <2> SUFFICES ASSUME NEW q \in Reqs
               PROVE  /\ pc'[q] \in {"idle", "ratio", "newratio"} => ratios'[q] = None
                      /\ pc'[q] = "newratio" => \A x \in RowIds : ~RatioRowOf(x, inp[q])'
                      /\ pc'[q] = "charge" \/ (pc'[q] = "create" /\ inp'[q].type = 1) =>
                             rat'[q] \in RowIds /\ RatioRowOf(rat[q], inp[q])'
                      /\ pc'[q] = "charge" => used'[q] = ratios'[rat'[q]].used
    BY DEF RowKnown
  <2>1. \A x \in RowIds : RatioRowOf(x, inp[q])' <=> RatioRowOf(x, inp[q])
    BY <1>1, <1>8 DEF RatioRowOf
  <2>2. rat[q] \in RowIds => (RatioRowOf(rat[q], inp[q])' <=> RatioRowOf(rat[q], inp[q]))
    BY <1>1, <1>8 DEF RatioRowOf
  <2>3. CASE q = r
    BY <2>2, <2>3, <1>1, <1>2, <1>6
  <2>4. CASE q # r
    <3>1. pc[q] = "charge" => rat[q] # rat[r]
      BY <2>4, <1>1, <1>2, RowHolder DEF Charging, RowKnown, RatioRowOf, Testing
    <3>2. /\ pc[q] \in {"idle", "ratio", "newratio"} => ratios[q] = None
          /\ pc[q] = "newratio" => \A x \in RowIds : ~RatioRowOf(x, inp[q])
          /\ pc[q] = "charge" \/ (pc[q] = "create" /\ inp[q].type = 1) =>
                 rat[q] \in RowIds /\ RatioRowOf(rat[q], inp[q])
          /\ pc[q] = "charge" => used[q] = ratios[rat[q]].used
      BY DEF Charging, RowKnown
    <3> QED BY <2>1, <2>2, <2>4, <3>1, <3>2, <1>1, <1>5, <1>6, <1>8, SubmissionAssumption
  <2> QED BY <2>3, <2>4
<1>12. TestHasRow'
  BY <1>1, <1>8 DEF Charging, TestHasRow, RatioRowOf
<1>13. RowIsBill'
  <2> SUFFICES ASSUME NEW q \in RowIds, ratios'[q] # None, NEW g \in Gears
               PROVE  /\ IsFiniteSet(Bill(q, g)')
                      /\ ratios'[q].used[g] = Cardinality(Bill(q, g)')
                      /\ ratios'[q].used[g] <= Limit[ratios'[q].prob][g]
    BY DEF RowIsBill
  <2>1. /\ IsFiniteSet(Bill(q, g)) /\ ratios[q].used[g] = Cardinality(Bill(q, g))
        /\ ratios[q].used[g] <= Limit[ratios[q].prob][g]
    BY <1>8 DEF Charging, RowIsBill
  <2>2. Tests(ratios[q].user, ratios[q].prob, ratios[q].hw, g)'
            = Tests(ratios[q].user, ratios[q].prob, ratios[q].hw, g)
    BY <1>1, <1>8 DEF Tests
  <2>3. CASE q = rat[r] /\ g = gear
    <3>1. Bill(q, g)' = Bill(q, g) \cup {r}
      BY <2>2, <2>3, <1>1, <1>2, <1>6 DEF Bill
    <3>2. r \notin Bill(q, g)
      BY <1>1 DEF Bill, Tests, Existing, Final, RowOK, Fresh
    <3>3. Cardinality(Bill(q, g)') = Cardinality(Bill(q, g)) + 1 /\ IsFiniteSet(Bill(q, g)')
      BY <2>1, <3>1, <3>2, FS_AddElement
    <3>4. /\ ratios'[q].used[g] = ratios[q].used[g] + 1
          /\ ratios'[q].prob = inp[r].prob
      BY <2>3, <1>2, <1>4, <1>5 DEF RatioRowOf
    <3> QED BY <2>1, <2>3, <3>3, <3>4, <1>2, <1>3
  <2>4. CASE ~(q = rat[r] /\ g = gear)
    <3>1. Bill(q, g)' = Bill(q, g)
      BY <2>2, <2>4, <1>1, <1>6 DEF Bill
    <3>2. ratios'[q].used[g] = ratios[q].used[g] /\ ratios'[q].prob = ratios[q].prob
      BY <2>4, <1>2, <1>4, <1>5, <1>8
    <3> QED BY <2>1, <3>1, <3>2
  <2> QED BY <2>3, <2>4
<1> QED BY <1>10, <1>11, <1>12, <1>13 DEF Charging

(* The record is stored: the test stays on the bill it is on.               *)
LEMMA ChargeCreate ==
    ASSUME Final, Charging, NEW r \in Reqs, Create(r)
    PROVE  Charging'
<1> DEFINE row == [args |-> Filtered(r), status |-> 0, by |-> None, result |-> None]
<1>1. /\ pc[r] = "create" /\ records' = [records EXCEPT ![r] = row]
      /\ inp' = inp /\ ratios' = ratios /\ rat' = rat /\ used' = used
  BY DEF Create, Continue, At
<1>2. PICK label \in {"readprob", "readhw", "write"} : pc' = [pc EXCEPT ![r] = label]
  BY DEF Create, Continue
<1>3. row \in Rows /\ row # None /\ row.args = Filtered(r)
  BY InputFacts, SubmissionAssumption DEF Final, Rows
<1> HIDE DEF row
<1>4. Existing' = Existing \cup {r} /\ r \notin Existing /\ records'[r].args = Filtered(r)
  BY <1>1, <1>3 DEF Existing, Final, Typed, TypeOK, RowOK, Fresh
<1>5. \A q \in Existing : records'[q] = records[q]
  BY <1>1, <1>4 DEF Final, Typed, TypeOK
<1>6. \A q \in Reqs : pc'[q] = IF q = r THEN label ELSE pc[q]
  BY <1>2 DEF Final, Typed, TypeOK
<1>7. /\ Filtered(r).user = inp[r].user /\ Filtered(r).prob = inp[r].prob
      /\ Filtered(r).hw = inp[r].hw /\ Filtered(r).type = inp[r].type
      /\ Filtered(r).gear = inp[r].gear
  BY InputFacts DEF Final, Filtered, Columns
<1>9. OneRow'
  BY <1>1 DEF Charging, OneRow, RatioRowOf
<1>10. RowKnown'
  BY <1>1, <1>6 DEF Charging, RowKnown, RatioRowOf
<1>11. inp[r].type = 1 => rat[r] \in RowIds /\ RatioRowOf(rat[r], inp[r])
  BY <1>1 DEF Charging, RowKnown
<1>12. TestHasRow'
  <2> SUFFICES ASSUME NEW q \in Existing', records'[q].args.type = 1
               PROVE  \E x \in RowIds : RatioRowOf(x, records[q].args)'
    BY DEF TestHasRow
  <2>1. CASE q = r
    BY <2>1, <1>1, <1>4, <1>7, <1>11 DEF RatioRowOf
  <2>2. CASE q \in Existing
    BY <2>2, <1>1, <1>5 DEF Charging, TestHasRow, RatioRowOf
  <2> QED BY <2>1, <2>2, <1>4
<1>13. ASSUME NEW q \in RowIds, ratios[q] # None, NEW g
       PROVE  Bill(q, g)' = Bill(q, g)
  <2> DEFINE T == Tests(ratios[q].user, ratios[q].prob, ratios[q].hw, g)
  <2>1. \A x \in Reqs : x # r => (x \in T' <=> x \in T)
    BY <1>1, <1>4, <1>5 DEF Tests
  <2>2. r \in T' <=> inp[r].type = 1 /\ RatioRowOf(q, inp[r]) /\ inp[r].gear = g
    BY <1>1, <1>4, <1>7, <1>13 DEF Tests, RatioRowOf
  <2>3. r \notin T
    BY <1>4 DEF Tests
  <2>4. inp[r].type = 1 /\ RatioRowOf(q, inp[r]) <=> inp[r].type = 1 /\ rat[r] = q
    BY <1>11, <1>13 DEF Charging, OneRow, RatioRowOf
  <2>5. ASSUME NEW x \in Reqs PROVE x \in Bill(q, g)' <=> x \in Bill(q, g)
    <3>1. CASE x # r
      BY <2>1, <3>1, <1>1, <1>6 DEF Bill
    <3>2. CASE x = r
      BY <2>2, <2>3, <2>4, <3>2, <1>1, <1>6 DEF Bill
    <3> QED BY <3>1, <3>2
  <2> QED BY <2>5 DEF Bill, Tests, Existing
<1>14. RowIsBill'
  BY <1>1, <1>13 DEF Charging, RowIsBill
<1> QED BY <1>9, <1>10, <1>12, <1>14 DEF Charging

LEMMA ChargingNext == Final /\ Charging /\ [Next]_vars => Charging'
<1> SUFFICES ASSUME Final, Charging, [Next]_vars PROVE Charging'
  OBVIOUS
<1> USE DEF At, localVars, dbVars
<1>1. ASSUME NEW r \in Reqs, Refuse(r) \/ Arrive(r) \/ Step(r)
      PROVE  Charging'
  <2>0. StageOK(r) /\ inp[r].type \in {0, 1, 2, 4}
    BY InputFacts DEF Final, Typed
  <2>1. CASE Refuse(r)
    BY <1>1, <2>1, ChargeFrame DEF Refuse, Create, Labels
  <2>2. CASE Arrive(r)
    <3>1. /\ FirstStep(inp[r]) \in {"find", "ratio", "create"}
          /\ FirstStep(inp[r]) = "create" => inp[r].type # 1
      BY <2>0 DEF FirstStep
    <3>2. /\ pc[r] = "idle" /\ pc' = [pc EXCEPT ![r] = FirstStep(inp[r])]
          /\ ratios' = ratios /\ rat' = rat /\ used' = used
      BY <2>2 DEF Arrive
    <3>3. ~Create(r)
      BY <3>2 DEF Create
    <3> QED BY <1>1, <3>1, <3>2, <3>3, ChargeFrame DEF Labels
  <2>3. CASE FindOld(r)
    <3>1. PICK label \in {"readjs", "match"} :
              pc[r] = "find" /\ pc' = [pc EXCEPT ![r] = label]
      BY <2>3 DEF FindOld, Continue
    <3> QED BY <1>1, <2>3, <3>1, ChargeFrame DEF FindOld, Create, Labels
  <2>4. CASE ReadJudgeState(r)
    BY <1>1, <2>4, ChargeFrame DEF ReadJudgeState, Continue, Create, Labels
  <2>5. CASE NoJudgeState(r)
    BY <1>1, <2>5, ChargeFrame DEF NoJudgeState, Finish, Create, Labels
  <2>6. CASE SaveJudgeState(r)
    BY <1>1, <2>6, ChargeFrame DEF SaveJudgeState, Continue, Create, Labels
  <2>7. CASE Match(r)
    <3>1. PICK label \in {"write", "readhw"} :
              pc[r] = "match" /\ pc' = [pc EXCEPT ![r] = label]
      BY <2>7 DEF Match, Continue
    <3> QED BY <1>1, <2>7, <3>1, ChargeFrame DEF Match, Create, Labels
  <2>8. CASE NoMatch(r)
    <3>1. inp[r].type # 1 /\ pc[r] = "match" /\ pc' = [pc EXCEPT ![r] = "create"]
      BY <2>0, <2>8 DEF NoMatch, Continue, StageOK
    <3> QED BY <1>1, <2>8, <3>1, ChargeFrame DEF NoMatch, Create, Labels
  <2>9. CASE ReadRatio(r)
    BY <2>9, ChargeLookup
  <2>10. CASE NoRatio(r)
    BY <2>10, ChargeLookup
  <2>11. CASE CreateRatio(r)
    BY <2>11, ChargeCreateRatio
  <2>12. CASE Charge(r)
    BY <2>12, ChargePaid
  <2>13. CASE Exceed(r)
    BY <1>1, <2>13, ChargeFrame DEF Exceed, Finish, Create, Labels
  <2>14. CASE Create(r)
    BY <2>14, ChargeCreate
  <2>15. CASE ReadProblem(r)
    BY <1>1, <2>15, ChargeFrame DEF ReadProblem, Continue, Create, Labels
  <2>16. CASE SaveProblem(r)
    BY <1>1, <2>16, ChargeFrame DEF SaveProblem, Continue, Create, Labels
  <2>17. CASE ReadHomework(r)
    BY <1>1, <2>17, ChargeFrame DEF ReadHomework, Continue, Create, Labels
  <2>18. CASE SaveHomework(r)
    BY <1>1, <2>18, ChargeFrame DEF SaveHomework, Continue, Create, Labels
  <2>19. CASE WriteCode(r)
    BY <1>1, <2>19, ChargeFrame DEF WriteCode, Continue, Create, Labels
  <2>20. CASE WriteZip(r)
    BY <1>1, <2>20, ChargeFrame DEF WriteZip, Continue, Create, Labels
  <2>21. CASE NoZip(r)
    BY <1>1, <2>21, ChargeFrame DEF NoZip, Finish, Create, Labels
  <2>22. CASE SaveRecord(r)
    <3>1. PICK label \in {"done", "post"} : pc' = [pc EXCEPT ![r] = label]
      BY <2>22 DEF SaveRecord, Finish, Continue
    <3>2. /\ pc[r] = "saverec" /\ ratios' = ratios /\ rat' = rat /\ used' = used
          /\ ~Create(r)
      BY <2>22 DEF SaveRecord, Create
    <3> QED BY <1>1, <3>1, <3>2, ChargeFrame DEF Labels
  <2>23. CASE Post(r)
    BY <1>1, <2>23, ChargeFrame DEF Post, Finish, Create, Labels
  <2>24. CASE PostFails(r)
    BY <1>1, <2>24, ChargeFrame DEF PostFails, Finish, Create, Labels
  <2> QED
    BY <1>1, <2>1, <2>2, <2>3, <2>4, <2>5, <2>6, <2>7, <2>8, <2>9, <2>10, <2>11, <2>12, <2>13, <2>14, <2>15, <2>16, <2>17, <2>18, <2>19, <2>20, <2>21, <2>22, <2>23, <2>24 DEF Step
<1>2. CASE UNCHANGED vars
  <2>1. \A q, g : Bill(q, g)' = Bill(q, g)
    BY <1>2 DEF vars, Bill, Tests, Existing
  <2> QED
    BY <1>2, <2>1 DEF vars, Charging, OneRow, RowKnown, RatioRowOf, TestHasRow, RowIsBill, Existing
<1> QED
  BY <1>1, <1>2 DEF Next, Quiet

LEMMA ChargingAlways == Spec => [](Final /\ Charging)
<1>1. Init => Final /\ Charging
  BY FinalInit, ChargingInit
<1>2. Final /\ Charging /\ [Next]_vars => (Final /\ Charging)'
  BY FinalNext, ChargingNext
<1> QED
  BY <1>1, <1>2, PTL DEF Spec

(* A student is charged for each test he gets and for nothing else: no      *)
(* charge is lost between reading the row and saving it.                    *)
THEOREM EachTestCharged == Spec => []ChargedPerTest
<1>1. Final /\ Charging => ChargedPerTest
  BY DEF Charging, RowIsBill, Bill, ChargedPerTest
<1> QED
  BY <1>1, ChargingAlways, PTL

(* Nobody gets more tests of a gear than the problem grants: every test is  *)
(* on the bill of a row, and a row is never charged beyond the limit.       *)
THEOREM LimitKept == Spec => []TestsWithinLimit
<1>1. ASSUME Final, Charging, NEW u \in Users, NEW p \in Problems,
             NEW h \in Homeworks, NEW g \in Gears
      PROVE  Cardinality(Tests(u, p, h, g)) <= Limit[p][g]
  <2>1. CASE Tests(u, p, h, g) = {}
    BY <2>1, FS_EmptySet, SubmissionAssumption
  <2>2. CASE Tests(u, p, h, g) # {}
    <3>1. PICK x \in RowIds : /\ ratios[x] # None /\ ratios[x].user = u
                              /\ ratios[x].prob = p /\ ratios[x].hw = h
      BY <1>1, <2>2 DEF Charging, TestHasRow, Tests, RatioRowOf
    <3>2. Tests(u, p, h, g) \in SUBSET Bill(x, g)
      BY <3>1 DEF Bill
    <3>3. /\ IsFiniteSet(Bill(x, g)) /\ Cardinality(Bill(x, g)) <= Limit[p][g]
      BY <1>1, <3>1 DEF Charging, RowIsBill
    <3>4. Cardinality(Tests(u, p, h, g)) <= Cardinality(Bill(x, g))
      BY <3>2, <3>3, FS_Subset
    <3>5. /\ Cardinality(Tests(u, p, h, g)) \in Nat /\ Cardinality(Bill(x, g)) \in Nat
          /\ Limit[p][g] \in Nat
      BY <3>2, <3>3, FS_Subset, FS_CardinalityType, SubmissionAssumption
    <3> QED BY <3>3, <3>4, <3>5
  <2> QED BY <2>1, <2>2
<1>2. Final /\ Charging => TestsWithinLimit
  BY <1>1 DEF TestsWithinLimit
<1> QED
  BY <1>2, ChargingAlways, PTL

-----------------------------------------------------------------------------
(* Theorems about what a submission leaves on disk and with the judger, for *)
(* every value of the constants: rows describe files, the last submission   *)
(* wins, jobs can be judged.                                                *)

(* A step of a request refuses it, queues it at its lock, goes on to        *)
(* another statement under the lock, or leaves the handler.                 *)
Inner(r, label) == /\ pc[r] \notin {"idle", "done"} /\ Holds(r)
                   /\ label \in Labels \ {"idle", "done"} /\ Continue(r, label)

Leave(r, a) == /\ pc[r] \notin {"idle", "done"} /\ Holds(r)
               /\ a \in Answers /\ Finish(r, a)

LEMMA StepShape ==
    ASSUME Typed, NEW r \in Reqs, Step(r)
    PROVE  \/ \E label : Inner(r, label)
           \/ \E a : Leave(r, a)
<1> USE DEF At, Inner, Labels
<1>1. CASE \/ FindOld(r) \/ ReadJudgeState(r) \/ SaveJudgeState(r) \/ Match(r) \/ NoMatch(r)
           \/ ReadRatio(r) \/ NoRatio(r) \/ CreateRatio(r) \/ Charge(r) \/ Create(r)
           \/ ReadProblem(r) \/ SaveProblem(r) \/ ReadHomework(r) \/ SaveHomework(r)
           \/ WriteCode(r) \/ WriteZip(r)
  BY <1>1 DEF FindOld, ReadJudgeState, SaveJudgeState, Match, NoMatch, ReadRatio, NoRatio,
     CreateRatio, Charge, Create, ReadProblem, SaveProblem, ReadHomework, SaveHomework,
     WriteCode, WriteZip
<1>2. CASE NoJudgeState(r) \/ Exceed(r) \/ NoZip(r) \/ Post(r) \/ PostFails(r)
  <2>1. Leave(r, "error") \/ Leave(r, "exceeds limit") \/ Leave(r, "ok")
    BY <1>2 DEF NoJudgeState, Exceed, NoZip, Post, PostFails, Leave, Answers
  <2> QED BY <2>1
<1>3. CASE SaveRecord(r)
  <2>1. Leave(r, "ok") \/ Inner(r, "post")
    BY <1>3 DEF SaveRecord, Leave, Answers
  <2> QED BY <2>1
<1> QED BY <1>1, <1>2, <1>3 DEF Step

LEMMA HolderNext ==
    ASSUME Typed, HolderOK, NEW r \in Reqs, Refuse(r) \/ Arrive(r) \/ Step(r)
    PROVE  HolderOK'
<1>0. pc \in [Reqs -> Labels] /\ queue \in [Locks -> Seq(Reqs)] /\ Lock(r) \in Locks
  BY InputFacts DEF Typed, TypeOK
<1>1. CASE Refuse(r)
  BY <1>0, <1>1 DEF Refuse, HolderOK, Entered, Inside, Stored, Holds, Lock, Slot
<1>2. CASE Step(r)
  <2>1. ASSUME NEW label, Inner(r, label) PROVE HolderOK'
    BY <1>0, <2>1, HolderContinue DEF Inner
  <2>2. ASSUME NEW a, Leave(r, a) PROVE HolderOK'
    BY <1>0, <2>2, HolderFinish DEF Leave
  <2> QED BY <1>2, <2>1, <2>2, StepShape
<1> QED BY <1>1, <1>2, HolderArrive

-----------------------------------------------------------------------------
(* The order of a lock's queue is the order of arrival, and who has been    *)
(* answered "ok" arrived before everyone who still waits for that lock.     *)
Waits(r) == pc[r] \notin {"idle", "done"}

HasArrived(r) == \E i \in DOMAIN arrived : arrived[i] = r

InLine == \A l \in Locks : \A k \in DOMAIN queue[l] :
              Lock(queue[l][k]) = l /\ Waits(queue[l][k])

AllInLine == \A r \in Reqs : Waits(r) => \E k \in DOMAIN queue[Lock(r)] : queue[Lock(r)][k] = r

InOrder == \A l \in Locks : \A i, j \in DOMAIN queue[l] :
               i < j => queue[l][i] # queue[l][j] /\ Before(queue[l][i], queue[l][j])

DoneFirst ==
    \A r \in Reqs : answer[r] = "ok" =>
        /\ pc[r] = "done" /\ HasArrived(r)
        /\ \A q \in Reqs : Waits(q) /\ Lock(q) = Lock(r) => Before(r, q)

Order == /\ InLine /\ AllInLine /\ InOrder /\ DoneFirst
         /\ \A r \in Reqs : Waits(r) => HasArrived(r)

LEMMA OrderInit == Init => Order
BY SubmissionAssumption
   DEF Init, Order, InLine, AllInLine, InOrder, DoneFirst, Waits, Lock

LEMMA SameLock == \A r : inp' = inp => Lock(r)' = Lock(r)
BY DEF Lock, Slot

LEMMA OrderSame ==
    ASSUME Order, NEW r \in Reqs, pc \in [Reqs -> Labels], UNCHANGED <<inp, queue, arrived>>,
           answer' = answer \/ \E a : a # "ok" /\ answer' = [answer EXCEPT ![r] = a],
           NEW label, pc' = [pc EXCEPT ![r] = label], Waits(r) <=> label \notin {"idle", "done"},
           pc[r] # "done", answer \in [Reqs -> Answers]
    PROVE  Order'
<1>1. \A q \in Reqs : /\ Waits(q)' <=> Waits(q)
                      /\ pc[q] = "done" => pc'[q] = "done"
                      /\ answer'[q] = "ok" => answer[q] = "ok"
  BY DEF Waits
<1>2. \A q : HasArrived(q)' <=> HasArrived(q)
  BY DEF HasArrived
<1>3. \A q1, q2 : Before(q1, q2)' <=> Before(q1, q2)
  BY DEF Before
<1>4. \A q : Lock(q)' = Lock(q)
  BY SameLock
<1>5. InLine' /\ AllInLine' /\ InOrder'
  <2>1. AllInLine'
    BY <1>1, <1>4 DEF Order, AllInLine
  <2>2. InOrder'
    BY <1>3 DEF Order, InOrder
  <2>3. InLine'
    BY <1>4 DEF Order, InLine, Waits
  <2> QED BY <2>1, <2>2, <2>3
<1>6. DoneFirst'
  BY <1>1, <1>2, <1>3, <1>4 DEF Order, DoneFirst
<1> QED BY <1>1, <1>2, <1>5, <1>6 DEF Order

(* A request arrives behind everyone.                                       *)
LEMMA OrderArrive ==
    ASSUME Typed, Order, NEW r \in Reqs, Arrive(r)
    PROVE  Order'
<1> DEFINE l0 == Lock(r)
<1>1. /\ pc[r] = "idle" /\ pc' = [pc EXCEPT ![r] = FirstStep(inp[r])]
      /\ queue' = [queue EXCEPT ![l0] = Append(queue[l0], r)]
      /\ arrived' = Append(arrived, r) /\ inp' = inp /\ answer' = answer
  BY DEF Arrive
<1>2. /\ l0 \in Locks /\ FirstStep(inp[r]) \notin {"idle", "done"}
      /\ queue \in [Locks -> Seq(Reqs)] /\ arrived \in Seq(Reqs) /\ pc \in [Reqs -> Labels]
  BY InputFacts DEF Typed, TypeOK, FirstStep
<1>3. \A q \in Reqs : pc'[q] = IF q = r THEN FirstStep(inp[r]) ELSE pc[q]
  BY <1>1, <1>2
<1>4. \A q \in Reqs : Waits(q)' <=> Waits(q) \/ q = r
  BY <1>1, <1>2, <1>3 DEF Waits
<1>5. \A q : Lock(q)' = Lock(q)
  BY <1>1, SameLock
<1>6. /\ DOMAIN arrived' = 1..(Len(arrived) + 1) /\ DOMAIN arrived = 1..Len(arrived)
      /\ Len(arrived) \in Nat
      /\ \A i \in DOMAIN arrived : arrived'[i] = arrived[i]
      /\ arrived'[Len(arrived) + 1] = r
  BY <1>1, <1>2
<1>7. /\ \A q1, q2 : Before(q1, q2) => Before(q1, q2)'
      /\ \A q : HasArrived(q) => HasArrived(q)' /\ Before(q, r)'
      /\ HasArrived(r)'
  <2>1. \A q1, q2 : Before(q1, q2) => Before(q1, q2)'
    BY <1>6 DEF Before
  <2>2. \A q : HasArrived(q) => HasArrived(q)'
    BY <1>6 DEF HasArrived
  <2>3. ASSUME NEW q, HasArrived(q) PROVE Before(q, r)'
    <3>1. PICK i \in DOMAIN arrived : arrived[i] = q
      BY <2>3 DEF HasArrived
    <3>2. /\ i \in DOMAIN arrived' /\ Len(arrived) + 1 \in DOMAIN arrived'
          /\ i < Len(arrived) + 1 /\ arrived'[i] = q /\ arrived'[Len(arrived) + 1] = r
      BY <3>1, <1>6
    <3> QED BY <3>2 DEF Before
  <2>4. HasArrived(r)'
    BY <1>6 DEF HasArrived
  <2> QED BY <2>1, <2>2, <2>3, <2>4
<1>8. /\ \A l \in Locks : l # l0 => queue'[l] = queue[l]
      /\ queue'[l0] = Append(queue[l0], r)
      /\ queue[l0] \in Seq(Reqs)
  BY <1>1, <1>2
<1>9. /\ DOMAIN queue'[l0] = 1..(Len(queue[l0]) + 1) /\ DOMAIN queue[l0] = 1..Len(queue[l0])
      /\ Len(queue[l0]) \in Nat
      /\ \A k \in DOMAIN queue[l0] : queue'[l0][k] = queue[l0][k] /\ queue[l0][k] \in Reqs
      /\ queue'[l0][Len(queue[l0]) + 1] = r
  BY <1>8
<1> HIDE DEF l0
<1>10. InLine'
  <2> SUFFICES ASSUME NEW l \in Locks, NEW k \in DOMAIN queue'[l]
               PROVE  Lock(queue[l][k])' = l /\ Waits(queue[l][k])'
    BY DEF InLine
  <2>1. CASE l # l0
    <3>1. queue'[l][k] \in Reqs /\ k \in DOMAIN queue[l] /\ queue'[l][k] = queue[l][k]
      BY <2>1, <1>2, <1>8
    <3>2. Lock(queue[l][k]) = l /\ Waits(queue[l][k])
      BY <3>1 DEF Order, InLine
    <3> QED BY <3>1, <3>2, <1>4, <1>5 DEF Waits, Lock, Slot
  <2>2. CASE l = l0 /\ k \in DOMAIN queue[l0]
    <3>1. queue'[l][k] = queue[l0][k] /\ queue[l0][k] \in Reqs
      BY <2>2, <1>9
    <3>2. Lock(queue[l0][k]) = l0 /\ Waits(queue[l0][k])
      BY <2>2, <1>2 DEF Order, InLine
    <3> QED BY <2>2, <3>1, <3>2, <1>1, <1>3 DEF Waits, Lock, Slot
  <2>3. CASE l = l0 /\ k = Len(queue[l0]) + 1
    <3>1. queue'[l][k] = r
      BY <2>3, <1>9
    <3> QED BY <2>3, <3>1, <1>1, <1>2, <1>3 DEF Waits, Lock, Slot, l0
  <2> QED BY <2>1, <2>2, <2>3, <1>9
<1>11. AllInLine'
  <2> SUFFICES ASSUME NEW q \in Reqs, Waits(q)'
               PROVE  \E k \in DOMAIN queue'[Lock(q)] : queue'[Lock(q)][k] = q
    BY <1>1 DEF AllInLine, Lock, Slot
  <2>1. CASE q = r
    BY <2>1, <1>9 DEF l0
  <2>2. CASE q # r
    <3>1. PICK k \in DOMAIN queue[Lock(q)] : queue[Lock(q)][k] = q
      BY <2>2, <1>4 DEF Order, AllInLine
    <3>2. Lock(q) \in Locks
      BY InputFacts
    <3> QED BY <3>1, <3>2, <1>8, <1>9
  <2> QED BY <2>1, <2>2
<1>12. InOrder'
  <2> SUFFICES ASSUME NEW l \in Locks, NEW i \in DOMAIN queue'[l], NEW j \in DOMAIN queue'[l],
                      i < j
               PROVE  queue'[l][i] # queue'[l][j] /\ Before(queue[l][i], queue[l][j])'
    BY DEF InOrder
  <2>1. CASE l # l0
    <3>1. /\ Before(queue[l][i], queue[l][j]) /\ queue[l][i] # queue[l][j]
          /\ queue'[l] = queue[l]
      BY <2>1, <1>8 DEF Order, InOrder
    <3> QED BY <3>1, <1>7 DEF Before
  <2>2. CASE l = l0 /\ j \in DOMAIN queue[l0]
    <3>1. i \in DOMAIN queue[l0]
      BY <2>2, <1>9
    <3>2. Before(queue[l0][i], queue[l0][j]) /\ queue[l0][i] # queue[l0][j]
      BY <2>2, <3>1, <1>2 DEF Order, InOrder
    <3>3. queue'[l][i] = queue[l0][i] /\ queue'[l][j] = queue[l0][j]
      BY <2>2, <3>1, <1>9
    <3> QED BY <3>2, <3>3, <1>7 DEF Before
  <2>3. CASE l = l0 /\ j = Len(queue[l0]) + 1
    <3>1. i \in DOMAIN queue[l0]
      BY <2>3, <1>9
    <3>2. PICK x \in Reqs : x = queue[l0][i]
      BY <3>1, <1>9
    <3>3. HasArrived(x) /\ x # r
      BY <3>1, <3>2, <1>1, <1>2 DEF Order, InLine, Waits
    <3>4. queue'[l][i] = x /\ queue'[l][j] = r
      BY <2>3, <3>1, <3>2, <1>9
    <3>5. Before(x, r)'
      BY <3>3, <1>7
    <3>6. Before(queue[l][i], queue[l][j])' <=> Before(x, r)'
      BY <3>4 DEF Before
    <3> QED BY <3>3, <3>4, <3>5, <3>6
  <2> QED BY <2>1, <2>2, <2>3, <1>9
<1>13. DoneFirst'
  BY <1>1, <1>3, <1>4, <1>5, <1>7 DEF Order, DoneFirst
<1>14. \A q \in Reqs : Waits(q)' => HasArrived(q)'
  BY <1>4, <1>7 DEF Order
<1> QED BY <1>10, <1>11, <1>12, <1>13, <1>14 DEF Order

(* A request that leaves was the first in line.                             *)
LEMMA OrderLeave ==
    ASSUME Typed, Order, NEW r \in Reqs, NEW a, Leave(r, a)
    PROVE  Order'
<1> DEFINE l0 == Lock(r)
<1>1. /\ Waits(r) /\ pc' = [pc EXCEPT ![r] = "done"] /\ inp' = inp /\ arrived' = arrived
      /\ answer' = [answer EXCEPT ![r] = a]
      /\ queue' = [queue EXCEPT ![l0] = Tail(queue[l0])]
      /\ queue[l0] # <<>> /\ Head(queue[l0]) = r
  BY DEF Leave, Finish, Holds, Waits
<1>2. /\ l0 \in Locks /\ queue \in [Locks -> Seq(Reqs)] /\ pc \in [Reqs -> Labels]
      /\ answer \in [Reqs -> Answers]
  BY InputFacts DEF Typed, TypeOK
<1>3. \A q \in Reqs : /\ pc'[q] = IF q = r THEN "done" ELSE pc[q]
                      /\ answer'[q] = IF q = r THEN a ELSE answer[q]
                      /\ Waits(q)' <=> Waits(q) /\ q # r
  BY <1>1, <1>2 DEF Waits
<1>4. \A q : Lock(q)' = Lock(q)
  BY <1>1, SameLock
<1>5. /\ \A q1, q2 : Before(q1, q2)' <=> Before(q1, q2)
      /\ \A q : HasArrived(q)' <=> HasArrived(q)
  BY <1>1 DEF Before, HasArrived
<1>6. /\ \A l \in Locks : l # l0 => queue'[l] = queue[l]
      /\ queue'[l0] = Tail(queue[l0]) /\ queue[l0] \in Seq(Reqs)
  BY <1>1, <1>2
<1>7. /\ DOMAIN queue[l0] = 1..Len(queue[l0]) /\ Len(queue[l0]) \in Nat \ {0}
      /\ DOMAIN queue'[l0] = 1..(Len(queue[l0]) - 1)
      /\ queue[l0][1] = r
      /\ \A k \in DOMAIN queue'[l0] : queue'[l0][k] = queue[l0][k + 1]
  <2>1. PICK s \in Seq(Reqs) : s = queue[l0] /\ s # <<>> /\ Head(s) = r
    BY <1>1, <1>6
  <2>2. /\ DOMAIN s = 1..Len(s) /\ Len(s) \in Nat \ {0} /\ s[1] = r
        /\ Tail(s) \in Seq(Reqs) /\ Len(Tail(s)) = Len(s) - 1
    BY <2>1
  <2>3. DOMAIN Tail(s) = 1..(Len(s) - 1)
    BY <2>2
  <2>4. \A k \in DOMAIN Tail(s) : Tail(s)[k] = s[k + 1]
    BY <2>1, <2>2
  <2> QED BY <1>6, <2>1, <2>2, <2>3, <2>4
<1>8. ASSUME NEW k \in DOMAIN queue'[l0]
      PROVE  /\ 1 \in DOMAIN queue[l0] /\ k + 1 \in DOMAIN queue[l0] /\ 1 < k + 1
             /\ queue'[l0][k] \in Reqs
  <2>1. k \in 1..(Len(queue[l0]) - 1)
    BY <1>7
  <2>2. 1 \in DOMAIN queue[l0] /\ k + 1 \in DOMAIN queue[l0] /\ 1 < k + 1
    BY <1>7, <2>1
  <2>3. queue[l0][k + 1] \in Reqs
    BY <1>6, <2>2
  <2> QED BY <2>2, <2>3, <1>7
<1>9. \A k \in DOMAIN queue'[l0] : queue'[l0][k] # r /\ Before(r, queue[l0][k + 1])
  BY <1>2, <1>7, <1>8 DEF Order, InOrder
<1> HIDE DEF l0
<1>10. InLine'
  <2> SUFFICES ASSUME NEW l \in Locks, NEW k \in DOMAIN queue'[l]
               PROVE  Lock(queue[l][k])' = l /\ Waits(queue[l][k])'
    BY DEF InLine
  <2>1. PICK x \in Reqs : x = queue'[l][k] /\ Lock(x) = l /\ Waits(x) /\ x # r
    <3>1. CASE l = l0
      BY <3>1, <1>2, <1>7, <1>8, <1>9 DEF Order, InLine
    <3>2. CASE l # l0
      <4>1. queue'[l] = queue[l] /\ k \in DOMAIN queue[l] /\ queue[l] \in Seq(Reqs)
        BY <3>2, <1>2, <1>6
      <4>2. queue[l][k] \in Reqs /\ Lock(queue[l][k]) = l /\ Waits(queue[l][k])
        BY <4>1 DEF Order, InLine
      <4>3. Lock(r) # l
        BY <3>2 DEF l0
      <4> QED BY <4>1, <4>2, <4>3
    <3> QED BY <3>1, <3>2
  <2>2. Lock(x)' = l /\ Waits(x)'
    BY <2>1, <1>3, <1>4
  <2> QED BY <2>1, <2>2 DEF Lock, Slot, Waits
<1>11. AllInLine'
  <2> SUFFICES ASSUME NEW q \in Reqs, Waits(q)'
               PROVE  \E k \in DOMAIN queue'[Lock(q)] : queue'[Lock(q)][k] = q
    BY <1>4 DEF AllInLine
  <2>1. PICK k \in DOMAIN queue[Lock(q)] : queue[Lock(q)][k] = q
    BY <1>3 DEF Order, AllInLine
  <2>2. q # r /\ Lock(q) \in Locks
    BY <1>3, InputFacts
  <2>3. CASE Lock(q) = l0
    <3>1. k # 1 /\ k \in 1..Len(queue[l0])
      BY <2>1, <2>2, <2>3, <1>7
    <3>2. k - 1 \in DOMAIN queue'[l0] /\ (k - 1) + 1 = k
      BY <3>1, <1>7
    <3> QED BY <2>1, <2>3, <3>2, <1>7
  <2>4. CASE Lock(q) # l0
    BY <2>1, <2>2, <2>4, <1>6
  <2> QED BY <2>3, <2>4
<1>12. InOrder'
  <2> SUFFICES ASSUME NEW l \in Locks, NEW i \in DOMAIN queue'[l], NEW j \in DOMAIN queue'[l],
                      i < j
               PROVE  queue'[l][i] # queue'[l][j] /\ Before(queue'[l][i], queue'[l][j])
    BY <1>5 DEF InOrder, Before
  <2>1. CASE l # l0
    BY <2>1, <1>6 DEF Order, InOrder
  <2>2. CASE l = l0
    <3>1. /\ i + 1 \in DOMAIN queue[l0] /\ j + 1 \in DOMAIN queue[l0] /\ i + 1 < j + 1
          /\ queue'[l0][i] = queue[l0][i + 1] /\ queue'[l0][j] = queue[l0][j + 1]
      BY <2>2, <1>7
    <3> QED BY <2>2, <3>1, <1>2 DEF Order, InOrder
  <2> QED BY <2>1, <2>2
<1>13. \A q \in Reqs : Waits(q) /\ q # r /\ Lock(q) = Lock(r) => Before(r, q)
  <2> SUFFICES ASSUME NEW q \in Reqs, Waits(q), q # r, Lock(q) = l0
               PROVE  Before(r, q)
    BY DEF l0
  <2>1. PICK k \in DOMAIN queue[l0] : queue[l0][k] = q
    BY DEF Order, AllInLine
  <2>2. 1 \in DOMAIN queue[l0] /\ 1 < k
    BY <2>1, <1>7
  <2> QED BY <2>1, <2>2, <1>2, <1>7 DEF Order, InOrder
<1>14. DoneFirst'
  <2> SUFFICES ASSUME NEW q \in Reqs, answer'[q] = "ok"
               PROVE  /\ pc'[q] = "done" /\ HasArrived(q)
                      /\ \A x \in Reqs : Waits(x)' /\ Lock(x) = Lock(q) => Before(q, x)
    BY <1>4, <1>5 DEF DoneFirst
  <2>1. CASE q = r
    BY <2>1, <1>1, <1>3, <1>13 DEF Order
  <2>2. CASE q # r
    BY <2>2, <1>3 DEF Order, DoneFirst
  <2> QED BY <2>1, <2>2
<1>15. \A q \in Reqs : Waits(q)' => HasArrived(q)'
  BY <1>3, <1>5 DEF Order
<1> QED BY <1>10, <1>11, <1>12, <1>14, <1>15 DEF Order

LEMMA OrderNext ==
    ASSUME Typed, Order, NEW r \in Reqs, Refuse(r) \/ Arrive(r) \/ Step(r)
    PROVE  Order'
<1>0. pc \in [Reqs -> Labels] /\ answer \in [Reqs -> Answers]
  BY DEF Typed, TypeOK
<1>1. CASE Refuse(r)
  <2>1. /\ pc[r] = "idle" /\ pc' = [pc EXCEPT ![r] = "done"] /\ UNCHANGED <<inp, queue, arrived>>
        /\ answer' = [answer EXCEPT ![r] = "denied"]
    BY <1>1 DEF Refuse
  <2> QED BY <1>0, <2>1, OrderSame DEF Waits
<1>2. CASE Arrive(r)
  BY <1>2, OrderArrive
<1>3. CASE Step(r)
  <2>1. ASSUME NEW label, Inner(r, label) PROVE Order'
    <3>1. /\ Waits(r) /\ label \notin {"idle", "done"} /\ pc[r] # "done"
          /\ pc' = [pc EXCEPT ![r] = label] /\ UNCHANGED <<inp, queue, arrived, answer>>
      BY <2>1 DEF Inner, Continue, Waits
    <3> QED BY <1>0, <3>1, OrderSame
  <2> QED BY <1>3, <2>1, OrderLeave, StepShape
<1> QED BY <1>1, <1>2, <1>3

-----------------------------------------------------------------------------
(* What the requests know about the rows and files they work on.            *)
BeforeCopy == {"readprob", "saveprob", "readhw", "savehw", "write"}

TargetOK ==
    /\ \A q \in Existing : records[q].args = Filtered(q)
    /\ \A r \in Reqs : pc[r] \in Stored \/ answer[r] = "ok" =>
           target[r] \in Existing /\ records[target[r]].args = Filtered(r)

(* The file of a row is that of the request which is about to save the row. *)
SourceOK ==
    /\ \A q \in Reqs : source[q] # None => q \in Existing
    /\ \A r \in Reqs : pc[r] \in {"saverec", "post"} => source[target[r]] = r
    /\ \A r \in Reqs : pc[r] = "post" => records[target[r]].by = r
    /\ RowDescribesFile

(* Public submissions and tests each have a row of their own, which nobody  *)
(* else works on; a job is one of them, answered.                           *)
OwnRow == \A r \in Reqs : /\ pc[r] \in Stored /\ inp[r].type \in {0, 1} => target[r] = r
                          /\ pc[r] = "post" => inp[r].type \in {0, 1}

JobOK(q, j) == /\ q \in Existing /\ pc[q] = "done" /\ inp[q].type \in {0, 1}
               /\ source[q] = q /\ records[q].by = q /\ JudgerOf(inp[q]) = j

JobsOK ==
    /\ OwnRow
    /\ \A j \in Judgers : \A k \in DOMAIN jobs[j] : JobOK(jobs[j][k], j)
    /\ \A j \in Judgers : \A k, m \in DOMAIN jobs[j] : jobs[j][k] = jobs[j][m] => k = m

(* An upload that is gone was copied for the record of its student, and a   *)
(* record without a copy is one somebody is about to copy for.              *)
ZipHome(a) == <<<<a.hw, a.prob>>, a.user>>

ZipOK ==
    /\ \A q \in Existing : records[q].args.type = 4 =>
           IF source[q] # None THEN turnin[ZipHome(records[q].args)] = source[q]
           ELSE \E r \in Reqs : target[r] = q /\ pc[r] \in BeforeCopy
    /\ \A r \in Reqs : inp[r].type = 4 /\ inp[r].file \notin uploads =>
           \E q \in Existing : records[q].args = Filtered(r) /\ source[q] # None

FilesOK == TargetOK /\ SourceOK /\ LastSubmissionWins /\ JobsOK /\ ZipOK

LEMMA FilesInit == Init => FilesOK
<1> SUFFICES ASSUME Init PROVE FilesOK
  OBVIOUS
<1>1. Existing = {}
  BY DEF Init, Existing
<1>2. \A r \in Reqs : pc[r] = "idle" /\ answer[r] # "ok" /\ source[r] = None
  BY SubmissionAssumption DEF Init
<1>3. TargetOK /\ LastSubmissionWins
  BY <1>1, <1>2 DEF TargetOK, LastSubmissionWins, Stored
<1>4. SourceOK
  BY <1>1, <1>2 DEF SourceOK, RowDescribesFile
<1>5. JobsOK
  <2>1. \A j \in Judgers : DOMAIN jobs[j] = {}
    BY DEF Init
  <2> QED BY <2>1, <1>2 DEF JobsOK, OwnRow, Stored
<1>6. ZipOK
  <2>1. \A r \in Reqs : inp[r].type = 4 => inp[r].file \in uploads
    BY UploadAssumption DEF Init
  <2> QED BY <2>1, <1>1 DEF ZipOK
<1> QED BY <1>3, <1>4, <1>5, <1>6 DEF FilesOK

(* Requests with the same columns share a lock, so that two of them are     *)
(* never both beyond their first statement.                                 *)
LEMMA SameColumns ==
    ASSUME Typed, NEW r \in Reqs, NEW q \in Reqs, Filtered(q) = Filtered(r)
    PROVE  /\ Lock(q) = Lock(r)
           /\ inp[q].type = inp[r].type /\ inp[q].user = inp[r].user
           /\ inp[q].lang = inp[r].lang
           /\ Slot(q) = Slot(r)
<1>1. inp[q] \in Columns /\ inp[r] \in Columns
  BY InputFacts
<1>2. /\ inp[q].hw = inp[r].hw /\ inp[q].prob = inp[r].prob
      /\ inp[q].type = inp[r].type /\ inp[q].user = inp[r].user
      /\ inp[q].lang = inp[r].lang
  <2>1. /\ inp[q].hw = Filtered(q).hw /\ inp[q].prob = Filtered(q).prob
        /\ inp[q].type = Filtered(q).type /\ inp[q].user = Filtered(q).user
        /\ inp[q].lang = Filtered(q).lang
    BY <1>1 DEF Filtered, Columns
  <2>2. /\ inp[r].hw = Filtered(r).hw /\ inp[r].prob = Filtered(r).prob
        /\ inp[r].type = Filtered(r).type /\ inp[r].user = Filtered(r).user
        /\ inp[r].lang = Filtered(r).lang
    BY <1>1 DEF Filtered, Columns
  <2> QED BY <2>1, <2>2
<1> QED BY <1>2 DEF Lock, Slot

LEMMA SameTarget ==
    ASSUME Final, TargetOK, NEW r \in Reqs, NEW q \in Reqs,
           pc[r] \in Stored, pc[q] \in Stored, target[q] = target[r]
    PROVE  q = r
<1>1. Lock(q) = Lock(r)
  BY SameColumns DEF TargetOK, Final
<1>2. Holds(q) /\ Holds(r)
  BY DEF Final, HolderOK, Entered, Inside
<1> QED BY <1>1, <1>2 DEF Holds

(* What every step of a request leaves as it was.                           *)
Alone(r) ==
    /\ inp' = inp /\ answer[r] # "ok" /\ pc[r] # "done"
    /\ \A q \in Reqs : q # r => pc'[q] = pc[q] /\ answer'[q] = answer[q]
    /\ \A q1, q2 : Before(q1, q2) => Before(q1, q2)'

LEMMA StepAlone ==
    ASSUME Typed, Order, NEW r \in Reqs, Refuse(r) \/ Arrive(r) \/ Step(r)
    PROVE  Alone(r)
<1>1. /\ pc \in [Reqs -> Labels] /\ answer \in [Reqs -> Answers] /\ arrived \in Seq(Reqs)
      /\ r \in Reqs
  BY DEF Typed, TypeOK
<1>2. pc[r] # "done" => answer[r] # "ok"
  BY DEF Order, DoneFirst
<1>3. CASE Refuse(r)
  BY <1>1, <1>2, <1>3 DEF Refuse, Alone, Before
<1>4. CASE Arrive(r)
  <2>1. /\ \A i \in DOMAIN arrived : i \in DOMAIN arrived' /\ arrived'[i] = arrived[i]
    BY <1>1, <1>4 DEF Arrive
  <2>2. \A q1, q2 : Before(q1, q2) => Before(q1, q2)'
    BY <2>1 DEF Before
  <2> QED BY <1>1, <1>2, <1>4, <2>2 DEF Arrive, Alone
<1>5. CASE Step(r)
  <2>1. ASSUME NEW label, Inner(r, label) PROVE Alone(r)
    BY <1>1, <1>2, <2>1 DEF Inner, Continue, Alone, Before
  <2>2. ASSUME NEW a, Leave(r, a) PROVE Alone(r)
    BY <1>1, <1>2, <2>2 DEF Leave, Finish, Alone, Before
  <2> QED BY <1>5, <2>1, <2>2, StepShape
<1> QED BY <1>1, <1>3, <1>4, <1>5

(* Steps that touch no record, no file and no job.                          *)
Plain(r) ==
    /\ UNCHANGED <<records, target, source, turnin, uploads, jobs>>
    /\ pc[r] # "saverec" /\ pc'[r] \notin {"saverec", "post"}
    /\ pc'[r] \in Stored => pc[r] \in Stored
    /\ pc[r] \in BeforeCopy => pc'[r] \in BeforeCopy
    /\ answer'[r] # "ok"

LEMMA PlainStep ==
    ASSUME Typed, NEW r \in Reqs, Refuse(r) \/ Arrive(r) \/ Step(r), answer[r] # "ok",
           ~Create(r), ~Match(r), ~WriteCode(r), ~WriteZip(r), ~NoZip(r), ~SaveRecord(r),
           ~Post(r)
    PROVE  Plain(r)
<1>0. /\ pc \in [Reqs -> Labels] /\ answer \in [Reqs -> Answers] /\ StageOK(r)
      /\ inp[r].type \in {0, 1, 2, 4}
  BY InputFacts DEF Typed, TypeOK
<1> USE DEF Plain, localVars, dbVars, diskVars, Stored, BeforeCopy
<1>1. CASE Refuse(r) \/ Arrive(r)
  BY <1>0, <1>1 DEF Refuse, Arrive, FirstStep
<1>2. CASE FindOld(r) \/ ReadJudgeState(r) \/ SaveJudgeState(r) \/ NoMatch(r)
           \/ ReadRatio(r) \/ NoRatio(r) \/ CreateRatio(r) \/ Charge(r)
  BY <1>0, <1>2 DEF FindOld, ReadJudgeState, SaveJudgeState, NoMatch, ReadRatio, NoRatio,
     CreateRatio, Charge, At, Continue
<1>3. CASE ReadProblem(r) \/ SaveProblem(r) \/ ReadHomework(r) \/ SaveHomework(r)
  BY <1>0, <1>3 DEF ReadProblem, SaveProblem, ReadHomework, SaveHomework, At, Continue
<1>4. CASE NoJudgeState(r) \/ Exceed(r) \/ PostFails(r)
  BY <1>0, <1>4 DEF NoJudgeState, Exceed, PostFails, At, Finish
<1> QED BY <1>1, <1>2, <1>3, <1>4 DEF Step

LEMMA FilesPlain ==
    ASSUME Final, Order, FilesOK, NEW r \in Reqs, Alone(r), Plain(r)
    PROVE  FilesOK'
<1>1. /\ Existing' = Existing /\ \A q : Filtered(q)' = Filtered(q)
      /\ \A q : Slot(q)' = Slot(q)
  BY DEF Existing, Filtered, Alone, Plain, Slot
<1>2. \A q \in Reqs : /\ pc'[q] \in Stored => pc[q] \in Stored
                      /\ answer'[q] = "ok" => answer[q] = "ok"
                      /\ pc'[q] \in {"saverec", "post"} => pc[q] = pc'[q]
                      /\ pc[q] = "saverec" => pc'[q] = "saverec"
                      /\ pc[q] \in BeforeCopy => pc'[q] \in BeforeCopy
                      /\ pc[q] = "done" => pc'[q] = "done"
  BY DEF Alone, Plain
<1>3. TargetOK'
  BY <1>1, <1>2 DEF FilesOK, TargetOK, Plain
<1>4. SourceOK'
  BY <1>1, <1>2 DEF FilesOK, SourceOK, RowDescribesFile, Plain
<1>5. LastSubmissionWins'
  BY <1>1, <1>2 DEF FilesOK, LastSubmissionWins, Plain, Alone
<1>6. JobsOK'
  <2>1. OwnRow'
    BY <1>2 DEF FilesOK, JobsOK, OwnRow, Plain, Alone
  <2>2. ASSUME NEW j \in Judgers, NEW k \in DOMAIN jobs'[j] PROVE JobOK(jobs[j][k], j)'
    <3>1. JobOK(jobs[j][k], j)
      BY <2>2 DEF FilesOK, JobsOK, Plain
    <3>2. PICK q \in Reqs : q = jobs[j][k]
      BY <3>1 DEF JobOK, Existing
    <3>3. JobOK(q, j)'
      BY <3>1, <3>2, <1>1, <1>2 DEF JobOK, Plain, Alone
    <3> QED BY <3>2, <3>3 DEF JobOK, Plain
  <2>3. \A j \in Judgers : \A k, m \in DOMAIN jobs'[j] : jobs'[j][k] = jobs'[j][m] => k = m
    BY DEF FilesOK, JobsOK, Plain
  <2> QED BY <2>1, <2>2, <2>3 DEF JobsOK
<1>7. ZipOK'
  BY <1>1, <1>2 DEF FilesOK, ZipOK, Plain, Alone, ZipHome
<1> QED BY <1>3, <1>4, <1>5, <1>6, <1>7 DEF FilesOK

(* A request adds its record.                                               *)
LEMMA FilesCreate ==
    ASSUME Final, Order, FilesOK, NEW r \in Reqs, Alone(r), Create(r)
    PROVE  FilesOK'
<1> DEFINE row == [args |-> Filtered(r), status |-> 0, by |-> None, result |-> None]
<1>1. /\ records' = [records EXCEPT ![r] = row] /\ target' = [target EXCEPT ![r] = r]
      /\ UNCHANGED <<inp, answer, source, turnin, uploads, jobs>> /\ pc[r] = "create"
  BY DEF Create, Continue, At, diskVars
<1>2. PICK label \in {"readprob", "readhw", "write"} : pc' = [pc EXCEPT ![r] = label]
  BY DEF Create, Continue
<1>3. row \in Rows /\ row # None /\ row.args = Filtered(r) /\ row.by = None
  BY InputFacts, SubmissionAssumption DEF Final, Rows
<1> HIDE DEF row
<1>4. /\ Existing' = Existing \cup {r} /\ r \notin Existing /\ records'[r] = row
      /\ \A q \in Existing : records'[q] = records[q] /\ q # r
  BY <1>1, <1>3 DEF Existing, Final, Typed, TypeOK, RowOK, Fresh
<1>5. \A q \in Reqs : /\ pc'[q] = IF q = r THEN label ELSE pc[q]
                      /\ target'[q] = IF q = r THEN r ELSE target[q]
  BY <1>1, <1>2 DEF Final, Typed, TypeOK
<1>6. \A q : Filtered(q)' = Filtered(q) /\ Slot(q)' = Slot(q)
  BY <1>1 DEF Filtered, Slot
<1>7. /\ label \in Stored /\ label \in BeforeCopy /\ label \notin {"saverec", "post", "done"}
      /\ source[r] = None /\ answer[r] # "ok" /\ pc[r] # "done"
  BY <1>1, <1>2, <1>4 DEF Stored, BeforeCopy, FilesOK, SourceOK, Alone
<1>8. \A q \in Reqs : /\ pc[q] = "saverec" => pc'[q] = "saverec" /\ target'[q] = target[q]
                      /\ pc[q] \in BeforeCopy => q # r
  BY <1>1, <1>5 DEF BeforeCopy
<1>9. TargetOK'
  <2>1. \A q \in Existing' : records'[q].args = Filtered(q)
    BY <1>3, <1>4 DEF FilesOK, TargetOK
  <2>2. ASSUME NEW q \in Reqs, pc'[q] \in Stored \/ answer'[q] = "ok"
        PROVE  target'[q] \in Existing' /\ records'[target'[q]].args = Filtered(q)
    <3>1. CASE q = r
      BY <3>1, <1>3, <1>4, <1>5
    <3>2. CASE q # r
      BY <2>2, <3>2, <1>1, <1>4, <1>5 DEF FilesOK, TargetOK
    <3> QED BY <3>1, <3>2
  <2> QED BY <2>1, <2>2, <1>6 DEF TargetOK
<1>10. SourceOK'
  <2>1. \A q \in Reqs : source'[q] # None => q \in Existing'
    BY <1>1, <1>4 DEF FilesOK, SourceOK
  <2>2. \A q \in Reqs : pc'[q] \in {"saverec", "post"} => source'[target'[q]] = q
    BY <1>1, <1>5, <1>7 DEF FilesOK, SourceOK
  <2>3. ASSUME NEW q \in Reqs, pc'[q] = "post" PROVE records'[target'[q]].by = q
    <3>1. pc[q] = "post" /\ target'[q] = target[q]
      BY <2>3, <1>5, <1>7
    <3>2. target[q] \in Existing /\ records[target[q]].by = q
      BY <3>1 DEF FilesOK, TargetOK, SourceOK, Stored
    <3> QED BY <3>1, <3>2, <1>4
  <2>4. RowDescribesFile'
    <3>1. \A q \in Existing : \/ records'[q].by = source'[q]
                              \/ \E x \in Reqs : pc'[x] = "saverec" /\ target'[x] = q
                                                 /\ source'[q] = x
      BY <1>1, <1>4, <1>8 DEF FilesOK, SourceOK, RowDescribesFile
    <3>2. records'[r].by = source'[r]
      BY <1>1, <1>3, <1>4, <1>7
    <3> QED BY <3>1, <3>2, <1>4 DEF RowDescribesFile
  <2> QED BY <2>1, <2>2, <2>3, <2>4 DEF SourceOK
<1>11. LastSubmissionWins'
  <2> SUFFICES ASSUME NEW q \in Reqs, answer[q] = "ok", inp[q].type \in {2, 4}
               PROVE  LET x == source[target[q]]
                      IN  x = q \/ (x # None /\ Before(q, x) /\ Filtered(x) = Filtered(q))
    BY <1>1, <1>5, <1>6, <1>7 DEF LastSubmissionWins, Alone
  <2> QED BY DEF FilesOK, LastSubmissionWins
<1>12. JobsOK'
  <2>1. OwnRow'
    BY <1>1, <1>5 DEF FilesOK, JobsOK, OwnRow
  <2>2. ASSUME NEW j \in Judgers, NEW k \in DOMAIN jobs'[j] PROVE JobOK(jobs[j][k], j)'
    <3>1. JobOK(jobs[j][k], j)
      BY <2>2, <1>1 DEF FilesOK, JobsOK
    <3>2. PICK q \in Existing : q = jobs[j][k]
      BY <3>1 DEF JobOK
    <3>3. q \in Reqs
      BY DEF Existing
    <3>4. JobOK(q, j)'
      BY <3>1, <3>2, <3>3, <1>1, <1>4, <1>5, <1>7 DEF JobOK
    <3> QED BY <3>2, <3>4, <1>1 DEF JobOK
  <2> QED BY <2>1, <2>2, <1>1 DEF FilesOK, JobsOK
<1>13. ZipOK'
  <2>1. ASSUME NEW q \in Existing', records'[q].args.type = 4
        PROVE  IF source'[q] # None THEN turnin'[ZipHome(records'[q].args)] = source'[q]
               ELSE \E x \in Reqs : target'[x] = q /\ pc'[x] \in BeforeCopy
    <3>1. CASE q = r
      BY <3>1, <1>1, <1>5, <1>7
    <3>2. CASE q \in Existing
      <4>1. records'[q] = records[q]
        BY <3>2, <1>4
      <4>2. IF source[q] # None THEN turnin[ZipHome(records[q].args)] = source[q]
            ELSE \E x \in Reqs : target[x] = q /\ pc[x] \in BeforeCopy
        BY <2>1, <3>2, <4>1 DEF FilesOK, ZipOK
      <4>3. \A x \in Reqs : target[x] = q /\ pc[x] \in BeforeCopy =>
                 target'[x] = q /\ pc'[x] \in BeforeCopy
        BY <1>5, <1>8
      <4>4. turnin'[ZipHome(records'[q].args)] = turnin[ZipHome(records[q].args)]
        BY <1>1, <4>1
      <4> QED BY <4>2, <4>3, <4>4, <1>1
    <3> QED BY <3>1, <3>2, <1>4
  <2>2. \A x \in Reqs : inp'[x].type = 4 /\ inp'[x].file \notin uploads' =>
           \E q \in Existing' : records'[q].args = Filtered(x) /\ source'[q] # None
    BY <1>1, <1>4 DEF FilesOK, ZipOK
  <2> QED BY <2>1, <2>2, <1>6 DEF ZipOK, ZipHome
<1> QED BY <1>9, <1>10, <1>11, <1>12, <1>13 DEF FilesOK

(* A request goes on with a record that is already there.                   *)
LEMMA FilesMatch ==
    ASSUME Final, Order, FilesOK, NEW r \in Reqs, Alone(r), Match(r)
    PROVE  FilesOK'
<1>1. /\ UNCHANGED <<inp, answer, records, source, turnin, uploads, jobs>> /\ pc[r] = "match"
      /\ inp[r].type \in {2, 4}
  BY DEF Match, Continue, At, diskVars, dbVars, Final, Typed, StageOK
<1>2. PICK old \in Existing : target' = [target EXCEPT ![r] = old] /\ records[old].args = Filtered(r)
  BY DEF Match, Reusable
<1>3. PICK label \in {"readhw", "write"} : pc' = [pc EXCEPT ![r] = label]
  BY DEF Match, Continue
<1>4. \A q \in Reqs : /\ pc'[q] = IF q = r THEN label ELSE pc[q]
                      /\ target'[q] = IF q = r THEN old ELSE target[q]
  BY <1>2, <1>3 DEF Final, Typed, TypeOK
<1>5. /\ Existing' = Existing /\ \A q : Filtered(q)' = Filtered(q) /\ Slot(q)' = Slot(q)
  BY <1>1 DEF Existing, Filtered, Slot
<1>6. /\ label \in Stored /\ label \in BeforeCopy /\ label \notin {"saverec", "post", "done"}
      /\ answer[r] # "ok"
  BY <1>3 DEF Stored, BeforeCopy, Alone
<1>7. \A q \in Reqs : /\ pc[q] = "saverec" => pc'[q] = "saverec" /\ target'[q] = target[q]
                      /\ pc'[q] \in {"saverec", "post"} => pc[q] = pc'[q] /\ q # r
                      /\ pc[q] \in BeforeCopy => q # r
                      /\ pc[q] = "done" => pc'[q] = "done"
  BY <1>1, <1>4, <1>6 DEF BeforeCopy
<1>8. TargetOK'
  <2>1. ASSUME NEW q \in Reqs, pc'[q] \in Stored \/ answer[q] = "ok"
        PROVE  target'[q] \in Existing /\ records[target'[q]].args = Filtered(q)
    <3>1. CASE q = r
      BY <3>1, <1>2, <1>4
    <3>2. CASE q # r
      BY <2>1, <3>2, <1>4 DEF FilesOK, TargetOK
    <3> QED BY <3>1, <3>2
  <2> QED BY <2>1, <1>1, <1>5 DEF TargetOK, FilesOK
<1>9. SourceOK'
  <2>1. \A q \in Reqs : pc'[q] \in {"saverec", "post"} => source[target'[q]] = q
    BY <1>4, <1>7 DEF FilesOK, SourceOK
  <2>2. \A q \in Reqs : pc'[q] = "post" => records[target'[q]].by = q
    BY <1>4, <1>7 DEF FilesOK, SourceOK
  <2>3. RowDescribesFile'
    BY <1>1, <1>5, <1>7 DEF FilesOK, SourceOK, RowDescribesFile
  <2> QED BY <2>1, <2>2, <2>3, <1>1, <1>5 DEF FilesOK, SourceOK
<1>10. LastSubmissionWins'
  <2> SUFFICES ASSUME NEW q \in Reqs, answer[q] = "ok", inp[q].type \in {2, 4}
               PROVE  LET x == source[target[q]]
                      IN  x = q \/ (x # None /\ Before(q, x) /\ Filtered(x) = Filtered(q))
    BY <1>1, <1>4, <1>5, <1>6 DEF LastSubmissionWins, Alone
  <2> QED BY DEF FilesOK, LastSubmissionWins
<1>11. JobsOK'
  <2>1. OwnRow'
    <3>1. inp[r].type \notin {0, 1}
      BY <1>1
    <3> QED BY <3>1, <1>1, <1>4 DEF FilesOK, JobsOK, OwnRow
  <2>2. ASSUME NEW j \in Judgers, NEW k \in DOMAIN jobs'[j] PROVE JobOK(jobs[j][k], j)'
    <3>1. JobOK(jobs[j][k], j)
      BY <2>2, <1>1 DEF FilesOK, JobsOK
    <3>2. PICK q \in Reqs : q = jobs[j][k]
      BY <3>1 DEF JobOK, Existing
    <3>3. JobOK(q, j)'
      BY <3>1, <3>2, <1>1, <1>5, <1>7 DEF JobOK
    <3> QED BY <3>2, <3>3, <1>1 DEF JobOK
  <2> QED BY <2>1, <2>2, <1>1 DEF FilesOK, JobsOK
<1>12. ZipOK'
  <2>1. ASSUME NEW q \in Existing, records[q].args.type = 4
        PROVE  IF source[q] # None THEN turnin[ZipHome(records[q].args)] = source[q]
               ELSE \E x \in Reqs : target'[x] = q /\ pc'[x] \in BeforeCopy
    <3>1. IF source[q] # None THEN turnin[ZipHome(records[q].args)] = source[q]
          ELSE \E x \in Reqs : target[x] = q /\ pc[x] \in BeforeCopy
      BY <2>1 DEF FilesOK, ZipOK
    <3>2. \A x \in Reqs : target[x] = q /\ pc[x] \in BeforeCopy =>
               target'[x] = q /\ pc'[x] \in BeforeCopy
      BY <1>4, <1>7
    <3> QED BY <3>1, <3>2
  <2> QED BY <2>1, <1>1, <1>5 DEF FilesOK, ZipOK, ZipHome
<1> QED BY <1>8, <1>9, <1>10, <1>11, <1>12 DEF FilesOK

(* The file is written: nobody else works on this row, and whoever was      *)
(* answered for it before came before.                                      *)
Writes(r) ==
    /\ pc[r] = "write" /\ pc' = [pc EXCEPT ![r] = "saverec"]
    /\ UNCHANGED <<inp, answer, records, target, jobs>>
    /\ source' = [source EXCEPT ![target[r]] = r]

LEMMA WriteShape ==
    ASSUME NEW r, WriteCode(r) \/ WriteZip(r)
    PROVE  Writes(r)
BY DEF WriteCode, WriteZip, Writes, At, Continue, localVars, dbVars

LEMMA FilesWrite ==
    ASSUME Final, Order, FilesOK, NEW r \in Reqs, Alone(r), Writes(r)
    PROVE  TargetOK' /\ SourceOK' /\ LastSubmissionWins' /\ JobsOK'
<1> DEFINE t == target[r]
<1>1. /\ UNCHANGED <<inp, answer, records, target, jobs>> /\ pc[r] = "write"
      /\ pc[r] \in Stored /\ answer[r] # "ok" /\ Waits(r)
  BY DEF Writes, Alone, Stored, Waits
<1>2. t \in Existing /\ records[t].args = Filtered(r) /\ t \in Reqs
  BY <1>1 DEF FilesOK, TargetOK, Existing
<1>3. \A q \in Reqs : /\ pc'[q] = IF q = r THEN "saverec" ELSE pc[q]
                      /\ source'[q] = IF q = t THEN r ELSE source[q]
  BY <1>2 DEF Writes, Final, Typed, TypeOK
<1>4. /\ Existing' = Existing /\ \A q : Filtered(q)' = Filtered(q)
  BY <1>1 DEF Existing, Filtered
<1>5. \A q \in Reqs : pc'[q] \in {"saverec", "post"} => q = r \/ (pc[q] \in Stored /\ pc[q] = pc'[q])
  BY <1>3 DEF Stored
<1>6. \A q \in Reqs : pc[q] \in Stored /\ target[q] = t => q = r
  BY <1>1, SameTarget DEF FilesOK
<1> HIDE DEF t
<1>7. TargetOK'
  <2>1. \A q \in Reqs : pc'[q] \in Stored => pc[q] \in Stored
    BY <1>1, <1>3
  <2> QED BY <2>1, <1>1, <1>4 DEF FilesOK, TargetOK
<1>8. SourceOK'
  <2>1. \A q \in Reqs : source'[q] # None => q \in Existing
    BY <1>2, <1>3 DEF FilesOK, SourceOK
  <2>2. ASSUME NEW q \in Reqs, pc'[q] \in {"saverec", "post"} PROVE source'[target[q]] = q
    <3>1. CASE q = r
      BY <3>1, <1>2, <1>3 DEF t
    <3>2. CASE q # r
      <4>1. pc[q] \in Stored /\ pc[q] \in {"saverec", "post"} /\ target[q] # t
        BY <2>2, <3>2, <1>5, <1>6
      <4>2. target[q] \in Reqs /\ source[target[q]] = q
        BY <4>1 DEF FilesOK, TargetOK, SourceOK, Existing
      <4> QED BY <4>1, <4>2, <1>3
    <3> QED BY <3>1, <3>2
  <2>3. \A q \in Reqs : pc'[q] = "post" => records[target[q]].by = q
    BY <1>3 DEF FilesOK, SourceOK
  <2>4. RowDescribesFile'
    <3>1. ASSUME NEW q \in Existing
          PROVE  \/ records[q].by = source'[q]
                 \/ \E x \in Reqs : pc'[x] = "saverec" /\ target[x] = q /\ source'[q] = x
      <4>1. CASE q = t
        BY <4>1, <1>2, <1>3 DEF t
      <4>2. CASE q # t
        <5>1. q \in Reqs /\ source'[q] = source[q]
          BY <4>2, <1>3 DEF Existing
        <5> QED BY <5>1, <1>3 DEF FilesOK, SourceOK, RowDescribesFile
      <4> QED BY <4>1, <4>2
    <3> QED BY <3>1, <1>1, <1>4 DEF RowDescribesFile
  <2> QED BY <2>1, <2>2, <2>3, <2>4, <1>1, <1>4 DEF SourceOK
<1>9. LastSubmissionWins'
  <2> SUFFICES ASSUME NEW q \in Reqs, answer[q] = "ok", inp[q].type \in {2, 4}
               PROVE  LET x == source'[target[q]]
                      IN  x = q \/ (x # None /\ Before(q, x) /\ Filtered(x) = Filtered(q))
    BY <1>1, <1>4 DEF LastSubmissionWins, Alone
  <2>1. target[q] \in Reqs /\ records[target[q]].args = Filtered(q)
    BY DEF FilesOK, TargetOK, Existing
  <2>2. CASE target[q] = t
    <3>1. Filtered(r) = Filtered(q) /\ source'[target[q]] = r /\ r # None
      BY <2>1, <2>2, <1>2, <1>3, SubmissionAssumption
    <3>2. Lock(r) = Lock(q)
      BY <3>1, SameColumns DEF Final
    <3>3. Before(q, r)
      BY <3>2, <1>1 DEF Order, DoneFirst
    <3> QED BY <3>1, <3>3
  <2>3. CASE target[q] # t
    <3>1. source'[target[q]] = source[target[q]]
      BY <2>1, <2>3, <1>3
    <3> QED BY <3>1 DEF FilesOK, LastSubmissionWins
  <2> QED BY <2>2, <2>3
<1>10. JobsOK'
  <2>1. OwnRow'
    BY <1>1, <1>3 DEF FilesOK, JobsOK, OwnRow
  <2>2. ASSUME NEW j \in Judgers, NEW k \in DOMAIN jobs'[j] PROVE JobOK(jobs[j][k], j)'
    <3>1. JobOK(jobs[j][k], j)
      BY <2>2, <1>1 DEF FilesOK, JobsOK
    <3>2. PICK q \in Reqs : q = jobs[j][k]
      BY <3>1 DEF JobOK, Existing
    <3>3. q # t
      <4> SUFFICES ASSUME q = t PROVE FALSE
        OBVIOUS
      <4>1. Filtered(q) = Filtered(r)
        BY <1>2, <3>1, <3>2 DEF FilesOK, TargetOK, JobOK
      <4>2. inp[r].type \in {0, 1}
        BY <3>1, <3>2, <4>1, SameColumns DEF JobOK, Final
      <4>3. t = r
        BY <4>2, <1>1 DEF FilesOK, JobsOK, OwnRow, t
      <4> QED BY <3>1, <3>2, <4>3, <1>1 DEF JobOK
    <3>4. JobOK(q, j)'
      <4>1. pc'[q] = "done" /\ source'[q] = q
        BY <3>1, <3>2, <3>3, <1>1, <1>3 DEF JobOK
      <4> QED BY <3>1, <3>2, <4>1, <1>1, <1>4 DEF JobOK
    <3> QED BY <3>2, <3>4, <1>1 DEF JobOK
  <2> QED BY <2>1, <2>2, <1>1 DEF FilesOK, JobsOK
<1> QED BY <1>7, <1>8, <1>9, <1>10

(* The record of an HTML submission is that of its student and problem.     *)
LEMMA ZipFields ==
    ASSUME Final, NEW r \in Reqs, inp[r].type = 4
    PROVE  /\ ZipHome(Filtered(r)) = <<Slot(r), inp[r].user>>
           /\ ZipHome(Filtered(r)) \in Slots \X Users
           /\ Filtered(r) = [user |-> inp[r].user, prob |-> inp[r].prob, hw |-> inp[r].hw,
                             type |-> 4, lang |-> None, gear |-> None, file |-> None]
           /\ inp[r].file \in Files
<1>1. inp[r] \in Inputs /\ inp[r] \in Columns /\ Slot(r) \in Slots /\ inp[r].user \in Users
  BY InputFacts DEF Final, Typed, TypeOK
<1>2. inp[r].lang = None /\ inp[r].gear = None /\ inp[r].file \in Files
  BY <1>1, UploadAssumption
<1>3. /\ Filtered(r).user = inp[r].user /\ Filtered(r).prob = inp[r].prob
      /\ Filtered(r).hw = inp[r].hw
  BY <1>1 DEF Filtered, Columns
<1>4. Filtered(r) = [user |-> inp[r].user, prob |-> inp[r].prob, hw |-> inp[r].hw,
                     type |-> 4, lang |-> None, gear |-> None, file |-> None]
  BY <1>1, <1>2 DEF Filtered, Columns
<1> QED BY <1>1, <1>2, <1>3, <1>4 DEF ZipHome, Slot

LEMMA SameHome ==
    ASSUME Final, NEW r \in Reqs, NEW q \in Reqs, inp[r].type = 4, inp[q].type = 4,
           ZipHome(Filtered(q)) = ZipHome(Filtered(r))
    PROVE  Filtered(q) = Filtered(r)
BY ZipFields DEF Slot

LEMMA FilteredType ==
    ASSUME Typed, NEW r \in Reqs
    PROVE  Filtered(r).type = inp[r].type
BY InputFacts DEF Filtered, Columns

LEMMA ZipWriteCode ==
    ASSUME Final, Order, FilesOK, NEW r \in Reqs, Alone(r), WriteCode(r)
    PROVE  ZipOK'
<1> DEFINE t == target[r]
<1>1. /\ UNCHANGED <<inp, records, target, turnin, uploads>> /\ pc[r] = "write"
      /\ inp[r].type # 4 /\ pc[r] \in Stored
      /\ pc' = [pc EXCEPT ![r] = "saverec"] /\ source' = [source EXCEPT ![t] = r]
  BY DEF WriteCode, At, Continue, localVars, dbVars, Stored
<1>2. t \in Existing /\ records[t].args = Filtered(r) /\ records[t].args.type # 4 /\ t \in Reqs
  BY <1>1, FilteredType DEF FilesOK, TargetOK, Existing, Final
<1>3. \A q \in Reqs : /\ pc'[q] = IF q = r THEN "saverec" ELSE pc[q]
                      /\ source'[q] = IF q = t THEN r ELSE source[q]
  BY <1>1, <1>2 DEF Final, Typed, TypeOK
<1>4. /\ Existing' = Existing /\ \A q : Filtered(q)' = Filtered(q)
  BY <1>1 DEF Existing, Filtered
<1> HIDE DEF t
<1>5. ASSUME NEW q \in Existing, records[q].args.type = 4
      PROVE  IF source'[q] # None THEN turnin[ZipHome(records[q].args)] = source'[q]
             ELSE \E x \in Reqs : target[x] = q /\ pc'[x] \in BeforeCopy
  <2>1. q # t /\ q \in Reqs /\ source'[q] = source[q]
    BY <1>2, <1>3, <1>5 DEF Existing
  <2>2. \A x \in Reqs : target[x] = q => x # r
    BY <2>1 DEF t
  <2>3. IF source[q] # None THEN turnin[ZipHome(records[q].args)] = source[q]
        ELSE \E x \in Reqs : target[x] = q /\ pc[x] \in BeforeCopy
    BY <1>5 DEF FilesOK, ZipOK
  <2> QED BY <2>1, <2>2, <2>3, <1>3
<1>6. \A q \in Existing : source[q] # None => source'[q] # None
  <2>1. \A q \in Existing : q \in Reqs
    BY DEF Existing
  <2>2. r # None
    BY SubmissionAssumption
  <2> QED BY <1>3, <2>1, <2>2
<1>7. \A x \in Reqs : inp[x].type = 4 /\ inp[x].file \notin uploads =>
           \E q \in Existing : records[q].args = Filtered(x) /\ source'[q] # None
  BY <1>6 DEF FilesOK, ZipOK
<1> QED BY <1>1, <1>4, <1>5, <1>7 DEF ZipOK, ZipHome

(* The two copies are made together, and only this record is at their place.*)
LEMMA ZipWriteZip ==
    ASSUME Final, Order, FilesOK, NEW r \in Reqs, Alone(r), WriteZip(r)
    PROVE  ZipOK'
<1> DEFINE t == target[r]
           home == <<Slot(r), inp[r].user>>
<1>1. /\ UNCHANGED <<inp, records, target>> /\ pc[r] = "write"
      /\ inp[r].type = 4 /\ pc[r] \in Stored
      /\ pc' = [pc EXCEPT ![r] = "saverec"] /\ source' = [source EXCEPT ![t] = r]
      /\ turnin' = [turnin EXCEPT ![home] = r] /\ uploads' = uploads \ {inp[r].file}
  BY DEF WriteZip, At, Continue, localVars, dbVars, Stored
<1>2. t \in Existing /\ records[t].args = Filtered(r) /\ t \in Reqs /\ r # None
  BY <1>1, SubmissionAssumption DEF FilesOK, TargetOK, Existing
<1>3. /\ home \in Slots \X Users /\ home = ZipHome(Filtered(r))
      /\ ZipHome(records[t].args) = home
  BY <1>1, <1>2, ZipFields
<1> HIDE DEF home
<1>4. \A q \in Reqs : /\ pc'[q] = IF q = r THEN "saverec" ELSE pc[q]
                      /\ source'[q] = IF q = t THEN r ELSE source[q]
  BY <1>1, <1>2 DEF Final, Typed, TypeOK
<1>5. /\ turnin'[home] = r
      /\ \A h \in Slots \X Users : h # home => turnin'[h] = turnin[h]
  BY <1>1, <1>3 DEF Final, Typed, TypeOK
<1>6. /\ Existing' = Existing /\ \A q : Filtered(q)' = Filtered(q)
  BY <1>1 DEF Existing, Filtered
<1> HIDE DEF t
<1>7. ASSUME NEW q \in Existing, records[q].args.type = 4
      PROVE  IF source'[q] # None THEN turnin'[ZipHome(records[q].args)] = source'[q]
             ELSE \E x \in Reqs : target[x] = q /\ pc'[x] \in BeforeCopy
  <2>1. CASE q = t
    BY <2>1, <1>2, <1>3, <1>4, <1>5
  <2>2. CASE q # t
    <3>1. q \in Reqs /\ source'[q] = source[q]
      BY <2>2, <1>4 DEF Existing
    <3>2. records[q].args = Filtered(q) /\ inp[q].type = 4
      BY <3>1, <1>7, FilteredType DEF FilesOK, TargetOK, Final
    <3>3. ZipHome(records[q].args) # home /\ ZipHome(records[q].args) \in Slots \X Users
      <4>1. ZipHome(records[q].args) \in Slots \X Users
        BY <3>1, <3>2, ZipFields
      <4>2. ASSUME ZipHome(records[q].args) = home PROVE FALSE
        <5>1. Filtered(q) = Filtered(r)
          BY <4>2, <3>1, <3>2, <1>1, <1>3, SameHome
        <5> QED BY <5>1, <3>2, <2>2, <1>2, <1>7 DEF Final, OneFinalRecord
      <4> QED BY <4>1, <4>2
    <3>4. IF source[q] # None THEN turnin[ZipHome(records[q].args)] = source[q]
          ELSE \E x \in Reqs : target[x] = q /\ pc[x] \in BeforeCopy
      BY <1>7 DEF FilesOK, ZipOK
    <3>5. \A x \in Reqs : target[x] = q => x # r
      BY <2>2 DEF t
    <3> QED BY <3>1, <3>3, <3>4, <3>5, <1>4, <1>5
  <2> QED BY <2>1, <2>2
<1>8. \A q \in Existing : source[q] # None => source'[q] # None
  BY <1>2, <1>4 DEF Existing
<1>9. ASSUME NEW x \in Reqs, inp[x].type = 4, inp[x].file \notin uploads'
      PROVE  \E q \in Existing : records[q].args = Filtered(x) /\ source'[q] # None
  <2>1. CASE inp[x].file \notin uploads
    BY <2>1, <1>8, <1>9 DEF FilesOK, ZipOK
  <2>2. CASE inp[x].file = inp[r].file
    <3>1. inp[x] = inp[r]
      BY <2>2, <1>1, <1>9, UploadAssumption DEF Final, Typed, TypeOK
    <3>2. Filtered(x) = Filtered(r)
      BY <3>1 DEF Filtered
    <3>3. source'[t] # None
      BY <1>2, <1>4
    <3> QED BY <3>2, <3>3, <1>2
  <2> QED BY <2>1, <2>2, <1>1, <1>9
<1> QED BY <1>1, <1>6, <1>7, <1>9 DEF ZipOK, ZipHome

(* Who finds no upload leaves a record that has its copy: the same request  *)
(* was sent before.                                                         *)
LEMMA FilesNoZip ==
    ASSUME Final, Order, FilesOK, NEW r \in Reqs, Alone(r), NoZip(r)
    PROVE  FilesOK'
<1>1. /\ UNCHANGED <<inp, records, target, source, turnin, uploads, jobs>> /\ pc[r] = "write"
      /\ pc' = [pc EXCEPT ![r] = "done"] /\ answer' = [answer EXCEPT ![r] = "error"]
      /\ inp[r].type = 4 /\ inp[r].file \notin uploads
  BY DEF NoZip, At, Finish, localVars, dbVars, diskVars
<1>2. \A q \in Reqs : /\ pc'[q] = IF q = r THEN "done" ELSE pc[q]
                      /\ answer'[q] = IF q = r THEN "error" ELSE answer[q]
  BY <1>1 DEF Final, Typed, TypeOK
<1>3. /\ Existing' = Existing /\ \A q : Filtered(q)' = Filtered(q)
      /\ \A q : Slot(q)' = Slot(q)
  BY <1>1 DEF Existing, Filtered, Slot
<1>4. \A q \in Reqs : /\ pc'[q] \in Stored => pc[q] \in Stored
                      /\ answer'[q] = "ok" => answer[q] = "ok"
                      /\ pc'[q] \in {"saverec", "post"} => pc[q] = pc'[q]
                      /\ pc[q] = "saverec" => pc'[q] = "saverec"
                      /\ pc[q] = "done" => pc'[q] = "done"
  BY <1>1, <1>2 DEF Stored
<1>5. TargetOK' /\ SourceOK'
  BY <1>1, <1>3, <1>4 DEF FilesOK, TargetOK, SourceOK, RowDescribesFile
<1>6. LastSubmissionWins'
  BY <1>1, <1>3, <1>4 DEF FilesOK, LastSubmissionWins, Alone
<1>7. JobsOK'
  <2>1. ASSUME NEW j \in Judgers, NEW k \in DOMAIN jobs'[j] PROVE JobOK(jobs[j][k], j)'
    <3>1. JobOK(jobs[j][k], j)
      BY <2>1, <1>1 DEF FilesOK, JobsOK
    <3>2. PICK q \in Reqs : q = jobs[j][k]
      BY <3>1 DEF JobOK, Existing
    <3>3. JobOK(q, j)'
      BY <3>1, <3>2, <1>1, <1>3, <1>4 DEF JobOK
    <3> QED BY <3>2, <3>3, <1>1 DEF JobOK
  <2>2. OwnRow'
    BY <1>1, <1>4 DEF FilesOK, JobsOK, OwnRow
  <2> QED BY <2>1, <2>2, <1>1 DEF FilesOK, JobsOK
<1>8. ZipOK'
  <2>1. ASSUME NEW q \in Existing, records[q].args.type = 4, source[q] = None
        PROVE  \E x \in Reqs : target[x] = q /\ pc'[x] \in BeforeCopy
    <3>1. PICK x \in Reqs : target[x] = q /\ pc[x] \in BeforeCopy
      BY <2>1 DEF FilesOK, ZipOK
    <3>2. x # r
      <4> SUFFICES ASSUME x = r PROVE FALSE
        OBVIOUS
      <4>1. records[q].args = Filtered(r)
        BY <3>1, <1>1 DEF FilesOK, TargetOK, Stored
      <4>2. PICK y \in Existing : records[y].args = Filtered(r) /\ source[y] # None
        BY <1>1 DEF FilesOK, ZipOK
      <4>3. y = q
        BY <2>1, <4>1, <4>2 DEF Final, OneFinalRecord
      <4> QED BY <2>1, <4>2, <4>3
    <3> QED BY <3>1, <3>2, <1>2
  <2> QED BY <2>1, <1>1, <1>3 DEF FilesOK, ZipOK, ZipHome
<1> QED BY <1>5, <1>6, <1>7, <1>8 DEF FilesOK

(* The row is saved with the request whose file is on disk.                 *)
LEMMA FilesSaveRecord ==
    ASSUME Final, Order, FilesOK, NEW r \in Reqs, Alone(r), SaveRecord(r)
    PROVE  FilesOK'
<1> DEFINE t == target[r]
           row == [snap[r] EXCEPT !.by = r]
<1>0. inp[r].type \in {0, 1, 2, 4}
  BY InputFacts DEF Final
<1>1. /\ UNCHANGED <<inp, target, source, turnin, uploads, jobs>> /\ pc[r] = "saverec"
      /\ records' = [records EXCEPT ![t] = row] /\ pc[r] \in Stored
      /\ answer[r] # "ok" /\ pc[r] \notin BeforeCopy
      /\ t \in Existing /\ t \in Reqs /\ records[t].args = Filtered(r) /\ source[t] = r
      /\ snap[r].args = records[t].args /\ snap[r] \in Rows
  <2>1. UNCHANGED <<inp, target, source, turnin, uploads, jobs>>
    BY DEF SaveRecord, Finish, Continue, localVars, diskVars
  <2>2. pc[r] = "saverec" /\ records' = [records EXCEPT ![t] = row]
    BY DEF SaveRecord, At
  <2>3. pc[r] \in Stored /\ pc[r] \notin BeforeCopy
    BY <2>2 DEF Stored, BeforeCopy
  <2>4. snap[r].args = records[t].args /\ snap[r] \in Rows
    BY <2>3 DEF Final, RowOK, Typed, StageOK
  <2> QED BY <2>1, <2>2, <2>3, <2>4 DEF Alone, FilesOK, TargetOK, SourceOK, Existing
<1>2. row \in Rows /\ row.args = records[t].args /\ row.by = r
  BY <1>1 DEF Rows
<1>3. PICK label \in {"done", "post"} :
          /\ pc' = [pc EXCEPT ![r] = label] /\ (label = "post" => inp[r].type \in {0, 1})
          /\ answer' = [answer EXCEPT ![r] = "ok"] \/ answer' = answer
  BY <1>0 DEF SaveRecord, Finish, Continue
<1> HIDE DEF row
<1>4. \A q \in Reqs : /\ pc'[q] = IF q = r THEN label ELSE pc[q]
                      /\ records'[q] = IF q = t THEN row ELSE records[q]
                      /\ answer'[q] = "ok" => q = r \/ answer[q] = "ok"
  BY <1>1, <1>3 DEF Final, Typed, TypeOK
<1>5. /\ Existing' = Existing /\ \A q : Filtered(q)' = Filtered(q) /\ Slot(q)' = Slot(q)
  BY <1>1, <1>2, <1>4, SubmissionAssumption DEF Existing, Filtered, Slot
<1>6. \A q \in Existing : records'[q].args = records[q].args /\ q \in Reqs
  BY <1>2, <1>4 DEF Existing
<1>7. \A q \in Reqs : pc[q] \in Stored /\ target[q] = t => q = r
  BY <1>1, SameTarget DEF FilesOK
<1> HIDE DEF t
<1>8. TargetOK'
  <2>1. \A q \in Reqs : pc'[q] \in Stored \/ answer'[q] = "ok" =>
             target[q] \in Existing /\ records'[target[q]].args = Filtered(q)
    BY <1>1, <1>4, <1>6 DEF FilesOK, TargetOK, t
  <2>2. \A q \in Existing : records'[q].args = Filtered(q)
    BY <1>6 DEF FilesOK, TargetOK
  <2> QED BY <2>1, <2>2, <1>1, <1>5 DEF TargetOK
<1>9. SourceOK'
  <2>1. \A q \in Reqs : pc'[q] \in {"saverec", "post"} => source[target[q]] = q
    BY <1>1, <1>4 DEF FilesOK, SourceOK, t
  <2>2. ASSUME NEW q \in Reqs, pc'[q] = "post" PROVE records'[target[q]].by = q
    <3>1. CASE q = r
      BY <3>1, <1>1, <1>2, <1>4 DEF t
    <3>2. CASE q # r
      <4>1. pc[q] = "post" /\ pc[q] \in Stored
        BY <2>2, <3>2, <1>4 DEF Stored
      <4>2. target[q] # t /\ target[q] \in Reqs /\ records[target[q]].by = q
        BY <3>2, <4>1, <1>7 DEF FilesOK, SourceOK, TargetOK, Existing
      <4> QED BY <4>2, <1>4
    <3> QED BY <3>1, <3>2
  <2>3. ASSUME NEW q \in Existing
        PROVE  \/ records'[q].by = source[q]
               \/ \E x \in Reqs : pc'[x] = "saverec" /\ target[x] = q /\ source[q] = x
    <3>1. CASE q = t
      BY <3>1, <1>1, <1>2, <1>4
    <3>2. CASE q # t
      <4>1. records'[q] = records[q]
        BY <3>2, <1>4, <1>6
      <4>2. \A x \in Reqs : target[x] = q => x # r
        BY <3>2 DEF t
      <4> QED BY <4>1, <4>2, <1>4 DEF FilesOK, SourceOK, RowDescribesFile
    <3> QED BY <3>1, <3>2
  <2> QED BY <2>1, <2>2, <2>3, <1>1, <1>5 DEF FilesOK, SourceOK, RowDescribesFile
<1>10. LastSubmissionWins'
  <2> SUFFICES ASSUME NEW q \in Reqs, answer'[q] = "ok", inp[q].type \in {2, 4}
               PROVE  LET x == source[target[q]]
                      IN  x = q \/ (x # None /\ Before(q, x) /\ Filtered(x) = Filtered(q))
    BY <1>1, <1>5 DEF LastSubmissionWins, Alone
  <2>1. CASE q = r
    BY <2>1, <1>1 DEF t
  <2>2. CASE q # r
    BY <2>2, <1>4 DEF FilesOK, LastSubmissionWins
  <2> QED BY <2>1, <2>2
<1>11. JobsOK'
  <2>1. OwnRow'
    BY <1>1, <1>3, <1>4 DEF FilesOK, JobsOK, OwnRow, Stored
  <2>2. ASSUME NEW j \in Judgers, NEW k \in DOMAIN jobs'[j] PROVE JobOK(jobs[j][k], j)'
    <3>1. JobOK(jobs[j][k], j)
      BY <2>2, <1>1 DEF FilesOK, JobsOK
    <3>2. PICK q \in Reqs : q = jobs[j][k]
      BY <3>1 DEF JobOK, Existing
    <3>3. q # t
      BY <3>1, <3>2, <1>1 DEF JobOK
    <3>4. JobOK(q, j)'
      BY <3>1, <3>2, <3>3, <1>1, <1>4, <1>5 DEF JobOK
    <3> QED BY <3>2, <3>4, <1>1 DEF JobOK
  <2> QED BY <2>1, <2>2, <1>1 DEF FilesOK, JobsOK
<1>12. ZipOK'
  <2>1. \A x \in Reqs : pc[x] \in BeforeCopy => pc'[x] \in BeforeCopy
    BY <1>1, <1>4
  <2>2. ASSUME NEW q \in Existing, records[q].args.type = 4
        PROVE  IF source[q] # None THEN turnin[ZipHome(records[q].args)] = source[q]
               ELSE \E x \in Reqs : target[x] = q /\ pc'[x] \in BeforeCopy
    BY <2>1, <2>2 DEF FilesOK, ZipOK
  <2> QED BY <2>2, <1>1, <1>5, <1>6 DEF FilesOK, ZipOK, ZipHome
<1> QED BY <1>8, <1>9, <1>10, <1>11, <1>12 DEF FilesOK

(* The judger is handed the request's own record.                           *)
LEMMA FilesPost ==
    ASSUME Final, Order, FilesOK, NEW r \in Reqs, Alone(r), Post(r)
    PROVE  FilesOK'
<1>0. PICK j0 \in Judgers : j0 = JudgerOf(inp[r])
  BY DEF Judgers, JudgerOf
<1>1. /\ UNCHANGED <<inp, records, target, source, turnin, uploads>> /\ pc[r] = "post"
      /\ pc' = [pc EXCEPT ![r] = "done"] /\ answer' = [answer EXCEPT ![r] = "ok"]
      /\ jobs' = [jobs EXCEPT ![j0] = Append(jobs[j0], target[r])]
      /\ pc[r] \in Stored /\ pc[r] \notin BeforeCopy /\ inp[r].type \in {0, 1}
  BY <1>0 DEF Post, At, Finish, localVars, dbVars, diskVars, Stored, BeforeCopy,
     FilesOK, JobsOK, OwnRow
<1>2. /\ target[r] = r /\ r \in Existing /\ records[r].args = Filtered(r) /\ source[r] = r
      /\ records[r].by = r
  BY <1>1 DEF FilesOK, TargetOK, SourceOK, JobsOK, OwnRow
<1>3. \A q \in Reqs : /\ pc'[q] = IF q = r THEN "done" ELSE pc[q]
                      /\ answer'[q] = IF q = r THEN "ok" ELSE answer[q]
  BY <1>1 DEF Final, Typed, TypeOK
<1>4. /\ Existing' = Existing /\ \A q : Filtered(q)' = Filtered(q) /\ Slot(q)' = Slot(q)
  BY <1>1 DEF Existing, Filtered, Slot
<1>5. \A q \in Reqs : /\ pc'[q] \in Stored => pc[q] \in Stored
                      /\ pc'[q] \in {"saverec", "post"} => pc[q] = pc'[q]
                      /\ pc[q] = "saverec" => pc'[q] = "saverec"
                      /\ pc[q] = "done" => pc'[q] = "done" /\ q # r
                      /\ pc[q] \in BeforeCopy => pc'[q] \in BeforeCopy
  BY <1>1, <1>3 DEF Stored
<1>6. TargetOK' /\ SourceOK'
  <2>1. TargetOK'
    BY <1>1, <1>2, <1>3, <1>4, <1>5 DEF FilesOK, TargetOK
  <2>2. SourceOK'
    BY <1>1, <1>4, <1>5 DEF FilesOK, SourceOK, RowDescribesFile
  <2> QED BY <2>1, <2>2
<1>7. LastSubmissionWins'
  <2> SUFFICES ASSUME NEW q \in Reqs, answer'[q] = "ok", inp[q].type \in {2, 4}
               PROVE  LET x == source[target[q]]
                      IN  x = q \/ (x # None /\ Before(q, x) /\ Filtered(x) = Filtered(q))
    BY <1>1, <1>4 DEF LastSubmissionWins, Alone
  <2>1. inp[r].type \notin {2, 4}
    BY <1>1
  <2> QED BY <2>1, <1>3 DEF FilesOK, LastSubmissionWins
<1>8. /\ j0 \in Judgers /\ jobs[j0] \in Seq(Reqs)
      /\ jobs'[j0] = Append(jobs[j0], r)
      /\ \A j \in Judgers : j # j0 => jobs'[j] = jobs[j]
  BY <1>1, <1>2 DEF Final, Typed, TypeOK
<1>9. /\ DOMAIN jobs'[j0] = 1..(Len(jobs[j0]) + 1) /\ DOMAIN jobs[j0] = 1..Len(jobs[j0])
      /\ Len(jobs[j0]) \in Nat /\ jobs'[j0][Len(jobs[j0]) + 1] = r
      /\ \A k \in DOMAIN jobs[j0] : jobs'[j0][k] = jobs[j0][k]
  BY <1>8
<1>10. \A q \in Reqs, j \in Judgers : JobOK(q, j) => JobOK(q, j)' /\ q # r
  BY <1>1, <1>4, <1>5 DEF JobOK
<1>11. JobOK(r, j0)'
  BY <1>0, <1>1, <1>2, <1>3, <1>4 DEF JobOK
<1>12. ASSUME NEW j \in Judgers, NEW k \in DOMAIN jobs'[j]
       PROVE  /\ jobs'[j][k] = r => j = j0 /\ k = Len(jobs[j0]) + 1
              /\ jobs'[j][k] # r => k \in DOMAIN jobs[j] /\ jobs'[j][k] = jobs[j][k]
              /\ JobOK(jobs[j][k], j)'
  <2>1. CASE k \in DOMAIN jobs[j] /\ jobs'[j][k] = jobs[j][k]
    <3>1. JobOK(jobs[j][k], j)
      BY <2>1 DEF FilesOK, JobsOK
    <3>2. PICK q \in Reqs : q = jobs[j][k]
      BY <3>1 DEF JobOK, Existing
    <3>3. JobOK(q, j)' /\ q # r
      BY <3>1, <3>2, <1>10
    <3> QED BY <2>1, <3>2, <3>3 DEF JobOK
  <2>2. CASE j = j0 /\ k = Len(jobs[j0]) + 1
    <3>1. jobs'[j][k] = r
      BY <2>2, <1>9
    <3>2. JobOK(r, j)'
      BY <2>2, <1>11
    <3> QED BY <2>2, <3>1, <3>2 DEF JobOK
  <2>3. \/ k \in DOMAIN jobs[j] /\ jobs'[j][k] = jobs[j][k]
        \/ j = j0 /\ k = Len(jobs[j0]) + 1
    <3>1. CASE j = j0
      <4>1. k \in 1..(Len(jobs[j0]) + 1)
        BY <3>1, <1>9, <1>12
      <4>2. k \in 1..Len(jobs[j0]) \/ k = Len(jobs[j0]) + 1
        BY <4>1, <1>9
      <4> QED BY <3>1, <4>2, <1>9
    <3>2. CASE j # j0
      <4>1. jobs'[j] = jobs[j]
        BY <3>2, <1>8
      <4> QED BY <4>1, <1>12
    <3> QED BY <3>1, <3>2
  <2> QED BY <2>1, <2>2, <2>3
<1>13. JobsOK'
  <2>1. \A j \in Judgers : \A k, m \in DOMAIN jobs'[j] : jobs'[j][k] = jobs'[j][m] => k = m
    <3> SUFFICES ASSUME NEW j \in Judgers, NEW k \in DOMAIN jobs'[j],
                        NEW m \in DOMAIN jobs'[j], jobs'[j][k] = jobs'[j][m]
                 PROVE  k = m
      OBVIOUS
    <3>1. CASE jobs'[j][k] = r
      <4>1. jobs'[j][m] = r
        BY <3>1
      <4> QED BY <3>1, <4>1, <1>12
    <3>2. CASE jobs'[j][k] # r
      <4>1. k \in DOMAIN jobs[j] /\ m \in DOMAIN jobs[j] /\ jobs[j][k] = jobs[j][m]
        BY <3>2, <1>12
      <4> QED BY <4>1 DEF FilesOK, JobsOK
    <3> QED BY <3>1, <3>2
  <2>2. OwnRow'
    BY <1>1, <1>5 DEF FilesOK, JobsOK, OwnRow
  <2> QED BY <2>1, <2>2, <1>12 DEF JobsOK
<1>14. ZipOK'
  BY <1>1, <1>4, <1>5 DEF FilesOK, ZipOK, ZipHome
<1> QED BY <1>6, <1>7, <1>13, <1>14 DEF FilesOK

LEMMA FilesNext == Final /\ Order /\ FilesOK /\ [Next]_vars => Order' /\ FilesOK'
<1> SUFFICES ASSUME Final, Order, FilesOK, [Next]_vars PROVE Order' /\ FilesOK'
  OBVIOUS
<1>1. ASSUME NEW r \in Reqs, Refuse(r) \/ Arrive(r) \/ Step(r)
      PROVE  Order' /\ FilesOK'
  <2>1. Order'
    BY <1>1, OrderNext DEF Final
  <2>2. Alone(r)
    BY <1>1, StepAlone DEF Final
  <2>3. CASE WriteCode(r) \/ WriteZip(r)
    <3>1. TargetOK' /\ SourceOK' /\ LastSubmissionWins' /\ JobsOK'
      BY <2>2, <2>3, WriteShape, FilesWrite
    <3>2. ZipOK'
      BY <2>2, <2>3, ZipWriteCode, ZipWriteZip
    <3> QED BY <2>1, <3>1, <3>2 DEF FilesOK
  <2>4. CASE Create(r) \/ Match(r) \/ NoZip(r) \/ SaveRecord(r) \/ Post(r)
    BY <2>1, <2>2, <2>4, FilesCreate, FilesMatch, FilesNoZip, FilesSaveRecord, FilesPost
  <2>5. CASE ~(WriteCode(r) \/ WriteZip(r) \/ Create(r) \/ Match(r) \/ NoZip(r)
               \/ SaveRecord(r) \/ Post(r))
    <3>1. Plain(r)
      BY <1>1, <2>2, <2>5, PlainStep DEF Final, Alone
    <3> QED BY <2>1, <2>2, <3>1, FilesPlain
  <2> QED BY <2>3, <2>4, <2>5
<1>2. CASE UNCHANGED vars
  <2>1. Order'
    BY <1>2 DEF vars, Order, InLine, AllInLine, InOrder, DoneFirst, Waits, HasArrived,
       Before, Lock, Slot
  <2>2. Existing' = Existing /\ \A q : Filtered(q)' = Filtered(q)
    BY <1>2 DEF vars, dbVars, Existing, Filtered
  <2>3. TargetOK' /\ SourceOK' /\ LastSubmissionWins' /\ JobsOK' /\ ZipOK'
    BY <1>2, <2>2 DEF vars, localVars, dbVars, diskVars, FilesOK, TargetOK, SourceOK,
       RowDescribesFile, LastSubmissionWins, Before, JobsOK, OwnRow, JobOK, ZipOK, ZipHome
  <2> QED BY <2>1, <2>3 DEF FilesOK
<1> QED BY <1>1, <1>2 DEF Next, Quiet

LEMMA FilesAlways == Spec => [](Final /\ Order /\ FilesOK)
<1>1. Init => Final /\ Order /\ FilesOK
  BY FinalInit, OrderInit, FilesInit
<1>2. Final /\ Order /\ FilesOK /\ [Next]_vars => (Final /\ Order /\ FilesOK)'
  BY FinalNext, FilesNext
<1> QED BY <1>1, <1>2, PTL DEF Spec

(* The last submission wins: a final submission that was answered "ok" is   *)
(* what is on disk, or one that arrived after it (problem.py:640-672).      *)
THEOREM LastWins == Spec => []LastSubmissionWins
<1>1. FilesOK => LastSubmissionWins
  BY DEF FilesOK
<1> QED BY <1>1, FilesAlways, PTL

(* The rows describe the files: submit_time and src_size of a row are those *)
(* of the file on disk except while its request is between the two writes,  *)
(* and the two copies of an HTML homework are one zip (problem.py:583-672). *)
THEOREM RowsMatch == Spec => []RowsMatchFiles
<1>1. FilesOK => RowsMatchFiles
  <2> SUFFICES ASSUME FilesOK PROVE RowsMatchFiles
    OBVIOUS
  <2>1. RowDescribesFile
    BY DEF FilesOK, SourceOK
  <2>2. TurnedInIsRecorded
    BY DEF FilesOK, ZipOK, ZipHome, BeforeCopy, TurnedInIsRecorded
  <2> QED BY <2>1, <2>2 DEF RowsMatchFiles
<1> QED BY <1>1, FilesAlways, PTL

(* What the judgers are handed can be judged: the row is there and finished,*)
(* its file too, and each is handed over once, to the judger of its language*)
(* (problem.py:678-738).                                                    *)
THEOREM JobsReady == Spec => []JobsAreReady
<1>1. Final /\ FilesOK => JobsAreReady
  <2> SUFFICES ASSUME Final, FilesOK, NEW j \in Judgers, NEW k \in DOMAIN jobs[j]
               PROVE  LET q == jobs[j][k]
                      IN  /\ records[q] # None
                          /\ records[q].args.type \in {0, 1}
                          /\ JudgerOf(records[q].args) = j
                          /\ source[q] # None /\ records[q].by = source[q]
                          /\ \A m \in DOMAIN jobs[j] : jobs[j][m] = q => m = k
    BY DEF JobsAreReady
  <2>1. JobOK(jobs[j][k], j)
    BY DEF FilesOK, JobsOK
  <2>2. PICK q \in Existing : q = jobs[j][k]
    BY <2>1 DEF JobOK
  <2>3. q \in Reqs /\ q # None /\ records[q] # None /\ records[q].args = Filtered(q)
    BY SubmissionAssumption DEF Existing, FilesOK, TargetOK
  <2>4. Filtered(q).type = inp[q].type /\ Filtered(q).lang = inp[q].lang
    BY <2>3, InputFacts DEF Final, Filtered, Columns
  <2>5. \A m \in DOMAIN jobs[j] : jobs[j][m] = q => m = k
    BY <2>2 DEF FilesOK, JobsOK
  <2> QED BY <2>1, <2>2, <2>3, <2>4, <2>5 DEF JobOK, JudgerOf
<1> QED BY <1>1, FilesAlways, PTL
=============================================================================
