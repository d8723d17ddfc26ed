----------------------------- MODULE JudgingProof -----------------------------
(* Theorems about Judging, for every value of its constants: the judging of *)
(* assistants, the verdicts of the judgers and the submissions may overlap  *)
(* in any way.                                                              *)
EXTENDS Judging, SubmissionProof

(* A row that somebody has in memory is a version of a row of the table:    *)
(* what it says of its submission never changes.                            *)
RowFor(row, q) == row \in Rows /\ q \in Existing /\ row.args = Filtered(q)

RecordsKnown ==
    /\ \A q \in Existing : records[q].args = Filtered(q)
    /\ \A r \in Reqs : pc[r] \in Fresh => r \notin Existing
    /\ \A r \in Reqs : pc[r] \in Stored =>
           /\ RowFor(snap[r], target[r]) /\ snap[r].status = 0
           /\ Filtered(target[r]) = Filtered(r)
    /\ IsFiniteSet(Existing)

(* Whoever has a final record, or is about to, submitted to a problem that  *)
(* has a judgestates row.                                                   *)
SlotsKnown ==
    /\ \A r \in Reqs : inp[r].type \in {2, 4} /\ pc[r] \in {"match", "create"} =>
           Slot(r) \in HwProblems
    /\ \A q \in Existing : inp[q].type \in {2, 4} => Slot(q) \in HwProblems

JobsKnown == \A j \in Judgers : \A k \in DOMAIN jobs[j] : jobs[j][k] \in Existing

FinalType(s) == IF Method[s[2]] = 2 THEN 4 ELSE 2

TaOK(t) ==
    /\ tpc[t] # "idle" => tslot[t] \in Slots /\ tkind[t] \in Kinds
    /\ tpc[t] = "savejs" => tjs[t] \in States /\ tslot[t] \in HwProblems
    /\ tpc[t] \in {"post", "unzip"} => tcur[t] \in Left(t)
    /\ tpc[t] \in {"idle", "finals", "record"} => Left(t) = {}
    /\ tpc[t] \in {"record", "score"} /\ tkind[t] = "score" => FinalType(tslot[t]) = 4
    /\ tpc[t] = "score" => tkind[t] = "score"
    /\ \A q \in Left(t) : RowFor(trows[t][q], q) /\ inp[q].type = FinalType(tslot[t])
    /\ IsFiniteSet(Left(t))

WorkOK(j) ==
    /\ wpc[j] # "idle" => wrec[j] \in Existing
    /\ wpc[j] \notin {"idle", "run"} => wsrc[j] \in Reqs \cup {"nothing"}
    /\ wpc[j] \in {"readjs", "savejs", "detail", "save"} => RowFor(wrow[j], wrec[j])
    /\ wpc[j] \in {"readjs", "savejs"} => Counts(wrow[j])
    /\ wpc[j] = "savejs" => wjs[j] \in States
    /\ wpc[j] = "save" => detail[wrec[j]] # None

JInv == /\ JTypeOK /\ \A r \in Reqs : StageOK(r)
        /\ RecordsKnown /\ SlotsKnown /\ JobsKnown
        /\ \A t \in Tas : TaOK(t)
        /\ \A j \in Judgers : WorkOK(j)

LEMMA JInvInit == JInit => JInv
<1> SUFFICES ASSUME JInit PROVE JInv
  OBVIOUS
<1>1. Init /\ Existing = {} /\ \A r \in Reqs : pc[r] = "idle"
  BY DEF JInit, Init, Existing
<1>2. JTypeOK
  <2>1. TypeOK
    BY <1>1, TypedInit DEF Typed
  <2> QED BY <2>1 DEF JInit, JTypeOK, NoRows
<1>3. RecordsKnown /\ SlotsKnown
  BY <1>1, FS_EmptySet DEF RecordsKnown, SlotsKnown, Stored
<1>4. JobsKnown
  BY <1>1 DEF Init, JobsKnown
<1>5. \A t \in Tas : TaOK(t)
  <2>1. \A t \in Tas : Left(t) = {} /\ tpc[t] = "idle"
    BY DEF JInit, Left, NoRows
  <2> QED BY <2>1, FS_EmptySet DEF TaOK
<1>6. \A j \in Judgers : WorkOK(j)
  BY DEF JInit, WorkOK
<1> QED BY <1>1, <1>2, <1>3, <1>4, <1>5, <1>6, TypedInit DEF JInv, Typed

-----------------------------------------------------------------------------
(* Steps of others leave an assistant and a judger thread alone.            *)
LEMMA RowsStay ==
    ASSUME inp' = inp, Existing \subseteq Existing'
    PROVE  /\ \A q : Filtered(q)' = Filtered(q) /\ Slot(q)' = Slot(q)
           /\ \A row, q : RowFor(row, q) => RowFor(row, q)'
<1>1. \A q : Filtered(q)' = Filtered(q) /\ Slot(q)' = Slot(q)
  BY DEF Filtered, Slot
<1> QED BY <1>1 DEF RowFor

LEMMA TaStays ==
    ASSUME inp' = inp, Existing \subseteq Existing', NEW t, TaOK(t),
           tpc'[t] = tpc[t], tkind'[t] = tkind[t], tslot'[t] = tslot[t],
           trows'[t] = trows[t], tcur'[t] = tcur[t], tjs'[t] = tjs[t]
    PROVE  TaOK(t)'
<1>1. Left(t)' = Left(t)
  BY DEF Left
<1>2. \A q : RowFor(trows[t][q], q) => RowFor(trows[t][q], q)'
  <2>1. \A row, q : RowFor(row, q) => RowFor(row, q)'
    BY RowsStay
  <2> SUFFICES ASSUME NEW q, RowFor(trows[t][q], q) PROVE RowFor(trows[t][q], q)'
    OBVIOUS
  <2>2. PICK row : row = trows[t][q]
    OBVIOUS
  <2>3. RowFor(row, q)'
    BY <2>1, <2>2
  <2> QED BY <2>2, <2>3 DEF RowFor
<1> QED BY <1>1, <1>2 DEF TaOK, FinalType

LEMMA WorkStays ==
    ASSUME inp' = inp, Existing \subseteq Existing', NEW j \in Judgers, WorkOK(j),
           wpc'[j] = wpc[j], wrec'[j] = wrec[j], wsrc'[j] = wsrc[j], wrow'[j] = wrow[j],
           wjs'[j] = wjs[j], \A q \in Reqs : detail[q] # None => detail'[q] # None
    PROVE  WorkOK(j)'
<1>1. RowFor(wrow[j], wrec[j]) => RowFor(wrow[j], wrec[j])'
  BY RowsStay DEF RowFor
<1>2. \A q \in Existing : q \in Reqs
  BY DEF Existing
<1> QED BY <1>1, <1>2 DEF WorkOK, Counts

-----------------------------------------------------------------------------
(* The steps of a submission.                                               *)
Still(r) ==
    /\ UNCHANGED <<inp, records, target, snap, jobs>>
    /\ \A q \in Reqs : q # r => pc'[q] = pc[q]
    /\ pc'[r] \in Fresh => pc[r] \in Fresh
    /\ pc'[r] \in Stored => pc[r] \in Stored
    /\ inp[r].type \in {2, 4} /\ pc'[r] \in {"match", "create"} => Slot(r) \in HwProblems

LEMMA StillStep ==
    ASSUME JInv, NEW r \in Reqs, Refuse(r) \/ Arrive(r) \/ Step(r),
           ~Create(r), ~Match(r), ~SaveRecord(r), ~Post(r)
    PROVE  Still(r)
<1>0. /\ pc \in [Reqs -> Labels] /\ StageOK(r) /\ inp[r].type \in {0, 1, 2, 4}
      /\ SlotsKnown /\ RecordsKnown
  BY InputFacts DEF JInv, JTypeOK, TypeOK, Typed
<1> USE DEF Still, localVars, dbVars, Stored, Fresh
<1>1. CASE Refuse(r) \/ Arrive(r)
  BY <1>0, <1>1 DEF Refuse, Arrive, FirstStep
<1>2. CASE FindOld(r)
  <2>1. ASSUME OldRecords(r) # {} PROVE Slot(r) \in HwProblems
    <3>1. PICK q \in Existing : SameSlot(records[q].args, inp[r])
      BY <2>1 DEF OldRecords
    <3>2. records[q].args = Filtered(q) /\ q \in Reqs
      BY <1>0 DEF RecordsKnown, Existing
    <3>3. /\ Filtered(q).hw = inp[q].hw /\ Filtered(q).prob = inp[q].prob
          /\ Filtered(q).type = inp[q].type
      BY <3>2, InputFacts DEF JInv, JTypeOK, Typed, Filtered, Columns
    <3>4. inp[r].type \in {2, 4}
      BY <1>0, <1>2 DEF FindOld, At, StageOK
    <3> QED BY <1>0, <3>1, <3>2, <3>3, <3>4 DEF SameSlot, Slot, SlotsKnown
  <2> QED BY <1>0, <1>2, <2>1 DEF FindOld, At, Continue
<1>3. CASE SaveJudgeState(r)
  BY <1>0, <1>3 DEF SaveJudgeState, At, Continue, StageOK
<1>4. CASE NoMatch(r)
  BY <1>0, <1>4 DEF NoMatch, At, Continue, SlotsKnown
<1>5. CASE Charge(r)
  <2>1. inp[r].type \notin {2, 4}
    BY <1>0, <1>5 DEF Charge, At, StageOK
  <2> QED BY <1>0, <1>5, <2>1 DEF Charge, At, Continue
<1>6. CASE ReadJudgeState(r) \/ ReadRatio(r) \/ NoRatio(r) \/ CreateRatio(r)
  BY <1>0, <1>6 DEF ReadJudgeState, ReadRatio, NoRatio, CreateRatio, At, Continue
<1>7. CASE ReadProblem(r) \/ SaveProblem(r) \/ ReadHomework(r) \/ SaveHomework(r)
           \/ WriteCode(r) \/ WriteZip(r)
  BY <1>0, <1>7 DEF ReadProblem, SaveProblem, ReadHomework, SaveHomework, WriteCode,
     WriteZip, At, Continue
<1>8. CASE NoJudgeState(r) \/ Exceed(r) \/ PostFails(r) \/ NoZip(r)
  BY <1>0, <1>8 DEF NoJudgeState, Exceed, PostFails, NoZip, At, Finish
<1> QED BY <1>1, <1>2, <1>3, <1>4, <1>5, <1>6, <1>7, <1>8 DEF Step

(* What a step of a submission does to the tables and the jobs.             *)
SubmitEffect ==
    /\ inp' = inp /\ Existing \subseteq Existing'
    /\ RecordsKnown' /\ SlotsKnown' /\ JobsKnown'

LEMMA StillKeeps ==
    ASSUME JInv, NEW r \in Reqs, Still(r)
    PROVE  SubmitEffect
<1>1. /\ Existing' = Existing /\ \A q : Filtered(q)' = Filtered(q) /\ Slot(q)' = Slot(q)
  BY DEF Still, Existing, Filtered, Slot
<1>2. \A row, q : RowFor(row, q) => RowFor(row, q)'
  BY <1>1 DEF RowFor
<1>3. \A q \in Reqs : RowFor(snap[q], target[q]) => RowFor(snap[q], target[q])'
  BY <1>1 DEF RowFor, Still
<1>4. RecordsKnown'
  <2>1. \A q \in Existing' : records'[q].args = Filtered(q)'
    BY <1>1 DEF JInv, RecordsKnown, Still
  <2>2. \A q \in Reqs : pc'[q] \in Fresh => q \notin Existing'
    BY <1>1 DEF JInv, RecordsKnown, Still
  <2>3. ASSUME NEW q \in Reqs, pc'[q] \in Stored
        PROVE  /\ RowFor(snap[q], target[q])' /\ snap'[q].status = 0
               /\ Filtered(target[q])' = Filtered(q)'
    <3>1. pc[q] \in Stored
      BY <2>3 DEF Still
    <3>2. /\ RowFor(snap[q], target[q]) /\ snap[q].status = 0
          /\ Filtered(target[q]) = Filtered(q)
      BY <3>1 DEF JInv, RecordsKnown
    <3>3. Filtered(target[q])' = Filtered(target[q])
      BY DEF Still, Filtered
    <3> QED BY <3>2, <3>3, <1>1, <1>3 DEF Still
  <2> QED BY <2>1, <2>2, <2>3, <1>1 DEF RecordsKnown, JInv
<1>5. SlotsKnown'
  BY <1>1 DEF JInv, SlotsKnown, Still
<1>6. JobsKnown'
  BY <1>1 DEF JInv, JobsKnown, Still
<1> QED BY <1>1, <1>4, <1>5, <1>6 DEF SubmitEffect, Still

LEMMA CreateKeeps ==
    ASSUME JInv, NEW r \in Reqs, Create(r)
    PROVE  SubmitEffect
<1> DEFINE row == [args |-> Filtered(r), status |-> 0, by |-> None, result |-> None]
<1>0. Typed
  BY DEF JInv, JTypeOK, Typed
<1>1. /\ pc[r] = "create" /\ records' = [records EXCEPT ![r] = row]
      /\ target' = [target EXCEPT ![r] = r] /\ snap' = [snap EXCEPT ![r] = row]
      /\ inp' = inp /\ jobs' = jobs
  BY DEF Create, Continue, At
<1>2. PICK label \in {"readprob", "readhw", "write"} : pc' = [pc EXCEPT ![r] = label]
  BY DEF Create, Continue
<1>3. row \in Rows /\ row # None /\ row.args = Filtered(r) /\ row.status = 0
  BY <1>0, InputFacts, SubmissionAssumption DEF Rows
<1> HIDE DEF row
<1>4. /\ Existing' = Existing \cup {r} /\ r \notin Existing /\ records'[r] = row
      /\ \A q \in Existing : records'[q] = records[q]
  BY <1>0, <1>1, <1>3 DEF Existing, Typed, TypeOK, JInv, RecordsKnown, Fresh
<1>5. \A q \in Reqs : /\ pc'[q] = IF q = r THEN label ELSE pc[q]
                      /\ target'[q] = IF q = r THEN r ELSE target[q]
                      /\ snap'[q] = IF q = r THEN row ELSE snap[q]
  BY <1>0, <1>1, <1>2 DEF Typed, TypeOK
<1>6. /\ \A q : Filtered(q)' = Filtered(q) /\ Slot(q)' = Slot(q)
      /\ \A x, q : RowFor(x, q) => RowFor(x, q)'
  BY <1>1, <1>4, RowsStay
<1>7. RecordsKnown'
  <2>1. \A q \in Existing' : records'[q].args = Filtered(q)
    BY <1>3, <1>4 DEF JInv, RecordsKnown
  <2>2. \A q \in Reqs : pc'[q] \in Fresh => q \notin Existing'
    BY <1>2, <1>4, <1>5 DEF JInv, RecordsKnown, Fresh
  <2>3. ASSUME NEW q \in Reqs, pc'[q] \in Stored
        PROVE  /\ RowFor(snap[q], target[q])' /\ snap'[q].status = 0
               /\ Filtered(target[q])' = Filtered(q)'
    <3>1. CASE q = r
      BY <3>1, <1>3, <1>4, <1>5, <1>6 DEF RowFor, Filtered
    <3>2. CASE q # r
      <4>1. PICK x, k : x = snap[q] /\ k = target[q]
        OBVIOUS
      <4>2. RowFor(x, k)' /\ x.status = 0 /\ Filtered(k) = Filtered(q)
        BY <2>3, <3>2, <4>1, <1>5, <1>6 DEF JInv, RecordsKnown
      <4>3. snap'[q] = x /\ target'[q] = k
        BY <3>2, <4>1, <1>5
      <4> QED BY <4>2, <4>3, <1>1 DEF RowFor, Filtered
    <3> QED BY <3>1, <3>2
  <2>4. IsFiniteSet(Existing')
    BY <1>4, FS_AddElement DEF JInv, RecordsKnown
  <2> QED BY <2>1, <2>2, <2>3, <2>4, <1>6 DEF RecordsKnown
<1>8. SlotsKnown'
  BY <1>1, <1>2, <1>4, <1>5, <1>6 DEF JInv, SlotsKnown
<1>9. JobsKnown'
  BY <1>1, <1>4 DEF JInv, JobsKnown
<1> QED BY <1>1, <1>4, <1>7, <1>8, <1>9 DEF SubmitEffect

LEMMA MatchKeeps ==
    ASSUME JInv, NEW r \in Reqs, Match(r)
    PROVE  SubmitEffect
<1>0. Typed
  BY DEF JInv, JTypeOK, Typed
<1>1. /\ UNCHANGED <<inp, records, jobs>> /\ pc[r] = "match"
  BY DEF Match, Continue, At, dbVars
<1>2. PICK old \in Existing : /\ target' = [target EXCEPT ![r] = old]
                              /\ snap' = [snap EXCEPT ![r] = records[old]]
                              /\ records[old].args = Filtered(r) /\ records[old].status = 0
  BY DEF Match, Reusable
<1>3. PICK label \in {"readhw", "write"} : pc' = [pc EXCEPT ![r] = label]
  BY DEF Match, Continue
<1>4. \A q \in Reqs : /\ pc'[q] = IF q = r THEN label ELSE pc[q]
                      /\ target'[q] = IF q = r THEN old ELSE target[q]
                      /\ snap'[q] = IF q = r THEN records[old] ELSE snap[q]
  BY <1>0, <1>2, <1>3 DEF Typed, TypeOK
<1>5. /\ Existing' = Existing
      /\ \A q : Filtered(q)' = Filtered(q) /\ Slot(q)' = Slot(q)
      /\ \A x, q : RowFor(x, q) => RowFor(x, q)'
  BY <1>1, RowsStay DEF Existing
<1>6. RowFor(records[old], old) /\ Filtered(old) = Filtered(r)
  BY <1>0, <1>2 DEF JInv, RecordsKnown, RowFor, Existing, Typed, TypeOK
<1>7. RecordsKnown'
  <2>1. \A q \in Reqs : pc'[q] \in Fresh => q \notin Existing
    BY <1>3, <1>4 DEF JInv, RecordsKnown, Fresh
  <2>2. ASSUME NEW q \in Reqs, pc'[q] \in Stored
        PROVE  /\ RowFor(snap[q], target[q])' /\ snap'[q].status = 0
               /\ Filtered(target[q])' = Filtered(q)'
    <3>1. PICK x, k : x = snap'[q] /\ k = target'[q]
      OBVIOUS
    <3>2. RowFor(x, k) /\ x.status = 0 /\ Filtered(k) = Filtered(q)
      <4>1. CASE q = r
        BY <4>1, <3>1, <1>2, <1>4, <1>6
      <4>2. CASE q # r
        BY <2>2, <4>2, <3>1, <1>4 DEF JInv, RecordsKnown
      <4> QED BY <4>1, <4>2
    <3>3. RowFor(x, k)'
      BY <3>2, <1>5
    <3> QED BY <3>1, <3>2, <3>3, <1>1 DEF RowFor, Filtered
  <2> QED BY <2>1, <2>2, <1>1, <1>5 DEF JInv, RecordsKnown
<1>8. SlotsKnown'
  BY <1>1, <1>3, <1>4, <1>5 DEF JInv, SlotsKnown
<1>9. JobsKnown'
  BY <1>1, <1>5 DEF JInv, JobsKnown
<1> QED BY <1>1, <1>5, <1>7, <1>8, <1>9 DEF SubmitEffect

(* A row is written that is a version of the one that was there.            *)
LEMMA RowWritten ==
    ASSUME JInv, NEW row, NEW q, RowFor(row, q), records' = [records EXCEPT ![q] = row]
    PROVE  /\ Existing' = Existing
           /\ \A x \in Existing : records'[x] = IF x = q THEN row ELSE records[x]
           /\ \A x \in Existing : records'[x].args = records[x].args
           /\ records' \in [Reqs -> Rows \cup {None}]
<1>1. q \in Existing /\ q \in Reqs /\ row \in Rows /\ row # None
      /\ records \in [Reqs -> Rows \cup {None}]
      /\ records[q].args = Filtered(q) /\ row.args = Filtered(q)
  BY SubmissionAssumption DEF RowFor, Existing, JInv, JTypeOK, TypeOK, RecordsKnown
<1> QED BY <1>1 DEF Existing

LEMMA SaveRecordKeeps ==
    ASSUME JInv, NEW r \in Reqs, SaveRecord(r)
    PROVE  SubmitEffect
<1> DEFINE t == target[r]
           row == [snap[r] EXCEPT !.by = r]
<1>0. Typed
  BY DEF JInv, JTypeOK, Typed
<1>1. /\ UNCHANGED <<inp, target, snap, jobs>> /\ pc[r] = "saverec"
      /\ records' = [records EXCEPT ![t] = row]
  BY DEF SaveRecord, Finish, Continue, localVars, At
<1>2. PICK label \in {"done", "post"} : pc' = [pc EXCEPT ![r] = label]
  BY DEF SaveRecord, Finish, Continue
<1>3. RowFor(row, t)
  <2>1. RowFor(snap[r], t)
    BY <1>1 DEF JInv, RecordsKnown, Stored
  <2>2. row \in Rows /\ row.args = snap[r].args
    BY <2>1 DEF RowFor, Rows
  <2> QED BY <2>1, <2>2 DEF RowFor
<1> HIDE DEF row, t
<1>4. /\ Existing' = Existing
      /\ \A x \in Existing : records'[x].args = records[x].args
  BY <1>1, <1>3, RowWritten
<1>5. \A q \in Reqs : /\ pc'[q] = IF q = r THEN label ELSE pc[q]
                      /\ pc'[q] \in Fresh => pc[q] \in Fresh
                      /\ pc'[q] \in Stored => pc[q] \in Stored
                      /\ pc'[q] \in {"match", "create"} => pc[q] = pc'[q]
  BY <1>0, <1>1, <1>2 DEF Typed, TypeOK, Fresh, Stored
<1>6. /\ \A q : Filtered(q)' = Filtered(q) /\ Slot(q)' = Slot(q)
      /\ \A x, q : RowFor(x, q) => RowFor(x, q)'
  BY <1>1, <1>4, RowsStay
<1>7. RecordsKnown'
  <2>1. ASSUME NEW q \in Reqs, pc'[q] \in Stored
        PROVE  /\ RowFor(snap[q], target[q])' /\ snap'[q].status = 0
               /\ Filtered(target[q])' = Filtered(q)'
    <3>1. PICK x, k : x = snap[q] /\ k = target[q]
      OBVIOUS
    <3>2. RowFor(x, k) /\ x.status = 0 /\ Filtered(k) = Filtered(q)
      BY <2>1, <3>1, <1>5 DEF JInv, RecordsKnown
    <3>3. RowFor(x, k)'
      BY <3>2, <1>6
    <3> QED BY <3>1, <3>2, <3>3, <1>1 DEF RowFor, Filtered
  <2> QED BY <2>1, <1>4, <1>5, <1>6 DEF JInv, RecordsKnown
<1>8. SlotsKnown'
  BY <1>1, <1>4, <1>5, <1>6 DEF JInv, SlotsKnown
<1>9. JobsKnown'
  BY <1>1, <1>4 DEF JInv, JobsKnown
<1> QED BY <1>1, <1>4, <1>7, <1>8, <1>9 DEF SubmitEffect

LEMMA JobAdded ==
    ASSUME JobsKnown, jobs \in [Judgers -> Seq(Reqs)], NEW j0, NEW q \in Existing,
           jobs'[j0] = Append(jobs[j0], q),
           \A j \in Judgers : j # j0 => jobs'[j] = jobs[j], Existing \subseteq Existing'
    PROVE  JobsKnown'
<1> SUFFICES ASSUME NEW j \in Judgers, NEW k \in DOMAIN jobs'[j]
             PROVE  jobs'[j][k] \in Existing
  BY DEF JobsKnown
<1>1. CASE j # j0
  BY <1>1 DEF JobsKnown
<1>2. CASE j = j0
  <2>1. PICK s \in Seq(Reqs) : s = jobs[j]
    BY <1>2
  <2>2. jobs'[j] = Append(s, q)
    BY <1>2, <2>1
  <2>3. k \in 1..(Len(s) + 1) /\ Len(s) \in Nat
    BY <2>2
  <2>4. CASE k = Len(s) + 1
    BY <2>2, <2>3, <2>4
  <2>5. CASE k \in 1..Len(s)
    <3>1. k \in DOMAIN jobs[j] /\ jobs'[j][k] = jobs[j][k]
      BY <2>1, <2>2, <2>5
    <3> QED BY <3>1 DEF JobsKnown
  <2> QED BY <2>3, <2>4, <2>5
<1> QED BY <1>1, <1>2

LEMMA PostKeeps ==
    ASSUME JInv, NEW r \in Reqs, Post(r)
    PROVE  SubmitEffect
<1>0. Typed
  BY DEF JInv, JTypeOK, Typed
<1>1. /\ UNCHANGED <<inp, records, target, snap>> /\ pc[r] = "post"
      /\ pc' = [pc EXCEPT ![r] = "done"]
      /\ jobs' = [jobs EXCEPT ![JudgerOf(inp[r])] = Append(@, target[r])]
  BY DEF Post, At, Finish, localVars, dbVars
<1>2. target[r] \in Existing
  BY <1>1 DEF JInv, RecordsKnown, Stored, RowFor
<1>3. PICK j0 \in Judgers : j0 = JudgerOf(inp[r])
  BY DEF Judgers, JudgerOf
<1>4. Existing' = Existing
  BY <1>1 DEF Existing
<1>5. JobsKnown'
  <2>1. jobs'[j0] = Append(jobs[j0], target[r]) /\ \A j \in Judgers : j # j0 => jobs'[j] = jobs[j]
    BY <1>0, <1>1, <1>3 DEF Typed, TypeOK
  <2> QED BY <1>0, <1>2, <1>4, <2>1, JobAdded DEF JInv, Typed, TypeOK
<1>6. \A q \in Reqs : /\ pc'[q] \in Fresh => pc[q] \in Fresh
                      /\ pc'[q] \in Stored => pc[q] \in Stored
                      /\ pc'[q] \in {"match", "create"} => pc[q] = pc'[q]
  BY <1>0, <1>1 DEF Typed, TypeOK, Fresh, Stored
<1>7. /\ \A q : Filtered(q)' = Filtered(q) /\ Slot(q)' = Slot(q)
      /\ \A x, q : RowFor(x, q) => RowFor(x, q)'
  BY <1>1, <1>4, RowsStay
<1>8. RecordsKnown'
  <2>1. ASSUME NEW q \in Reqs, pc'[q] \in Stored
        PROVE  /\ RowFor(snap[q], target[q])' /\ snap'[q].status = 0
               /\ Filtered(target[q])' = Filtered(q)'
    <3>1. PICK x, k : x = snap[q] /\ k = target[q]
      OBVIOUS
    <3>2. RowFor(x, k) /\ x.status = 0 /\ Filtered(k) = Filtered(q)
      BY <2>1, <3>1, <1>6 DEF JInv, RecordsKnown
    <3>3. RowFor(x, k)'
      BY <3>2, <1>7
    <3> QED BY <3>1, <3>2, <3>3, <1>1 DEF RowFor, Filtered
  <2> QED BY <2>1, <1>1, <1>4, <1>6, <1>7 DEF JInv, RecordsKnown
<1>9. SlotsKnown'
  BY <1>1, <1>4, <1>6, <1>7 DEF JInv, SlotsKnown
<1> QED BY <1>1, <1>4, <1>5, <1>8, <1>9 DEF SubmitEffect

LEMMA SubmitKeeps ==
    ASSUME JInv, NEW r \in Reqs, Submit(r)
    PROVE  JInv'
<1>1. Refuse(r) \/ Arrive(r) \/ Step(r)
  BY DEF Submit
<1>2. UNCHANGED judgeVars
  BY DEF Submit
<1>3. Typed'
  BY <1>1, TypedNext DEF JInv, JTypeOK, Typed, Next
<1>4. SubmitEffect
  BY <1>1, StillStep, StillKeeps, CreateKeeps, MatchKeeps, SaveRecordKeeps, PostKeeps
<1>5. \A t \in Tas : TaOK(t)'
  BY <1>2, <1>4, TaStays DEF judgeVars, taVars, JInv, SubmitEffect
<1>6. \A j \in Judgers : WorkOK(j)'
  BY <1>2, <1>4, WorkStays DEF judgeVars, workVars, JInv, SubmitEffect
<1>7. JTypeOK'
  BY <1>2, <1>3 DEF judgeVars, taVars, workVars, JInv, JTypeOK, Typed
<1> QED BY <1>3, <1>4, <1>5, <1>6, <1>7 DEF JInv, SubmitEffect, Typed

-----------------------------------------------------------------------------
(* The steps of assistants and judgers, which change no submission.         *)
TaLabels == {"idle", "finals", "record", "readjs", "savejs", "reset", "post",
             "unzip", "score", "done"}

TaTyped ==
    /\ tpc \in [Tas -> TaLabels]
    /\ tkind \in [Tas -> Kinds \cup {None}]
    /\ tslot \in [Tas -> Slots \cup {None}]
    /\ trows \in [Tas -> [Reqs -> Rows \cup {None}]]
    /\ tcur \in [Tas -> Reqs \cup {None}]
    /\ tjs \in [Tas -> States \cup {None}]
    /\ tanswer \in [Tas -> {"ok", "error", None}]

WorkTyped ==
    /\ wpc \in [Judgers -> {"idle", "run", "row", "readjs", "savejs", "detail", "save"}]
    /\ wrec \in [Judgers -> Reqs \cup {None}]
    /\ wsrc \in [Judgers -> Reqs \cup {None, "nothing"}]
    /\ wrow \in [Judgers -> Rows \cup {None}]
    /\ wjs \in [Judgers -> States \cup {None}]
    /\ detail \in [Reqs -> Reqs \cup {None, "nothing"}]

LEMMA JTypes == JTypeOK <=> TypeOK /\ TaTyped /\ WorkTyped
BY DEF JTypeOK, TaTyped, TaLabels, WorkTyped

Outside ==
    /\ UNCHANGED <<submitVars, ratios, homeworks, problems>>
    /\ \/ records' = records
       \/ \E row, q : RowFor(row, q) /\ records' = [records EXCEPT ![q] = row]
    /\ judgestates' \in [HwProblems -> States]
    /\ jobs' \in [Judgers -> Seq(Reqs)]

LEMMA OutsideKeeps ==
    ASSUME JInv, Outside
    PROVE  /\ inp' = inp /\ Existing' = Existing
           /\ TypeOK' /\ (\A r \in Reqs : StageOK(r)') /\ RecordsKnown' /\ SlotsKnown'
           /\ jobs' = jobs => JobsKnown'
<1> USE DEF Outside, submitVars, localVars, diskVars
<1>1. /\ inp' = inp /\ Existing' = Existing
      /\ records' \in [Reqs -> Rows \cup {None}]
      /\ \A q \in Existing : records'[q].args = records[q].args
  <2>0. inp' = inp
    OBVIOUS
  <2>1. CASE records' = records
    BY <2>1 DEF Existing, JInv, JTypeOK, TypeOK
  <2>2. CASE records' # records
    <3>1. PICK row, q : RowFor(row, q) /\ records' = [records EXCEPT ![q] = row]
      BY <2>2
    <3> HIDE DEF Outside
    <3> QED BY <2>0, <3>1, RowWritten
  <2> QED BY <2>0, <2>1, <2>2
<1>2. TypeOK'
  BY <1>1 DEF JInv, JTypeOK, TypeOK
<1>3. \A r \in Reqs : StageOK(r)'
  BY DEF JInv, StageOK, Slot
<1>4. /\ \A q : Filtered(q)' = Filtered(q) /\ Slot(q)' = Slot(q)
      /\ \A x, q : RowFor(x, q) => RowFor(x, q)'
  BY <1>1, RowsStay
<1>5. RecordsKnown'
  <2>1. ASSUME NEW q \in Reqs, pc'[q] \in Stored
        PROVE  /\ RowFor(snap[q], target[q])' /\ snap'[q].status = 0
               /\ Filtered(target[q])' = Filtered(q)'
    <3>1. PICK x, k : x = snap[q] /\ k = target[q]
      OBVIOUS
    <3>2. RowFor(x, k) /\ x.status = 0 /\ Filtered(k) = Filtered(q)
      BY <2>1, <3>1 DEF JInv, RecordsKnown
    <3>3. RowFor(x, k)'
      BY <3>2, <1>4
    <3> QED BY <3>1, <3>2, <3>3, <1>1 DEF RowFor, Filtered
  <2> QED BY <2>1, <1>1, <1>4 DEF JInv, RecordsKnown
<1>6. SlotsKnown'
  BY <1>1, <1>4 DEF JInv, SlotsKnown
<1>7. jobs' = jobs => JobsKnown'
  BY <1>1 DEF JInv, JobsKnown
<1> QED BY <1>1, <1>2, <1>3, <1>5, <1>6, <1>7

(* An assistant's step leaves the other assistants alone.                   *)
OneTa(t) ==
    /\ UNCHANGED <<workVars, detail>>
    /\ \A u \in Tas : u # t =>
           /\ tpc'[u] = tpc[u] /\ tkind'[u] = tkind[u] /\ tslot'[u] = tslot[u]
           /\ trows'[u] = trows[u] /\ tcur'[u] = tcur[u] /\ tjs'[u] = tjs[u]

LEMMA TaRest ==
    ASSUME JInv, NEW t \in Tas, Outside, OneTa(t), TaTyped', TaOK(t)', JobsKnown'
    PROVE  JInv'
<1>1. /\ inp' = inp /\ Existing' = Existing
      /\ TypeOK' /\ (\A r \in Reqs : StageOK(r)') /\ RecordsKnown' /\ SlotsKnown'
  BY OutsideKeeps
<1>2. \A u \in Tas : TaOK(u)'
  BY <1>1, TaStays DEF OneTa, JInv
<1>3. \A j \in Judgers : WorkOK(j)'
  BY <1>1, WorkStays DEF OneTa, workVars, JInv
<1>4. WorkTyped'
  BY JTypes DEF OneTa, workVars, WorkTyped, JInv
<1>5. JTypeOK'
  BY <1>1, <1>4 DEF JTypeOK, TaTyped, TaLabels, WorkTyped
<1> QED BY <1>1, <1>2, <1>3, <1>5 DEF JInv

LEMMA TaRow ==
    ASSUME inp' = inp, Existing' = Existing, NEW row, NEW q, RowFor(row, q)
    PROVE  RowFor(row, q)'
BY RowsStay

(* Steps that keep the rows an assistant has read.                          *)
LEMMA TaSame ==
    ASSUME JInv, NEW t \in Tas, inp' = inp, Existing' = Existing,
           trows'[t] = trows[t], tslot'[t] = tslot[t], tkind'[t] = tkind[t], tpc[t] # "idle",
           tpc'[t] \in {"readjs", "savejs", "reset", "post", "unzip", "done"},
           tpc'[t] = "savejs" => tjs'[t] \in States /\ tslot[t] \in HwProblems,
           tpc'[t] \in {"post", "unzip"} => tcur'[t] \in Left(t)
    PROVE  TaOK(t)'
<1>1. Left(t)' = Left(t) /\ TaOK(t)
  BY DEF Left, JInv
<1>2. ASSUME NEW q \in Left(t)
      PROVE  RowFor(trows[t][q], q)' /\ inp'[q].type = FinalType(tslot'[t])
  <2>1. PICK row : row = trows[t][q] /\ RowFor(row, q)
    BY <1>1 DEF TaOK
  <2>2. RowFor(row, q)'
    BY <2>1, TaRow
  <2> QED BY <1>1, <2>1, <2>2 DEF TaOK, RowFor
<1> QED BY <1>1, <1>2 DEF TaOK, FinalType

LEMMA TaHandled ==
    ASSUME JInv, NEW t \in Tas, inp' = inp, Existing' = Existing, Handled(t),
           tslot'[t] = tslot[t], tkind'[t] = tkind[t], tpc[t] \in {"post", "unzip"},
           tpc'[t] = "reset"
    PROVE  TaOK(t)' /\ trows' \in [Tas -> [Reqs -> Rows \cup {None}]]
<1>1. /\ TaOK(t) /\ tcur[t] \in Left(t) /\ tcur[t] \in Reqs
      /\ trows \in [Tas -> [Reqs -> Rows \cup {None}]]
  BY DEF JInv, JTypeOK, TaOK, Left
<1>2. trows' \in [Tas -> [Reqs -> Rows \cup {None}]]
  BY <1>1 DEF Handled
<1>3. \A q \in Reqs : trows'[t][q] = IF q = tcur[t] THEN None ELSE trows[t][q]
  BY <1>1 DEF Handled
<1>4. Left(t)' = Left(t) \ {tcur[t]}
  BY <1>3 DEF Left
<1>5. IsFiniteSet(Left(t)')
  BY <1>1, <1>4, FS_Subset DEF TaOK
<1>6. ASSUME NEW q \in Left(t)'
      PROVE  RowFor(trows[t][q], q)' /\ inp'[q].type = FinalType(tslot'[t])
  <2>1. q \in Reqs /\ q \in Left(t) /\ trows'[t][q] = trows[t][q]
    BY <1>3, <1>4, <1>6 DEF Left
  <2>2. PICK row : row = trows[t][q] /\ RowFor(row, q)
    BY <1>1, <2>1 DEF TaOK
  <2>3. RowFor(row, q)'
    BY <2>2, TaRow
  <2> QED BY <1>1, <2>1, <2>2, <2>3 DEF TaOK, RowFor
<1> QED BY <1>1, <1>2, <1>5, <1>6 DEF TaOK, FinalType

LEMMA Untouched ==
    ASSUME JInv, UNCHANGED <<submitVars, dbVars, jobs>>
    PROVE  Outside /\ inp' = inp /\ Existing' = Existing /\ JobsKnown'
<1>1. Outside
  BY DEF Outside, dbVars, JInv, JTypeOK, TypeOK
<1>2. jobs' = jobs
  OBVIOUS
<1> QED BY <1>1, <1>2, OutsideKeeps

LEMMA FinalsKnown ==
    ASSUME JInv, NEW s \in Slots, NEW q \in Finals(s)
    PROVE  RowFor(records[q], q) /\ inp[q].type = FinalType(s) /\ records[q] # None
<1>1. q \in Existing /\ q \in Reqs /\ records[q] \in Rows /\ records[q] # None
  BY DEF Finals, Existing, JInv, JTypeOK, TypeOK
<1>2. records[q].args = Filtered(q)
  BY <1>1 DEF JInv, RecordsKnown
<1>3. Filtered(q).type = inp[q].type
  BY <1>1, InputFacts DEF JInv, JTypeOK, Typed, Filtered, Columns
<1> QED BY <1>1, <1>2, <1>3 DEF Finals, RowFor, FinalType

LEMMA StartKeeps ==
    ASSUME JInv, NEW t \in Tas, Start(t)
    PROVE  JInv'
<1>1. Outside /\ inp' = inp /\ Existing' = Existing /\ JobsKnown'
  BY Untouched DEF Start
<1>2. TaTyped /\ tpc[t] = "idle" /\ TaOK(t)
  BY JTypes DEF JInv, Start
<1>3. PICK kind \in Kinds, s \in Slots :
         /\ kind = "score" <=> (Method[s[2]] = 2 /\ kind # "all")
         /\ tkind' = [tkind EXCEPT ![t] = kind]
         /\ tslot' = [tslot EXCEPT ![t] = s]
         /\ tpc' = [tpc EXCEPT ![t] = IF kind = "all" THEN "finals" ELSE "record"]
  BY DEF Start, Offered
<1>4. UNCHANGED <<trows, tcur, tjs, tanswer, workVars, detail>>
  BY DEF Start
<1>5. TaTyped' /\ OneTa(t)
  BY <1>2, <1>3, <1>4 DEF TaTyped, TaLabels, OneTa
<1>6. TaOK(t)'
  <2>1. Left(t)' = {}
    BY <1>2, <1>4 DEF TaOK, Left
  <2>2. tpc'[t] \in {"finals", "record"} /\ tkind'[t] = kind /\ tslot'[t] = s
    BY <1>2, <1>3 DEF TaTyped
  <2> QED BY <1>3, <2>1, <2>2, FS_EmptySet DEF TaOK, FinalType
<1> QED BY <1>1, <1>5, <1>6, TaRest

LEMMA ReadFinalsKeeps ==
    ASSUME JInv, NEW t \in Tas, ReadFinals(t)
    PROVE  JInv'
<1>1. Outside /\ inp' = inp /\ Existing' = Existing /\ JobsKnown'
  BY Untouched DEF ReadFinals
<1>2. TaTyped /\ TypeOK /\ tpc[t] = "finals" /\ tslot[t] \in Slots /\ tkind[t] \in Kinds
  BY JTypes DEF JInv, TaOK, ReadFinals
<1>3. /\ tpc' = [tpc EXCEPT ![t] = "readjs"]
      /\ trows' = [trows EXCEPT ![t] = [q \in Reqs |-> IF q \in Finals(tslot[t])
                                                       THEN records[q] ELSE None]]
      /\ UNCHANGED <<tkind, tslot, tcur, tjs, tanswer, workVars, detail>>
  BY DEF ReadFinals
<1>4. TaTyped' /\ OneTa(t)
  BY <1>2, <1>3 DEF TaTyped, TaLabels, OneTa, TypeOK
<1>5. \A q \in Reqs : trows'[t][q] = IF q \in Finals(tslot[t]) THEN records[q] ELSE None
  BY <1>2, <1>3 DEF TaTyped
<1>6. Left(t)' \subseteq Finals(tslot[t]) /\ Finals(tslot[t]) \subseteq Existing
  BY <1>5 DEF Left, Finals
<1>7. IsFiniteSet(Left(t)')
  BY <1>6, FS_Subset DEF JInv, RecordsKnown
<1>8. ASSUME NEW q \in Left(t)'
      PROVE  RowFor(trows[t][q], q)' /\ inp'[q].type = FinalType(tslot[t])
  <2>1. q \in Finals(tslot[t]) /\ trows'[t][q] = records[q]
    BY <1>5, <1>6, <1>8 DEF Left
  <2>2. PICK row : row = records[q]
    OBVIOUS
  <2>3. RowFor(row, q) /\ inp[q].type = FinalType(tslot[t])
    BY <1>2, <2>1, <2>2, FinalsKnown
  <2>4. RowFor(row, q)'
    BY <1>1, <2>3, TaRow
  <2> QED BY <1>1, <2>1, <2>2, <2>3, <2>4 DEF RowFor
<1>9. TaOK(t)'
  <2>1. tpc'[t] = "readjs" /\ tkind'[t] = tkind[t] /\ tslot'[t] = tslot[t]
    BY <1>2, <1>3 DEF TaTyped
  <2> QED BY <1>2, <1>7, <1>8, <2>1 DEF TaOK, FinalType
<1> QED BY <1>1, <1>4, <1>9, TaRest

LEMMA ReadRecordKeeps ==
    ASSUME JInv, NEW t \in Tas, ReadRecord(t)
    PROVE  JInv'
<1>1. Outside /\ inp' = inp /\ Existing' = Existing /\ JobsKnown'
  BY Untouched DEF ReadRecord
<1>2. /\ TaTyped /\ TypeOK /\ tpc[t] = "record" /\ tslot[t] \in Slots /\ tkind[t] \in Kinds
      /\ Left(t) = {} /\ TaOK(t)
  BY JTypes DEF JInv, TaOK, ReadRecord
<1>3. PICK q \in Finals(tslot[t]) : trows' = [trows EXCEPT ![t][q] = records[q]]
  BY DEF ReadRecord
<1>4. /\ tpc' = [tpc EXCEPT ![t] = IF tkind[t] = "score" THEN "score" ELSE "readjs"]
      /\ UNCHANGED <<tkind, tslot, tcur, tjs, tanswer, workVars, detail>>
  BY DEF ReadRecord
<1>5. q \in Reqs /\ RowFor(records[q], q) /\ inp[q].type = FinalType(tslot[t])
  BY <1>2, <1>3, FinalsKnown DEF RowFor, Existing
<1>6. TaTyped' /\ OneTa(t)
  BY <1>2, <1>3, <1>4, <1>5 DEF TaTyped, TaLabels, OneTa, TypeOK
<1>7. /\ \A x \in Reqs : trows'[t][x] = IF x = q THEN records[q] ELSE trows[t][x]
      /\ tpc'[t] = IF tkind[t] = "score" THEN "score" ELSE "readjs"
      /\ tkind'[t] = tkind[t] /\ tslot'[t] = tslot[t]
  BY <1>2, <1>3, <1>4 DEF TaTyped
<1>8. Left(t)' \subseteq {q}
  BY <1>2, <1>7 DEF Left
<1>9. IsFiniteSet(Left(t)')
  BY <1>8, FS_Singleton, FS_Subset
<1>10. RowFor(trows[t][q], q)'
  <2>1. PICK row : row = records[q]
    OBVIOUS
  <2>2. RowFor(row, q)'
    BY <1>1, <1>5, <2>1, TaRow
  <2> QED BY <1>5, <1>7, <2>1, <2>2 DEF RowFor
<1>11. TaOK(t)'
  BY <1>1, <1>2, <1>5, <1>7, <1>8, <1>9, <1>10 DEF TaOK, FinalType
<1> QED BY <1>1, <1>6, <1>11, TaRest

(* Steps of an assistant that only move it on.                              *)
LEMMA MovesKeep ==
    ASSUME JInv, NEW t \in Tas, NoConfig(t) \/ NoRecord(t) \/ ReadStateTa(t) \/ NoStateTa(t)
                                 \/ LoopEnds(t) \/ PostTaFails(t) \/ UnzipFails(t)
    PROVE  JInv'
<1>1. Outside /\ inp' = inp /\ Existing' = Existing /\ JobsKnown'
  BY Untouched DEF NoConfig, NoRecord, ReadStateTa, NoStateTa, LoopEnds, PostTaFails, UnzipFails
<1>2. TaTyped /\ TypeOK /\ TaOK(t)
  BY JTypes DEF JInv
<1>3. UNCHANGED <<tkind, tslot, trows, tcur, workVars, detail>>
  BY DEF NoConfig, NoRecord, ReadStateTa, NoStateTa, LoopEnds, PostTaFails, UnzipFails, Return
<1>4. /\ tpc[t] # "idle" /\ \E label \in {"savejs", "reset", "done"} :
                                tpc' = [tpc EXCEPT ![t] = label]
      /\ tanswer' \in [Tas -> {"ok", "error", None}]
  BY <1>2 DEF NoConfig, NoRecord, ReadStateTa, NoStateTa, LoopEnds, PostTaFails, UnzipFails, Return,
     TaTyped
<1>5. \/ tjs' = tjs /\ tpc'[t] # "savejs"
      \/ tslot[t] \in HwProblems /\ tjs' = [tjs EXCEPT ![t] = judgestates[tslot[t]]]
  BY <1>2 DEF NoConfig, NoRecord, ReadStateTa, NoStateTa, LoopEnds, PostTaFails, UnzipFails, Return,
     TaTyped
<1>6. TaTyped' /\ OneTa(t)
  BY <1>2, <1>3, <1>4, <1>5 DEF TaTyped, TaLabels, OneTa, TypeOK
<1>7. /\ tpc'[t] \in {"savejs", "reset", "done"}
      /\ tpc'[t] = "savejs" => tjs'[t] \in States /\ tslot[t] \in HwProblems
  BY <1>2, <1>4, <1>5 DEF TaTyped, TypeOK
<1>8. TaOK(t)'
  BY <1>1, <1>3, <1>4, <1>7, TaSame
<1> QED BY <1>1, <1>6, <1>8, TaRest

LEMMA SaveStateAllKeeps ==
    ASSUME JInv, NEW t \in Tas, SaveStateAll(t)
    PROVE  JInv'
<1>1. /\ TaTyped /\ TypeOK /\ TaOK(t) /\ tpc[t] = "savejs"
      /\ tjs[t] \in States /\ tslot[t] \in HwProblems
  BY JTypes DEF JInv, TaOK, SaveStateAll
<1>2. PICK n \in Nat : n = Cardinality(Left(t))
  BY <1>1, FS_CardinalityType DEF TaOK
<1>3. judgestates' = [judgestates EXCEPT ![tslot[t]] = [tjs[t] EXCEPT !.judged = 0, !.waiting = n]]
  BY <1>2 DEF SaveStateAll
<1>4. [tjs[t] EXCEPT !.judged = 0, !.waiting = n] \in States
  BY <1>1 DEF States
<1>5. /\ UNCHANGED <<submitVars, records, ratios, homeworks, problems, jobs>>
      /\ UNCHANGED <<tkind, tslot, trows, tcur, tjs, tanswer, workVars, detail>>
      /\ tpc' = [tpc EXCEPT ![t] = "reset"]
  BY DEF SaveStateAll
<1>6. Outside
  BY <1>1, <1>3, <1>4, <1>5 DEF Outside, TypeOK
<1>7. TaTyped' /\ OneTa(t) /\ tpc'[t] = "reset"
  BY <1>1, <1>5 DEF TaTyped, TaLabels, OneTa
<1>8. inp' = inp /\ Existing' = Existing /\ JobsKnown'
  BY <1>5, <1>6, OutsideKeeps
<1>9. TaOK(t)'
  BY <1>1, <1>5, <1>7, <1>8, TaSame
<1> QED BY <1>6, <1>7, <1>8, <1>9, TaRest

LEMMA ResetKeeps ==
    ASSUME JInv, NEW t \in Tas, Reset(t)
    PROVE  JInv'
<1>1. TaTyped /\ TypeOK /\ TaOK(t) /\ tpc[t] = "reset"
  BY JTypes DEF JInv, TaOK, Reset
<1>2. PICK q \in Left(t) :
         /\ records' = [records EXCEPT ![q] = [trows[t][q] EXCEPT !.status = 0, !.result = None]]
         /\ tcur' = [tcur EXCEPT ![t] = q]
  BY DEF Reset
<1>3. PICK row : row = [trows[t][q] EXCEPT !.status = 0, !.result = None]
  OBVIOUS
<1>4. RowFor(row, q) /\ q \in Reqs
  BY <1>1, <1>2, <1>3 DEF TaOK, RowFor, Rows, Left
<1>5. PICK label \in {"unzip", "post"} : tpc' = [tpc EXCEPT ![t] = label]
  BY DEF Reset
<1>6. /\ UNCHANGED <<submitVars, judgestates, ratios, homeworks, problems, jobs>>
      /\ UNCHANGED <<tkind, tslot, trows, tjs, tanswer, workVars, detail>>
  BY DEF Reset
<1>7. Outside
  BY <1>1, <1>2, <1>3, <1>4, <1>6 DEF Outside, TypeOK
<1>8. TaTyped' /\ OneTa(t) /\ tpc'[t] = label /\ tcur'[t] = q
  BY <1>1, <1>2, <1>4, <1>5, <1>6 DEF TaTyped, TaLabels, OneTa
<1>9. inp' = inp /\ Existing' = Existing /\ JobsKnown'
  BY <1>6, <1>7, OutsideKeeps
<1>10. TaOK(t)'
  BY <1>1, <1>2, <1>6, <1>8, <1>9, TaSame
<1> QED BY <1>7, <1>8, <1>9, <1>10, TaRest

LEMMA ScoreKeeps ==
    ASSUME JInv, NEW t \in Tas, Score(t)
    PROVE  JInv'
<1>1. TaTyped /\ TypeOK /\ TaOK(t) /\ tpc[t] = "score"
  BY JTypes DEF JInv, TaOK, Score
<1>2. PICK q \in Left(t) : records' = [records EXCEPT ![q] = [trows[t][q] EXCEPT !.status = 1]]
  BY DEF Score
<1>3. PICK row : row = [trows[t][q] EXCEPT !.status = 1]
  OBVIOUS
<1>4. RowFor(row, q) /\ q \in Reqs
  BY <1>1, <1>2, <1>3 DEF TaOK, RowFor, Rows, Left
<1>5. /\ UNCHANGED <<submitVars, judgestates, ratios, homeworks, problems, jobs>>
      /\ UNCHANGED <<tkind, tslot, trows, tcur, tjs, workVars, detail>>
      /\ tpc' = [tpc EXCEPT ![t] = "done"] /\ tanswer' = [tanswer EXCEPT ![t] = "ok"]
  BY DEF Score, Return
<1>6. Outside
  BY <1>1, <1>2, <1>3, <1>4, <1>5 DEF Outside, TypeOK
<1>7. TaTyped' /\ OneTa(t) /\ tpc'[t] = "done"
  BY <1>1, <1>5 DEF TaTyped, TaLabels, OneTa
<1>8. inp' = inp /\ Existing' = Existing /\ JobsKnown'
  BY <1>5, <1>6, OutsideKeeps
<1>9. TaOK(t)'
  BY <1>1, <1>5, <1>7, <1>8, TaSame
<1> QED BY <1>6, <1>7, <1>8, <1>9, TaRest

LEMMA HandledKeeps ==
    ASSUME JInv, NEW t \in Tas, PostTa(t) \/ Unzip(t)
    PROVE  JInv'
<1>1. /\ TaTyped /\ TypeOK /\ TaOK(t) /\ tpc[t] \in {"post", "unzip"}
      /\ tcur[t] \in Left(t) /\ Handled(t)
  BY JTypes DEF JInv, TaOK, PostTa, Unzip
<1>2. tcur[t] \in Existing /\ tcur[t] \in Reqs
  BY <1>1 DEF TaOK, RowFor, Existing
<1>3. /\ UNCHANGED <<submitVars, dbVars, tkind, tslot, tcur, tjs, tanswer, workVars, detail>>
      /\ tpc' = [tpc EXCEPT ![t] = "reset"]
  BY DEF PostTa, Unzip
<1>4. jobs' = jobs \/ jobs' = [j \in Judgers |-> IF j \in JudgerFor(t) THEN Append(jobs[j], tcur[t])
                                                 ELSE jobs[j]]
  BY DEF PostTa, Unzip
<1>5. jobs' \in [Judgers -> Seq(Reqs)]
  <2>1. CASE jobs' = jobs
    BY <1>1, <2>1 DEF TypeOK
  <2>2. CASE jobs' # jobs
    <3>1. ASSUME NEW j \in Judgers
          PROVE  jobs'[j] \in Seq(Reqs)
      <4>1. PICK s \in Seq(Reqs) : s = jobs[j]
        BY <1>1 DEF TypeOK
      <4>2. jobs'[j] \in {Append(s, tcur[t]), s}
        BY <1>4, <2>2, <4>1
      <4> QED BY <1>2, <4>2
    <3>2. jobs' = [j \in Judgers |-> jobs'[j]]
      BY <1>4, <2>2
    <3> QED BY <3>1, <3>2
  <2> QED BY <2>1, <2>2
<1>6. Outside
  BY <1>1, <1>3, <1>5 DEF Outside, TypeOK, dbVars
<1>7. inp' = inp /\ Existing' = Existing
  BY <1>6, OutsideKeeps
<1>8. JobsKnown'
  <2> SUFFICES ASSUME NEW j \in Judgers, NEW k \in DOMAIN jobs'[j]
               PROVE  jobs'[j][k] \in Existing
    BY <1>7 DEF JobsKnown
  <2>1. PICK s \in Seq(Reqs) : s = jobs[j]
    BY <1>1 DEF TypeOK
  <2>2. jobs'[j] = s \/ jobs'[j] = Append(s, tcur[t])
    BY <1>4, <2>1
  <2>3. \A i \in 1..Len(s) : s[i] \in Existing
    BY <2>1 DEF JInv, JobsKnown
  <2> QED BY <1>2, <2>1, <2>2, <2>3
<1>9. trows' \in [Tas -> [Reqs -> Rows \cup {None}]] /\ TaOK(t)'
  <2>1. tpc'[t] = "reset" /\ tslot'[t] = tslot[t] /\ tkind'[t] = tkind[t]
    BY <1>1, <1>3 DEF TaTyped
  <2> QED BY <1>1, <1>7, <2>1, TaHandled
<1>10. TaTyped' /\ OneTa(t)
  BY <1>1, <1>3, <1>9 DEF TaTyped, TaLabels, OneTa, Handled
<1> QED BY <1>6, <1>8, <1>9, <1>10, TaRest

LEMMA TaKeeps ==
    ASSUME JInv, NEW t \in Tas, Start(t) \/ TaStep(t)
    PROVE  JInv'
BY StartKeeps, ReadFinalsKeeps, ReadRecordKeeps, MovesKeep, SaveStateAllKeeps, ResetKeeps,
   ScoreKeeps, HandledKeeps DEF TaStep

(* A judger thread leaves the other one alone.                              *)
OneWork(j) ==
    /\ UNCHANGED taVars
    /\ \A q \in Reqs : detail[q] # None => detail'[q] # None
    /\ \A i \in Judgers : i # j =>
           /\ wpc'[i] = wpc[i] /\ wrec'[i] = wrec[i] /\ wsrc'[i] = wsrc[i]
           /\ wrow'[i] = wrow[i] /\ wjs'[i] = wjs[i]

LEMMA WorkRest ==
    ASSUME JInv, NEW j \in Judgers, Outside, OneWork(j), WorkTyped', WorkOK(j)', JobsKnown'
    PROVE  JInv'
<1>1. /\ inp' = inp /\ Existing' = Existing
      /\ TypeOK' /\ (\A r \in Reqs : StageOK(r)') /\ RecordsKnown' /\ SlotsKnown'
  BY OutsideKeeps
<1>2. \A t \in Tas : TaOK(t)'
  BY <1>1, TaStays DEF OneWork, taVars, JInv
<1>3. \A i \in Judgers : WorkOK(i)'
  BY <1>1, WorkStays DEF OneWork, JInv
<1>4. TaTyped'
  BY JTypes DEF OneWork, taVars, TaTyped, JInv
<1>5. JTypeOK'
  BY <1>1, <1>4 DEF JTypeOK, TaTyped, TaLabels, WorkTyped
<1> QED BY <1>1, <1>2, <1>3, <1>5 DEF JInv

LEMMA TakeKeeps ==
    ASSUME JInv, NEW j \in Judgers, Take(j)
    PROVE  JInv'
<1>1. WorkTyped /\ TypeOK /\ WorkOK(j) /\ JobsKnown /\ wpc[j] = "idle" /\ jobs[j] # <<>>
  BY JTypes DEF JInv, Take
<1>2. PICK s \in Seq(Reqs) : s = jobs[j]
  BY <1>1 DEF TypeOK
<1>3. /\ wrec' = [wrec EXCEPT ![j] = Head(s)] /\ jobs' = [jobs EXCEPT ![j] = Tail(s)]
      /\ wpc' = [wpc EXCEPT ![j] = "run"]
      /\ UNCHANGED <<wsrc, wrow, wjs, taVars, detail, submitVars, dbVars>>
  BY <1>2 DEF Take
<1>4. /\ Head(s) \in Reqs /\ Tail(s) \in Seq(Reqs) /\ Head(s) \in Existing
      /\ \A k \in DOMAIN Tail(s) : Tail(s)[k] \in Existing
  <2>1. s # <<>> /\ \A k \in 1..Len(s) : s[k] \in Existing
    BY <1>1, <1>2 DEF JobsKnown
  <2> QED BY <2>1
<1>5. Outside
  BY <1>1, <1>3, <1>4 DEF Outside, TypeOK, dbVars
<1>6. inp' = inp /\ Existing' = Existing
  BY <1>5, OutsideKeeps
<1>7. JobsKnown'
  <2>1. jobs'[j] = Tail(s) /\ \A i \in Judgers : i # j => jobs'[i] = jobs[i]
    BY <1>1, <1>3 DEF TypeOK
  <2> QED BY <1>1, <1>4, <1>6, <2>1 DEF JobsKnown
<1>8. WorkTyped' /\ OneWork(j) /\ wpc'[j] = "run" /\ wrec'[j] = Head(s)
  BY <1>1, <1>3, <1>4 DEF WorkTyped, OneWork
<1>9. WorkOK(j)'
  BY <1>4, <1>6, <1>8 DEF WorkOK
<1> QED BY <1>5, <1>7, <1>8, <1>9, WorkRest

LEMMA RunKeeps ==
    ASSUME JInv, NEW j \in Judgers, Run(j)
    PROVE  JInv'
<1>1. WorkTyped /\ TypeOK /\ WorkOK(j) /\ wpc[j] = "run" /\ wrec[j] \in Existing
  BY JTypes DEF JInv, WorkOK, Run
<1>2. PICK code \in Reqs \cup {"nothing"} : wsrc' = [wsrc EXCEPT ![j] = code]
  <2>1. wrec[j] \in Reqs /\ source[wrec[j]] \in Reqs \cup {None}
    BY <1>1 DEF Existing, TypeOK
  <2> QED BY <2>1 DEF Run
<1>3. /\ wpc' = [wpc EXCEPT ![j] = "row"]
      /\ UNCHANGED <<wrec, wrow, wjs, taVars, detail, submitVars, dbVars, jobs>>
  BY DEF Run
<1>4. Outside /\ inp' = inp /\ Existing' = Existing /\ JobsKnown'
  BY <1>3, Untouched
<1>5. WorkTyped' /\ OneWork(j) /\ wpc'[j] = "row" /\ wsrc'[j] = code
  BY <1>1, <1>2, <1>3 DEF WorkTyped, OneWork
<1>6. WorkOK(j)'
  BY <1>1, <1>3, <1>4, <1>5 DEF WorkOK
<1> QED BY <1>4, <1>5, <1>6, WorkRest

LEMMA ReadRowKeeps ==
    ASSUME JInv, NEW j \in Judgers, ReadRow(j)
    PROVE  JInv'
<1>1. /\ WorkTyped /\ TypeOK /\ WorkOK(j) /\ wpc[j] = "row" /\ wrec[j] \in Existing
      /\ wsrc[j] \in Reqs \cup {"nothing"}
  BY JTypes DEF JInv, WorkOK, ReadRow
<1>2. PICK row : row = records[wrec[j]]
  OBVIOUS
<1>3. RowFor(row, wrec[j]) /\ row \in Rows
  BY <1>1, <1>2 DEF JInv, RecordsKnown, RowFor, Existing, TypeOK
<1>4. /\ wrow' = [wrow EXCEPT ![j] = row]
      /\ wpc' = [wpc EXCEPT ![j] = IF Counts(row) THEN "readjs" ELSE "detail"]
      /\ UNCHANGED <<wrec, wsrc, wjs, taVars, detail, submitVars, dbVars, jobs>>
  BY <1>2 DEF ReadRow
<1>5. Outside /\ inp' = inp /\ Existing' = Existing /\ JobsKnown'
  BY <1>4, Untouched
<1>6. /\ WorkTyped' /\ OneWork(j) /\ wrow'[j] = row
      /\ wpc'[j] = IF Counts(row) THEN "readjs" ELSE "detail"
  BY <1>1, <1>3, <1>4 DEF WorkTyped, OneWork
<1>7. RowFor(row, wrec[j])'
  <2>1. PICK q : q = wrec[j]
    OBVIOUS
  <2>2. RowFor(row, q)'
    BY <1>3, <1>5, <2>1, TaRow
  <2> QED BY <1>4, <2>1, <2>2 DEF RowFor
<1>8. WorkOK(j)'
  BY <1>1, <1>4, <1>5, <1>6, <1>7 DEF WorkOK, RowFor, Counts
<1> QED BY <1>5, <1>6, <1>8, WorkRest

(* The row a thread works on keeps what it said.                            *)
LEMMA WorkRow ==
    ASSUME NEW j \in Judgers, WorkOK(j), inp' = inp, Existing' = Existing,
           wpc[j] \in {"readjs", "savejs", "detail", "save"},
           wrow'[j] = wrow[j], wrec'[j] = wrec[j]
    PROVE  RowFor(wrow[j], wrec[j])'
<1>1. PICK row, q : row = wrow[j] /\ q = wrec[j] /\ RowFor(row, q)
  BY DEF WorkOK
<1>2. RowFor(row, q)'
  BY <1>1, TaRow
<1> QED BY <1>1, <1>2 DEF RowFor

LEMMA SlotKnown ==
    ASSUME JInv, NEW j \in Judgers, wpc[j] \in {"readjs", "savejs"}
    PROVE  JobSlot(j) \in HwProblems
<1>1. RowFor(wrow[j], wrec[j]) /\ Counts(wrow[j]) /\ wrec[j] \in Reqs
  BY DEF JInv, WorkOK, RowFor, Existing
<1>2. /\ Filtered(wrec[j]).type = inp[wrec[j]].type /\ Filtered(wrec[j]).hw = inp[wrec[j]].hw
      /\ Filtered(wrec[j]).prob = inp[wrec[j]].prob
  BY <1>1, InputFacts DEF JInv, JTypeOK, Typed, Filtered, Columns
<1>3. Slot(wrec[j]) \in HwProblems /\ JobSlot(j) = Slot(wrec[j])
  BY <1>1, <1>2 DEF RowFor, Counts, JInv, SlotsKnown, Slot, JobSlot
<1> QED BY <1>3

LEMMA StatesKeep ==
    ASSUME JInv, NEW j \in Judgers, ReadState(j) \/ SaveState(j)
    PROVE  JInv'
<1>1. /\ WorkTyped /\ TypeOK /\ WorkOK(j) /\ wpc[j] \in {"readjs", "savejs"}
      /\ JobSlot(j) \in HwProblems
  BY JTypes, SlotKnown DEF JInv, ReadState, SaveState
<1>2. CASE ReadState(j)
  <2>1. /\ wjs' = [wjs EXCEPT ![j] = judgestates[JobSlot(j)]]
        /\ wpc' = [wpc EXCEPT ![j] = "savejs"] /\ wpc[j] = "readjs"
        /\ UNCHANGED <<wrec, wsrc, wrow, taVars, detail, submitVars, dbVars, jobs>>
    BY <1>2 DEF ReadState
  <2>2. Outside /\ inp' = inp /\ Existing' = Existing /\ JobsKnown'
    BY <2>1, Untouched
  <2>3. judgestates[JobSlot(j)] \in States
    BY <1>1 DEF TypeOK
  <2>4. WorkTyped' /\ OneWork(j) /\ wpc'[j] = "savejs" /\ wjs'[j] \in States
    BY <1>1, <2>1, <2>3 DEF WorkTyped, OneWork
  <2>5. RowFor(wrow[j], wrec[j])'
    BY <1>1, <2>1, <2>2, WorkRow
  <2>6. WorkOK(j)'
    BY <1>1, <2>1, <2>2, <2>4, <2>5 DEF WorkOK, RowFor, Counts
  <2> QED BY <2>2, <2>4, <2>6, WorkRest
<1>3. CASE SaveState(j)
  <2>1. /\ wpc' = [wpc EXCEPT ![j] = "detail"] /\ wpc[j] = "savejs"
        /\ judgestates' = [judgestates EXCEPT ![JobSlot(j)] = [wjs[j] EXCEPT !.judged = @ + 1]]
        /\ UNCHANGED <<wrec, wsrc, wrow, wjs, taVars, detail, submitVars, jobs>>
        /\ UNCHANGED <<records, ratios, homeworks, problems>>
    BY <1>3 DEF SaveState
  <2>2. [wjs[j] EXCEPT !.judged = @ + 1] \in States
    BY <1>1, <2>1 DEF WorkOK, States
  <2>3. Outside
    BY <1>1, <2>1, <2>2 DEF Outside, TypeOK
  <2>4. inp' = inp /\ Existing' = Existing /\ JobsKnown'
    BY <2>1, <2>3, OutsideKeeps
  <2>5. WorkTyped' /\ OneWork(j) /\ wpc'[j] = "detail"
    BY <1>1, <2>1 DEF WorkTyped, OneWork
  <2>6. RowFor(wrow[j], wrec[j])'
    BY <1>1, <2>1, <2>4, WorkRow
  <2>7. WorkOK(j)'
    BY <1>1, <2>1, <2>4, <2>5, <2>6 DEF WorkOK, RowFor
  <2> QED BY <2>3, <2>4, <2>5, <2>7, WorkRest
<1> QED BY <1>2, <1>3

LEMMA DetailKeeps ==
    ASSUME JInv, NEW j \in Judgers, WriteDetail(j) \/ NoDirectory(j)
    PROVE  JInv'
<1>1. /\ WorkTyped /\ TypeOK /\ WorkOK(j) /\ wpc[j] = "detail" /\ wrec[j] \in Existing
      /\ wsrc[j] \in Reqs \cup {"nothing"} /\ wsrc[j] # None /\ wrec[j] \in Reqs
  BY JTypes, SubmissionAssumption DEF JInv, WorkOK, WriteDetail, NoDirectory, Existing
<1>2. /\ \/ detail' = [detail EXCEPT ![wrec[j]] = wsrc[j]] /\ wpc' = [wpc EXCEPT ![j] = "save"]
         \/ detail' = detail /\ wpc' = [wpc EXCEPT ![j] = "idle"]
      /\ UNCHANGED <<wrec, wsrc, wrow, wjs, taVars, submitVars, dbVars, jobs>>
  BY DEF WriteDetail, NoDirectory
<1>3. Outside /\ inp' = inp /\ Existing' = Existing /\ JobsKnown'
  BY <1>2, Untouched
<1>4. /\ WorkTyped' /\ OneWork(j) /\ wpc'[j] \in {"save", "idle"}
      /\ wpc'[j] = "save" => detail'[wrec[j]] # None
  BY <1>1, <1>2 DEF WorkTyped, OneWork
<1>5. RowFor(wrow[j], wrec[j])'
  BY <1>1, <1>2, <1>3, WorkRow
<1>6. WorkOK(j)'
  BY <1>1, <1>2, <1>3, <1>4, <1>5 DEF WorkOK, RowFor
<1> QED BY <1>3, <1>4, <1>6, WorkRest

LEMMA SaveVerdictKeeps ==
    ASSUME JInv, NEW j \in Judgers, SaveVerdict(j)
    PROVE  JInv'
<1>1. /\ WorkTyped /\ TypeOK /\ WorkOK(j) /\ RowFor(wrow[j], wrec[j])
      /\ wsrc[j] \in Reqs \cup {"nothing"} /\ wpc[j] = "save"
  BY JTypes DEF JInv, WorkOK, SaveVerdict
<1>2. PICK row : row = [wrow[j] EXCEPT !.status = 1, !.result = wsrc[j]]
  OBVIOUS
<1>3. RowFor(row, wrec[j])
  BY <1>1, <1>2 DEF RowFor, Rows
<1>4. /\ records' = [records EXCEPT ![wrec[j]] = row] /\ wpc' = [wpc EXCEPT ![j] = "idle"]
      /\ UNCHANGED <<wrec, wsrc, wrow, wjs, taVars, detail, submitVars, jobs>>
      /\ UNCHANGED <<judgestates, ratios, homeworks, problems>>
  BY <1>2 DEF SaveVerdict
<1>5. Outside
  BY <1>1, <1>3, <1>4 DEF Outside, TypeOK
<1>6. inp' = inp /\ Existing' = Existing /\ JobsKnown'
  BY <1>4, <1>5, OutsideKeeps
<1>7. WorkTyped' /\ OneWork(j) /\ wpc'[j] = "idle"
  BY <1>1, <1>4 DEF WorkTyped, OneWork
<1>8. WorkOK(j)'
  BY <1>7 DEF WorkOK
<1> QED BY <1>5, <1>6, <1>7, <1>8, WorkRest

LEMMA WorkKeeps ==
    ASSUME JInv, NEW j \in Judgers, Work(j)
    PROVE  JInv'
BY TakeKeeps, RunKeeps, ReadRowKeeps, StatesKeep, DetailKeeps, SaveVerdictKeeps DEF Work

LEMMA JInvNext ==
    ASSUME JInv, [JNext]_<<vars, judgeVars>>
    PROVE  JInv'
<1>1. CASE UNCHANGED <<vars, judgeVars>>
  <2> USE <1>1 DEF vars, judgeVars, localVars, dbVars, diskVars, taVars, workVars
  <2>1. inp' = inp /\ Existing' = Existing /\ Outside
    BY DEF Existing, Outside, submitVars, JInv, JTypeOK, TypeOK
  <2>2. /\ TypeOK' /\ (\A r \in Reqs : StageOK(r)') /\ RecordsKnown' /\ SlotsKnown'
        /\ JobsKnown'
    <3>1. jobs' = jobs
      OBVIOUS
    <3> QED BY <2>1, <3>1, OutsideKeeps
  <2>3. \A t \in Tas : TaOK(t)'
    BY <2>1, TaStays DEF JInv
  <2>4. \A j \in Judgers : WorkOK(j)'
    BY <2>1, WorkStays DEF JInv
  <2>5. JTypeOK'
    BY <2>2 DEF JInv, JTypeOK
  <2> QED BY <2>2, <2>3, <2>4, <2>5 DEF JInv
<1>2. CASE JNext
  BY <1>1, <1>2, SubmitKeeps, TaKeeps, WorkKeeps DEF JNext, AllQuiet
<1> QED BY <1>1, <1>2

LEMMA JInvAlways == JSpec => []JInv
<1>1. JInv /\ [JNext]_<<vars, judgeVars>> => JInv'
  BY JInvNext
<1> QED BY JInvInit, <1>1, PTL DEF JSpec

(* Every variable of the judging has its type, however submissions, batches,*)
(* single requests and verdicts overlap: no row is saved of which a part is *)
(* missing, no counter becomes negative, no verdict is stored for a record  *)
(* that does not exist (problem.py:620-684, 799-970; record.py:160-236).    *)
THEOREM JTypesHold == JSpec => []JTypeOK
BY JInvAlways, PTL DEF JInv

-----------------------------------------------------------------------------
(* A row that says "judged" got there by a verdict, or is an HTML record.   *)
JudgedRow(row, q) == row.status = 1 /\ row.args.type # 4 => row.result # None /\ detail[q] # None

LEMMA JudgedWritten ==
    ASSUME JInv, JudgedHasDetail, NEW row, NEW q0, RowFor(row, q0), JudgedRow(row, q0),
           records' = [records EXCEPT ![q0] = row], detail' = detail
    PROVE  JudgedHasDetail'
<1>1. Existing' = Existing
  BY RowWritten
<1>2. \A x \in Existing : records'[x] = IF x = q0 THEN row ELSE records[x]
  BY DEF JInv, JTypeOK, TypeOK, Existing
<1> QED BY <1>1, <1>2 DEF JudgedHasDetail, JudgedRow

LEMMA JudgedStays ==
    ASSUME JudgedHasDetail, records' = records,
           \A q \in Reqs : detail[q] # None => detail'[q] # None
    PROVE  JudgedHasDetail'
BY DEF JudgedHasDetail, Existing

LEMMA JudgedSubmit ==
    ASSUME JInv, JudgedHasDetail, NEW r \in Reqs, Submit(r)
    PROVE  JudgedHasDetail'
<1>0. detail' = detail /\ (Refuse(r) \/ Arrive(r) \/ Step(r))
  BY DEF Submit, judgeVars
<1>1. CASE Create(r)
  <2>0. PICK row : row = [args |-> Filtered(r), status |-> 0, by |-> None, result |-> None]
    OBVIOUS
  <2>1. records' = [records EXCEPT ![r] = row] /\ row.status = 0
    BY <1>1, <2>0 DEF Create
  <2>2. \A q \in Reqs : records'[q] = IF q = r THEN row ELSE records[q]
    BY <2>1 DEF JInv, JTypeOK, TypeOK
  <2> QED BY <1>0, <2>1, <2>2 DEF JudgedHasDetail, Existing
<1>2. CASE SaveRecord(r)
  <2>1. PICK row : row = [snap[r] EXCEPT !.by = r]
    OBVIOUS
  <2>2. RowFor(snap[r], target[r]) /\ snap[r].status = 0
    BY <1>2 DEF SaveRecord, At, JInv, RecordsKnown, Stored
  <2>3. RowFor(row, target[r]) /\ row.status = 0 /\ records' = [records EXCEPT ![target[r]] = row]
    BY <1>2, <2>1, <2>2 DEF SaveRecord, RowFor, Rows
  <2>4. JudgedRow(row, target[r])
    BY <2>3 DEF JudgedRow
  <2> QED BY <1>0, <2>3, <2>4, JudgedWritten
<1>3. CASE ~Create(r) /\ ~SaveRecord(r)
  <2>1. records' = records
    <3>1. CASE Match(r) \/ Post(r)
      BY <3>1 DEF Match, Post, dbVars
    <3>2. CASE ~Match(r) /\ ~Post(r)
      BY <1>0, <1>3, <3>2, StillStep DEF Still
    <3> QED BY <3>1, <3>2
  <2> QED BY <1>0, <2>1, JudgedStays
<1> QED BY <1>1, <1>2, <1>3

LEMMA JudgedTa ==
    ASSUME JInv, JudgedHasDetail, NEW t \in Tas, Start(t) \/ TaStep(t)
    PROVE  JudgedHasDetail'
<1>1. CASE Reset(t)
  <2>1. PICK q \in Left(t) :
           records' = [records EXCEPT ![q] = [trows[t][q] EXCEPT !.status = 0, !.result = None]]
    BY <1>1 DEF Reset
  <2>2. PICK row : row = [trows[t][q] EXCEPT !.status = 0, !.result = None]
    OBVIOUS
  <2>3. RowFor(trows[t][q], q)
    BY <2>1 DEF JInv, TaOK
  <2>4. RowFor(row, q) /\ row.status = 0
    BY <2>2, <2>3 DEF RowFor, Rows
  <2>5. JudgedRow(row, q) /\ detail' = detail
    BY <1>1, <2>4 DEF JudgedRow, Reset
  <2> QED BY <2>1, <2>2, <2>4, <2>5, JudgedWritten
<1>2. CASE Score(t)
  <2>1. PICK q \in Left(t) : records' = [records EXCEPT ![q] = [trows[t][q] EXCEPT !.status = 1]]
    BY <1>2 DEF Score
  <2>2. PICK row : row = [trows[t][q] EXCEPT !.status = 1]
    OBVIOUS
  <2>3. RowFor(trows[t][q], q) /\ inp[q].type = FinalType(tslot[t]) /\ FinalType(tslot[t]) = 4
    BY <1>2, <2>1 DEF JInv, TaOK, Score
  <2>4. RowFor(row, q) /\ row.args = Filtered(q) /\ q \in Reqs
    BY <2>2, <2>3 DEF RowFor, Rows, Existing
  <2>5. row.args.type = 4
    BY <2>3, <2>4, InputFacts DEF JInv, JTypeOK, Typed, Filtered, Columns
  <2>6. JudgedRow(row, q) /\ detail' = detail
    BY <1>2, <2>5 DEF JudgedRow, Score
  <2> QED BY <2>1, <2>2, <2>4, <2>6, JudgedWritten
<1>3. CASE ~Reset(t) /\ ~Score(t)
  <2>1. records' = records /\ detail' = detail
    BY <1>3 DEF Start, TaStep, ReadFinals, ReadRecord, NoConfig, NoRecord, ReadStateTa, NoStateTa,
       SaveStateAll, LoopEnds, PostTa, PostTaFails, Unzip, UnzipFails, dbVars
  <2> QED BY <2>1, JudgedStays
<1> QED BY <1>1, <1>2, <1>3

LEMMA JudgedWork ==
    ASSUME JInv, JudgedHasDetail, NEW j \in Judgers, Work(j)
    PROVE  JudgedHasDetail'
<1>0. WorkTyped /\ WorkOK(j)
  BY JTypes DEF JInv
<1>1. CASE SaveVerdict(j)
  <2>1. PICK row : row = [wrow[j] EXCEPT !.status = 1, !.result = wsrc[j]]
    OBVIOUS
  <2>2. /\ RowFor(wrow[j], wrec[j]) /\ detail[wrec[j]] # None
        /\ wsrc[j] \in Reqs \cup {"nothing"} /\ wsrc[j] # None
    BY <1>0, <1>1, SubmissionAssumption DEF WorkOK, SaveVerdict
  <2>3. RowFor(row, wrec[j]) /\ row.result # None
    BY <2>1, <2>2 DEF RowFor, Rows
  <2>4. JudgedRow(row, wrec[j]) /\ detail' = detail /\ records' = [records EXCEPT ![wrec[j]] = row]
    BY <1>1, <2>1, <2>2, <2>3 DEF JudgedRow, SaveVerdict
  <2> QED BY <2>3, <2>4, JudgedWritten
<1>2. CASE WriteDetail(j)
  <2>1. wsrc[j] # None /\ records' = records /\ detail' = [detail EXCEPT ![wrec[j]] = wsrc[j]]
    BY <1>0, <1>2, SubmissionAssumption DEF WorkOK, WriteDetail, dbVars
  <2>2. \A q \in Reqs : detail[q] # None => detail'[q] # None
    BY <1>0, <2>1 DEF WorkTyped
  <2> QED BY <2>1, <2>2, JudgedStays
<1>3. CASE ~SaveVerdict(j) /\ ~WriteDetail(j)
  <2>1. records' = records /\ detail' = detail
    BY <1>3 DEF Work, Take, Run, ReadRow, ReadState, SaveState, NoDirectory, dbVars
  <2> QED BY <2>1, JudgedStays
<1> QED BY <1>1, <1>2, <1>3

(* A row that says "judged" has its detail file, which download and the     *)
(* judger's page read: the detail file is written before the row, and every *)
(* other writer of a row resets its status or is about HTML                 *)
(* (record.py:204-229, problem.py:656-672, 799-970).                        *)
THEOREM DetailThere == JSpec => []JudgedHasDetail
<1>1. JInit => JudgedHasDetail
  BY DEF JInit, Init, JudgedHasDetail, Existing
<1>2. JInv /\ JudgedHasDetail /\ [JNext]_<<vars, judgeVars>> => JudgedHasDetail'
  <2> SUFFICES ASSUME JInv, JudgedHasDetail, [JNext]_<<vars, judgeVars>>
               PROVE  JudgedHasDetail'
    OBVIOUS
  <2>1. CASE UNCHANGED <<vars, judgeVars>>
    BY <2>1, JudgedStays DEF vars, dbVars, judgeVars
  <2>2. CASE JNext
    BY <2>1, <2>2, JudgedSubmit, JudgedTa, JudgedWork DEF JNext, AllQuiet
  <2> QED BY <2>1, <2>2
<1> QED BY <1>1, <1>2, JInvAlways, PTL DEF JSpec

-----------------------------------------------------------------------------
(* The zip an assistant unpacks.                                            *)
Home(r) == <<Slot(r), inp[r].user>>

ZipKept(r) ==
    inp[r].type = 4 =>
        /\ pc[r] = "saverec" => turnin[Home(r)] = r
        /\ pc[r] # "post"
        /\ answer[r] = "ok" => \/ turnin[Home(r)] = r
                               \/ turnin[Home(r)] # None /\ Before(r, turnin[Home(r)])

TurnInv == Typed /\ HolderOK /\ Order /\ \A r \in Reqs : ZipKept(r)

LEMMA HomeStays == inp' = inp => \A r : Home(r)' = Home(r)
BY DEF Home, Slot

(* The step of one request seen from another.                               *)
LEMMA OthersZip ==
    ASSUME TurnInv, NEW w \in Reqs, Alone(w), NEW r \in Reqs, r # w,
           \/ turnin' = turnin
           \/ /\ pc[w] = "write" /\ Holds(w) /\ inp[w].type = 4
              /\ turnin' = [turnin EXCEPT ![Home(w)] = w]
    PROVE  ZipKept(r)'
<1>1. /\ inp' = inp /\ pc'[r] = pc[r] /\ answer'[r] = answer[r] /\ Home(r)' = Home(r)
      /\ \A q1, q2 : Before(q1, q2) => Before(q1, q2)'
  BY HomeStays DEF Alone
<1>2. CASE turnin' = turnin
  <2> SUFFICES ASSUME inp[r].type = 4 PROVE ZipKept(r)'
    BY <1>1 DEF ZipKept
  <2>1. PICK q : q = turnin[Home(r)] /\ q = turnin'[Home(r)']
    BY <1>1, <1>2
  <2>2. Before(r, q) => Before(r, q)'
    BY <1>1
  <2>3. /\ pc[r] = "saverec" => q = r
        /\ pc[r] # "post"
        /\ answer[r] = "ok" => q = r \/ (q # None /\ Before(r, q))
    BY <2>1 DEF TurnInv, ZipKept
  <2> QED BY <1>1, <2>1, <2>2, <2>3 DEF ZipKept, Before
<1>3. CASE turnin' # turnin
  <2>1. /\ pc[w] = "write" /\ Holds(w) /\ inp[w].type = 4
        /\ turnin' = [turnin EXCEPT ![Home(w)] = w]
        /\ turnin \in [Slots \X Users -> Reqs \cup {None}] /\ w # None
    BY <1>3, SubmissionAssumption DEF TurnInv, Typed, TypeOK
  <2> SUFFICES ASSUME inp[r].type = 4 PROVE ZipKept(r)'
    BY <1>1 DEF ZipKept
  <2>2. /\ Home(r) \in Slots \X Users /\ Home(w) \in Slots \X Users
        /\ inp[r].hw # None /\ inp[w].hw # None
    BY <2>1, InputFacts, SubmissionAssumption DEF TurnInv, Home
  <2>3. CASE Home(r) = Home(w)
    <3>1. Lock(r) = Lock(w)
      BY <2>2, <2>3 DEF Home, Lock
    <3>2. pc[r] # "saverec"
      BY <2>1, <3>1 DEF TurnInv, HolderOK, Entered, Inside, Stored, Holds
    <3>3. answer[r] = "ok" => Before(r, w)
      BY <2>1, <3>1 DEF TurnInv, Order, DoneFirst, Waits
    <3>4. turnin'[Home(r)'] = w
      BY <1>1, <2>1, <2>2, <2>3
    <3>5. pc[r] # "post"
      BY DEF TurnInv, ZipKept
    <3>6. answer[r] = "ok" => Before(r, w)'
      BY <1>1, <3>3
    <3> QED BY <1>1, <2>1, <3>2, <3>4, <3>5, <3>6 DEF ZipKept, Before
  <2>4. CASE Home(r) # Home(w)
    <3>1. PICK q : q = turnin[Home(r)] /\ q = turnin'[Home(r)']
      BY <1>1, <2>1, <2>2, <2>4
    <3>2. Before(r, q) => Before(r, q)'
      BY <1>1
    <3>3. /\ pc[r] = "saverec" => q = r
          /\ pc[r] # "post"
          /\ answer[r] = "ok" => q = r \/ (q # None /\ Before(r, q))
      BY <3>1 DEF TurnInv, ZipKept
    <3> QED BY <1>1, <3>1, <3>2, <3>3 DEF ZipKept, Before
  <2> QED BY <2>3, <2>4
<1> QED BY <1>2, <1>3

LEMMA OwnZip ==
    ASSUME TurnInv, NEW r \in Reqs, Refuse(r) \/ Arrive(r) \/ Step(r), Alone(r)
    PROVE  ZipKept(r)' /\ \/ turnin' = turnin
                          \/ /\ pc[r] = "write" /\ Holds(r) /\ inp[r].type = 4
                             /\ turnin' = [turnin EXCEPT ![Home(r)] = r]
<1>0. /\ Typed /\ TypeOK /\ inp' = inp /\ answer[r] # "ok" /\ Home(r)' = Home(r) /\ StageOK(r)
      /\ ZipKept(r) /\ pc[r] # "done"
  BY HomeStays DEF TurnInv, Typed, Alone
<1>1. CASE WriteZip(r)
  <2>1. /\ pc[r] = "write" /\ Holds(r) /\ inp[r].type = 4
        /\ turnin' = [turnin EXCEPT ![Home(r)] = r] /\ pc' = [pc EXCEPT ![r] = "saverec"]
        /\ answer' = answer
    BY <1>1 DEF WriteZip, At, Continue, Home
  <2>2. Home(r) \in Slots \X Users
    BY <1>0, <2>1, InputFacts DEF Home
  <2>3. turnin'[Home(r)'] = r /\ pc'[r] = "saverec" /\ answer'[r] # "ok"
    BY <1>0, <2>1, <2>2 DEF TypeOK
  <2> QED BY <2>1, <2>3 DEF ZipKept
<1>2. CASE SaveRecord(r)
  <2>1. /\ pc[r] = "saverec" /\ turnin' = turnin
        /\ inp[r].type = 4 => pc'[r] = "done"
    BY <1>0, <1>2 DEF SaveRecord, At, Finish, diskVars, TypeOK
  <2>2. inp[r].type = 4 => turnin'[Home(r)'] = r
    BY <1>0, <2>1 DEF ZipKept
  <2> QED BY <1>0, <2>1, <2>2 DEF ZipKept
<1>3. CASE WriteCode(r) \/ Post(r)
  <2>1. turnin' = turnin /\ inp[r].type # 4
    BY <1>0, <1>3 DEF WriteCode, Post, At, diskVars, ZipKept
  <2> QED BY <1>0, <2>1 DEF ZipKept
<1>4. CASE Create(r) \/ Match(r) \/ NoZip(r)
  <2>1. turnin' = turnin /\ pc'[r] \notin {"saverec", "post"} /\ answer'[r] # "ok"
    BY <1>0, <1>4 DEF Create, Match, NoZip, Continue, Finish, diskVars, TypeOK
  <2> QED BY <2>1 DEF ZipKept
<1>5. CASE ~(Create(r) \/ Match(r) \/ NoZip(r) \/ WriteCode(r) \/ WriteZip(r) \/ SaveRecord(r)
             \/ Post(r))
  <2>1. Plain(r)
    BY <1>0, <1>5, PlainStep
  <2> QED BY <2>1 DEF Plain, ZipKept
<1> QED BY <1>1, <1>2, <1>3, <1>4, <1>5


LEMMA TurnInvNext ==
    ASSUME TurnInv, [JNext]_<<vars, judgeVars>>, JInv'
    PROVE  TurnInv'
<1>1. CASE \E r \in Reqs : Submit(r)
  <2>1. PICK r \in Reqs : Submit(r)
    BY <1>1
  <2>2. Refuse(r) \/ Arrive(r) \/ Step(r)
    BY <2>1 DEF Submit
  <2>3. Typed' /\ HolderOK' /\ Order' /\ Alone(r)
    BY <2>2, TypedNext, HolderNext, OrderNext, StepAlone DEF TurnInv, Next
  <2>4. ZipKept(r)' /\ \/ turnin' = turnin
                       \/ /\ pc[r] = "write" /\ Holds(r) /\ inp[r].type = 4
                          /\ turnin' = [turnin EXCEPT ![Home(r)] = r]
    BY <2>2, <2>3, OwnZip DEF TurnInv
  <2>5. \A q \in Reqs : ZipKept(q)'
    BY <2>3, <2>4, OthersZip
  <2> QED BY <2>3, <2>5 DEF TurnInv
<1>2. CASE ~\E r \in Reqs : Submit(r)
  <2>1. submitVars' = submitVars
    BY <1>2 DEF JNext, AllQuiet, vars, submitVars, localVars, diskVars, Start, TaStep, ReadFinals,
       ReadRecord, NoConfig, NoRecord, ReadStateTa, NoStateTa, SaveStateAll, Reset, LoopEnds, PostTa,
       PostTaFails, Unzip, UnzipFails, Score, Work, Take, Run, ReadRow, ReadState, SaveState,
       WriteDetail, NoDirectory, SaveVerdict
  <2> USE <2>1 DEF submitVars, localVars, diskVars
  <2>2. HolderOK'
    BY DEF TurnInv, HolderOK, Entered, Holds, Lock, Slot
  <2>3. Order'
    BY DEF TurnInv, Order, InLine, AllInLine, InOrder, DoneFirst, Waits, HasArrived,
       Before, Lock, Slot
  <2>4. \A r \in Reqs : ZipKept(r)'
    BY DEF TurnInv, ZipKept, Home, Slot, Before
  <2>5. Typed'
    BY DEF JInv, JTypeOK, Typed
  <2> QED BY <2>2, <2>3, <2>4, <2>5 DEF TurnInv
<1> QED BY <1>1, <1>2

LEMMA TurnInvInit == JInit => TurnInv
<1> SUFFICES ASSUME JInit PROVE TurnInv
  OBVIOUS
<1>1. Init
  BY DEF JInit
<1>2. Typed /\ Order /\ HolderOK
  BY <1>1, TypedInit, OrderInit, FinalInit DEF Final
<1>3. \A r \in Reqs : ZipKept(r)
  BY <1>1, SubmissionAssumption DEF Init, ZipKept
<1> QED BY <1>2, <1>3 DEF TurnInv

(* What an assistant unpacks is the zip of the latest HTML submission of    *)
(* the student: one that was answered "ok" is there, or one that arrived    *)
(* after it, whatever batches and scores go on (problem.py:583-672,         *)
(* 852-870).                                                                *)
THEOREM LatestZip == JSpec => []TurnInIsLatest
<1>1. TurnInv /\ [JNext]_<<vars, judgeVars>> /\ JInv' => TurnInv'
  BY TurnInvNext
<1>2. TurnInv => TurnInIsLatest
  BY DEF TurnInv, ZipKept, TurnInIsLatest, Home
<1> QED BY TurnInvInit, <1>1, <1>2, JInvAlways, PTL DEF JSpec

-----------------------------------------------------------------------------
(* Public submissions and tests: each has a row and a file of its own, is   *)
(* handed to one judger once, and gets one verdict.                         *)
AtOnce(q) == inp[q].type \in {0, 1}

PubRows ==
    /\ \A r \in Reqs : pc[r] = "post" => AtOnce(r)
    /\ \A q \in Reqs : AtOnce(q) =>
           /\ pc[q] \in Stored => target[q] = q /\ records[q].status = 0
           /\ pc[q] \in {"saverec", "post"} => source[q] = q
           /\ q \in Existing /\ records[q].status = 1 => records[q].result = q

Handed(q, j) == /\ pc[q] = "done" /\ source[q] = q /\ records[q].status = 0
                /\ JudgerOf(inp[q]) = j

PubJobs == \A j \in Judgers : \A k \in DOMAIN jobs[j] : AtOnce(jobs[j][k]) =>
               /\ Handed(jobs[j][k], j)
               /\ \A m \in DOMAIN jobs[j] : jobs[j][m] = jobs[j][k] => m = k

PubWork == \A j \in Judgers : wpc[j] # "idle" /\ AtOnce(wrec[j]) =>
               /\ Handed(wrec[j], j)
               /\ \A k \in DOMAIN jobs[j] : jobs[j][k] # wrec[j]
               /\ wpc[j] # "run" => wsrc[j] = wrec[j]

PubInv == PubRows /\ PubJobs /\ PubWork

PubBase == JInv /\ TurnInv /\ PubInv

LEMMA SameKind ==
    ASSUME JInv, NEW r \in Reqs, pc[r] \in Stored
    PROVE  target[r] \in Reqs /\ target[r] \in Existing /\ (AtOnce(target[r]) <=> AtOnce(r))
<1>1. target[r] \in Existing /\ Filtered(target[r]) = Filtered(r) /\ target[r] \in Reqs
  BY DEF JInv, RecordsKnown, RowFor, Existing
<1>2. Filtered(target[r]).type = inp[target[r]].type /\ Filtered(r).type = inp[r].type
  BY <1>1, InputFacts DEF JInv, JTypeOK, Typed, Filtered, Columns
<1> QED BY <1>1, <1>2 DEF AtOnce

(* A request's step and the row and file of another one.                    *)
LEMMA OtherOnce ==
    ASSUME PubBase, NEW r \in Reqs, Refuse(r) \/ Arrive(r) \/ Step(r), Alone(r),
           NEW q \in Reqs, q # r, AtOnce(q)
    PROVE  /\ pc'[q] = pc[q] /\ target'[q] = target[q] /\ source'[q] = source[q]
           /\ records'[q] = records[q]
<1>0. TypeOK /\ Typed /\ pc'[q] = pc[q]
  BY DEF PubBase, TurnInv, Typed, Alone
<1>1. CASE WriteCode(r) \/ WriteZip(r) \/ SaveRecord(r)
  <2>1. pc[r] \in {"write", "saverec"} /\ target' = target
    BY <1>1 DEF WriteCode, WriteZip, SaveRecord, At, localVars
  <2>2. target[r] # q
    <3>1. pc[r] \in Stored /\ (AtOnce(target[r]) <=> AtOnce(r))
      BY <2>1, SameKind DEF PubBase, Stored
    <3>2. AtOnce(r) => target[r] = r
      BY <3>1 DEF PubBase, PubInv, PubRows
    <3> QED BY <3>1, <3>2
  <2>3. source'[q] = source[q] /\ records'[q] = records[q]
    BY <1>0, <1>1, <2>2 DEF WriteCode, WriteZip, SaveRecord, TypeOK, dbVars, diskVars
  <2> QED BY <1>0, <2>1, <2>3
<1>2. CASE Create(r) \/ Match(r) \/ NoZip(r) \/ Post(r)
  BY <1>0, <1>2 DEF Create, Match, NoZip, Post, TypeOK, localVars, dbVars, diskVars
<1>3. CASE ~(Create(r) \/ Match(r) \/ NoZip(r) \/ WriteCode(r) \/ WriteZip(r) \/ SaveRecord(r)
             \/ Post(r))
  <2>1. Plain(r)
    BY <1>0, <1>3, PlainStep DEF Alone
  <2> QED BY <1>0, <2>1 DEF Plain
<1> QED BY <1>1, <1>2, <1>3

LEMMA OwnOnce ==
    ASSUME PubBase, NEW r \in Reqs, Refuse(r) \/ Arrive(r) \/ Step(r), Alone(r)
    PROVE  /\ pc'[r] = "post" => AtOnce(r)
           /\ AtOnce(r) => /\ pc'[r] \in Stored => target'[r] = r /\ records'[r].status = 0
                           /\ pc'[r] \in {"saverec", "post"} => source'[r] = r
                           /\ r \in Existing' /\ records'[r].status = 1 => records'[r].result = r
<1>0. /\ TypeOK /\ Typed /\ StageOK(r) /\ inp[r].type \in {0, 1, 2, 4}
      /\ answer[r] # "ok"
  BY InputFacts DEF PubBase, TurnInv, Typed, Alone
<1>1. /\ pc[r] = "post" => AtOnce(r)
      /\ AtOnce(r) => /\ pc[r] \in Stored => target[r] = r /\ records[r].status = 0
                      /\ pc[r] \in {"saverec", "post"} => source[r] = r
                      /\ r \in Existing /\ records[r].status = 1 => records[r].result = r
  BY DEF PubBase, PubInv, PubRows
<1>2. CASE Create(r)
  <2>1. PICK row : row = [args |-> Filtered(r), status |-> 0, by |-> None, result |-> None]
    OBVIOUS
  <2>2. /\ row.status = 0 /\ records' = [records EXCEPT ![r] = row]
        /\ target' = [target EXCEPT ![r] = r]
    BY <1>2, <2>1 DEF Create
  <2>3. pc'[r] \notin {"saverec", "post"}
    BY <1>0, <1>2 DEF Create, Continue, TypeOK
  <2> QED BY <1>0, <2>2, <2>3 DEF TypeOK
<1>3. CASE WriteCode(r)
  <2>1. /\ pc[r] = "write" /\ pc[r] \in Stored /\ pc'[r] = "saverec" /\ UNCHANGED <<records, target>>
        /\ source' = [source EXCEPT ![target[r]] = r]
    BY <1>0, <1>3 DEF WriteCode, At, Continue, localVars, dbVars, TypeOK, Stored
  <2>2. AtOnce(r) => source'[r] = r
    BY <1>0, <1>1, <2>1 DEF TypeOK
  <2> QED BY <1>1, <2>1, <2>2 DEF Existing
<1>4. CASE Match(r) \/ WriteZip(r) \/ NoZip(r)
  <2>1. ~AtOnce(r) /\ pc'[r] # "post"
    BY <1>0, <1>4 DEF Match, WriteZip, NoZip, At, Continue, Finish, StageOK, AtOnce, TypeOK
  <2> QED BY <2>1
<1>5. CASE SaveRecord(r)
  <2>1. /\ pc[r] = "saverec" /\ pc[r] \in Stored /\ UNCHANGED <<target, source>>
        /\ records' = [records EXCEPT ![target[r]] = [snap[r] EXCEPT !.by = r]]
        /\ pc'[r] \in {"done", "post"} /\ (pc'[r] = "post" => inp[r].type \notin {2, 4})
    BY <1>0, <1>5 DEF SaveRecord, At, Continue, Finish, localVars, diskVars, TypeOK, Stored
  <2>2. AtOnce(r) => records'[r].status = 0
    <3>1. snap[r] \in Rows /\ snap[r].status = 0
      BY <2>1 DEF PubBase, JInv, RecordsKnown, RowFor
    <3>2. [snap[r] EXCEPT !.by = r].status = 0
      BY <3>1 DEF Rows
    <3>3. PICK row : row = [snap[r] EXCEPT !.by = r]
      OBVIOUS
    <3> QED BY <1>0, <1>1, <2>1, <3>2, <3>3 DEF TypeOK
  <2> QED BY <1>0, <1>1, <2>1, <2>2 DEF AtOnce
<1>6. CASE Post(r)
  <2>1. pc'[r] = "done" /\ UNCHANGED <<records, target, source>> /\ pc[r] = "post"
    BY <1>0, <1>6 DEF Post, At, Finish, localVars, dbVars, diskVars, TypeOK
  <2> QED BY <1>1, <2>1 DEF Stored, Existing
<1>7. CASE ~(Create(r) \/ Match(r) \/ NoZip(r) \/ WriteCode(r) \/ WriteZip(r) \/ SaveRecord(r)
             \/ Post(r))
  <2>1. Plain(r)
    BY <1>0, <1>7, PlainStep
  <2> QED BY <1>1, <2>1 DEF Plain, Existing
<1> QED BY <1>2, <1>3, <1>4, <1>5, <1>6, <1>7

(* A request queues at most its own record, when it leaves.                 *)
LEMMA JobsGrow ==
    ASSUME PubBase, NEW r \in Reqs, Refuse(r) \/ Arrive(r) \/ Step(r), Alone(r)
    PROVE  \/ jobs' = jobs
           \/ /\ AtOnce(r) /\ pc'[r] = "done" /\ source'[r] = r /\ records'[r].status = 0
              /\ jobs' = [jobs EXCEPT ![JudgerOf(inp[r])] = Append(@, r)]
<1>1. TypeOK /\ Typed /\ answer[r] # "ok"
  BY DEF PubBase, TurnInv, Typed, Alone
<1>2. CASE Post(r)
  <2>1. /\ pc[r] = "post" /\ pc[r] \in Stored /\ pc'[r] = "done" /\ UNCHANGED <<source, records>>
        /\ jobs' = [jobs EXCEPT ![JudgerOf(inp[r])] = Append(@, target[r])]
    BY <1>1, <1>2 DEF Post, At, Finish, dbVars, diskVars, TypeOK, Stored
  <2>2. AtOnce(r) /\ target[r] = r /\ source[r] = r /\ records[r].status = 0
    BY <2>1 DEF PubBase, PubInv, PubRows
  <2> QED BY <2>1, <2>2
<1>3. CASE ~Post(r)
  <2>1. CASE Create(r) \/ Match(r) \/ NoZip(r) \/ WriteCode(r) \/ WriteZip(r) \/ SaveRecord(r)
    BY <2>1 DEF Create, Match, NoZip, WriteCode, WriteZip, SaveRecord
  <2>2. CASE ~(Create(r) \/ Match(r) \/ NoZip(r) \/ WriteCode(r) \/ WriteZip(r)
               \/ SaveRecord(r) \/ Post(r))
    <3>1. Plain(r)
      BY <1>1, <2>2, PlainStep
    <3> QED BY <3>1 DEF Plain
  <2> QED BY <1>3, <2>1, <2>2
<1> QED BY <1>2, <1>3

LEMMA OnceSubmit ==
    ASSUME PubBase, NEW r \in Reqs, Submit(r), TypeOK'
    PROVE  PubInv'
<1>0. Refuse(r) \/ Arrive(r) \/ Step(r)
  BY DEF Submit
<1>1. Alone(r) /\ UNCHANGED workVars /\ TypeOK /\ inp' = inp
  BY <1>0, StepAlone DEF PubBase, TurnInv, Typed, Submit, judgeVars, Alone
<1>2. \A q \in Reqs : q # r /\ AtOnce(q) =>
          /\ pc'[q] = pc[q] /\ target'[q] = target[q] /\ source'[q] = source[q]
          /\ records'[q] = records[q]
  BY <1>0, <1>1, OtherOnce
<1>3. \A q \in Reqs : q # r => pc'[q] = pc[q]
  BY <1>1 DEF Alone
<1>4. PubRows'
  <2>1. \A q \in Reqs : pc'[q] = "post" => AtOnce(q)
    BY <1>0, <1>1, <1>3, OwnOnce DEF PubBase, PubInv, PubRows
  <2>2. ASSUME NEW q \in Reqs, AtOnce(q)
        PROVE  /\ pc'[q] \in Stored => target'[q] = q /\ records'[q].status = 0
               /\ pc'[q] \in {"saverec", "post"} => source'[q] = q
               /\ q \in Existing' /\ records'[q].status = 1 => records'[q].result = q
    <3>1. CASE q = r
      BY <1>0, <1>1, <2>2, <3>1, OwnOnce
    <3>2. CASE q # r
      BY <1>2, <2>2, <3>2 DEF PubBase, PubInv, PubRows, Existing
    <3> QED BY <3>1, <3>2
  <2> QED BY <1>1, <2>1, <2>2 DEF PubRows, AtOnce
<1>5. \A j : \A q \in Reqs : AtOnce(q) /\ Handed(q, j) => Handed(q, j)' /\ q # r
  BY <1>1, <1>2 DEF Handed, Alone
<1>6. \/ jobs' = jobs
      \/ /\ AtOnce(r) /\ pc'[r] = "done" /\ source'[r] = r /\ records'[r].status = 0
         /\ jobs' = [jobs EXCEPT ![JudgerOf(inp[r])] = Append(@, r)]
  BY <1>0, <1>1, JobsGrow
<1>7. PICK j0 \in Judgers : j0 = JudgerOf(inp[r])
  BY DEF Judgers, JudgerOf
<1>8. ASSUME NEW j \in Judgers
      PROVE  /\ \A k \in DOMAIN jobs'[j] :
                    \/ k \in DOMAIN jobs[j] /\ jobs'[j][k] = jobs[j][k]
                    \/ /\ jobs'[j][k] = r /\ AtOnce(r) /\ Handed(r, j)'
                       /\ \A m \in DOMAIN jobs'[j] : m # k => m \in DOMAIN jobs[j]
             /\ \A k \in DOMAIN jobs[j] : jobs[j][k] \in Reqs
  <2>1. PICK s \in Seq(Reqs) : s = jobs[j]
    BY <1>1 DEF TypeOK
  <2>2. CASE jobs'[j] = jobs[j]
    BY <2>1, <2>2
  <2>3. CASE jobs'[j] # jobs[j]
    <3>1. /\ AtOnce(r) /\ pc'[r] = "done" /\ source'[r] = r /\ records'[r].status = 0
          /\ j = j0 /\ jobs'[j] = Append(s, r)
      BY <1>1, <1>6, <1>7, <2>1, <2>3 DEF TypeOK
    <3>2. Handed(r, j)'
      BY <1>1, <1>7, <3>1 DEF Handed
    <3> QED BY <2>1, <3>1, <3>2
  <2> QED BY <2>2, <2>3
<1>9. PubJobs'
  <2> SUFFICES ASSUME NEW j \in Judgers, NEW k \in DOMAIN jobs'[j], AtOnce(jobs'[j][k])
               PROVE  /\ Handed(jobs[j][k], j)'
                      /\ \A m \in DOMAIN jobs'[j] : jobs'[j][m] = jobs'[j][k] => m = k
    BY <1>1 DEF PubJobs, AtOnce
  <2>1. \A i \in DOMAIN jobs[j] : AtOnce(jobs[j][i]) =>
            /\ jobs[j][i] \in Reqs /\ jobs[j][i] # r /\ Handed(jobs[j][i], j)
            /\ \A m \in DOMAIN jobs[j] : jobs[j][m] = jobs[j][i] => m = i
    BY <1>5, <1>8 DEF PubBase, PubInv, PubJobs
  <2>2. CASE k \in DOMAIN jobs[j] /\ jobs'[j][k] = jobs[j][k]
    <3>1. PICK x \in Reqs : x = jobs[j][k] /\ x = jobs'[j][k]
      BY <1>8, <2>2
    <3>2. AtOnce(x) /\ Handed(x, j) /\ x # r
      BY <2>1, <2>2, <3>1
    <3>3. Handed(x, j)'
      BY <1>5, <3>2
    <3>4. \A m \in DOMAIN jobs'[j] : jobs'[j][m] = x => m = k
      BY <1>8, <2>1, <2>2, <3>1, <3>2
    <3> QED BY <3>1, <3>3, <3>4 DEF Handed
  <2>3. CASE jobs'[j][k] = r /\ Handed(r, j)' /\ AtOnce(r)
             /\ \A m \in DOMAIN jobs'[j] : m # k => m \in DOMAIN jobs[j]
    <3>1. \A m \in DOMAIN jobs'[j] : jobs'[j][m] = r => m = k
      <4> SUFFICES ASSUME NEW m \in DOMAIN jobs'[j], jobs'[j][m] = r, m # k
                   PROVE  FALSE
        OBVIOUS
      <4>1. m \in DOMAIN jobs[j]
        BY <2>3
      <4>2. jobs[j][m] # r
        BY <2>1, <2>3, <4>1
      <4>3. \A i \in DOMAIN jobs'[j] : i # m => i \in DOMAIN jobs[j]
        BY <1>8, <4>2
      <4>4. k \in DOMAIN jobs[j]
        BY <4>3
      <4>5. jobs[j][k] # r
        BY <2>1, <2>3, <4>4
      <4>6. PICK s \in Seq(Reqs) : s = jobs[j]
        BY <1>1 DEF TypeOK
      <4>7. jobs'[j] = s \/ jobs'[j] = Append(s, r)
        BY <1>1, <1>6, <1>7, <4>6 DEF TypeOK
      <4> QED BY <4>1, <4>2, <4>4, <4>5, <4>6, <4>7
    <3> QED BY <2>3, <3>1 DEF Handed
  <2> QED BY <1>8, <2>2, <2>3
<1>10. PubWork'
  <2> SUFFICES ASSUME NEW j \in Judgers, wpc[j] # "idle", AtOnce(wrec[j])
               PROVE  /\ Handed(wrec[j], j)'
                      /\ \A k \in DOMAIN jobs'[j] : jobs'[j][k] # wrec[j]
                      /\ wpc[j] # "run" => wsrc[j] = wrec[j]
    BY <1>1 DEF PubWork, AtOnce, workVars
  <2>1. PICK x \in Reqs : x = wrec[j] /\ AtOnce(x)
    BY DEF PubBase, JInv, WorkOK, Existing
  <2>2. /\ Handed(x, j) /\ (\A k \in DOMAIN jobs[j] : jobs[j][k] # x)
        /\ wpc[j] # "run" => wsrc[j] = wrec[j]
    BY <2>1 DEF PubBase, PubInv, PubWork
  <2>3. Handed(x, j)' /\ x # r
    BY <1>5, <2>1, <2>2
  <2>4. \A k \in DOMAIN jobs'[j] : jobs'[j][k] # x
    BY <1>8, <2>2, <2>3
  <2> QED BY <1>1, <2>1, <2>2, <2>3, <2>4 DEF Handed, workVars
<1> QED BY <1>4, <1>9, <1>10 DEF PubInv

(* An assistant works on final records only.                                *)
LEMMA NotOnce ==
    ASSUME JInv, NEW t \in Tas, NEW q \in Left(t)
    PROVE  ~AtOnce(q) /\ q \in Reqs
<1>1. inp[q].type = FinalType(tslot[t]) /\ q \in Reqs
  BY DEF JInv, TaOK, Left
<1>2. inp[q].type \in {2, 4}
  BY <1>1 DEF FinalType
<1> QED BY <1>1, <1>2 DEF AtOnce

LEMMA OnceTa ==
    ASSUME PubBase, NEW t \in Tas, Start(t) \/ TaStep(t), Existing' = Existing
    PROVE  PubInv'
<1>0. TypeOK /\ UNCHANGED <<submitVars, workVars>>
  BY DEF PubBase, JInv, JTypeOK, Start, TaStep, ReadFinals, ReadRecord, NoConfig, NoRecord, ReadStateTa,
     NoStateTa, SaveStateAll, Reset, LoopEnds, PostTa, PostTaFails, Unzip, UnzipFails, Score
<1>1. UNCHANGED <<pc, inp, target, source, workVars>>
  BY <1>0 DEF submitVars, localVars, diskVars
<1>2. ASSUME NEW q \in Reqs, AtOnce(q)
      PROVE  records'[q] = records[q]
  <2>1. CASE Reset(t) \/ Score(t)
    <3>1. PICK x \in Left(t) : \E row : records' = [records EXCEPT ![x] = row]
      BY <2>1 DEF Reset, Score
    <3>2. x # q
      BY <1>2, <3>1, NotOnce DEF PubBase
    <3> QED BY <1>0, <3>1, <3>2 DEF TypeOK
  <2>2. CASE ~Reset(t) /\ ~Score(t)
    BY <2>2 DEF Start, TaStep, ReadFinals, ReadRecord, NoConfig, NoRecord, ReadStateTa, NoStateTa,
       SaveStateAll, LoopEnds, PostTa, PostTaFails, Unzip, UnzipFails, dbVars
  <2> QED BY <2>1, <2>2
<1>3. \A j : \A q \in Reqs : AtOnce(q) /\ Handed(q, j) => Handed(q, j)'
  BY <1>1, <1>2 DEF Handed
<1>4. PubRows'
  BY <1>1, <1>2 DEF PubBase, PubInv, PubRows, AtOnce, Existing
<1>5. ASSUME NEW j \in Judgers
      PROVE  /\ \A k \in DOMAIN jobs'[j] : jobs'[j][k] \in Reqs
             /\ \A k \in DOMAIN jobs'[j] : AtOnce(jobs'[j][k]) =>
                    k \in DOMAIN jobs[j] /\ jobs'[j][k] = jobs[j][k]
  <2>1. PICK s \in Seq(Reqs) : s = jobs[j]
    BY <1>0 DEF TypeOK
  <2>2. CASE PostTa(t)
    <3>1. tcur[t] \in Left(t) /\ ~AtOnce(tcur[t]) /\ tcur[t] \in Reqs
      BY <2>2, NotOnce DEF PubBase, JInv, TaOK, PostTa
    <3>2. jobs'[j] = s \/ jobs'[j] = Append(s, tcur[t])
      BY <2>1, <2>2 DEF PostTa
    <3> QED BY <2>1, <3>1, <3>2
  <2>3. CASE ~PostTa(t)
    <3>1. jobs' = jobs
      BY <2>3 DEF Start, TaStep, ReadFinals, ReadRecord, NoConfig, NoRecord, ReadStateTa, NoStateTa,
         SaveStateAll, Reset, LoopEnds, PostTaFails, Unzip, UnzipFails, Score
    <3> QED BY <2>1, <3>1
  <2> QED BY <2>2, <2>3
<1>6. PubJobs'
  <2> SUFFICES ASSUME NEW j \in Judgers, NEW k \in DOMAIN jobs'[j], AtOnce(jobs'[j][k])
               PROVE  /\ Handed(jobs[j][k], j)'
                      /\ \A m \in DOMAIN jobs'[j] : jobs'[j][m] = jobs'[j][k] => m = k
    BY <1>1 DEF PubJobs, AtOnce
  <2>1. PICK x \in Reqs : x = jobs'[j][k]
    BY <1>5
  <2>2. k \in DOMAIN jobs[j] /\ jobs[j][k] = x /\ AtOnce(x)
    BY <1>5, <2>1
  <2>3. Handed(x, j) /\ \A m \in DOMAIN jobs[j] : jobs[j][m] = x => m = k
    BY <2>2 DEF PubBase, PubInv, PubJobs
  <2>4. Handed(x, j)'
    BY <1>3, <2>2, <2>3
  <2>5. \A m \in DOMAIN jobs'[j] : jobs'[j][m] = x => m = k
    BY <1>5, <2>2, <2>3
  <2> QED BY <2>1, <2>4, <2>5 DEF Handed
<1>7. PubWork'
  <2> SUFFICES ASSUME NEW j \in Judgers, wpc[j] # "idle", AtOnce(wrec[j])
               PROVE  /\ Handed(wrec[j], j)'
                      /\ \A k \in DOMAIN jobs'[j] : jobs'[j][k] # wrec[j]
                      /\ wpc[j] # "run" => wsrc[j] = wrec[j]
    BY <1>1 DEF PubWork, AtOnce, workVars
  <2>1. PICK x \in Reqs : x = wrec[j] /\ AtOnce(x)
    BY DEF PubBase, JInv, WorkOK, Existing
  <2>2. /\ Handed(x, j) /\ (\A k \in DOMAIN jobs[j] : jobs[j][k] # x)
        /\ wpc[j] # "run" => wsrc[j] = wrec[j]
    BY <2>1 DEF PubBase, PubInv, PubWork
  <2>3. Handed(x, j)'
    BY <1>3, <2>1, <2>2
  <2>4. \A k \in DOMAIN jobs'[j] : jobs'[j][k] # x
    BY <1>5, <2>1, <2>2
  <2> QED BY <1>1, <2>1, <2>2, <2>3, <2>4 DEF Handed, workVars
<1> QED BY <1>4, <1>6, <1>7 DEF PubInv

(* A judger thread works on one of them alone.                              *)
LEMMA OneJudger ==
    ASSUME PubBase, NEW j \in Judgers, wpc[j] # "idle", AtOnce(wrec[j])
    PROVE  /\ wrec[j] \in Reqs /\ Handed(wrec[j], j)
           /\ \A i \in Judgers : \A k \in DOMAIN jobs[i] : jobs[i][k] # wrec[j]
           /\ \A i \in Judgers : i # j /\ wpc[i] # "idle" => wrec[i] # wrec[j]
<1>1. /\ Handed(wrec[j], j) /\ (\A k \in DOMAIN jobs[j] : jobs[j][k] # wrec[j])
      /\ wrec[j] \in Reqs
  BY DEF PubBase, PubInv, PubWork, JInv, WorkOK, Existing
<1>2. ASSUME NEW i \in Judgers, NEW k \in DOMAIN jobs[i], jobs[i][k] = wrec[j]
      PROVE  FALSE
  <2>1. Handed(jobs[i][k], i)
    BY <1>2 DEF PubBase, PubInv, PubJobs
  <2> QED BY <1>1, <1>2, <2>1 DEF Handed
<1>3. ASSUME NEW i \in Judgers, i # j, wpc[i] # "idle", wrec[i] = wrec[j]
      PROVE  FALSE
  <2>1. Handed(wrec[i], i)
    BY <1>3 DEF PubBase, PubInv, PubWork
  <2> QED BY <1>1, <1>3, <2>1 DEF Handed
<1> QED BY <1>1, <1>2, <1>3

(* A step of a thread in which it keeps its job, or ends with another kind. *)
LEMMA OnceKept ==
    ASSUME PubBase, NEW j \in Judgers,
           UNCHANGED <<pc, inp, target, source, jobs, wrec>>, Existing' = Existing,
           \A q \in Reqs : AtOnce(q) => records'[q] = records[q],
           \A i \in Judgers : i # j => wpc'[i] = wpc[i] /\ wsrc'[i] = wsrc[i],
           wpc[j] # "idle", wpc'[j] # "run",
           wpc[j] = "run" => \/ source[wrec[j]] # None /\ wsrc'[j] = source[wrec[j]]
                             \/ ~AtOnce(wrec[j]),
           wpc[j] # "run" => wsrc'[j] = wsrc[j]
    PROVE  PubInv'
<1>1. \A i : \A q \in Reqs : AtOnce(q) /\ Handed(q, i) => Handed(q, i)'
  BY DEF Handed
<1>2. PubRows'
  BY DEF PubBase, PubInv, PubRows, AtOnce, Existing
<1>3. PubJobs'
  <2> SUFFICES ASSUME NEW i \in Judgers, NEW k \in DOMAIN jobs[i], AtOnce(jobs[i][k])
               PROVE  /\ Handed(jobs[i][k], i)'
                      /\ \A m \in DOMAIN jobs[i] : jobs[i][m] = jobs[i][k] => m = k
    BY DEF PubJobs, AtOnce
  <2>1. PICK x \in Reqs : x = jobs[i][k]
    BY DEF PubBase, JInv, JobsKnown, Existing
  <2>2. Handed(x, i) /\ \A m \in DOMAIN jobs[i] : jobs[i][m] = x => m = k
    BY <2>1 DEF PubBase, PubInv, PubJobs
  <2>3. Handed(x, i)'
    BY <1>1, <2>1, <2>2
  <2> QED BY <2>1, <2>2, <2>3 DEF Handed
<1>4. PubWork'
  <2> SUFFICES ASSUME NEW i \in Judgers, wpc'[i] # "idle", AtOnce(wrec[i])
               PROVE  /\ Handed(wrec[i], i)'
                      /\ \A k \in DOMAIN jobs[i] : jobs[i][k] # wrec[i]
                      /\ wpc'[i] # "run" => wsrc'[i] = wrec[i]
    BY DEF PubWork, AtOnce
  <2>1. wpc[i] # "idle"
    OBVIOUS
  <2>2. PICK x \in Reqs : x = wrec[i] /\ AtOnce(x)
    BY <2>1 DEF PubBase, JInv, WorkOK, Existing
  <2>3. /\ Handed(x, i) /\ (\A k \in DOMAIN jobs[i] : jobs[i][k] # x)
        /\ wpc[i] # "run" => wsrc[i] = x
    BY <2>1, <2>2 DEF PubBase, PubInv, PubWork
  <2>4. Handed(x, i)'
    BY <1>1, <2>2, <2>3
  <2>5. wpc'[i] # "run" => wsrc'[i] = x
    BY <2>2, <2>3 DEF Handed
  <2> QED BY <2>2, <2>3, <2>4, <2>5 DEF Handed
<1> QED BY <1>2, <1>3, <1>4 DEF PubInv

LEMMA OnceTake ==
    ASSUME PubBase, NEW j \in Judgers, Take(j)
    PROVE  PubInv'
<1>0. TypeOK /\ WorkTyped /\ wpc[j] = "idle" /\ jobs[j] # <<>>
  BY JTypes DEF PubBase, JInv, Take
<1>1. PICK s \in Seq(Reqs) : s = jobs[j] /\ s # <<>>
  BY <1>0 DEF TypeOK
<1>2. /\ UNCHANGED <<pc, inp, target, source, records, wsrc>>
      /\ wrec' = [wrec EXCEPT ![j] = Head(s)] /\ jobs' = [jobs EXCEPT ![j] = Tail(s)]
      /\ wpc' = [wpc EXCEPT ![j] = "run"]
  BY <1>1 DEF Take, submitVars, localVars, diskVars, dbVars
<1>3. /\ jobs'[j] = Tail(s) /\ wrec'[j] = Head(s) /\ wpc'[j] = "run"
      /\ \A i \in Judgers : i # j => /\ jobs'[i] = jobs[i] /\ wrec'[i] = wrec[i]
                                     /\ wpc'[i] = wpc[i]
  BY <1>0, <1>2 DEF TypeOK, WorkTyped
<1>4. /\ 1 \in DOMAIN s /\ Head(s) = s[1] /\ DOMAIN Tail(s) = 1..(Len(s) - 1)
      /\ \A k \in DOMAIN Tail(s) : k + 1 \in DOMAIN s /\ Tail(s)[k] = s[k + 1]
      /\ \A k \in DOMAIN s : s[k] \in Reqs
  <2>1. Len(s) \in Nat \ {0} /\ DOMAIN s = 1..Len(s) /\ Tail(s) \in Seq(Reqs)
        /\ Len(Tail(s)) = Len(s) - 1
    BY <1>1
  <2>2. DOMAIN Tail(s) = 1..(Len(s) - 1)
    BY <2>1
  <2>3. \A k \in DOMAIN Tail(s) : k + 1 \in DOMAIN s /\ Tail(s)[k] = s[k + 1]
    BY <1>1, <2>1, <2>2
  <2> QED BY <1>1, <2>1, <2>2, <2>3
<1>5. PubRows'
  BY <1>2 DEF PubBase, PubInv, PubRows, AtOnce, Existing
<1>6. \A q, i : Handed(q, i)' <=> Handed(q, i)
  BY <1>2 DEF Handed
<1>7. \A k \in DOMAIN s : AtOnce(s[k]) =>
          Handed(s[k], j) /\ \A m \in DOMAIN s : s[m] = s[k] => m = k
  BY <1>1 DEF PubBase, PubInv, PubJobs
<1>8. PubJobs'
  <2> SUFFICES ASSUME NEW i \in Judgers, NEW k \in DOMAIN jobs'[i], AtOnce(jobs'[i][k])
               PROVE  /\ Handed(jobs'[i][k], i)
                      /\ \A m \in DOMAIN jobs'[i] : jobs'[i][m] = jobs'[i][k] => m = k
    BY <1>2 DEF PubJobs, AtOnce, Handed
  <2>1. CASE i = j
    <3>1. k + 1 \in DOMAIN s /\ jobs'[i][k] = s[k + 1] /\ k \in Int
      BY <1>3, <1>4, <2>1
    <3>2. Handed(s[k + 1], j) /\ \A m \in DOMAIN s : s[m] = s[k + 1] => m = k + 1
      BY <1>7, <3>1
    <3>3. ASSUME NEW m \in DOMAIN jobs'[i], jobs'[i][m] = jobs'[i][k]
          PROVE  m = k
      <4>1. m + 1 \in DOMAIN s /\ s[m + 1] = s[k + 1] /\ m \in Int
        BY <1>3, <1>4, <2>1, <3>1, <3>3
      <4>2. m + 1 = k + 1
        BY <3>2, <4>1
      <4> QED BY <3>1, <4>1, <4>2
    <3> QED BY <2>1, <3>1, <3>2, <3>3
  <2>2. CASE i # j
    BY <1>3, <2>2 DEF PubBase, PubInv, PubJobs
  <2> QED BY <2>1, <2>2
<1>9. PubWork'
  <2> SUFFICES ASSUME NEW i \in Judgers, wpc'[i] # "idle", AtOnce(wrec'[i])
               PROVE  /\ Handed(wrec'[i], i)
                      /\ \A k \in DOMAIN jobs'[i] : jobs'[i][k] # wrec'[i]
                      /\ wpc'[i] # "run" => wsrc[i] = wrec'[i]
    BY <1>2 DEF PubWork, AtOnce, Handed
  <2>1. CASE i = j
    <3>1. wrec'[i] = s[1] /\ AtOnce(s[1])
      BY <1>3, <1>4, <2>1
    <3>2. Handed(s[1], j) /\ \A m \in DOMAIN s : s[m] = s[1] => m = 1
      BY <1>4, <1>7, <3>1
    <3>3. \A k \in DOMAIN Tail(s) : Tail(s)[k] # s[1]
      <4> SUFFICES ASSUME NEW k \in DOMAIN Tail(s), Tail(s)[k] = s[1] PROVE FALSE
        OBVIOUS
      <4>1. k + 1 \in DOMAIN s /\ s[k + 1] = s[1] /\ k \in Int /\ k >= 1
        BY <1>4
      <4>2. k + 1 = 1
        BY <3>2, <4>1
      <4> QED BY <4>1, <4>2
    <3> QED BY <1>3, <2>1, <3>1, <3>2, <3>3
  <2>2. CASE i # j
    BY <1>3, <2>2 DEF PubBase, PubInv, PubWork
  <2> QED BY <2>1, <2>2
<1> QED BY <1>5, <1>8, <1>9 DEF PubInv

LEMMA OnceVerdict ==
    ASSUME PubBase, NEW j \in Judgers, SaveVerdict(j)
    PROVE  PubInv'
<1>0. TypeOK /\ WorkTyped /\ wpc[j] = "save" /\ wrec[j] \in Existing /\ RowFor(wrow[j], wrec[j])
  BY JTypes DEF PubBase, JInv, SaveVerdict, WorkOK
<1>1. PICK row : row = [wrow[j] EXCEPT !.status = 1, !.result = wsrc[j]]
  OBVIOUS
<1>2. /\ UNCHANGED <<pc, inp, target, source, jobs, wrec, wsrc>>
      /\ records' = [records EXCEPT ![wrec[j]] = row]
      /\ wpc' = [wpc EXCEPT ![j] = "idle"]
  BY <1>1 DEF SaveVerdict, submitVars, localVars, diskVars
<1>3. /\ wpc'[j] = "idle" /\ \A i \in Judgers : i # j => wpc'[i] = wpc[i]
  BY <1>0, <1>2 DEF WorkTyped
<1>4. row # None /\ wrec[j] \in Reqs /\ row.result = wsrc[j]
  <2>1. row.result = wsrc[j]
    BY <1>0, <1>1 DEF RowFor, Rows
  <2>2. wsrc[j] \in Reqs \cup {"nothing"}
    BY <1>0 DEF PubBase, JInv, WorkOK
  <2>3. row \in Rows
    BY <1>0, <1>1, <2>2 DEF RowFor, Rows
  <2> QED BY <1>0, <2>1, <2>3, SubmissionAssumption DEF Existing
<1>5. /\ \A q \in Reqs : records'[q] = IF q = wrec[j] THEN row ELSE records[q]
      /\ Existing' = Existing
  BY <1>0, <1>2, <1>4 DEF TypeOK, Existing
<1>6. CASE ~AtOnce(wrec[j])
  BY <1>0, <1>2, <1>3, <1>5, <1>6, OnceKept
<1>7. CASE AtOnce(wrec[j])
  <2>1. /\ Handed(wrec[j], j) /\ wsrc[j] = wrec[j]
        /\ \A i \in Judgers : \A k \in DOMAIN jobs[i] : jobs[i][k] # wrec[j]
        /\ \A i \in Judgers : i # j /\ wpc[i] # "idle" => wrec[i] # wrec[j]
    BY <1>0, <1>7, OneJudger DEF PubBase, PubInv, PubWork
  <2>2. \A i : \A q \in Reqs : q # wrec[j] /\ Handed(q, i) => Handed(q, i)'
    BY <1>2, <1>5 DEF Handed
  <2>3. PubRows'
    <3>1. pc[wrec[j]] = "done"
      BY <2>1 DEF Handed
    <3> QED BY <1>2, <1>4, <1>5, <2>1, <3>1 DEF PubBase, PubInv, PubRows, AtOnce, Stored
  <2>4. PubJobs'
    <3> SUFFICES ASSUME NEW i \in Judgers, NEW k \in DOMAIN jobs[i], AtOnce(jobs[i][k])
                 PROVE  /\ Handed(jobs[i][k], i)'
                        /\ \A m \in DOMAIN jobs[i] : jobs[i][m] = jobs[i][k] => m = k
      BY <1>2 DEF PubJobs, AtOnce
    <3>1. PICK x \in Reqs : x = jobs[i][k] /\ x # wrec[j]
      BY <2>1 DEF PubBase, JInv, JobsKnown, Existing
    <3>2. Handed(x, i) /\ \A m \in DOMAIN jobs[i] : jobs[i][m] = x => m = k
      BY <3>1 DEF PubBase, PubInv, PubJobs
    <3>3. Handed(x, i)'
      BY <2>2, <3>1, <3>2
    <3> QED BY <1>2, <3>1, <3>2, <3>3 DEF Handed
  <2>5. PubWork'
    <3> SUFFICES ASSUME NEW i \in Judgers, wpc'[i] # "idle", AtOnce(wrec[i])
                 PROVE  /\ Handed(wrec[i], i)'
                        /\ \A k \in DOMAIN jobs[i] : jobs[i][k] # wrec[i]
                        /\ wpc'[i] # "run" => wsrc[i] = wrec[i]
      BY <1>2 DEF PubWork, AtOnce
    <3>1. i # j /\ wpc'[i] = wpc[i]
      BY <1>3
    <3>2. PICK x \in Reqs : x = wrec[i] /\ AtOnce(x) /\ x # wrec[j]
      BY <2>1, <3>1 DEF PubBase, JInv, WorkOK, Existing
    <3>3. /\ Handed(x, i) /\ (\A k \in DOMAIN jobs[i] : jobs[i][k] # x)
          /\ wpc[i] # "run" => wsrc[i] = x
      BY <3>1, <3>2 DEF PubBase, PubInv, PubWork
    <3>4. Handed(x, i)'
      BY <2>2, <3>2, <3>3
    <3> QED BY <1>2, <3>1, <3>2, <3>3, <3>4 DEF Handed
  <2> QED BY <2>3, <2>4, <2>5 DEF PubInv
<1> QED BY <1>6, <1>7

LEMMA OnceWork ==
    ASSUME PubBase, NEW j \in Judgers, Work(j)
    PROVE  PubInv'
<1>0. TypeOK /\ WorkTyped /\ WorkOK(j)
  BY JTypes DEF PubBase, JInv
<1>1. CASE Run(j)
  <2>1. /\ UNCHANGED <<pc, inp, target, source, jobs, wrec, records>> /\ wpc[j] = "run"
        /\ wpc' = [wpc EXCEPT ![j] = "row"]
        /\ wsrc' = [wsrc EXCEPT ![j] = IF source[wrec[j]] = None THEN "nothing"
                                       ELSE source[wrec[j]]]
    BY <1>1 DEF Run, submitVars, localVars, diskVars, dbVars
  <2>2. /\ wpc'[j] = "row"
        /\ wsrc'[j] = IF source[wrec[j]] = None THEN "nothing" ELSE source[wrec[j]]
        /\ \A i \in Judgers : i # j => wpc'[i] = wpc[i] /\ wsrc'[i] = wsrc[i]
    BY <1>0, <2>1 DEF WorkTyped
  <2>3. AtOnce(wrec[j]) => source[wrec[j]] # None
    BY <2>1, OneJudger, SubmissionAssumption DEF Handed
  <2>4. Existing' = Existing
    BY <2>1 DEF Existing
  <2> QED BY <2>1, <2>2, <2>3, <2>4, OnceKept
<1>2. CASE ReadRow(j) \/ ReadState(j) \/ SaveState(j) \/ WriteDetail(j) \/ NoDirectory(j)
  <2>1. /\ UNCHANGED <<pc, inp, target, source, jobs, wrec, wsrc, records>>
        /\ wpc[j] \notin {"idle", "run"}
        /\ \E label : label # "run" /\ wpc' = [wpc EXCEPT ![j] = label]
    BY <1>2 DEF ReadRow, ReadState, SaveState, WriteDetail, NoDirectory, submitVars, localVars,
       diskVars, dbVars
  <2>2. wpc'[j] # "run" /\ \A i \in Judgers : i # j => wpc'[i] = wpc[i]
    BY <1>0, <2>1 DEF WorkTyped
  <2>3. Existing' = Existing
    BY <2>1 DEF Existing
  <2> QED BY <2>1, <2>2, <2>3, OnceKept
<1> QED BY <1>1, <1>2, OnceTake, OnceVerdict DEF Work

LEMMA TaExisting ==
    ASSUME JInv, NEW t \in Tas, Start(t) \/ TaStep(t)
    PROVE  Existing' = Existing
<1>1. CASE Reset(t)
  <2>1. PICK q \in Left(t) :
           records' = [records EXCEPT ![q] = [trows[t][q] EXCEPT !.status = 0, !.result = None]]
    BY <1>1 DEF Reset
  <2>2. PICK row : row = [trows[t][q] EXCEPT !.status = 0, !.result = None]
    OBVIOUS
  <2>3. RowFor(trows[t][q], q)
    BY <2>1 DEF JInv, TaOK
  <2>4. RowFor(row, q)
    BY <2>2, <2>3 DEF RowFor, Rows
  <2> QED BY <2>1, <2>2, <2>4, RowWritten
<1>2. CASE Score(t)
  <2>1. PICK q \in Left(t) : records' = [records EXCEPT ![q] = [trows[t][q] EXCEPT !.status = 1]]
    BY <1>2 DEF Score
  <2>2. PICK row : row = [trows[t][q] EXCEPT !.status = 1]
    OBVIOUS
  <2>3. RowFor(trows[t][q], q)
    BY <2>1 DEF JInv, TaOK
  <2>4. RowFor(row, q)
    BY <2>2, <2>3 DEF RowFor, Rows
  <2> QED BY <2>1, <2>2, <2>4, RowWritten
<1>3. CASE ~Reset(t) /\ ~Score(t)
  <2>1. records' = records
    BY <1>3 DEF Start, TaStep, ReadFinals, ReadRecord, NoConfig, NoRecord, ReadStateTa, NoStateTa,
       SaveStateAll, LoopEnds, PostTa, PostTaFails, Unzip, UnzipFails, dbVars
  <2> QED BY <2>1 DEF Existing
<1> QED BY <1>1, <1>2, <1>3

LEMMA PubBaseNext ==
    ASSUME PubBase, [JNext]_<<vars, judgeVars>>
    PROVE  PubBase'
<1>1. JInv' /\ TurnInv'
  BY JInvNext, TurnInvNext DEF PubBase
<1>2. TypeOK'
  BY <1>1 DEF JInv, JTypeOK
<1>3. CASE UNCHANGED <<vars, judgeVars>>
  <2>1. PubInv'
    BY <1>3 DEF vars, localVars, dbVars, diskVars, judgeVars, workVars, PubBase, PubInv, PubRows,
       PubJobs, PubWork, AtOnce, Handed, Existing
  <2> QED BY <1>1, <2>1 DEF PubBase
<1>4. CASE JNext
  <2>1. PubInv'
    BY <1>2, <1>3, <1>4, OnceSubmit, OnceTa, OnceWork, TaExisting DEF JNext, AllQuiet, PubBase
  <2> QED BY <1>1, <2>1 DEF PubBase
<1> QED BY <1>3, <1>4

LEMMA PubBaseAlways == JSpec => []PubBase
<1>1. JInit => PubBase
  <2> SUFFICES ASSUME JInit PROVE PubBase
    OBVIOUS
  <2>1. PubInv
    BY DEF JInit, Init, PubInv, PubRows, PubJobs, PubWork, Stored, Existing
  <2> QED BY <2>1, JInvInit, TurnInvInit DEF PubBase
<1>2. PubBase /\ [JNext]_<<vars, judgeVars>> => PubBase'
  BY PubBaseNext
<1> QED BY <1>1, <1>2, PTL DEF JSpec

(* The only writers of a row that is judged at once are its request, which  *)
(* has finished before the job is queued, and the one verdict.              *)
LEMMA VerdictKept ==
    ASSUME PubBase, [JNext]_<<vars, judgeVars>>, NEW q \in Existing,
           records[q].args.type \in {0, 1}, records[q].status = 1
    PROVE  records'[q] = records[q] /\ records[q].result = q
<1>1. q \in Reqs /\ AtOnce(q)
  <2>1. records[q].args = Filtered(q) /\ q \in Reqs
    BY DEF PubBase, JInv, RecordsKnown, Existing
  <2>2. Filtered(q).type = inp[q].type
    BY <2>1, InputFacts DEF PubBase, JInv, JTypeOK, Typed, Filtered, Columns
  <2> QED BY <2>1, <2>2 DEF AtOnce
<1>2. /\ records[q].result = q /\ pc[q] \notin Stored /\ pc[q] \notin Fresh
      /\ TypeOK
  BY <1>1 DEF PubBase, JInv, JTypeOK, PubInv, PubRows, RecordsKnown
<1>3. ASSUME NEW r \in Reqs, Submit(r)
      PROVE  records'[q] = records[q]
  <2>1. Refuse(r) \/ Arrive(r) \/ Step(r)
    BY <1>3 DEF Submit
  <2>2. Alone(r)
    BY <2>1, StepAlone DEF PubBase, TurnInv
  <2>3. CASE q # r
    BY <1>1, <2>1, <2>2, <2>3, OtherOnce
  <2>4. CASE q = r
    <3>1. ~Create(r) /\ ~SaveRecord(r)
      BY <1>2, <2>4 DEF Create, SaveRecord, At, Stored, Fresh
    <3>2. CASE Match(r) \/ Post(r)
      BY <3>2 DEF Match, Post, dbVars
    <3>3. CASE ~Match(r) /\ ~Post(r)
      BY <2>1, <3>1, <3>3, StillStep DEF Still, PubBase
    <3> QED BY <3>2, <3>3
  <2> QED BY <2>3, <2>4
<1>4. ASSUME NEW t \in Tas, Start(t) \/ TaStep(t)
      PROVE  records'[q] = records[q]
  <2>1. CASE Reset(t) \/ Score(t)
    <3>1. PICK x \in Left(t) : \E row : records' = [records EXCEPT ![x] = row]
      BY <2>1 DEF Reset, Score
    <3>2. x # q
      BY <1>1, <3>1, NotOnce DEF PubBase
    <3> QED BY <1>1, <1>2, <3>1, <3>2 DEF TypeOK
  <2>2. CASE ~Reset(t) /\ ~Score(t)
    BY <1>4, <2>2 DEF Start, TaStep, ReadFinals, ReadRecord, NoConfig, NoRecord, ReadStateTa, NoStateTa,
       SaveStateAll, LoopEnds, PostTa, PostTaFails, Unzip, UnzipFails, dbVars
  <2> QED BY <2>1, <2>2
<1>5. ASSUME NEW j \in Judgers, Work(j)
      PROVE  records'[q] = records[q]
  <2>1. CASE SaveVerdict(j)
    <3>1. wrec[j] # q
      <4> SUFFICES ASSUME wrec[j] = q PROVE FALSE
        OBVIOUS
      <4>1. Handed(q, j)
        BY <1>1, <2>1, OneJudger DEF SaveVerdict
      <4> QED BY <4>1 DEF Handed
    <3>2. \E row : records' = [records EXCEPT ![wrec[j]] = row]
      BY <2>1 DEF SaveVerdict
    <3> QED BY <1>1, <1>2, <3>1, <3>2 DEF TypeOK
  <2>2. CASE ~SaveVerdict(j)
    BY <1>5, <2>2 DEF Work, Take, Run, ReadRow, ReadState, SaveState, WriteDetail, NoDirectory,
       dbVars
  <2> QED BY <2>1, <2>2
<1>6. records'[q] = records[q]
  BY <1>3, <1>4, <1>5 DEF JNext, AllQuiet, vars, dbVars
<1> QED BY <1>2, <1>6

(* The verdict of a test or of a public submission is final and about its   *)
(* own code: no later submission, batch, score or verdict changes the row   *)
(* (problem.py:640-684, record.py:160-236).                                 *)
THEOREM VerdictFinal == JSpec => PublicVerdictStands
<1>1. PubBase /\ [JNext]_<<vars, judgeVars>> =>
        [\A q \in Existing : records[q].args.type \in {0, 1} /\ records[q].status = 1
            => records'[q] = records[q] /\ records[q].result = q]_<<vars, judgeVars>>
  BY VerdictKept
<1> QED BY <1>1, PubBaseAlways, PTL DEF JSpec, PublicVerdictStands

-----------------------------------------------------------------------------
(* Theorems about Judging as the assistants' page is meant to be used: they *)
(* judge after the deadline, one request at a time, and not while a batch   *)
(* of the problem is under way.                                             *)

Started == \E t \in Tas : tpc[t] # "idle"

Busy(t) == tpc[t] \notin {"idle", "done"}

(* Submissions come first; until an assistant starts, the judgers only see  *)
(* what is judged at once.                                                  *)
Phases ==
    /\ Started => \A r \in Reqs : pc[r] \in {"idle", "done"}
    /\ \A t, u \in Tas : Busy(t) /\ Busy(u) => t = u
    /\ ~Started =>
           /\ \A j \in Judgers : \A k \in DOMAIN jobs[j] : AtOnce(jobs[j][k])
           /\ \A j \in Judgers : wpc[j] # "idle" => AtOnce(wrec[j])
           /\ \A q \in Existing : records[q].status = 1 => AtOnce(q)

(* What a judger ran is what is on disk, up to the verdict.                 *)
FileJudged ==
    /\ \A j \in Judgers : wpc[j] \notin {"idle", "run"} =>
           wsrc[j] = IF source[wrec[j]] = None THEN "nothing" ELSE source[wrec[j]]
    /\ \A j \in Judgers : wpc[j] = "save" =>
           source[wrec[j]] # None /\ detail[wrec[j]] = source[wrec[j]]

-----------------------------------------------------------------------------
(* Where a final record waits for its verdict to be counted: with the       *)
(* batch, or with a judger.                                                 *)
Early == {"run", "row", "readjs", "savejs"}

Loop == {"reset", "post", "unzip"}

Held(q) == \E t \in Tas : tpc[t] \in Loop /\ q \in Left(t)

Given(q) == \E j \in Judgers : \/ \E k \in DOMAIN jobs[j] : jobs[j][k] = q
                               \/ wrec[j] = q /\ wpc[j] \in Early

Open(s) == {q \in Finals(s) : Held(q) \/ Given(q)}

BatchJudger(q) == IF Method[inp[q].prob] = 1 THEN "script" ELSE "tradi"

(* Only batches hand records over, so that a record is final and goes to    *)
(* the judger of its problem.                                               *)
Roles(t) ==
    /\ tpc[t] \in {"finals", "readjs", "savejs"} \cup Loop => tkind[t] = "all"
    /\ tpc[t] = "record" => tkind[t] = "score"
    /\ tpc[t] # "done" => tanswer[t] = None
    /\ tpc[t] = "post" => Method[tslot[t][2]] # 2
    /\ tpc[t] = "unzip" => Method[tslot[t][2]] = 2
    /\ tpc[t] # "idle" => Left(t) \subseteq Finals(tslot[t])

(* A batch starts on records none of which is with a judger, and keeps      *)
(* those it has still to hand over.                                         *)
Apart(t) ==
    /\ tpc[t] \in {"finals", "readjs", "savejs"} => \A q \in Finals(tslot[t]) : ~Given(q)
    /\ tpc[t] \in Loop => \A q \in Left(t) : ~Given(q)

FinalJob(q, j) == inp[q].type = 2 /\ Method[inp[q].prob] # 2 /\ j = BatchJudger(q)

(* A judger has each final record once.                                     *)
Once(j) ==
    /\ \A k \in DOMAIN jobs[j] : ~AtOnce(jobs[j][k]) =>
           /\ FinalJob(jobs[j][k], j)
           /\ \A m \in DOMAIN jobs[j] : jobs[j][m] = jobs[j][k] => m = k
           /\ wpc[j] \in Early => wrec[j] # jobs[j][k]
    /\ wpc[j] \in Early /\ ~AtOnce(wrec[j]) => FinalJob(wrec[j], j)
    /\ wpc[j] = "savejs" => wjs[j] = judgestates[JobSlot(j)]

(* The books: what is counted and what is open make up total_waiting, less  *)
(* what an error dropped.                                                   *)
Books(s) ==
    /\ judgestates[s].judged + Cardinality(Open(s)) <= judgestates[s].waiting
    /\ Method[s[2]] # 2 /\ (\A t \in Tas : tanswer[t] # "error") =>
           judgestates[s].judged + Cardinality(Open(s)) = judgestates[s].waiting

(* Before an assistant starts, nothing is counted.                          *)
Clean ==
    /\ \A s \in HwProblems : judgestates[s].judged = 0 /\ judgestates[s].waiting = 0
    /\ \A r \in Reqs : pc[r] = "savejs" => js[r].judged = 0 /\ js[r].waiting = 0

(* What holds when no single record is judged again: that is not counted.   *)
Careful == Disciplined /\ "one" \notin Kinds

BatchInv ==
    /\ ~Started => Clean
    /\ \A t \in Tas : Roles(t) /\ Apart(t)
    /\ \A j \in Judgers : Once(j)
    /\ \A s \in HwProblems : Books(s)

-----------------------------------------------------------------------------
(* Phases.                                                                  *)
LEMMA TaShape ==
    ASSUME JInv, NEW t \in Tas, TaStep(t)
    PROVE  /\ Busy(t) /\ \A u \in Tas : u # t => tpc'[u] = tpc[u]
           /\ tpc'[t] # "idle" /\ UNCHANGED <<submitVars, workVars, detail>>
<1>1. TaTyped
  BY JTypes DEF JInv
<1>2. /\ Busy(t) /\ UNCHANGED <<submitVars, workVars, detail>>
      /\ \E label : label # "idle" /\ tpc' = [tpc EXCEPT ![t] = label]
  BY DEF Busy, TaStep, ReadFinals, ReadRecord, NoConfig, NoRecord, ReadStateTa, NoStateTa,
     SaveStateAll, Reset, LoopEnds, PostTa, PostTaFails, Unzip, UnzipFails, Score, Return
<1> QED BY <1>1, <1>2 DEF TaTyped

(* A request's step makes no row say "judged".                              *)
LEMMA RowsOfStep ==
    ASSUME PubBase, NEW r \in Reqs, Refuse(r) \/ Arrive(r) \/ Step(r), Alone(r),
           NEW q \in Existing', records'[q].status = 1
    PROVE  q \in Existing /\ records'[q] = records[q]
<1>0. TypeOK /\ Typed /\ q \in Reqs
  BY DEF PubBase, TurnInv, Typed, Existing
<1>1. CASE Create(r)
  <2>1. PICK row : row = [args |-> Filtered(r), status |-> 0, by |-> None, result |-> None]
    OBVIOUS
  <2>2. row.status = 0 /\ records' = [records EXCEPT ![r] = row]
    BY <1>1, <2>1 DEF Create
  <2> QED BY <1>0, <2>2 DEF TypeOK, Existing
<1>2. CASE SaveRecord(r)
  <2>1. PICK row : row = [snap[r] EXCEPT !.by = r]
    OBVIOUS
  <2>2. RowFor(snap[r], target[r]) /\ snap[r].status = 0
    BY <1>2 DEF SaveRecord, At, PubBase, JInv, RecordsKnown, Stored
  <2>3. row.status = 0 /\ records' = [records EXCEPT ![target[r]] = row]
    BY <1>2, <2>1, <2>2 DEF SaveRecord, RowFor, Rows
  <2> QED BY <1>0, <2>2, <2>3 DEF TypeOK, Existing, RowFor
<1>3. CASE ~Create(r) /\ ~SaveRecord(r)
  <2>1. records' = records
    <3>1. CASE Match(r) \/ Post(r)
      BY <3>1 DEF Match, Post, dbVars
    <3>2. CASE ~Match(r) /\ ~Post(r)
      BY <1>3, <3>2, StillStep DEF Still, PubBase
    <3> QED BY <3>1, <3>2
  <2> QED BY <2>1 DEF Existing
<1> QED BY <1>1, <1>2, <1>3

LEMMA SubmitEarly ==
    ASSUME Disciplined, PubBase, Phases, NEW r \in Reqs, Submit(r)
    PROVE  ~Started /\ ~Started' /\ (Refuse(r) \/ Arrive(r) \/ Step(r)) /\ Alone(r)
<1>1. Refuse(r) \/ Arrive(r) \/ Step(r)
  BY DEF Submit
<1>2. Alone(r)
  BY <1>1, StepAlone DEF PubBase, TurnInv
<1>3. ~Started
  <2>1. CASE MaySubmit
    BY <2>1 DEF MaySubmit, Started
  <2>2. CASE Step(r)
    BY <2>2, StepShape DEF Inner, Leave, Phases, PubBase, TurnInv
  <2> QED BY <2>1, <2>2 DEF Submit
<1>4. ~Started'
  BY <1>3 DEF Submit, judgeVars, taVars, Started
<1> QED BY <1>1, <1>2, <1>3, <1>4

LEMMA PhasesSubmit ==
    ASSUME Disciplined, PubBase, Phases, NEW r \in Reqs, Submit(r)
    PROVE  Phases'
<1>1. ~Started /\ ~Started' /\ (Refuse(r) \/ Arrive(r) \/ Step(r)) /\ Alone(r)
  BY SubmitEarly
<1>2. UNCHANGED judgeVars /\ inp' = inp /\ TypeOK
  BY <1>1 DEF Submit, Alone, PubBase, JInv, JTypeOK
<1>3. \A t \in Tas : Busy(t)' <=> Busy(t)
  BY <1>2 DEF judgeVars, taVars, Busy
<1>4. ASSUME NEW j \in Judgers, NEW k \in DOMAIN jobs'[j]
      PROVE  AtOnce(jobs'[j][k])
  <2>1. PICK s \in Seq(Reqs) : s = jobs[j]
    BY <1>2 DEF TypeOK
  <2>2. \A i \in DOMAIN s : AtOnce(s[i])
    BY <1>1, <2>1 DEF Phases
  <2>3. PICK j0 \in Judgers : j0 = JudgerOf(inp[r])
    BY DEF Judgers, JudgerOf
  <2>4. \/ jobs'[j] = s
        \/ AtOnce(r) /\ jobs'[j] = Append(s, r)
    BY <1>1, <1>2, <2>1, <2>3, JobsGrow DEF TypeOK
  <2> QED BY <2>1, <2>2, <2>4
<1>5. \A j \in Judgers : wpc'[j] # "idle" => AtOnce(wrec'[j])
  BY <1>1, <1>2 DEF Phases, judgeVars, workVars
<1>6. \A q \in Existing' : records'[q].status = 1 => AtOnce(q)
  BY <1>1, RowsOfStep DEF Phases
<1> QED BY <1>1, <1>2, <1>3, <1>4, <1>5, <1>6 DEF Phases, AtOnce

LEMMA PhasesTa ==
    ASSUME Disciplined, PubBase, Phases, NEW t \in Tas, Start(t) \/ TaStep(t)
    PROVE  Phases'
<1>0. TaTyped
  BY JTypes DEF PubBase, JInv
<1>1. CASE Start(t)
  <2>1. /\ pc' = pc /\ tpc[t] = "idle" /\ \E label : label # "idle" /\ tpc' = [tpc EXCEPT ![t] = label]
        /\ \A r \in Reqs : pc[r] \in {"idle", "done"}
        /\ \A u \in Tas : tpc[u] \in {"idle", "done"}
    BY <1>1 DEF Start, MayStart, submitVars
  <2>2. tpc'[t] # "idle" /\ \A u \in Tas : u # t => tpc'[u] = tpc[u]
    BY <1>0, <2>1 DEF TaTyped
  <2>3. Started' /\ \A u \in Tas : Busy(u)' => u = t
    BY <2>1, <2>2 DEF Started, Busy
  <2> QED BY <2>1, <2>3 DEF Phases
<1>2. CASE TaStep(t)
  <2>1. /\ Busy(t) /\ (\A u \in Tas : u # t => tpc'[u] = tpc[u])
        /\ tpc'[t] # "idle" /\ pc' = pc
    BY <1>2, TaShape DEF PubBase, submitVars
  <2>2. Started /\ Started'
    BY <2>1 DEF Started, Busy
  <2>3. \A u \in Tas : Busy(u)' => Busy(u)
    BY <2>1 DEF Busy
  <2> QED BY <2>1, <2>2, <2>3 DEF Phases
<1> QED BY <1>1, <1>2

LEMMA PhasesWork ==
    ASSUME PubBase, Phases, NEW j \in Judgers, Work(j)
    PROVE  Phases'
<1>0. TypeOK /\ WorkTyped
  BY JTypes DEF PubBase, JInv
<1>1. UNCHANGED <<pc, tpc, inp>>
  BY DEF Work, Take, Run, ReadRow, ReadState, SaveState, WriteDetail, NoDirectory, SaveVerdict,
     submitVars, taVars
<1>2. (Started' <=> Started) /\ \A t \in Tas : Busy(t)' <=> Busy(t)
  BY <1>1 DEF Started, Busy
<1> SUFFICES ASSUME ~Started
             PROVE  /\ \A i \in Judgers : \A k \in DOMAIN jobs'[i] : AtOnce(jobs'[i][k])
                    /\ \A i \in Judgers : wpc'[i] # "idle" => AtOnce(wrec'[i])
                    /\ \A q \in Existing' : records'[q].status = 1 => AtOnce(q)
  BY <1>1, <1>2 DEF Phases, AtOnce
<1>3. CASE Take(j)
  <2>1. PICK s \in Seq(Reqs) : s = jobs[j] /\ s # <<>>
    BY <1>0, <1>3 DEF TypeOK, Take
  <2>2. \A k \in DOMAIN s : AtOnce(s[k])
    BY <2>1 DEF Phases
  <2>3. AtOnce(Head(s)) /\ \A k \in DOMAIN Tail(s) : AtOnce(Tail(s)[k])
    BY <2>1, <2>2
  <2>4. /\ jobs'[j] = Tail(s) /\ wrec'[j] = Head(s)
        /\ \A i \in Judgers : i # j => /\ jobs'[i] = jobs[i] /\ wrec'[i] = wrec[i]
                                       /\ wpc'[i] = wpc[i]
        /\ records' = records
    BY <1>0, <1>3, <2>1 DEF Take, TypeOK, WorkTyped, dbVars
  <2> QED BY <2>3, <2>4 DEF Phases, Existing
<1>4. CASE ~Take(j)
  <2>1. /\ jobs' = jobs /\ wrec' = wrec
        /\ \A i \in Judgers : wpc'[i] # "idle" => wpc[i] # "idle"
    BY <1>0, <1>4 DEF Work, Run, ReadRow, ReadState, SaveState, WriteDetail, NoDirectory,
       SaveVerdict, WorkTyped
  <2>2. CASE SaveVerdict(j)
    <3>1. \E row : records' = [records EXCEPT ![wrec[j]] = row]
      BY <2>2 DEF SaveVerdict
    <3>2. AtOnce(wrec[j]) /\ wrec[j] \in Existing
      BY <2>2 DEF SaveVerdict, Phases, PubBase, JInv, WorkOK
    <3> QED BY <1>0, <2>1, <3>1, <3>2 DEF Phases, Existing, TypeOK
  <2>3. CASE ~SaveVerdict(j)
    <3>1. records' = records
      BY <1>4, <2>3 DEF Work, Run, ReadRow, ReadState, SaveState, WriteDetail, NoDirectory, dbVars
    <3> QED BY <2>1, <3>1 DEF Phases, Existing
  <2> QED BY <2>2, <2>3
<1> QED BY <1>3, <1>4

LEMMA PhasesNext ==
    ASSUME Disciplined, PubBase, Phases, [JNext]_<<vars, judgeVars>>
    PROVE  Phases'
<1>1. CASE UNCHANGED <<vars, judgeVars>>
  BY <1>1 DEF Phases, Started, Busy, AtOnce, Existing, vars, dbVars, judgeVars, taVars, workVars
<1>2. CASE JNext
  BY <1>1, <1>2, PhasesSubmit, PhasesTa, PhasesWork DEF JNext, AllQuiet
<1> QED BY <1>1, <1>2

-----------------------------------------------------------------------------
(* The file of a record does not change from the moment a judger runs it.   *)
FileBase == PubBase /\ Phases /\ FileJudged /\ VerdictOfFile

LEMMA FileSubmit ==
    ASSUME Disciplined, FileBase, NEW r \in Reqs, Submit(r)
    PROVE  FileJudged' /\ VerdictOfFile'
<1>1. ~Started /\ (Refuse(r) \/ Arrive(r) \/ Step(r)) /\ Alone(r)
  BY SubmitEarly DEF FileBase
<1>2. UNCHANGED <<judgeVars, inp>> /\ pc[r] # "done" /\ TypeOK
  BY <1>1 DEF Submit, Alone, FileBase, PubBase, JInv, JTypeOK
<1>3. ASSUME NEW j \in Judgers, wpc[j] # "idle"
      PROVE  source'[wrec[j]] = source[wrec[j]]
  <2>1. AtOnce(wrec[j]) /\ wrec[j] \in Reqs /\ pc[wrec[j]] = "done"
    BY <1>1, <1>3 DEF FileBase, Phases, PubBase, PubInv, PubWork, Handed, JInv, WorkOK, Existing
  <2> QED BY <1>1, <1>2, <2>1, OtherOnce DEF FileBase
<1>4. FileJudged'
  BY <1>2, <1>3 DEF FileBase, FileJudged, judgeVars, workVars
<1>5. ASSUME NEW q \in Existing', records'[q].status = 1, records'[q].args.type # 4
      PROVE  records'[q].result = source'[q] /\ detail'[q] = source'[q]
  <2>1. q \in Existing /\ records'[q] = records[q] /\ AtOnce(q)
    BY <1>1, <1>5, RowsOfStep DEF FileBase, Phases
  <2>2. q # r
    <3> SUFFICES ASSUME q = r PROVE FALSE
      OBVIOUS
    <3>1. pc[r] \notin Stored /\ pc[r] \notin Fresh
      BY <1>5, <2>1 DEF FileBase, PubBase, PubInv, PubRows, JInv, RecordsKnown, Existing
    <3> QED BY <1>2, <3>1 DEF TypeOK, Labels, Stored, Fresh
  <2>3. source'[q] = source[q]
    BY <1>1, <2>1, <2>2, OtherOnce DEF FileBase, Existing
  <2> QED BY <1>2, <1>5, <2>1, <2>3 DEF FileBase, VerdictOfFile, judgeVars
<1> QED BY <1>4, <1>5 DEF VerdictOfFile

(* One row is written, by an assistant or a judger.                         *)
TrueRow(row, q) ==
    row.status = 1 /\ row.args.type # 4 => row.result = source[q] /\ detail[q] = source[q]

LEMMA FileWritten ==
    ASSUME FileBase, NEW row, NEW q0, RowFor(row, q0), TrueRow(row, q0),
           records' = [records EXCEPT ![q0] = row], source' = source, detail' = detail
    PROVE  VerdictOfFile'
<1>1. JInv
  BY DEF FileBase, PubBase
<1>2. Existing' = Existing
  BY <1>1, RowWritten
<1>3. \A x \in Existing : records'[x] = IF x = q0 THEN row ELSE records[x]
  BY <1>1 DEF JInv, JTypeOK, TypeOK, Existing
<1> QED BY <1>2, <1>3 DEF FileBase, VerdictOfFile, TrueRow

LEMMA FileTa ==
    ASSUME FileBase, NEW t \in Tas, Start(t) \/ TaStep(t)
    PROVE  FileJudged' /\ VerdictOfFile'
<1>0. JInv
  BY DEF FileBase, PubBase
<1>1. UNCHANGED <<submitVars, workVars, detail>>
  BY <1>0, TaShape DEF Start
<1>2. UNCHANGED <<source, wpc, wrec, wsrc, detail>>
  BY <1>1 DEF submitVars, diskVars, workVars
<1>3. FileJudged'
  BY <1>2 DEF FileBase, FileJudged
<1>4. CASE Reset(t)
  <2>1. PICK q \in Left(t) :
           records' = [records EXCEPT ![q] = [trows[t][q] EXCEPT !.status = 0, !.result = None]]
    BY <1>4 DEF Reset
  <2>2. PICK row : row = [trows[t][q] EXCEPT !.status = 0, !.result = None]
    OBVIOUS
  <2>3. RowFor(trows[t][q], q)
    BY <1>0, <2>1 DEF JInv, TaOK
  <2>4. RowFor(row, q) /\ row.status = 0
    BY <2>2, <2>3 DEF RowFor, Rows
  <2>5. TrueRow(row, q)
    BY <2>4 DEF TrueRow
  <2> QED BY <1>2, <1>3, <2>1, <2>2, <2>4, <2>5, FileWritten
<1>5. CASE Score(t)
  <2>1. PICK q \in Left(t) : records' = [records EXCEPT ![q] = [trows[t][q] EXCEPT !.status = 1]]
    BY <1>5 DEF Score
  <2>2. PICK row : row = [trows[t][q] EXCEPT !.status = 1]
    OBVIOUS
  <2>3. RowFor(trows[t][q], q) /\ inp[q].type = FinalType(tslot[t]) /\ FinalType(tslot[t]) = 4
    BY <1>0, <1>5, <2>1 DEF JInv, TaOK, Score
  <2>4. RowFor(row, q) /\ row.args = Filtered(q) /\ q \in Reqs
    BY <2>2, <2>3 DEF RowFor, Rows, Existing
  <2>5. row.args.type = 4
    BY <1>0, <2>3, <2>4, InputFacts DEF JInv, JTypeOK, Typed, Filtered, Columns
  <2>6. TrueRow(row, q)
    BY <2>5 DEF TrueRow
  <2> QED BY <1>2, <1>3, <2>1, <2>2, <2>4, <2>6, FileWritten
<1>6. CASE ~Reset(t) /\ ~Score(t)
  <2>1. records' = records
    BY <1>6 DEF Start, TaStep, ReadFinals, ReadRecord, NoConfig, NoRecord, ReadStateTa, NoStateTa,
       SaveStateAll, LoopEnds, PostTa, PostTaFails, Unzip, UnzipFails, dbVars
  <2>2. VerdictOfFile'
    BY <1>2, <2>1 DEF FileBase, VerdictOfFile, Existing
  <2> QED BY <1>3, <2>2
<1> QED BY <1>4, <1>5, <1>6

LEMMA FileWork ==
    ASSUME FileBase, NEW j \in Judgers, Work(j)
    PROVE  FileJudged' /\ VerdictOfFile'
<1>0. JInv /\ WorkTyped /\ TypeOK /\ WorkOK(j) /\ (wpc[j] # "idle" => wrec[j] \in Reqs)
  BY JTypes DEF FileBase, PubBase, JInv, WorkOK, Existing
<1>1. source' = source
  BY DEF Work, Take, Run, ReadRow, ReadState, SaveState, WriteDetail, NoDirectory, SaveVerdict,
     submitVars, diskVars
<1>2. CASE WriteDetail(j)
  <2>1. /\ wpc[j] = "detail" /\ source[wrec[j]] # None /\ wsrc[j] = source[wrec[j]]
        /\ wrec[j] \in Reqs
    BY <1>0, <1>2 DEF WriteDetail, FileBase, FileJudged
  <2>2. \A q \in Reqs : detail'[q] = IF q = wrec[j] THEN source[q] ELSE detail[q]
    BY <1>0, <1>2, <2>1 DEF WriteDetail, WorkTyped
  <2>3. UNCHANGED <<records, wrec, wsrc>> /\ \A i \in Judgers : wpc'[i] = IF i = j THEN "save" ELSE wpc[i]
    BY <1>0, <1>2 DEF WriteDetail, WorkTyped, dbVars
  <2>4. VerdictOfFile'
    BY <1>1, <2>2, <2>3 DEF FileBase, VerdictOfFile, Existing
  <2>5. \A i \in Judgers : wpc[i] = "save" => wrec[i] \in Reqs
    BY DEF FileBase, PubBase, JInv, WorkOK, Existing
  <2>6. FileJudged'
    BY <1>1, <2>1, <2>2, <2>3, <2>5 DEF FileBase, FileJudged
  <2> QED BY <2>4, <2>6
<1>3. CASE SaveVerdict(j)
  <2>1. PICK row : row = [wrow[j] EXCEPT !.status = 1, !.result = wsrc[j]]
    OBVIOUS
  <2>2. /\ wpc[j] = "save" /\ RowFor(wrow[j], wrec[j]) /\ source[wrec[j]] # None
        /\ wsrc[j] = source[wrec[j]] /\ detail[wrec[j]] = source[wrec[j]]
    BY <1>0, <1>3 DEF SaveVerdict, WorkOK, FileBase, FileJudged
  <2>3. wsrc[j] \in Reqs
    BY <1>0, <2>2 DEF TypeOK
  <2>4. RowFor(row, wrec[j]) /\ row.result = wsrc[j]
    BY <2>1, <2>2, <2>3 DEF RowFor, Rows
  <2>5. /\ UNCHANGED <<detail, wrec, wsrc>>
        /\ \A i \in Judgers : wpc'[i] = IF i = j THEN "idle" ELSE wpc[i]
    BY <1>0, <1>3 DEF SaveVerdict, WorkTyped
  <2>6. FileJudged'
    BY <1>1, <2>5 DEF FileBase, FileJudged
  <2>7. records' = [records EXCEPT ![wrec[j]] = row]
    BY <1>3, <2>1 DEF SaveVerdict
  <2>8. TrueRow(row, wrec[j])
    BY <2>2, <2>4 DEF TrueRow
  <2> QED BY <1>1, <2>4, <2>5, <2>6, <2>7, <2>8, FileWritten
<1>4. CASE ~WriteDetail(j) /\ ~SaveVerdict(j)
  <2>1. UNCHANGED <<records, detail>>
    BY <1>4 DEF Work, Take, Run, ReadRow, ReadState, SaveState, NoDirectory, dbVars
  <2>2. VerdictOfFile'
    BY <1>1, <2>1 DEF FileBase, VerdictOfFile, Existing
  <2>3. CASE Run(j)
    <3>1. /\ UNCHANGED wrec /\ \A i \in Judgers : wpc'[i] = IF i = j THEN "row" ELSE wpc[i]
          /\ \A i \in Judgers : wsrc'[i] =
                IF i = j THEN IF source[wrec[j]] = None THEN "nothing" ELSE source[wrec[j]]
                ELSE wsrc[i]
      BY <1>0, <2>3 DEF Run, WorkTyped
    <3>2. FileJudged'
      BY <1>1, <2>1, <3>1 DEF FileBase, FileJudged
    <3> QED BY <2>2, <3>2
  <2>4. CASE ~Run(j)
    <3>1. /\ wsrc' = wsrc /\ wpc'[j] # "save"
          /\ \A i \in Judgers : i # j => wpc'[i] = wpc[i] /\ wrec'[i] = wrec[i]
          /\ wpc'[j] \notin {"idle", "run"} => wpc[j] \notin {"idle", "run"} /\ wrec'[j] = wrec[j]
      BY <1>0, <1>4, <2>4 DEF Work, Take, ReadRow, ReadState, SaveState, NoDirectory, WorkTyped
    <3>2. FileJudged'
      BY <1>1, <2>1, <3>1 DEF FileBase, FileJudged
    <3> QED BY <2>2, <3>2
  <2> QED BY <2>3, <2>4
<1> QED BY <1>2, <1>3, <1>4

LEMMA FileBaseNext ==
    ASSUME Disciplined, FileBase, [JNext]_<<vars, judgeVars>>
    PROVE  FileBase'
<1>1. PubBase' /\ Phases'
  BY PubBaseNext, PhasesNext DEF FileBase
<1>2. CASE UNCHANGED <<vars, judgeVars>>
  <2>1. FileJudged' /\ VerdictOfFile'
    BY <1>2 DEF FileBase, FileJudged, VerdictOfFile, Existing, vars, dbVars, diskVars, judgeVars,
       workVars
  <2> QED BY <1>1, <2>1 DEF FileBase
<1>3. CASE JNext
  <2>1. FileJudged' /\ VerdictOfFile'
    <3>1. CASE \E r \in Reqs : Submit(r)
      BY <3>1, FileSubmit
    <3>2. CASE \E t \in Tas : Start(t) \/ TaStep(t)
      BY <3>2, FileTa
    <3>3. CASE \E j \in Judgers : Work(j)
      <4>1. PICK j \in Judgers : Work(j)
        BY <3>3
      <4> QED BY <4>1, FileWork
    <3> QED BY <1>2, <1>3, <3>1, <3>2, <3>3 DEF JNext, AllQuiet, FileBase
  <2> QED BY <1>1, <2>1 DEF FileBase
<1> QED BY <1>2, <1>3

LEMMA FileBaseInit == JInit => FileBase
<1> SUFFICES ASSUME JInit PROVE FileBase
  OBVIOUS
<1>1. PubBase
  <2>1. PubInv
    BY DEF JInit, Init, PubInv, PubRows, PubJobs, PubWork, Stored, Existing
  <2> QED BY <2>1, JInvInit, TurnInvInit DEF PubBase
<1>2. Phases
  BY DEF JInit, Init, Phases, Started, Busy, Existing
<1>3. FileJudged /\ VerdictOfFile
  BY DEF JInit, Init, FileJudged, VerdictOfFile, Existing
<1> QED BY <1>1, <1>2, <1>3 DEF FileBase

LEMMA FileBaseAlways == ASSUME Disciplined PROVE JSpec => []FileBase
<1>1. FileBase /\ [JNext]_<<vars, judgeVars>> => FileBase'
  BY FileBaseNext
<1> QED BY <1>1, FileBaseInit, PTL DEF JSpec

(* VerdictOfFile: under the discipline of the page, a stored verdict and    *)
(* its detail file are about the code that is on disk                       *)
(* (record.py:204-229, problem.py:640-719).                                 *)
THEOREM VerdictTrue == ASSUME Disciplined PROVE JSpec => []VerdictOfFile
BY FileBaseAlways, PTL DEF FileBase

-----------------------------------------------------------------------------
(* The books of a batch.                                                    *)
BatchBase == PubBase /\ Phases /\ BatchInv

LEMMA BatchParts ==
    BatchBase => JInv /\ TypeOK /\ TaTyped /\ WorkTyped /\ Phases /\ BatchInv
BY JTypes DEF BatchBase, PubBase, JInv

LEMMA FinalsAre ==
    ASSUME JInv, NEW s \in Slots, NEW q \in Finals(s)
    PROVE  /\ q \in Existing /\ q \in Reqs /\ Slot(q) = s /\ inp[q].prob = s[2]
           /\ inp[q].type = FinalType(s) /\ ~AtOnce(q)
<1>1. /\ q \in Existing /\ q \in Reqs /\ records[q].args = Filtered(q)
      /\ records[q].args.hw = s[1] /\ records[q].args.prob = s[2]
      /\ inp[q].type = FinalType(s)
  BY FinalsKnown DEF Finals, Existing, RowFor
<1>2. inp[q].hw = s[1] /\ inp[q].prob = s[2]
  BY <1>1, InputFacts DEF JInv, JTypeOK, Typed, Filtered, Columns
<1>3. s = <<s[1], s[2]>>
  BY DEF Slots
<1> QED BY <1>1, <1>2, <1>3 DEF Slot, FinalType, AtOnce

LEMMA FinalsCover ==
    ASSUME JInv, NEW s \in Slots, NEW q \in Existing, Slot(q) = s, inp[q].type = FinalType(s)
    PROVE  q \in Finals(s)
<1>1. q \in Reqs /\ records[q].args = Filtered(q) /\ inp[q].hw = s[1] /\ inp[q].prob = s[2]
  BY DEF Existing, JInv, RecordsKnown, Slot
<1>2. /\ records[q].args.hw = inp[q].hw /\ records[q].args.prob = inp[q].prob
      /\ records[q].args.type = inp[q].type
  BY <1>1, InputFacts DEF JInv, JTypeOK, Typed, Filtered, Columns
<1> QED BY <1>1, <1>2 DEF Finals, FinalType

LEMMA FinalsOne ==
    ASSUME JInv, NEW s \in Slots, NEW z \in Slots, NEW q, q \in Finals(s), q \in Finals(z)
    PROVE  s = z
BY FinalsAre

LEMMA FinalsStay ==
    ASSUME JInv, JInv', inp' = inp, Existing' = Existing
    PROVE  \A s : Finals(s)' = Finals(s)
<1>1. \A q : Filtered(q)' = Filtered(q)
  BY DEF Filtered
<1>2. \A q \in Existing : records'[q].args = records[q].args
  BY <1>1 DEF JInv, RecordsKnown
<1> QED BY <1>2 DEF Finals

LEMMA OpenFinite ==
    ASSUME JInv, NEW s
    PROVE  IsFiniteSet(Open(s))
<1>1. Open(s) \subseteq Existing
  BY DEF Open, Finals
<1>2. IsFiniteSet(Existing)
  BY DEF JInv, RecordsKnown
<1> QED BY <1>1, <1>2, FS_Subset

(* A verdict that is counted is about a final record.                       *)
LEMMA WorkFinal ==
    ASSUME JInv, NEW j \in Judgers, wpc[j] \in {"readjs", "savejs"}
    PROVE  /\ wrec[j] \in Existing /\ wrec[j] \in Reqs /\ ~AtOnce(wrec[j])
           /\ JobSlot(j) = Slot(wrec[j]) /\ inp[wrec[j]].type \in {2, 4}
           /\ JobSlot(j)[2] = inp[wrec[j]].prob /\ JobSlot(j) \in HwProblems
<1>1. /\ wrow[j].args = Filtered(wrec[j]) /\ Counts(wrow[j])
      /\ wrec[j] \in Existing /\ wrec[j] \in Reqs
  BY DEF JInv, WorkOK, RowFor, Existing
<1>2. /\ wrow[j].args.type = inp[wrec[j]].type
      /\ wrow[j].args.hw = inp[wrec[j]].hw /\ wrow[j].args.prob = inp[wrec[j]].prob
  BY <1>1, InputFacts DEF JInv, JTypeOK, Typed, Filtered, Columns
<1> QED BY <1>1, <1>2, SlotKnown DEF JobSlot, Slot, AtOnce, Counts

(* Before an assistant starts nothing is open.                              *)
EarlyStart == ~Started /\ Clean /\ \A t \in Tas : tanswer[t] = None

LEMMA EarlyBatch == JInv /\ Phases /\ EarlyStart => BatchInv
<1> SUFFICES ASSUME JInv, Phases, EarlyStart PROVE BatchInv
  OBVIOUS
<1>0. TypeOK /\ TaTyped /\ WorkTyped /\ ~Started /\ Clean
  BY JTypes DEF JInv, EarlyStart
<1>1. ASSUME NEW t \in Tas
      PROVE  tpc[t] = "idle" /\ tanswer[t] = None
  BY <1>0 DEF Started, EarlyStart
<1>2. ASSUME NEW t \in Tas
      PROVE  Roles(t) /\ Apart(t)
  BY <1>1 DEF Roles, Apart, Loop
<1>3. ASSUME NEW q, Given(q)
      PROVE  AtOnce(q)
  BY <1>0, <1>3 DEF Given, Phases, Early
<1>4. ASSUME NEW j \in Judgers
      PROVE  Once(j)
  <2>1. /\ \A k \in DOMAIN jobs[j] : AtOnce(jobs[j][k])
        /\ wpc[j] # "idle" => AtOnce(wrec[j])
    BY <1>0 DEF Phases
  <2>2. wpc[j] # "savejs"
    BY <2>1, WorkFinal DEF JInv
  <2> QED BY <2>1, <2>2 DEF Once, Early
<1>5. ASSUME NEW s \in HwProblems
      PROVE  Books(s)
  <2>1. s \in Slots
    BY SubmissionAssumption
  <2>2. Open(s) = {}
    BY <1>1, <1>3, <2>1, FinalsAre DEF Open, Held, Loop
  <2>3. Cardinality(Open(s)) = 0
    BY <2>2, FS_EmptySet
  <2> QED BY <1>0, <2>3 DEF Books, Clean
<1> QED BY <1>0, <1>2, <1>4, <1>5 DEF BatchInv

LEMMA CleanSubmit ==
    ASSUME JInv, Clean, NEW r \in Reqs, Refuse(r) \/ Arrive(r) \/ Step(r)
    PROVE  Clean'
<1>0. /\ pc \in [Reqs -> Labels] /\ js \in [Reqs -> States \cup {None}]
      /\ judgestates \in [HwProblems -> States]
      /\ \A q \in Reqs : pc[q] = "savejs" => js[q] \in States /\ Slot(q) \in HwProblems
  BY DEF JInv, JTypeOK, TypeOK, StageOK
<1>1. CASE ReadJudgeState(r)
  <2>1. /\ Slot(r) \in HwProblems /\ judgestates' = judgestates
        /\ \A q \in Reqs : q # r => pc'[q] = pc[q] /\ js'[q] = js[q]
        /\ js'[r] = judgestates[Slot(r)]
    BY <1>0, <1>1 DEF ReadJudgeState, At, Continue, dbVars
  <2> QED BY <2>1 DEF Clean
<1>2. CASE SaveJudgeState(r)
  <2>1. PICK row : row = [js[r] EXCEPT !.total = @ + 1]
    OBVIOUS
  <2>2. /\ pc[r] = "savejs" /\ js' = js /\ \A q \in Reqs : pc'[q] = IF q = r THEN "match" ELSE pc[q]
    BY <1>0, <1>2 DEF SaveJudgeState, At, Continue, localVars
  <2>3. row.judged = 0 /\ row.waiting = 0
    BY <1>0, <2>1, <2>2 DEF Clean, States
  <2>4. \A s \in HwProblems : judgestates'[s] = IF s = Slot(r) THEN row ELSE judgestates[s]
    BY <1>0, <1>2, <2>1 DEF SaveJudgeState
  <2> QED BY <2>2, <2>3, <2>4 DEF Clean
<1>3. CASE ~ReadJudgeState(r) /\ ~SaveJudgeState(r)
  <2>1. UNCHANGED <<judgestates, js>>
    BY <1>3 DEF Refuse, Arrive, Step, FindOld, NoJudgeState, Match, NoMatch, ReadRatio, NoRatio,
       CreateRatio, Charge, Exceed, Create, ReadProblem, SaveProblem, ReadHomework, SaveHomework,
       WriteCode, WriteZip, NoZip, SaveRecord, Post, PostFails, localVars, dbVars
  <2>2. \E label : label # "savejs" /\ pc' = [pc EXCEPT ![r] = label]
    BY <1>3 DEF Refuse, Arrive, Step, FindOld, NoJudgeState, Match, NoMatch, ReadRatio, NoRatio,
       CreateRatio, Charge, Exceed, Create, ReadProblem, SaveProblem, ReadHomework, SaveHomework,
       WriteCode, WriteZip, NoZip, SaveRecord, Post, PostFails, Continue, Finish, FirstStep
  <2>3. \A q \in Reqs : pc'[q] = "savejs" => pc[q] = "savejs"
    BY <1>0, <2>2
  <2> QED BY <2>1, <2>3 DEF Clean
<1> QED BY <1>1, <1>2, <1>3

LEMMA BatchSubmit ==
    ASSUME Disciplined, BatchBase, NEW r \in Reqs, Submit(r), JInv', Phases'
    PROVE  BatchInv'
<1>1. ~Started /\ ~Started' /\ (Refuse(r) \/ Arrive(r) \/ Step(r))
  BY SubmitEarly DEF BatchBase
<1>2. Clean'
  BY <1>1, CleanSubmit DEF BatchBase, PubBase, BatchInv
<1>3. \A t \in Tas : tanswer'[t] = None
  BY <1>1 DEF Submit, judgeVars, taVars, BatchBase, BatchInv, Roles, Started
<1>4. EarlyStart'
  BY <1>1, <1>2, <1>3 DEF EarlyStart
<1> QED BY <1>4, EarlyBatch, PTL

LEMMA BooksKept ==
    ASSUME NEW s \in HwProblems, JInv, Books(s), judgestates'[s] = judgestates[s],
           Open(s)' \subseteq Open(s),
           Method[s[2]] # 2 /\ (\A t \in Tas : tanswer'[t] # "error") =>
               Open(s)' = Open(s) /\ \A t \in Tas : tanswer[t] # "error"
    PROVE  Books(s)'
<1>1. judgestates[s].judged \in Nat /\ judgestates[s].waiting \in Nat
  BY DEF JInv, JTypeOK, TypeOK, States
<1>2. /\ IsFiniteSet(Open(s)) /\ Cardinality(Open(s)) \in Nat
      /\ Cardinality(Open(s)') \in Nat /\ Cardinality(Open(s)') <= Cardinality(Open(s))
  BY OpenFinite, FS_Subset, FS_CardinalityType
<1>3. judgestates'[s].judged + Cardinality(Open(s)') <= judgestates'[s].waiting
  BY <1>1, <1>2 DEF Books
<1>4. ASSUME Method[s[2]] # 2, \A t \in Tas : tanswer'[t] # "error"
      PROVE  judgestates'[s].judged + Cardinality(Open(s)') = judgestates'[s].waiting
  <2>1. Open(s)' = Open(s) /\ \A t \in Tas : tanswer[t] # "error"
    BY <1>4
  <2> QED BY <1>4, <2>1 DEF Books
<1> QED BY <1>3, <1>4 DEF Books

LEMMA OnceSame ==
    ASSUME NEW j \in Judgers, Once(j), UNCHANGED <<inp, jobs, wrow, wjs>>,
           wpc'[j] = wpc[j], wrec'[j] = wrec[j],
           wpc[j] = "savejs" => judgestates'[JobSlot(j)] = judgestates[JobSlot(j)]
    PROVE  Once(j)'
BY DEF Once, FinalJob, BatchJudger, AtOnce, JobSlot

(* The step of an assistant: the others are idle or have been answered.     *)
TaView(t) ==
    /\ tpc[t] # "done" /\ tanswer[t] = None
    /\ UNCHANGED <<inp, pc, workVars>> /\ Existing' = Existing
    /\ Started' /\ \A s : Finals(s)' = Finals(s)
    /\ \A u \in Tas : u # t => Roles(u)' /\ Apart(u)' /\ tanswer'[u] = tanswer[u]
    /\ \A q : Held(q) <=> tpc[t] \in Loop /\ q \in Left(t)
    /\ \A q : Held(q)' <=> tpc'[t] \in Loop /\ q \in Left(t)'

LEMMA TaSeen ==
    ASSUME Disciplined, BatchBase, NEW t \in Tas, Start(t) \/ TaStep(t), JInv'
    PROVE  TaView(t)
<1>0. JInv /\ TypeOK /\ TaTyped /\ Phases /\ BatchInv
  BY BatchParts
<1>1. \A u \in Tas : u # t =>
          /\ tpc'[u] = tpc[u] /\ tkind'[u] = tkind[u] /\ tslot'[u] = tslot[u]
          /\ trows'[u] = trows[u] /\ tanswer'[u] = tanswer[u]
  BY <1>0 DEF Start, TaStep, ReadFinals, ReadRecord, NoConfig, NoRecord, ReadStateTa, NoStateTa,
     SaveStateAll, Reset, LoopEnds, PostTa, Handled, PostTaFails, Unzip, UnzipFails, Score, Return,
     TaTyped
<1>2. /\ tpc[t] # "done" /\ tpc'[t] # "idle" /\ UNCHANGED <<submitVars, workVars>>
      /\ \A u \in Tas : u # t => tpc[u] \in {"idle", "done"}
  <2>1. CASE Start(t)
    <3>1. \E label : label # "idle" /\ tpc' = [tpc EXCEPT ![t] = label]
      BY <2>1 DEF Start
    <3> QED BY <1>0, <2>1, <3>1 DEF Start, MayStart, TaTyped
  <2>2. CASE TaStep(t)
    BY <1>0, <2>2, TaShape DEF Phases, Busy
  <2> QED BY <2>1, <2>2
<1>3. UNCHANGED <<inp, pc, workVars>> /\ Existing' = Existing
  BY <1>0, <1>2, TaExisting DEF submitVars
<1>4. \A s : Finals(s)' = Finals(s)
  BY <1>0, <1>3, FinalsStay
<1>5. ASSUME NEW u \in Tas, u # t
      PROVE  Roles(u)' /\ Apart(u)' /\ tanswer'[u] = tanswer[u]
  <2>1. tpc[u] \in {"idle", "done"} /\ tpc'[u] = tpc[u] /\ Roles(u)
    BY <1>0, <1>1, <1>2, <1>5 DEF BatchInv
  <2>2. Apart(u)'
    BY <2>1 DEF Apart, Loop
  <2>3. Left(u)' = Left(u) /\ tslot'[u] = tslot[u] /\ tanswer'[u] = tanswer[u]
    BY <1>1, <1>5 DEF Left
  <2>4. Roles(u)'
    BY <1>4, <2>1, <2>3 DEF Roles, Loop
  <2> QED BY <2>2, <2>3, <2>4
<1>6. \A q : Held(q) <=> tpc[t] \in Loop /\ q \in Left(t)
  BY <1>2 DEF Held, Loop
<1>7. \A q : Held(q)' <=> tpc'[t] \in Loop /\ q \in Left(t)'
  BY <1>1, <1>2 DEF Held, Loop
<1>8. tanswer[t] = None /\ Started'
  BY <1>0, <1>2 DEF BatchInv, Roles, Started
<1> QED BY <1>2, <1>3, <1>4, <1>5, <1>6, <1>7, <1>8 DEF TaView

(* Steps that hand nothing over and count nothing.                          *)
LEMMA QuietTa ==
    ASSUME BatchBase, NEW t \in Tas, TaView(t), UNCHANGED <<judgestates, jobs>>,
           Roles(t)', Apart(t)', \A q : Held(q)' => Held(q),
           tanswer'[t] # "error" =>
               \A s \in HwProblems : Method[s[2]] # 2 => \A q \in Finals(s) : Held(q) => Held(q)'
    PROVE  BatchInv'
<1>0. JInv /\ BatchInv
  BY BatchParts
<1>1. \A q : Given(q)' <=> Given(q)
  BY DEF TaView, workVars, Given
<1>2. ASSUME NEW j \in Judgers
      PROVE  Once(j)'
  <2>1. Once(j)
    BY <1>0 DEF BatchInv
  <2> QED BY <2>1, OnceSame DEF TaView, workVars
<1>3. ASSUME NEW s \in HwProblems
      PROVE  Books(s)'
  <2>1. Finals(s)' = Finals(s)
    BY DEF TaView
  <2>2. Open(s)' \subseteq Open(s)
    BY <1>1, <2>1 DEF Open
  <2>3. ASSUME Method[s[2]] # 2, \A u \in Tas : tanswer'[u] # "error"
        PROVE  Open(s)' = Open(s) /\ \A u \in Tas : tanswer[u] # "error"
    <3>1. Open(s)' = Open(s)
      BY <1>1, <2>1, <2>2, <2>3 DEF Open
    <3>2. \A u \in Tas : tanswer[u] # "error"
      BY <2>3, SubmissionAssumption DEF TaView
    <3> QED BY <3>1, <3>2
  <2>4. Books(s)
    BY <1>0 DEF BatchInv
  <2> QED BY <1>0, <2>2, <2>3, <2>4, BooksKept
<1> QED BY <1>2, <1>3 DEF TaView, BatchInv

LEMMA BatchDone ==
    ASSUME BatchBase, NEW t \in Tas, TaView(t), UNCHANGED <<judgestates, jobs>>,
           tpc[t] # "idle", tpc'[t] = "done", trows'[t] = trows[t], tslot'[t] = tslot[t],
           tpc[t] \in Loop => Left(t) = {} \/ tanswer'[t] = "error"
    PROVE  BatchInv'
<1>1. Roles(t) /\ Left(t)' = Left(t) /\ \A s : Finals(s)' = Finals(s)
  BY DEF BatchBase, BatchInv, Left, TaView
<1>2. Roles(t)'
  BY <1>1 DEF Roles, Loop
<1>3. Apart(t)'
  BY DEF Apart, Loop
<1>4. \A q : ~Held(q)'
  BY DEF TaView, Loop
<1>5. tanswer'[t] # "error" => \A q : ~Held(q)
  BY DEF TaView
<1> QED BY <1>2, <1>3, <1>4, <1>5, QuietTa

LEMMA BatchMoves ==
    ASSUME BatchBase, NEW t \in Tas, TaView(t),
           \/ NoConfig(t) \/ NoRecord(t) \/ NoStateTa(t) \/ LoopEnds(t)
           \/ PostTaFails(t) \/ UnzipFails(t) \/ Score(t)
    PROVE  BatchInv'
<1>0. TaTyped
  BY BatchParts
<1>1. /\ UNCHANGED <<judgestates, jobs, trows, tslot>> /\ tpc[t] # "idle"
      /\ \E a : Return(t, a)
  BY DEF NoConfig, NoRecord, NoStateTa, LoopEnds, PostTaFails, UnzipFails, Score, dbVars
<1>2. tpc[t] \in Loop => Left(t) = {} \/ tanswer'[t] = "error"
  BY <1>0 DEF NoConfig, NoRecord, NoStateTa, LoopEnds, PostTaFails, UnzipFails, Score, Loop, Return, TaTyped
<1>3. tpc'[t] = "done"
  BY <1>0, <1>1 DEF Return, TaTyped
<1> QED BY <1>1, <1>2, <1>3, BatchDone

LEMMA BatchReadState ==
    ASSUME BatchBase, NEW t \in Tas, TaView(t), ReadStateTa(t)
    PROVE  BatchInv'
<1>0. TaTyped /\ Roles(t) /\ Apart(t)
  BY BatchParts DEF BatchInv
<1>1. /\ tpc[t] = "readjs" /\ tkind[t] = "all" /\ tpc'[t] = "savejs"
      /\ UNCHANGED <<judgestates, jobs, trows, tslot, tkind, tanswer>>
  BY <1>0 DEF ReadStateTa, TaTyped, dbVars, Roles
<1>2. Left(t)' = Left(t)
  BY <1>1 DEF Left
<1>3. Roles(t)'
  BY <1>0, <1>1, <1>2 DEF Roles, Loop, TaView
<1>4. \A q : Given(q)' <=> Given(q)
  BY <1>1 DEF TaView, workVars, Given
<1>5. Apart(t)'
  BY <1>0, <1>1, <1>4 DEF Apart, Loop, TaView
<1>6. \A q : ~Held(q)' /\ ~Held(q)
  BY <1>1 DEF TaView, Loop
<1> QED BY <1>1, <1>3, <1>5, <1>6, QuietTa

LEMMA BatchReset ==
    ASSUME BatchBase, NEW t \in Tas, TaView(t), Reset(t)
    PROVE  BatchInv'
<1>0. TaTyped /\ Roles(t) /\ Apart(t)
  BY BatchParts DEF BatchInv
<1>1. /\ tpc[t] = "reset" /\ tpc'[t] = IF Method[tslot[t][2]] = 2 THEN "unzip" ELSE "post"
      /\ UNCHANGED <<judgestates, jobs, trows, tslot, tkind, tanswer>>
  BY <1>0 DEF Reset, TaTyped
<1>2. Left(t)' = Left(t)
  BY <1>1 DEF Left
<1>3. Roles(t)'
  BY <1>0, <1>1, <1>2 DEF Roles, Loop, TaView
<1>4. \A q : Given(q)' <=> Given(q)
  BY <1>1 DEF TaView, workVars, Given
<1>5. Apart(t)'
  BY <1>0, <1>1, <1>2, <1>4 DEF Apart, Loop
<1>6. \A q : Held(q)' <=> Held(q)
  BY <1>1, <1>2 DEF TaView, Loop
<1> QED BY <1>1, <1>3, <1>5, <1>6, QuietTa

LEMMA BatchReadRows ==
    ASSUME BatchBase, NEW t \in Tas, TaView(t), ReadFinals(t) \/ ReadRecord(t), "one" \notin Kinds
    PROVE  BatchInv'
<1>0. TaTyped /\ Roles(t) /\ Apart(t) /\ TaOK(t)
  BY BatchParts DEF BatchInv, JInv
<1>1. /\ tpc[t] \in {"finals", "record"}
      /\ UNCHANGED <<judgestates, jobs, tslot, tkind, tanswer>>
  BY DEF ReadFinals, ReadRecord, dbVars
<1>2. \A q : Given(q)' <=> Given(q)
  BY <1>1 DEF TaView, workVars, Given
<1>3. /\ Left(t)' \subseteq Finals(tslot[t])
      /\ \/ tpc'[t] = "readjs" /\ tpc[t] = "finals"
         \/ tpc'[t] = "score" /\ tkind[t] = "score"
  <2>1. CASE ReadFinals(t)
    <3>1. /\ \A q \in Reqs : trows'[t][q] = IF q \in Finals(tslot[t]) THEN records[q] ELSE None
          /\ tpc'[t] = "readjs" /\ tpc[t] = "finals"
      BY <1>0, <2>1 DEF ReadFinals, TaTyped
    <3> QED BY <3>1 DEF Left
  <2>2. CASE ReadRecord(t)
    <3>1. PICK q0 \in Finals(tslot[t]) : trows' = [trows EXCEPT ![t][q0] = records[q0]]
      BY <2>2 DEF ReadRecord
    <3>2. \A q \in Reqs : q # q0 => trows'[t][q] = trows[t][q]
      BY <1>0, <3>1 DEF TaTyped
    <3>3. Left(t) = {} /\ tkind[t] = "score" /\ tpc'[t] = "score"
      BY <1>0, <2>2 DEF ReadRecord, TaTyped, TaOK, Roles
    <3> QED BY <3>1, <3>2, <3>3 DEF Left
  <2> QED BY <2>1, <2>2
<1>4. Roles(t)'
  BY <1>0, <1>1, <1>3 DEF Roles, Loop, TaView
<1>5. Apart(t)'
  BY <1>0, <1>1, <1>2, <1>3 DEF Apart, Loop, TaView
<1>6. \A q : ~Held(q)' /\ ~Held(q)
  BY <1>1, <1>3 DEF TaView, Loop
<1> QED BY <1>1, <1>4, <1>5, <1>6, QuietTa

(* The button is enabled: what was handed over has been counted.            *)
LEMMA NothingOpen ==
    ASSUME Disciplined, BatchBase, NEW s \in Slots, MayStart(s), NEW q \in Finals(s)
    PROVE  ~Given(q)
<1>0. JInv /\ BatchInv
  BY BatchParts
<1>1. s \in HwProblems
  BY <1>0, FinalsAre DEF JInv, SlotsKnown, FinalType
<1>2. Books(s) /\ ~Waiting(s)
  BY <1>0, <1>1 DEF BatchInv, MayStart
<1>3. /\ judgestates[s].judged \in Nat /\ judgestates[s].waiting \in Nat
      /\ IsFiniteSet(Open(s)) /\ Cardinality(Open(s)) \in Nat
  BY <1>0, <1>1, OpenFinite, FS_CardinalityType DEF JInv, JTypeOK, TypeOK, States
<1>4. Cardinality(Open(s)) = 0
  BY <1>2, <1>3 DEF Books, Waiting
<1>5. Open(s) = {}
  BY <1>3, <1>4, FS_EmptySet
<1> QED BY <1>5 DEF Open

LEMMA BatchStart ==
    ASSUME Disciplined, BatchBase, NEW t \in Tas, TaView(t), Start(t), "one" \notin Kinds
    PROVE  BatchInv'
<1>0. TaTyped /\ TaOK(t)
  BY BatchParts DEF JInv
<1>1. PICK kind \in Kinds, s \in Slots :
        /\ MayStart(s) /\ tpc[t] = "idle"
        /\ tkind' = [tkind EXCEPT ![t] = kind] /\ tslot' = [tslot EXCEPT ![t] = s]
        /\ tpc' = [tpc EXCEPT ![t] = IF kind = "all" THEN "finals" ELSE "record"]
        /\ UNCHANGED <<judgestates, jobs, trows, tanswer>>
  BY DEF Start, dbVars
<1>2. /\ tkind'[t] = kind /\ tslot'[t] = s /\ kind \in {"all", "score"}
      /\ tpc'[t] = IF kind = "all" THEN "finals" ELSE "record"
  BY <1>0, <1>1, JudgingAssumption DEF TaTyped
<1>3. Left(t)' = {}
  BY <1>0, <1>1 DEF TaOK, Left
<1>4. Roles(t)'
  BY <1>1, <1>2, <1>3 DEF Roles, Loop, TaView
<1>5. \A q : Given(q)' <=> Given(q)
  BY <1>1 DEF TaView, workVars, Given
<1>6. Apart(t)'
  BY <1>1, <1>2, <1>5, NothingOpen DEF Apart, Loop, TaView
<1>7. \A q : ~Held(q)' /\ ~Held(q)
  BY <1>1, <1>2 DEF TaView, Loop
<1> QED BY <1>1, <1>4, <1>6, <1>7, QuietTa

(* total_waiting is the number of records of the batch, judged is cleared.  *)
LEMMA BatchSaveState ==
    ASSUME BatchBase, NEW t \in Tas, TaView(t), SaveStateAll(t)
    PROVE  BatchInv'
<1>0. /\ JInv /\ TypeOK /\ BatchInv /\ TaTyped
      /\ Roles(t) /\ Apart(t) /\ TaOK(t)
  BY BatchParts DEF BatchInv, JInv
<1>1. PICK z : z = tslot[t]
  OBVIOUS
<1>2. /\ tpc[t] = "savejs" /\ tpc'[t] = "reset" /\ z \in HwProblems /\ z \in Slots
      /\ Left(t) \subseteq Finals(z) /\ tkind[t] = "all"
      /\ UNCHANGED <<jobs, trows, tslot, tkind, tanswer>>
  BY <1>0, <1>1 DEF SaveStateAll, TaTyped, TaOK, Roles
<1>3. PICK row : row = [tjs[t] EXCEPT !.judged = 0, !.waiting = Cardinality(Left(t))]
  OBVIOUS
<1>4. row.judged = 0 /\ row.waiting = Cardinality(Left(t))
  BY <1>0, <1>2, <1>3 DEF TaOK, States
<1>5. \A s \in HwProblems : judgestates'[s] = IF s = z THEN row ELSE judgestates[s]
  BY <1>0, <1>1, <1>3 DEF SaveStateAll, TypeOK
<1>6. Left(t)' = Left(t)
  BY <1>2 DEF Left
<1>7. Roles(t)'
  BY <1>0, <1>2, <1>6 DEF Roles, Loop, TaView
<1>8. \A q : Given(q)' <=> Given(q)
  BY <1>2 DEF TaView, workVars, Given
<1>9. \A q \in Finals(z) : ~Given(q)
  BY <1>0, <1>1, <1>2 DEF Apart
<1>10. Apart(t)'
  BY <1>2, <1>6, <1>8, <1>9 DEF Apart, Loop
<1>11. ASSUME NEW j \in Judgers
       PROVE  Once(j)'
  <2>1. CASE wpc[j] = "savejs"
    <3>1. /\ Slot(wrec[j]) = JobSlot(j) /\ wrec[j] \in Existing /\ JobSlot(j) \in HwProblems
          /\ Once(j) /\ ~AtOnce(wrec[j]) /\ JobSlot(j)[2] = inp[wrec[j]].prob
      BY <1>0, <2>1, WorkFinal DEF BatchInv
    <3>2. Given(wrec[j])
      BY <2>1 DEF Given, Early
    <3>3. JobSlot(j) # z
      <4>1. inp[wrec[j]].type = FinalType(JobSlot(j))
        BY <2>1, <3>1 DEF Once, FinalJob, Early, FinalType
      <4> QED BY <1>0, <1>2, <1>9, <3>1, <3>2, <4>1, FinalsCover
    <3> QED BY <1>2, <1>5, <3>1, <3>3, OnceSame DEF TaView, workVars
  <2>2. CASE wpc[j] # "savejs"
    <3>1. Once(j)
      BY <1>0 DEF BatchInv
    <3> QED BY <1>2, <2>2, <3>1, OnceSame DEF TaView, workVars
  <2> QED BY <2>1, <2>2
<1>12. ASSUME NEW s \in HwProblems
       PROVE  Books(s)'
  <2>1. Books(s) /\ s \in Slots /\ Finals(s)' = Finals(s)
    BY <1>0, SubmissionAssumption DEF BatchInv, TaView
  <2>2. CASE s = z
    <3>1. Open(s)' = Left(t)
      BY <1>2, <1>6, <1>8, <1>9, <2>1, <2>2 DEF Open, TaView, Loop
    <3>2. Cardinality(Left(t)) \in Nat
      BY <1>0, FS_CardinalityType DEF TaOK
    <3> QED BY <1>4, <1>5, <2>2, <3>1, <3>2 DEF Books
  <2>3. CASE s # z
    <3>1. \A q \in Finals(s) : q \notin Left(t)
      BY <1>0, <1>2, <2>1, <2>3, FinalsOne
    <3>2. Open(s)' = Open(s)
      BY <1>6, <1>8, <2>1, <3>1 DEF Open, TaView
    <3> QED BY <1>0, <1>2, <1>5, <2>1, <2>3, <3>2, BooksKept
  <2> QED BY <2>2, <2>3
<1> QED BY <1>7, <1>10, <1>11, <1>12 DEF TaView, BatchInv

LEMMA LeftHandled ==
    ASSUME JInv, NEW t \in Tas, tpc[t] \in {"post", "unzip"}, Handled(t)
    PROVE  tcur[t] \in Left(t) /\ Left(t)' = Left(t) \ {tcur[t]}
<1>1. TaTyped /\ tcur[t] \in Left(t)
  BY JTypes DEF JInv, TaOK
<1>2. \A q \in Reqs : trows'[t][q] = IF q = tcur[t] THEN None ELSE trows[t][q]
  BY <1>1 DEF TaTyped, Handled
<1> QED BY <1>1, <1>2 DEF Left

LEMMA BatchUnzip ==
    ASSUME BatchBase, NEW t \in Tas, TaView(t), Unzip(t)
    PROVE  BatchInv'
<1>0. JInv /\ TaTyped /\ Roles(t) /\ Apart(t) /\ TaOK(t)
  BY BatchParts DEF BatchInv, JInv
<1>1. /\ tpc[t] = "unzip" /\ tpc'[t] = "reset" /\ Handled(t)
      /\ UNCHANGED <<judgestates, jobs, tslot, tkind, tanswer>>
  BY <1>0 DEF Unzip, TaTyped, dbVars
<1>2. /\ Left(t)' \subseteq Left(t) /\ Left(t) \subseteq Finals(tslot[t])
      /\ tslot[t] \in Slots /\ Method[tslot[t][2]] = 2 /\ tkind[t] = "all"
  BY <1>0, <1>1, LeftHandled DEF Roles, TaOK, Loop
<1>3. Roles(t)'
  BY <1>0, <1>1, <1>2 DEF Roles, Loop, TaView
<1>4. \A q : Given(q)' <=> Given(q)
  BY <1>1 DEF TaView, workVars, Given
<1>5. Apart(t)'
  BY <1>0, <1>1, <1>2, <1>4 DEF Apart, Loop
<1>6. \A q : Held(q)' => Held(q)
  BY <1>1, <1>2 DEF TaView, Loop
<1>7. ASSUME NEW s \in HwProblems, Method[s[2]] # 2, NEW q \in Finals(s), Held(q)
      PROVE  FALSE
  <2>1. s \in Slots /\ q \in Finals(tslot[t])
    BY <1>2, <1>7, SubmissionAssumption DEF TaView
  <2>2. s = tslot[t]
    BY <1>0, <1>2, <1>7, <2>1, FinalsOne
  <2> QED BY <1>2, <1>7, <2>2
<1> QED BY <1>1, <1>3, <1>5, <1>6, <1>7, QuietTa

(* A record goes from the batch to its judger.                              *)
LEMMA BatchPost ==
    ASSUME BatchBase, NEW t \in Tas, TaView(t), PostTa(t)
    PROVE  BatchInv'
<1>0. JInv /\ TypeOK /\ BatchInv /\ TaTyped /\ Roles(t) /\ Apart(t) /\ TaOK(t)
  BY BatchParts DEF BatchInv, JInv
<1>1. PICK q0 : q0 = tcur[t]
  OBVIOUS
<1>2. /\ tpc[t] = "post" /\ tpc'[t] = "reset" /\ Handled(t)
      /\ UNCHANGED <<judgestates, tslot, tkind, tanswer>>
  BY <1>0 DEF PostTa, TaTyped, dbVars
<1>3. /\ q0 \in Left(t) /\ Left(t)' = Left(t) \ {q0} /\ Left(t) \subseteq Finals(tslot[t])
      /\ tslot[t] \in Slots /\ Method[tslot[t][2]] # 2 /\ tkind[t] = "all"
  BY <1>0, <1>1, <1>2, LeftHandled DEF Roles, TaOK, Loop
<1>4. /\ q0 \in Reqs /\ ~AtOnce(q0) /\ inp[q0].prob = tslot[t][2]
      /\ inp[q0].type = FinalType(tslot[t])
  BY <1>0, <1>3, FinalsAre
<1>5. PICK jb \in Judgers : jb = BatchJudger(q0)
  BY DEF BatchJudger, Judgers
<1>6. FinalJob(q0, jb)
  BY <1>3, <1>4, <1>5 DEF FinalJob, FinalType
<1>7. \A j \in Judgers : jobs'[j] = IF j = jb THEN Append(jobs[j], q0) ELSE jobs[j]
  <2>1. JudgerFor(t) = {jb}
    BY <1>3, <1>4, <1>5 DEF JudgerFor, BatchJudger
  <2> QED BY <1>1, <2>1 DEF PostTa
<1>8. ~Given(q0)
  BY <1>0, <1>2, <1>3 DEF Apart, Loop
<1>9. PICK old \in Seq(Reqs) : old = jobs[jb]
  BY <1>0 DEF TypeOK
<1>10. /\ DOMAIN jobs'[jb] = DOMAIN old \cup {Len(old) + 1}
       /\ Len(old) + 1 \notin DOMAIN old /\ jobs'[jb][Len(old) + 1] = q0
       /\ \A k \in DOMAIN old : jobs'[jb][k] = old[k]
  <2>1. jobs'[jb] = Append(old, q0)
    BY <1>7, <1>9
  <2> QED BY <1>4, <2>1
<1>11. \A q : Given(q)' <=> Given(q) \/ q = q0
  <2>1. wpc' = wpc /\ wrec' = wrec
    BY DEF TaView, workVars
  <2> QED BY <1>7, <1>9, <1>10, <2>1 DEF Given
<1>12. Roles(t)'
  BY <1>0, <1>2, <1>3 DEF Roles, Loop, TaView
<1>13. Apart(t)'
  BY <1>0, <1>2, <1>3, <1>11 DEF Apart, Loop
<1>14. ASSUME NEW j \in Judgers
       PROVE  Once(j)'
  <2>1. Once(j) /\ UNCHANGED <<inp, workVars, judgestates>>
    BY <1>0, <1>2 DEF BatchInv, TaView
  <2>2. CASE j = jb
    <3>1. \A k \in DOMAIN old : old[k] # q0
      BY <1>8, <1>9 DEF Given
    <3>2. wpc[jb] \in Early => wrec[jb] # q0
      BY <1>8 DEF Given
    <3>3. /\ wpc' = wpc /\ wrec' = wrec /\ wrow' = wrow /\ wjs' = wjs
          /\ inp' = inp /\ judgestates' = judgestates
      BY <2>1 DEF workVars
    <3>4. \A q, i : (AtOnce(q)' <=> AtOnce(q)) /\ (FinalJob(q, i)' <=> FinalJob(q, i))
      BY <3>3 DEF AtOnce, FinalJob, BatchJudger
    <3>5. ASSUME NEW k \in DOMAIN jobs'[jb], ~AtOnce(jobs'[jb][k])
          PROVE  /\ FinalJob(jobs'[jb][k], jb)
                 /\ \A m \in DOMAIN jobs'[jb] : jobs'[jb][m] = jobs'[jb][k] => m = k
                 /\ wpc[jb] \in Early => wrec[jb] # jobs'[jb][k]
      BY <1>6, <1>9, <1>10, <2>1, <2>2, <3>1, <3>2, <3>5 DEF Once
    <3> QED BY <2>1, <2>2, <3>3, <3>4, <3>5 DEF Once, JobSlot
  <2>3. CASE j # jb
    BY <1>7, <2>1, <2>3 DEF Once, FinalJob, BatchJudger, AtOnce, JobSlot, workVars
  <2> QED BY <2>2, <2>3
<1>15. ASSUME NEW s \in HwProblems
       PROVE  Books(s)'
  <2>1. Books(s) /\ Finals(s)' = Finals(s)
    BY <1>0 DEF BatchInv, TaView
  <2>2. \A q : Held(q)' \/ Given(q)' <=> Held(q) \/ Given(q)
    BY <1>2, <1>3, <1>11 DEF TaView, Loop
  <2>3. Open(s)' = Open(s)
    BY <2>1, <2>2 DEF Open
  <2> QED BY <1>0, <1>2, <2>1, <2>3, BooksKept
<1> QED BY <1>12, <1>13, <1>14, <1>15 DEF TaView, BatchInv

LEMMA BatchTa ==
    ASSUME Careful, BatchBase, NEW t \in Tas, Start(t) \/ TaStep(t), JInv'
    PROVE  BatchInv'
BY TaSeen, BatchMoves, BatchReadState, BatchReset, BatchReadRows, BatchStart, BatchSaveState,
   BatchUnzip, BatchPost DEF TaStep, Careful

(* The step of a judger: the assistants and the other judger stand still.   *)
WorkView(j) ==
    /\ UNCHANGED <<taVars, inp, pc, js>>
    /\ \A s : Finals(s)' = Finals(s)
    /\ \A q : Held(q)' <=> Held(q)
    /\ \A t \in Tas : Roles(t)' /\ Left(t)' = Left(t)
    /\ Started' <=> Started
    /\ \A i \in Judgers : i # j => /\ wpc'[i] = wpc[i] /\ wrec'[i] = wrec[i]
                                   /\ wrow'[i] = wrow[i] /\ wjs'[i] = wjs[i]
                                   /\ jobs'[i] = jobs[i]

LEMMA WorkSeen ==
    ASSUME BatchBase, NEW j \in Judgers, Work(j), JInv'
    PROVE  WorkView(j)
<1>0. JInv /\ TypeOK /\ WorkTyped /\ BatchInv /\ WorkOK(j)
  BY BatchParts DEF JInv
<1>1. UNCHANGED <<taVars, inp, pc, js>>
  BY DEF Work, Take, Run, ReadRow, ReadState, SaveState, WriteDetail, NoDirectory, SaveVerdict,
     submitVars, localVars
<1>2. Existing' = Existing
  <2>1. CASE SaveVerdict(j)
    <3>1. PICK row : row = [wrow[j] EXCEPT !.status = 1, !.result = wsrc[j]]
      OBVIOUS
    <3>2. RowFor(wrow[j], wrec[j]) /\ wsrc[j] \in Reqs \cup {"nothing"}
      BY <1>0, <2>1 DEF SaveVerdict, WorkOK
    <3>3. RowFor(row, wrec[j])
      BY <3>1, <3>2 DEF RowFor, Rows
    <3>4. records' = [records EXCEPT ![wrec[j]] = row]
      BY <2>1, <3>1 DEF SaveVerdict
    <3> QED BY <1>0, <3>3, <3>4, RowWritten
  <2>2. CASE ~SaveVerdict(j)
    <3>1. records' = records
      BY <2>2 DEF Work, Take, Run, ReadRow, ReadState, SaveState, WriteDetail, NoDirectory, dbVars
    <3> QED BY <3>1 DEF Existing
  <2> QED BY <2>1, <2>2
<1>3. \A s : Finals(s)' = Finals(s)
  BY <1>0, <1>1, <1>2, FinalsStay
<1>4. \A t : Left(t)' = Left(t)
  BY <1>1 DEF taVars, Left
<1>5. (\A q : Held(q)' <=> Held(q)) /\ (Started' <=> Started)
  BY <1>1, <1>4 DEF taVars, Held, Started
<1>6. \A t \in Tas : Roles(t)'
  BY <1>0, <1>1, <1>3, <1>4 DEF taVars, Roles, BatchInv
<1>7. \A i \in Judgers : i # j => /\ wpc'[i] = wpc[i] /\ wrec'[i] = wrec[i]
                                  /\ wrow'[i] = wrow[i] /\ wjs'[i] = wjs[i]
                                  /\ jobs'[i] = jobs[i]
  BY <1>0 DEF Work, Take, Run, ReadRow, ReadState, SaveState, WriteDetail, NoDirectory, SaveVerdict,
     TypeOK, WorkTyped
<1> QED BY <1>1, <1>3, <1>4, <1>5, <1>6, <1>7 DEF WorkView

LEMMA QuietWork ==
    ASSUME BatchBase, NEW j \in Judgers, WorkView(j), judgestates' = judgestates, Once(j)',
           \A q : Given(q)' => Given(q),
           \A s \in HwProblems : \A q \in Finals(s) : Given(q) => Given(q)'
    PROVE  BatchInv'
<1>0. JInv /\ BatchInv
  BY BatchParts
<1>1. ~Started' => Clean'
  BY <1>0 DEF BatchInv, WorkView, Clean
<1>2. ASSUME NEW t \in Tas
      PROVE  Apart(t)'
  <2>1. Apart(t)
    BY <1>0 DEF BatchInv
  <2> QED BY <2>1 DEF Apart, WorkView, taVars
<1>3. ASSUME NEW i \in Judgers, i # j
      PROVE  Once(i)'
  <2>1. Once(i)
    BY <1>0 DEF BatchInv
  <2> QED BY <1>3, <2>1 DEF WorkView, Once, FinalJob, BatchJudger, AtOnce, JobSlot
<1>4. ASSUME NEW s \in HwProblems
      PROVE  Books(s)'
  <2>1. Books(s)
    BY <1>0 DEF BatchInv
  <2>2. Open(s)' = Open(s)
    BY DEF WorkView, Open
  <2> QED BY <1>0, <2>1, <2>2, BooksKept DEF WorkView, taVars
<1> QED BY <1>1, <1>2, <1>3, <1>4 DEF BatchInv, WorkView

LEMMA BatchTake ==
    ASSUME BatchBase, NEW j \in Judgers, WorkView(j), Take(j)
    PROVE  BatchInv'
<1>0. TypeOK /\ WorkTyped /\ Once(j)
  BY BatchParts DEF BatchInv
<1>1. PICK old \in Seq(Reqs) : old = jobs[j] /\ old # <<>>
  BY <1>0 DEF TypeOK, Take
<1>2. /\ wpc[j] = "idle" /\ wpc'[j] = "run" /\ wrec'[j] = Head(old) /\ jobs'[j] = Tail(old)
      /\ UNCHANGED <<judgestates, wrow, wjs>>
  BY <1>0, <1>1 DEF Take, TypeOK, WorkTyped, dbVars
<1>3. PICK rest : rest = Tail(old)
  OBVIOUS
<1>4. /\ DOMAIN old = 1 .. Len(old) /\ Len(old) \in Nat \ {0} /\ Head(old) = old[1]
      /\ DOMAIN rest = 1 .. (Len(old) - 1)
      /\ \A k \in 1 .. (Len(old) - 1) : rest[k] = old[k + 1]
  BY <1>1, <1>3
<1>5. \A q : Given(q)' <=> Given(q)
  <2>1. \A q : (\E k \in DOMAIN old : old[k] = q) <=>
               (Head(old) = q \/ \E k \in DOMAIN rest : rest[k] = q)
    <3>1. ASSUME NEW k \in DOMAIN old
          PROVE  old[k] = Head(old) \/ \E m \in DOMAIN rest : rest[m] = old[k]
      <4>1. CASE k = 1
        BY <1>4, <4>1
      <4>2. CASE k # 1
        <5>1. k - 1 \in 1 .. (Len(old) - 1) /\ (k - 1) + 1 = k
          BY <1>4, <4>2
        <5> QED BY <1>4, <5>1
      <4> QED BY <4>1, <4>2
    <3>2. ASSUME NEW k \in DOMAIN rest
          PROVE  k + 1 \in DOMAIN old /\ old[k + 1] = rest[k]
      BY <1>4
    <3>3. 1 \in DOMAIN old
      BY <1>4
    <3> QED BY <1>4, <3>1, <3>2, <3>3
  <2>2. ASSUME NEW q
        PROVE  (\/ \E k \in DOMAIN jobs'[j] : jobs'[j][k] = q
                \/ wrec'[j] = q /\ wpc'[j] \in Early)
               <=> (\/ \E k \in DOMAIN jobs[j] : jobs[j][k] = q
                    \/ wrec[j] = q /\ wpc[j] \in Early)
    <3>1. wpc'[j] \in Early /\ wpc[j] \notin Early
      BY <1>2 DEF Early
    <3>2. (\E k \in DOMAIN jobs'[j] : jobs'[j][k] = q) <=> \E k \in DOMAIN rest : rest[k] = q
      BY <1>2, <1>3
    <3>3. (\E k \in DOMAIN jobs[j] : jobs[j][k] = q) <=> \E k \in DOMAIN old : old[k] = q
      BY <1>1
    <3> QED BY <1>2, <2>1, <3>1, <3>2, <3>3
  <2> QED BY <2>2 DEF Given, WorkView
<1>6. \A q, i : (AtOnce(q)' <=> AtOnce(q)) /\ (FinalJob(q, i)' <=> FinalJob(q, i))
  BY DEF WorkView, AtOnce, FinalJob, BatchJudger
<1>7. ASSUME NEW k \in DOMAIN rest, ~AtOnce(rest[k])
      PROVE  /\ FinalJob(rest[k], j)
             /\ \A m \in DOMAIN rest : rest[m] = rest[k] => m = k
             /\ Head(old) # rest[k]
  <2>1. /\ k \in Nat \ {0} /\ k + 1 \in DOMAIN old /\ 1 \in DOMAIN old /\ old[k + 1] = rest[k]
        /\ \A m \in DOMAIN rest : m \in Nat /\ m + 1 \in DOMAIN old /\ old[m + 1] = rest[m]
    BY <1>4, <1>7
  <2>2. /\ FinalJob(old[k + 1], j)
        /\ \A m \in DOMAIN old : old[m] = old[k + 1] => m = k + 1
    BY <1>0, <1>1, <1>7, <2>1 DEF Once
  <2>3. Head(old) # rest[k]
    BY <1>4, <2>1, <2>2
  <2>4. ASSUME NEW m \in DOMAIN rest, rest[m] = rest[k]
        PROVE  m = k
    <3>1. m + 1 = k + 1
      BY <2>1, <2>2, <2>4
    <3> QED BY <2>1, <3>1
  <2> QED BY <2>1, <2>2, <2>3, <2>4
<1>8. ~AtOnce(Head(old)) => FinalJob(Head(old), j)
  BY <1>0, <1>1, <1>4 DEF Once
<1>9. Once(j)'
  BY <1>2, <1>3, <1>6, <1>7, <1>8 DEF Once
<1> QED BY <1>2, <1>5, <1>9, QuietWork

(* Statements of a judger that keep it before the counter, or behind it.    *)
LEMMA BatchStays ==
    ASSUME BatchBase, NEW j \in Judgers, WorkView(j), UNCHANGED <<judgestates, jobs, wrec>>,
           wpc'[j] \in Early => wpc[j] \in Early,
           wpc[j] \in Early => wpc'[j] \in Early \/ inp[wrec[j]].type \notin {2, 4},
           wpc'[j] = "savejs" => wjs'[j] = judgestates[JobSlot(j)] /\ wrow'[j] = wrow[j]
    PROVE  BatchInv'
<1>0. JInv /\ Once(j)
  BY BatchParts DEF BatchInv
<1>1. \A q, i : (AtOnce(q)' <=> AtOnce(q)) /\ (FinalJob(q, i)' <=> FinalJob(q, i))
  BY DEF WorkView, AtOnce, FinalJob, BatchJudger
<1>2. Once(j)'
  BY <1>0, <1>1 DEF Once, JobSlot
<1>3. \A q : Given(q)' => Given(q)
  BY DEF Given, WorkView
<1>4. ASSUME NEW s \in HwProblems, NEW q \in Finals(s), Given(q)
      PROVE  Given(q)'
  <2>1. s \in Slots
    BY SubmissionAssumption
  <2>2. inp[q].type \in {2, 4}
    BY <1>0, <2>1, FinalsAre DEF FinalType
  <2> QED BY <1>4, <2>2 DEF Given, WorkView
<1> QED BY <1>2, <1>3, <1>4, QuietWork

LEMMA BatchRuns ==
    ASSUME BatchBase, NEW j \in Judgers, WorkView(j),
           Run(j) \/ ReadRow(j) \/ ReadState(j) \/ WriteDetail(j) \/ NoDirectory(j) \/ SaveVerdict(j)
    PROVE  BatchInv'
<1>0. JInv /\ WorkTyped /\ WorkOK(j)
  BY BatchParts DEF JInv
<1>1. UNCHANGED <<judgestates, jobs, wrec>>
  BY DEF Run, ReadRow, ReadState, WriteDetail, NoDirectory, SaveVerdict, dbVars
<1>2. CASE ReadRow(j)
  <2>1. /\ wrec[j] \in Reqs /\ records[wrec[j]].args = Filtered(wrec[j])
    BY <1>0, <1>2 DEF ReadRow, JInv, RecordsKnown, WorkOK, Existing
  <2>2. records[wrec[j]].args.type = inp[wrec[j]].type
    BY <1>0, <2>1, InputFacts DEF JInv, JTypeOK, Typed, Filtered, Columns
  <2>3. /\ wpc[j] \in Early /\ wpc'[j] # "savejs"
        /\ wpc'[j] \in Early \/ inp[wrec[j]].type \notin {2, 4}
    BY <1>0, <1>2, <2>2 DEF ReadRow, WorkTyped, Counts, Early
  <2> QED BY <1>1, <2>3, BatchStays
<1>3. CASE ReadState(j)
  <2>1. /\ wpc[j] \in Early /\ wpc'[j] \in Early
        /\ wjs'[j] = judgestates[JobSlot(j)] /\ wrow'[j] = wrow[j]
    BY <1>0, <1>3 DEF ReadState, WorkTyped, Early
  <2> QED BY <1>1, <2>1, BatchStays
<1>4. CASE ~ReadRow(j) /\ ~ReadState(j)
  <2>1. (wpc'[j] \in Early <=> wpc[j] \in Early) /\ wpc'[j] # "savejs"
    BY <1>0, <1>4 DEF Run, WriteDetail, NoDirectory, SaveVerdict, WorkTyped, Early
  <2> QED BY <1>1, <2>1, BatchStays
<1> QED BY <1>2, <1>3, <1>4

(* A final record that is with a judger is with that one only, and with no  *)
(* batch.                                                                   *)
LEMMA OnlyHere ==
    ASSUME BatchBase, NEW j \in Judgers, wpc[j] \in Early, ~AtOnce(wrec[j])
    PROVE  /\ Given(wrec[j]) /\ ~Held(wrec[j]) /\ FinalJob(wrec[j], j)
           /\ \A i \in Judgers : \A k \in DOMAIN jobs[i] : jobs[i][k] # wrec[j]
           /\ \A i \in Judgers : i # j /\ wpc[i] \in Early => wrec[i] # wrec[j]
<1>0. BatchInv /\ Once(j)
  BY BatchParts DEF BatchInv
<1>1. Given(wrec[j]) /\ FinalJob(wrec[j], j)
  BY <1>0 DEF Given, Once
<1>2. ~Held(wrec[j])
  BY <1>0, <1>1 DEF Held, BatchInv, Apart
<1>3. ASSUME NEW i \in Judgers, FinalJob(wrec[j], i)
      PROVE  i = j
  BY <1>1, <1>3 DEF FinalJob
<1>4. ASSUME NEW i \in Judgers, NEW k \in DOMAIN jobs[i], jobs[i][k] = wrec[j]
      PROVE  FALSE
  BY <1>0, <1>3, <1>4 DEF BatchInv, Once
<1>5. ASSUME NEW i \in Judgers, i # j, wpc[i] \in Early, wrec[i] = wrec[j]
      PROVE  FALSE
  BY <1>0, <1>3, <1>5 DEF BatchInv, Once
<1> QED BY <1>1, <1>2, <1>4, <1>5

(* The verdict is counted: judged grows by one, and one record is no longer *)
(* open.                                                                    *)
LEMMA BatchCounts ==
    ASSUME BatchBase, NEW j \in Judgers, WorkView(j), SaveState(j)
    PROVE  BatchInv'
<1>0. JInv /\ TypeOK /\ WorkTyped /\ BatchInv /\ Phases /\ Once(j)
  BY BatchParts DEF BatchInv
<1>1. PICK q0, z : q0 = wrec[j] /\ z = JobSlot(j)
  OBVIOUS
<1>2. /\ wpc[j] = "savejs" /\ wpc[j] \in Early /\ wpc'[j] = "detail"
      /\ UNCHANGED <<jobs, wrec, wrow, wjs>>
  BY <1>0 DEF SaveState, WorkTyped, Early
<1>3. /\ q0 \in Existing /\ ~AtOnce(q0) /\ z = Slot(q0) /\ z \in HwProblems /\ z \in Slots
      /\ z[2] = inp[q0].prob
  BY <1>0, <1>1, <1>2, WorkFinal, SubmissionAssumption
<1>4. /\ Given(q0) /\ ~Held(q0) /\ FinalJob(q0, j)
      /\ \A i \in Judgers : \A k \in DOMAIN jobs[i] : jobs[i][k] # q0
      /\ \A i \in Judgers : i # j /\ wpc[i] \in Early => wrec[i] # q0
  BY <1>1, <1>2, <1>3, OnlyHere
<1>5. q0 \in Finals(z)
  BY <1>0, <1>3, <1>4, FinalsCover DEF FinalJob, FinalType
<1>6. PICK row : row = [judgestates[z] EXCEPT !.judged = @ + 1]
  OBVIOUS
<1>7. /\ judgestates[z].judged \in Nat /\ judgestates[z].waiting \in Nat
      /\ row.judged = judgestates[z].judged + 1 /\ row.waiting = judgestates[z].waiting
  BY <1>0, <1>3, <1>6 DEF TypeOK, States
<1>8. \A s \in HwProblems : judgestates'[s] = IF s = z THEN row ELSE judgestates[s]
  BY <1>0, <1>1, <1>2, <1>6 DEF SaveState, TypeOK, Once
<1>9. \A q : Given(q)' <=> Given(q) /\ q # q0
  <2>1. ~(wpc'[j] \in Early) /\ \A i \in Judgers : i # j => wpc'[i] = wpc[i]
    BY <1>2 DEF Early, WorkView
  <2> QED BY <1>1, <1>2, <1>4, <2>1 DEF Given
<1>10. Started
  BY <1>0, <1>1, <1>2, <1>3 DEF Phases
<1>11. ASSUME NEW t \in Tas
       PROVE  Apart(t)'
  <2>1. Apart(t)
    BY <1>0 DEF BatchInv
  <2> QED BY <1>9, <2>1 DEF Apart, WorkView, taVars
<1>12. ASSUME NEW i \in Judgers
       PROVE  Once(i)'
  <2>1. /\ Once(i) /\ inp' = inp
        /\ \A q, k : (AtOnce(q)' <=> AtOnce(q)) /\ (FinalJob(q, k)' <=> FinalJob(q, k))
    BY <1>0 DEF BatchInv, WorkView, AtOnce, FinalJob, BatchJudger
  <2>2. CASE i = j
    BY <1>2, <2>1, <2>2 DEF Once, Early
  <2>3. CASE i # j
    <3>1. wpc'[i] = wpc[i]
      BY <2>3 DEF WorkView
    <3>2. ASSUME wpc[i] = "savejs"
          PROVE  JobSlot(i) # z /\ JobSlot(i) \in HwProblems
      <4>1. /\ JobSlot(i)[2] = inp[wrec[i]].prob /\ ~AtOnce(wrec[i])
            /\ JobSlot(i) \in HwProblems
        BY <1>0, <3>2, WorkFinal
      <4>2. FinalJob(wrec[i], i)
        BY <2>1, <3>2, <4>1 DEF Once, Early
      <4> QED BY <1>3, <1>4, <2>3, <4>1, <4>2 DEF FinalJob, BatchJudger
    <3>3. wpc[i] = "savejs" => judgestates'[JobSlot(i)] = judgestates[JobSlot(i)]
      BY <1>8, <3>2
    <3> QED BY <1>2, <2>1, <3>1, <3>3, OnceSame
  <2> QED BY <2>2, <2>3
<1>13. ASSUME NEW s \in HwProblems
       PROVE  Books(s)'
  <2>1. Books(s) /\ s \in Slots /\ Finals(s)' = Finals(s) /\ tanswer' = tanswer
    BY <1>0, SubmissionAssumption DEF BatchInv, WorkView, taVars
  <2>2. CASE s = z
    <3>1. Open(s)' = Open(s) \ {q0} /\ q0 \in Open(s)
      BY <1>4, <1>5, <1>9, <2>1, <2>2 DEF Open, WorkView
    <3>2. /\ IsFiniteSet(Open(s)) /\ Cardinality(Open(s)) \in Nat
          /\ Cardinality(Open(s)') = Cardinality(Open(s)) - 1
      BY <1>0, <3>1, OpenFinite, FS_RemoveElement, FS_CardinalityType
    <3>3. /\ judgestates'[s].judged = judgestates[s].judged + 1
          /\ judgestates'[s].waiting = judgestates[s].waiting
      BY <1>7, <1>8, <2>2
    <3>4. judgestates'[s].judged + Cardinality(Open(s)')
             = judgestates[s].judged + Cardinality(Open(s))
      BY <1>7, <2>2, <3>2, <3>3
    <3> QED BY <2>1, <3>3, <3>4 DEF Books
  <2>3. CASE s # z
    <3>1. q0 \notin Finals(s)
      BY <1>0, <1>3, <1>5, <2>1, <2>3, FinalsOne
    <3>2. Open(s)' = Open(s)
      BY <1>9, <2>1, <3>1 DEF Open, WorkView
    <3> QED BY <1>0, <1>8, <2>1, <2>3, <3>2, BooksKept
  <2> QED BY <2>2, <2>3
<1> QED BY <1>10, <1>11, <1>12, <1>13 DEF WorkView, BatchInv

LEMMA BatchWork ==
    ASSUME BatchBase, NEW j \in Judgers, Work(j), JInv'
    PROVE  BatchInv'
BY WorkSeen, BatchTake, BatchRuns, BatchCounts DEF Work

LEMMA BatchNext ==
    ASSUME Careful, BatchBase, [JNext]_<<vars, judgeVars>>
    PROVE  BatchBase'
<1>1. PubBase' /\ Phases' /\ JInv'
  BY PubBaseNext, PhasesNext DEF BatchBase, Careful, PubBase
<1>2. CASE UNCHANGED <<vars, judgeVars>>
  <2>1. BatchInv'
    BY <1>2 DEF BatchBase, BatchInv, Started, Clean, Roles, Apart, Once, Books, Open, Held, Given,
       Left, Finals, Existing, FinalJob, BatchJudger, AtOnce, JobSlot, vars, localVars, dbVars,
       judgeVars, taVars, workVars
  <2> QED BY <1>1, <2>1 DEF BatchBase
<1>3. CASE JNext
  <2>1. BatchInv'
    <3>1. CASE \E r \in Reqs : Submit(r)
      BY <1>1, <3>1, BatchSubmit DEF Careful
    <3>2. CASE \E t \in Tas : Start(t) \/ TaStep(t)
      BY <1>1, <3>2, BatchTa
    <3>3. CASE \E j \in Judgers : Work(j)
      BY <1>1, <3>3, BatchWork
    <3> QED BY <1>2, <1>3, <3>1, <3>2, <3>3 DEF JNext, AllQuiet, BatchBase
  <2> QED BY <1>1, <2>1 DEF BatchBase
<1> QED BY <1>2, <1>3

LEMMA BatchAlways == ASSUME Careful PROVE JSpec => []BatchBase
<1>1. ASSUME JInit PROVE BatchBase
  <2>1. PubBase /\ Phases
    BY <1>1, FileBaseInit DEF FileBase
  <2>2. EarlyStart
    BY <1>1 DEF JInit, Init, EarlyStart, Started, Clean
  <2> QED BY <2>1, <2>2, EarlyBatch DEF BatchBase, PubBase
<1>2. BatchBase /\ [JNext]_<<vars, judgeVars>> => BatchBase'
  BY BatchNext
<1> QED BY <1>1, <1>2, PTL DEF JSpec

-----------------------------------------------------------------------------
(* What the properties call outstanding is what the books call open.        *)
LEMMA OutstandingOpen ==
    ASSUME BatchBase, NEW s \in HwProblems
    PROVE  Outstanding(s) \subseteq Open(s) /\ (Method[s[2]] # 2 => Open(s) = Outstanding(s))
<1>0. JInv /\ BatchInv /\ s \in Slots
  BY BatchParts, SubmissionAssumption
<1>1. Outstanding(s) \subseteq Open(s)
  BY DEF Outstanding, Open, Held, Given, Loop, Early
<1>2. ASSUME Method[s[2]] # 2, NEW q \in Open(s)
      PROVE  q \in Outstanding(s)
  <2>1. CASE Given(q)
    BY <1>2, <2>1 DEF Given, Early, Open, Outstanding
  <2>2. CASE Held(q)
    <3>1. PICK t \in Tas : tpc[t] \in Loop /\ q \in Left(t)
      BY <2>2 DEF Held
    <3>2. /\ tkind[t] = "all" /\ tslot[t] \in Slots /\ q \in Finals(tslot[t])
          /\ tpc[t] = "unzip" => Method[tslot[t][2]] = 2
      BY <1>0, <3>1 DEF BatchInv, Roles, Loop, JInv, TaOK
    <3>3. tslot[t] = s
      BY <1>0, <1>2, <3>2, FinalsOne DEF Open
    <3> QED BY <1>2, <3>1, <3>2, <3>3 DEF Outstanding, Open, Loop
  <2> QED BY <1>2, <2>1, <2>2 DEF Open
<1> QED BY <1>1, <1>2

(* CountsAddUp: in a batch that meets no dead judger, the verdicts counted  *)
(* and the records outstanding make up total_waiting                        *)
(* (problem.py:823-826, record.py:199-202).                                 *)
THEOREM BatchAddsUp == ASSUME Careful PROVE JSpec => []CountsAddUp
<1>1. BatchBase => CountsAddUp
  BY OutstandingOpen, BatchParts DEF CountsAddUp, BatchInv, Books
<1> QED BY <1>1, BatchAlways, PTL

(* FinishedMeansReported: when the page says that the judging of a problem  *)
(* is finished, no verdict of it is outstanding (TA-lesson.js:152-158).     *)
THEOREM FinishedReported == ASSUME Careful PROVE JSpec => []FinishedMeansReported
<1>1. ASSUME BatchBase, NEW s \in HwProblems, Finished(s)
      PROVE  Outstanding(s) = {}
  <2>1. JInv /\ TypeOK /\ Books(s)
    BY <1>1, BatchParts DEF BatchInv
  <2>2. /\ judgestates[s].judged \in Nat /\ judgestates[s].waiting \in Nat
        /\ IsFiniteSet(Open(s)) /\ Cardinality(Open(s)) \in Nat
    BY <2>1, OpenFinite, FS_CardinalityType DEF TypeOK, States
  <2>3. Cardinality(Open(s)) = 0
    BY <1>1, <2>1, <2>2 DEF Books, Finished, Waiting
  <2>4. Open(s) = {}
    BY <2>2, <2>3, FS_EmptySet
  <2> QED BY <1>1, <2>4, OutstandingOpen
<1>2. BatchBase => FinishedMeansReported
  BY <1>1 DEF FinishedMeansReported
<1> QED BY <1>2, BatchAlways, PTL
=============================================================================
