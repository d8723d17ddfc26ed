-------------------------- MODULE JudgerServerProof --------------------------
(* Theorems about JudgerServer, for every set of jobs.                     *)
EXTENDS JudgerServer, SequenceTheorems, TLAPS

(* A thread that is past queue.get has a job.                              *)
Typed == TypeOK /\ \A j \in Judgers : tpc[j] # "get" => cur[j] \in Jobs

LEMMA TypedInit == Init => Typed
<1> SUFFICES ASSUME Init PROVE Typed
  OBVIOUS
<1>1. 0 \in 0..MaxUpdates
  BY JobAssumption
<1>2. reports \in [Jobs -> Seq(Verdicts)] /\ queue \in [Judgers -> Seq(Jobs)]
  BY EmptySeq DEF Init
<1>3. TypeOK
  BY <1>1, <1>2 DEF Init, TypeOK
<1> QED BY <1>3 DEF Init, Typed

LEMMA TypedThread ==
    ASSUME Typed, NEW j \in Judgers, Thread(j)
    PROVE  Typed'
<1> USE DEF Typed, TypeOK, Verdicts, Go, diskVars, scriptVars
<1>1. CASE Get(j)
  <2>1. queue[j] \in Seq(Jobs) /\ queue[j] # <<>>
    BY <1>1 DEF Get
  <2>2. Head(queue[j]) \in Jobs /\ Tail(queue[j]) \in Seq(Jobs)
    BY <2>1, HeadTailProperties
  <2> QED BY <1>1, <2>2 DEF Get
<1>2. CASE Missing(j)
  BY <1>2 DEF Missing
<1>3. CASE Copy(j) \/ CopyDies(j)
  BY <1>3 DEF Copy, CopyDies
<1>4. CASE OpenResult(j)
  BY <1>4 DEF OpenResult
<1>5. CASE CloseResult(j)
  BY <1>5 DEF CloseResult, AfterRun
<1>6. CASE ProgramDies(j)
  BY <1>6 DEF ProgramDies, AfterRun
<1>7. CASE Clean(j) \/ CleanDies(j)
  BY <1>7 DEF Clean, CleanDies
<1>8. CASE Read(j)
  BY <1>8 DEF Read
<1>9. ASSUME Report(j), tpc[j] \in {"post", "again"}
      PROVE  reports' \in [Jobs -> Seq(Verdicts)]
  <2>1. cur[j] \in Jobs /\ got[j] \in Verdicts /\ reports[cur[j]] \in Seq(Verdicts)
    BY <1>9
  <2>2. Append(reports[cur[j]], got[j]) \in Seq(Verdicts)
    BY <2>1, AppendProperties
  <2> QED BY <1>9, <2>1, <2>2 DEF Report
<1>10. CASE Post(j)
  BY <1>9, <1>10 DEF Post
<1>11. CASE PostLost(j)
  BY <1>11 DEF PostLost
<1>12. CASE PostLate(j)
  BY <1>9, <1>12 DEF PostLate
<1>13. CASE Again(j)
  BY <1>9, <1>13 DEF Again
<1>14. CASE AgainLost(j)
  BY <1>14 DEF AgainLost
<1>15. CASE AgainLate(j)
  BY <1>9, <1>15 DEF AgainLate
<1> QED BY <1>1, <1>2, <1>3, <1>4, <1>5, <1>6, <1>7, <1>8, <1>10, <1>11, <1>12, <1>13,
           <1>14, <1>15 DEF Thread

LEMMA TypedStep == Typed /\ [Next]_vars => Typed'
<1> SUFFICES ASSUME Typed, [Next]_vars PROVE Typed'
  OBVIOUS
<1> USE DEF Typed, TypeOK, diskVars, scriptVars
<1>1. ASSUME NEW i \in Jobs, Accept(i) PROVE Typed'
  <2>1. Kind[i] \in Judgers
    BY JobAssumption
  <2>2. Append(queue[Kind[i]], i) \in Seq(Jobs)
    BY <2>1, AppendProperties
  <2>3. queue' \in [Judgers -> Seq(Jobs)] /\ accepted' \subseteq Jobs
    BY <1>1, <2>1, <2>2 DEF Accept
  <2> QED BY <1>1, <2>3 DEF Accept
<1>2. ASSUME NEW j \in Judgers, Thread(j) PROVE Typed'
  BY <1>2, TypedThread
<1>3. CASE RemoveScripts
  <2>1. updates' \in 0..MaxUpdates
    <3>1. updates \in 0..MaxUpdates /\ updates < MaxUpdates /\ updates' = updates + 1
      BY <1>3 DEF RemoveScripts
    <3> QED BY <3>1, JobAssumption
  <2>2. /\ UNCHANGED <<queue, accepted, tpc, cur, got, file, mixed, fresh, reports>>
        /\ scripts' = FALSE /\ index' = FALSE
    BY <1>3 DEF RemoveScripts
  <2> QED BY <2>1, <2>2
<1>4. CASE ExtractScripts
  BY <1>4 DEF ExtractScripts
<1>5. CASE Poll \/ UNCHANGED vars
  BY <1>5 DEF Poll, vars
<1> QED BY <1>1, <1>2, <1>3, <1>4, <1>5 DEF Next

(* Every variable of the judger service keeps its type; a thread that      *)
(* posts has a verdict to post.                                            *)
THEOREM JudgerTypeCorrect == Spec => []TypeOK
<1>1. Spec => []Typed
  BY TypedInit, TypedStep, PTL DEF Spec
<1> QED BY <1>1, PTL DEF Typed

-----------------------------------------------------------------------------
(* Before a program has opened result.json anything may be in it; from then*)
(* on only what was finished since.                                        *)
FreshOK(j) ==
    /\ tpc[j] \in {"copy", "run"} => fresh[j] = Jobs
    /\ tpc[j] \in {"write", "clean", "read"} /\ file \in Jobs => file \in fresh[j]
    /\ tpc[j] = "post" => got[j] \in fresh[j]

AllFresh == \A j \in Judgers : FreshOK(j)

(* A step that leaves the file and a thread alone leaves the thread right. *)
LEMMA FreshKept ==
    ASSUME NEW j \in Judgers, FreshOK(j),
           UNCHANGED <<file, tpc[j], fresh[j], got[j]>>
    PROVE  FreshOK(j)'
BY DEF FreshOK

LEMMA FreshThread ==
    ASSUME Typed, AllFresh, NEW j \in Judgers, Thread(j)
    PROVE  AllFresh'
<1> SUFFICES ASSUME NEW o \in Judgers PROVE FreshOK(o)'
  BY DEF AllFresh
<1> FreshOK(o) /\ FreshOK(j)
  BY DEF AllFresh
<1> USE DEF Go, diskVars, scriptVars
<1>1. CASE Get(j)
  <2>1. CASE o = j
    BY <1>1, <2>1 DEF Get, FreshOK, Typed, TypeOK
  <2>2. CASE o # j
    BY <1>1, <2>2, FreshKept DEF Get, Typed, TypeOK
  <2> QED BY <2>1, <2>2
<1>2. CASE Missing(j) \/ Copy(j) \/ CopyDies(j)
  BY <1>2 DEF Missing, Copy, CopyDies, FreshOK, Typed, TypeOK
<1>3. CASE OpenResult(j)
  <2>1. file' \notin Jobs
    BY <1>3, JobAssumption DEF OpenResult
  <2> QED BY <1>3, <2>1 DEF OpenResult, FreshOK, Typed, TypeOK
<1>4. CASE CloseResult(j)
  <2>1. /\ fresh[o] \in SUBSET Jobs /\ cur[j] \in Jobs
        /\ fresh'[o] = fresh[o] \cup {cur[j]}
        /\ got' = got
        /\ file' \in {cur[j], "garbled", file}
    BY <1>4 DEF CloseResult, Typed, TypeOK
  <2>2. file' \in Jobs => file' = cur[j] \/ file' = file
    BY <2>1, JobAssumption
  <2>3. tpc[j] = "write" /\ tpc'[j] \in {"clean", "read"} /\ (o # j => tpc'[o] = tpc[o])
    BY <1>4 DEF CloseResult, AfterRun, Typed, TypeOK
  <2> QED BY <2>1, <2>2, <2>3 DEF FreshOK
<1>5. CASE ProgramDies(j)
  BY <1>5 DEF ProgramDies, AfterRun, FreshOK, Typed, TypeOK
<1>6. CASE Clean(j) \/ CleanDies(j)
  BY <1>6 DEF Clean, CleanDies, FreshOK, Typed, TypeOK
<1>7. CASE Read(j)
  BY <1>7 DEF Read, FreshOK, Typed, TypeOK
<1>8. CASE Post(j) \/ PostLost(j) \/ PostLate(j)
  BY <1>8 DEF Post, PostLost, PostLate, FreshOK, Typed, TypeOK
<1>9. CASE Again(j) \/ AgainLost(j) \/ AgainLate(j)
  BY <1>9 DEF Again, AgainLost, AgainLate, FreshOK, Typed, TypeOK
<1> QED BY <1>1, <1>2, <1>3, <1>4, <1>5, <1>6, <1>7, <1>8, <1>9 DEF Thread

LEMMA FreshStep == Typed /\ AllFresh /\ [Next]_vars => AllFresh'
<1> SUFFICES ASSUME Typed, AllFresh, [Next]_vars PROVE AllFresh'
  OBVIOUS
<1>1. CASE UNCHANGED <<file, tpc, fresh, got>>
  BY <1>1, FreshKept DEF AllFresh
<1>2. ASSUME NEW j \in Judgers, Thread(j) PROVE AllFresh'
  BY <1>2, FreshThread
<1> QED BY <1>1, <1>2 DEF Next, Accept, RemoveScripts, ExtractScripts, Poll, vars, diskVars

(* What is reported for a job whose program left a result was in the file  *)
(* after this program, never before it.                                    *)
THEOREM NoOlder == Spec => []NoOlderVerdict
<1>1. Init => AllFresh
  BY DEF Init, AllFresh, FreshOK
<1>2. Spec => []AllFresh
  BY <1>1, TypedInit, TypedStep, FreshStep, PTL DEF Spec
<1>3. AllFresh => NoOlderVerdict
  BY DEF AllFresh, FreshOK, NoOlderVerdict
<1> QED BY <1>2, <1>3, PTL

-----------------------------------------------------------------------------
(* Where a job is: not accepted, waiting in one place of one queue, or in  *)
(* the hands of the thread of its kind.  It has no verdict before the post,*)
(* and at most one before the second post, which is the fallback.          *)
Quiet == {"copy", "run", "write", "clean", "read", "post"}

WaitOK(j) ==
    \A k \in 1..Len(queue[j]) :
        /\ queue[j][k] \in accepted /\ Kind[queue[j][k]] = j
        /\ reports[queue[j][k]] = <<>>
        /\ \A m \in 1..Len(queue[j]) : queue[j][k] = queue[j][m] => k = m

CurOK(j) ==
    tpc[j] # "get" =>
        /\ cur[j] \in accepted /\ Kind[cur[j]] = j
        /\ \A k \in 1..Len(queue[j]) : queue[j][k] # cur[j]
        /\ tpc[j] \in Quiet => reports[cur[j]] = <<>>
        /\ tpc[j] = "again" => Len(reports[cur[j]]) <= 1 /\ got[j] = "failed"

IdleOK == \A i \in Jobs : i \notin accepted => reports[i] = <<>>

JobsOK ==
    /\ \A j \in Judgers : WaitOK(j) /\ CurOK(j)
    /\ IdleOK
    /\ SecondIsFallback

LEMMA JobsInit == Init => JobsOK
BY DEF Init, JobsOK, WaitOK, CurOK, IdleOK, SecondIsFallback, Judgers

LEMMA JobsAccept ==
    ASSUME Typed, JobsOK, NEW i \in Jobs, Accept(i)
    PROVE  JobsOK'
<1> SUFFICES ASSUME NEW j \in Judgers PROVE (WaitOK(j) /\ CurOK(j))'
  BY DEF JobsOK, IdleOK, SecondIsFallback, Accept
<1>1. /\ i \notin accepted /\ accepted' = accepted \cup {i} /\ reports[i] = <<>>
      /\ UNCHANGED <<tpc, cur, got, reports>>
  BY DEF Accept, JobsOK, IdleOK
<1>2. WaitOK(j) /\ CurOK(j)
  BY DEF JobsOK
<1>3. Kind[i] \in Judgers /\ queue[j] \in Seq(Jobs) /\ Len(queue[j]) \in Nat
  BY JobAssumption, LenProperties DEF Typed, TypeOK
<1>4. CASE j # Kind[i]
  <2>1. queue'[j] = queue[j]
    BY <1>4 DEF Accept, Typed, TypeOK
  <2> QED BY <1>1, <1>2, <2>1 DEF WaitOK, CurOK
<1>5. CASE j = Kind[i]
  <2>1. queue'[j] = Append(queue[j], i)
    BY <1>3, <1>5 DEF Accept, Typed, TypeOK
  <2>2. /\ Len(queue'[j]) = Len(queue[j]) + 1
        /\ \A k \in 1..Len(queue[j]) : queue'[j][k] = queue[j][k]
        /\ queue'[j][Len(queue[j]) + 1] = i
    BY <1>3, <2>1, AppendProperties
  <2>3. \A k \in 1..Len(queue[j]) : queue[j][k] # i
    BY <1>1, <1>2 DEF WaitOK
  <2>4. WaitOK(j)'
    <3> SUFFICES ASSUME NEW k \in 1..Len(queue'[j])
                 PROVE  /\ queue'[j][k] \in accepted' /\ Kind[queue'[j][k]] = j
                        /\ reports'[queue'[j][k]] = <<>>
                        /\ \A m \in 1..Len(queue'[j]) : queue'[j][k] = queue'[j][m] => k = m
      BY DEF WaitOK
    <3>1. CASE k = Len(queue[j]) + 1
      BY <1>1, <1>3, <1>5, <2>2, <2>3, <3>1
    <3>2. CASE k \in 1..Len(queue[j])
      BY <1>1, <1>2, <1>3, <2>2, <2>3, <3>2 DEF WaitOK
    <3> QED BY <1>3, <2>2, <3>1, <3>2
  <2>5. CurOK(j)'
    <3> SUFFICES ASSUME tpc[j] # "get" PROVE CurOK(j)'
      BY <1>1 DEF CurOK
    <3>1. cur[j] \in accepted /\ cur[j] # i
      BY <1>1, <1>2 DEF CurOK
    <3>2. \A k \in 1..Len(queue'[j]) : queue'[j][k] # cur[j]
      BY <1>2, <1>3, <2>2, <3>1 DEF CurOK
    <3> QED BY <1>1, <1>2, <3>1, <3>2 DEF CurOK
  <2> QED BY <2>4, <2>5
<1> QED BY <1>4, <1>5

LEMMA JobsGet ==
    ASSUME Typed, JobsOK, NEW j \in Judgers, Get(j)
    PROVE  JobsOK'
<1> SUFFICES ASSUME NEW o \in Judgers PROVE (WaitOK(o) /\ CurOK(o))'
  BY DEF JobsOK, IdleOK, SecondIsFallback, Get
<1>1. UNCHANGED <<accepted, got, reports>>
  BY DEF Get
<1>2. WaitOK(o) /\ CurOK(o) /\ WaitOK(j)
  BY DEF JobsOK
<1>3. CASE o # j
  BY <1>1, <1>2, <1>3 DEF Get, Go, WaitOK, CurOK, Typed, TypeOK
<1>4. CASE o = j
  <2>1. queue[j] \in Seq(Jobs) /\ queue[j] # <<>> /\ Len(queue[j]) \in Nat \ {0}
    BY EmptySeq DEF Get, Typed, TypeOK
  <2>2. queue'[j] = Tail(queue[j]) /\ cur'[j] = queue[j][1] /\ tpc'[j] \in {"copy", "run"}
    BY <2>1 DEF Get, Go, Typed, TypeOK
  <2>3. /\ Len(queue'[j]) = Len(queue[j]) - 1
        /\ \A k \in 1..Len(queue'[j]) : queue'[j][k] = queue[j][k + 1]
    BY <2>1, <2>2, HeadTailProperties
  <2>4. WaitOK(j)'
    BY <1>1, <1>2, <2>1, <2>3 DEF WaitOK
  <2>5. CurOK(j)'
    <3>1. cur'[j] \in accepted' /\ Kind[cur'[j]] = j /\ reports'[cur'[j]] = <<>>
      BY <1>1, <1>2, <2>1, <2>2 DEF WaitOK
    <3>2. \A k \in 1..Len(queue'[j]) : queue'[j][k] # cur'[j]
      BY <1>2, <2>1, <2>2, <2>3 DEF WaitOK
    <3> QED BY <2>2, <3>1, <3>2 DEF CurOK
  <2> QED BY <1>4, <2>4, <2>5
<1> QED BY <1>3, <1>4

(* A thread moves on over its job without a word to the backend.           *)
LEMMA JobsMove ==
    ASSUME Typed, JobsOK, NEW j \in Judgers, NEW l,
           UNCHANGED <<queue, accepted, cur, reports>>,
           Go(j, l), \A o \in Judgers : o # j => got'[o] = got[o],
           tpc[j] # "get",
           \/ tpc[j] \in Quiet /\ (l = "again" => got'[j] = "failed")
           \/ l = "dead"
    PROVE  JobsOK'
<1> SUFFICES ASSUME NEW o \in Judgers PROVE (WaitOK(o) /\ CurOK(o))'
  BY DEF JobsOK, IdleOK, SecondIsFallback
<1>1. WaitOK(o) /\ CurOK(o)
  BY DEF JobsOK
<1>2. WaitOK(o)'
  BY <1>1 DEF WaitOK
<1>3. CASE o # j
  BY <1>1, <1>2, <1>3 DEF CurOK, Go, Typed, TypeOK
<1>4. CASE o = j
  <2>1. tpc'[j] = l
    BY DEF Go, Typed, TypeOK
  <2>2. tpc[j] \in Quiet => Len(reports[cur[j]]) = 0
    BY <1>1, <1>4 DEF CurOK
  <2> QED BY <1>1, <1>2, <1>4, <2>1, <2>2 DEF CurOK, Quiet
<1> QED BY <1>3, <1>4

(* A thread reports its job: as the first verdict of it before the second  *)
(* post, or as the fallback after which it leaves the job.                 *)
LEMMA JobsReport ==
    ASSUME Typed, JobsOK, NEW j \in Judgers, NEW l,
           UNCHANGED <<queue, accepted, cur>>,
           Go(j, l), Report(j), \A o \in Judgers : o # j => got'[o] = got[o],
           \/ tpc[j] = "post" /\ l = "get"
           \/ tpc[j] = "post" /\ l = "again" /\ got'[j] = "failed"
           \/ tpc[j] = "again" /\ l \in {"get", "dead"}
    PROVE  JobsOK'
<1>1. /\ cur[j] \in Jobs /\ cur[j] \in accepted /\ Kind[cur[j]] = j
      /\ \A k \in 1..Len(queue[j]) : queue[j][k] # cur[j]
      /\ tpc[j] = "post" => reports[cur[j]] = <<>>
      /\ tpc[j] = "again" => Len(reports[cur[j]]) <= 1 /\ got[j] = "failed"
  BY DEF JobsOK, CurOK, Typed, Quiet
<1>2. /\ reports[cur[j]] \in Seq(Verdicts) /\ got[j] \in Verdicts
      /\ Len(reports[cur[j]]) \in Nat
  BY <1>1, LenProperties DEF Typed, TypeOK
<1>3. /\ reports'[cur[j]] = Append(reports[cur[j]], got[j])
      /\ \A i \in Jobs : i # cur[j] => reports'[i] = reports[i]
  BY <1>1 DEF Report, Typed, TypeOK
<1>4. /\ Len(reports'[cur[j]]) = Len(reports[cur[j]]) + 1
      /\ reports'[cur[j]][Len(reports[cur[j]]) + 1] = got[j]
  BY <1>2, <1>3, AppendProperties
<1>5. SecondIsFallback'
  <2> SUFFICES ASSUME NEW i \in Jobs
               PROVE  /\ Len(reports'[i]) <= 2
                      /\ Len(reports'[i]) = 2 => reports'[i][2] = "failed"
    BY DEF SecondIsFallback
  <2>1. CASE i # cur[j]
    BY <1>3, <2>1 DEF JobsOK, SecondIsFallback
  <2>2. CASE i = cur[j] /\ tpc[j] = "post"
    <3>1. Len(reports[cur[j]]) = 0
      BY <1>1, <2>2
    <3>2. Len(reports'[cur[j]]) = 1
      BY <1>4, <3>1
    <3> QED BY <2>2, <3>2
  <2>3. CASE i = cur[j] /\ tpc[j] = "again"
    BY <1>1, <1>2, <1>4, <2>3
  <2> QED BY <2>1, <2>2, <2>3
<1>6. IdleOK'
  BY <1>1, <1>3 DEF IdleOK, JobsOK
<1>7. ASSUME NEW o \in Judgers PROVE (WaitOK(o) /\ CurOK(o))'
  <2>1. WaitOK(o) /\ CurOK(o)
    BY DEF JobsOK
  <2>2. queue[o] \in Seq(Jobs) /\ \A k \in 1..Len(queue[o]) : queue[o][k] \in Jobs
    BY LenProperties DEF Typed, TypeOK
  <2>3. \A k \in 1..Len(queue[o]) : queue[o][k] # cur[j]
    BY <1>1, <2>1 DEF WaitOK
  <2>4. WaitOK(o)'
    BY <1>3, <2>1, <2>2, <2>3 DEF WaitOK
  <2>5. CASE o # j
    <3>1. tpc'[o] = tpc[o] /\ got'[o] = got[o]
      BY <2>5 DEF Go, Typed, TypeOK
    <3>2. tpc[o] # "get" => cur[o] # cur[j] /\ cur[o] \in Jobs
      BY <1>1, <2>1, <2>5 DEF CurOK, Typed
    <3>3. CurOK(o)'
      BY <1>3, <2>1, <3>1, <3>2 DEF CurOK
    <3> QED BY <2>4, <3>3
  <2>6. CASE o = j
    <3>1. tpc'[j] = l
      BY DEF Go, Typed, TypeOK
    <3>2. l = "again" => Len(reports'[cur[j]]) = 1 /\ got'[j] = "failed"
      <4>1. tpc[j] = "post" => Len(reports[cur[j]]) = 0
        BY <1>1
      <4> QED BY <1>4, <4>1
    <3>3. l \notin Quiet
      BY DEF Quiet
    <3>4. ASSUME l = "again" PROVE Len(reports'[cur[j]]) <= 1
      <4>1. Len(reports'[cur[j]]) = 1
        BY <3>2, <3>4
      <4> QED BY <4>1
    <3>5. /\ cur'[j] \in accepted' /\ Kind[cur'[j]] = j
          /\ \A k \in 1..Len(queue'[j]) : queue'[j][k] # cur'[j]
      BY <1>1
    <3>6. /\ tpc'[j] \in Quiet => reports'[cur'[j]] = <<>>
          /\ tpc'[j] = "again" => Len(reports'[cur'[j]]) <= 1 /\ got'[j] = "failed"
      BY <3>1, <3>2, <3>3, <3>4
    <3>7. CurOK(j)'
      BY <3>5, <3>6 DEF CurOK
    <3> QED BY <2>4, <2>6, <3>7
  <2> QED BY <2>5, <2>6
<1> QED BY <1>5, <1>6, <1>7 DEF JobsOK

LEMMA JobsThread ==
    ASSUME Typed, JobsOK, NEW j \in Judgers, Thread(j)
    PROVE  JobsOK'
<1> USE DEF Quiet
<1>1. CASE Get(j)
  BY <1>1, JobsGet
<1>2. CASE Missing(j)
  BY <1>2, JobsMove DEF Missing, Typed, TypeOK
<1>3. CASE Copy(j)
  BY <1>3, JobsMove DEF Copy
<1>4. CASE CopyDies(j)
  BY <1>4, JobsMove DEF CopyDies
<1>5. CASE OpenResult(j)
  BY <1>5, JobsMove DEF OpenResult
<1>6. CASE CloseResult(j)
  BY <1>6, JobsMove DEF CloseResult, AfterRun
<1>7. CASE ProgramDies(j)
  BY <1>7, JobsMove DEF ProgramDies, AfterRun
<1>8. CASE Clean(j)
  BY <1>8, JobsMove DEF Clean
<1>9. CASE CleanDies(j)
  BY <1>9, JobsMove DEF CleanDies
<1>10. CASE Read(j)
  <2>1. file \notin Jobs => got'[j] = "failed"
    BY <1>10 DEF Read, Typed, TypeOK
  <2>2. \A o \in Judgers : o # j => got'[o] = got[o]
    BY <1>10 DEF Read, Typed, TypeOK
  <2> QED BY <1>10, <2>1, <2>2, JobsMove DEF Read
<1>11. CASE Post(j)
  BY <1>11, JobsReport DEF Post
<1>12. CASE PostLost(j)
  BY <1>12, JobsMove DEF PostLost, Typed, TypeOK
<1>13. CASE PostLate(j)
  BY <1>13, JobsReport DEF PostLate, Typed, TypeOK
<1>14. CASE Again(j)
  BY <1>14, JobsReport DEF Again
<1>15. CASE AgainLost(j)
  BY <1>15, JobsMove DEF AgainLost
<1>16. CASE AgainLate(j)
  BY <1>16, JobsReport DEF AgainLate
<1> QED BY <1>1, <1>2, <1>3, <1>4, <1>5, <1>6, <1>7, <1>8, <1>9, <1>10, <1>11, <1>12, <1>13,
           <1>14, <1>15, <1>16 DEF Thread

LEMMA JobsStep == Typed /\ JobsOK /\ [Next]_vars => JobsOK'
<1> SUFFICES ASSUME Typed, JobsOK, [Next]_vars PROVE JobsOK'
  OBVIOUS
<1>1. CASE UNCHANGED <<queue, accepted, tpc, cur, got, reports>>
  BY <1>1 DEF JobsOK, WaitOK, CurOK, IdleOK, SecondIsFallback
<1>2. ASSUME NEW i \in Jobs, Accept(i) PROVE JobsOK'
  BY <1>2, JobsAccept
<1>3. ASSUME NEW j \in Judgers, Thread(j) PROVE JobsOK'
  BY <1>3, JobsThread
<1> QED BY <1>1, <1>2, <1>3 DEF Next, RemoveScripts, ExtractScripts, Poll, vars

LEMMA JobsAlways == Spec => [](Typed /\ JobsOK)
BY TypedInit, TypedStep, JobsInit, JobsStep, PTL DEF Spec

(* The backend gets a second verdict for a job only as the fallback of the *)
(* except clause, and never a third.                                       *)
THEOREM Second == Spec => []SecondIsFallback
<1>1. JobsOK => SecondIsFallback
  BY DEF JobsOK
<1> QED BY <1>1, JobsAlways, PTL

-----------------------------------------------------------------------------
(* The job in hand before the waiting ones.                                *)
LEMMA Cons ==
    ASSUME NEW S, NEW e \in S, NEW q \in Seq(S)
    PROVE  /\ <<e>> \o q \in Seq(S) /\ <<e>> \o q # <<>>
           /\ Head(<<e>> \o q) = e /\ Tail(<<e>> \o q) = q
<1>1. <<e>> \in Seq(S) /\ Len(<<e>>) = 1 /\ <<e>>[1] = e
  OBVIOUS
<1>2. /\ <<e>> \o q \in Seq(S) /\ Len(<<e>> \o q) = 1 + Len(q)
      /\ \A i \in 1..(1 + Len(q)) : (<<e>> \o q)[i] = IF i <= 1 THEN <<e>>[i] ELSE q[i - 1]
  BY <1>1, ConcatProperties
<1>3. Len(q) \in Nat
  BY LenProperties
<1>4. <<e>> \o q # <<>>
  BY <1>2, <1>3, EmptySeq
<1>5. Head(<<e>> \o q) = e
  BY <1>1, <1>2, <1>3, <1>4
<1>6. /\ Tail(<<e>> \o q) \in Seq(S) /\ Len(Tail(<<e>> \o q)) = Len(q)
      /\ \A i \in 1..Len(q) : Tail(<<e>> \o q)[i] = (<<e>> \o q)[i + 1]
  BY <1>2, <1>3, <1>4, HeadTailProperties
<1>7. \A i \in 1..Len(q) : Tail(<<e>> \o q)[i] = q[i]
  BY <1>2, <1>3, <1>6
<1>8. Tail(<<e>> \o q) = q
  BY <1>6, <1>7, SeqEqual
<1> QED BY <1>2, <1>4, <1>5, <1>8

LEMMA ConsAppend ==
    ASSUME NEW S, NEW e \in S, NEW q \in Seq(S), NEW f \in S
    PROVE  <<e>> \o Append(q, f) = Append(<<e>> \o q, f)
<1>1. <<e>> \in Seq(S) /\ <<f>> \in Seq(S)
  OBVIOUS
<1>2. Append(q, f) = q \o <<f>> /\ Append(<<e>> \o q, f) = (<<e>> \o q) \o <<f>>
  BY Cons, AppendIsConcat
<1> QED BY <1>1, <1>2, ConcatAssociative

(* Names for the abstract state.                                           *)
TodoBar == [j \in Judgers |-> Todo(j)]
AnswersBar == [i \in Jobs |-> Len(reports[i])]
AliveBar == {j \in Judgers : tpc[j] # "dead"}

LEMMA Bars ==
    ASSUME UNCHANGED <<TodoBar, AnswersBar, AliveBar>>
    PROVE  UNCHANGED Service!serviceVars
BY DEF Service!serviceVars, TodoBar, AnswersBar, AliveBar

LEMMA RefinesInit == Init => Service!ServiceInit
BY DEF Init, Service!ServiceInit, Todo, Judgers

LEMMA RefinesAccept ==
    ASSUME Typed, JobsOK, NEW i \in Jobs, Accept(i)
    PROVE  Service!Enqueue(i)
<1>1. Kind[i] \in Judgers /\ queue[Kind[i]] \in Seq(Jobs)
  BY JobAssumption DEF Typed, TypeOK
<1>2. /\ UNCHANGED <<tpc, cur, reports>>
      /\ queue' = [queue EXCEPT ![Kind[i]] = Append(@, i)]
  BY DEF Accept
<1>3. AnswersBar[i] = 0 /\ AnswersBar' = AnswersBar /\ AliveBar' = AliveBar
  <2>1. reports[i] = <<>>
    BY DEF Accept, JobsOK, IdleOK
  <2> QED BY <1>2, <2>1 DEF AnswersBar, AliveBar
<1>4. ASSUME NEW j \in Judgers
      PROVE  TodoBar'[j] = [TodoBar EXCEPT ![Kind[i]] = Append(@, i)][j]
  <2>1. CASE j # Kind[i]
    BY <1>1, <1>2, <2>1 DEF TodoBar, Todo, Typed, TypeOK
  <2>2. CASE j = Kind[i]
    <3>1. queue'[j] = Append(queue[j], i)
      BY <1>1, <1>2, <2>2 DEF Typed, TypeOK
    <3>2. tpc[j] # "get" => <<cur[j]>> \o Append(queue[j], i) = Append(<<cur[j]>> \o queue[j], i)
      BY <1>1, <2>2, ConsAppend DEF Typed
    <3> QED BY <1>1, <1>2, <2>2, <3>1, <3>2 DEF TodoBar, Todo
  <2> QED BY <2>1, <2>2
<1>5. TodoBar' = [TodoBar EXCEPT ![Kind[i]] = Append(@, i)]
  BY <1>4 DEF TodoBar
<1> QED BY <1>3, <1>5 DEF Service!Enqueue, TodoBar, AnswersBar, AliveBar

(* What a thread's step does to each part of the abstract state.           *)
LEMMA TodoOf ==
    ASSUME Typed, NEW j \in Judgers, tpc[j] # "get"
    PROVE  /\ TodoBar[j] # <<>> /\ Head(TodoBar[j]) = cur[j]
           /\ Tail(TodoBar[j]) = queue[j] /\ cur[j] \in Jobs
<1>1. cur[j] \in Jobs /\ queue[j] \in Seq(Jobs)
  BY DEF Typed, TypeOK
<1> QED BY <1>1, Cons DEF TodoBar, Todo

LEMMA TodoStep ==
    ASSUME Typed, NEW j \in Judgers, NEW l, Go(j, l), tpc[j] # "get",
           UNCHANGED <<queue, cur>>
    PROVE  /\ l # "get" => TodoBar' = TodoBar
           /\ l = "get" => TodoBar' = [TodoBar EXCEPT ![j] = Tail(@)]
<1>1. /\ tpc'[j] = l
      /\ \A o \in Judgers : o # j => tpc'[o] = tpc[o]
  BY DEF Go, Typed, TypeOK
<1>2. ASSUME NEW o \in Judgers, o # j PROVE Todo(o)' = Todo(o)
  BY <1>1, <1>2 DEF Todo
<1>3. CASE l # "get"
  <2>1. Todo(j)' = Todo(j)
    BY <1>1, <1>3 DEF Todo
  <2> QED BY <1>2, <1>3, <2>1 DEF TodoBar
<1>4. CASE l = "get"
  <2>1. Todo(j)' = Tail(TodoBar[j])
    BY <1>1, <1>4, TodoOf DEF Todo
  <2> QED BY <1>2, <1>4, <2>1 DEF TodoBar
<1> QED BY <1>3, <1>4

LEMMA AliveStep ==
    ASSUME Typed, NEW j \in Judgers, NEW l, Go(j, l), tpc[j] # "dead"
    PROVE  /\ j \in AliveBar
           /\ l # "dead" => AliveBar' = AliveBar
           /\ l = "dead" => AliveBar' = AliveBar \ {j}
BY DEF AliveBar, Go, Typed, TypeOK

LEMMA AnswerStep ==
    ASSUME Typed, JobsOK, NEW j \in Judgers, tpc[j] \in {"post", "again"}, Report(j)
    PROVE  /\ Service!Answer(j)
           /\ tpc[j] = "post" => AnswersBar[Head(TodoBar[j])] = 0
<1>1. /\ TodoBar[j] # <<>> /\ Head(TodoBar[j]) = cur[j] /\ cur[j] \in Jobs
  BY TodoOf
<1>2. /\ tpc[j] = "post" => Len(reports[cur[j]]) = 0
      /\ tpc[j] = "again" => Len(reports[cur[j]]) <= 1
  BY DEF JobsOK, CurOK, Quiet
<1>3. /\ reports[cur[j]] \in Seq(Verdicts) /\ got[j] \in Verdicts
      /\ Len(reports[cur[j]]) \in Nat
  BY <1>1, LenProperties DEF Typed, TypeOK
<1>4. AnswersBar[cur[j]] = Len(reports[cur[j]]) /\ AnswersBar[cur[j]] < 2
  BY <1>1, <1>2, <1>3 DEF AnswersBar
<1>5. Len(Append(reports[cur[j]], got[j])) = Len(reports[cur[j]]) + 1
  BY <1>3, AppendProperties
<1>6. ASSUME NEW i \in Jobs
      PROVE  AnswersBar'[i] = [AnswersBar EXCEPT ![cur[j]] = @ + 1][i]
  BY <1>1, <1>5, <1>6 DEF AnswersBar, Report, Typed, TypeOK
<1>7. AnswersBar' = [AnswersBar EXCEPT ![cur[j]] = @ + 1]
  BY <1>6 DEF AnswersBar
<1>8. j \in AliveBar
  BY DEF AliveBar
<1> QED BY <1>1, <1>2, <1>4, <1>7, <1>8 DEF Service!Answer, TodoBar, AnswersBar, AliveBar

LEMMA RefinesThread ==
    ASSUME Typed, JobsOK, NEW j \in Judgers, Thread(j)
    PROVE  [Service!ServiceNext]_(Service!serviceVars)
<1>a. UNCHANGED reports => AnswersBar' = AnswersBar
  BY DEF AnswersBar
(* A step that neither posts, ends nor leaves the job is not seen.         *)
<1>b. ASSUME NEW l, Go(j, l), l \notin {"get", "dead"}, tpc[j] \notin {"get", "dead"},
             UNCHANGED <<queue, cur, reports>>
      PROVE  UNCHANGED Service!serviceVars
  BY <1>a, <1>b, TodoStep, AliveStep, Bars
<1>c. ASSUME Go(j, "dead"), tpc[j] \notin {"get", "dead"}, UNCHANGED <<queue, cur>>,
             UNCHANGED reports \/ Service!Answer(j)
      PROVE  Service!Stop(j)
  <2>1. /\ TodoBar' = TodoBar /\ AliveBar' = AliveBar \ {j} /\ j \in AliveBar
        /\ TodoBar[j] # <<>>
    BY <1>c, TodoStep, AliveStep, TodoOf
  <2> QED BY <1>a, <1>c, <2>1 DEF Service!Stop, TodoBar, AnswersBar, AliveBar
<1>d. ASSUME Go(j, "get"), tpc[j] \in {"post", "again"}, UNCHANGED <<queue, cur>>, Report(j)
      PROVE  Service!Serve(j)
  <2>1. TodoBar' = [TodoBar EXCEPT ![j] = Tail(@)] /\ AliveBar' = AliveBar
    BY <1>d, TodoStep, AliveStep
  <2> QED BY <1>d, <2>1, AnswerStep DEF Service!Serve, TodoBar, AliveBar
<1>1. CASE Get(j)
  <2>1. /\ queue[j] \in Seq(Jobs) /\ queue[j] # <<>>
        /\ tpc[j] = "get" /\ tpc'[j] \in {"copy", "run"}
        /\ cur'[j] = Head(queue[j]) /\ queue'[j] = Tail(queue[j])
        /\ UNCHANGED reports
        /\ \A o \in Judgers : o # j => UNCHANGED <<tpc[o], cur[o], queue[o]>>
    BY <1>1 DEF Get, Go, Typed, TypeOK
  <2>2. Todo(j)' = <<Head(queue[j])>> \o Tail(queue[j])
    BY <2>1 DEF Todo
  <2>3. <<Head(queue[j])>> \o Tail(queue[j]) = queue[j]
    <3>1. /\ Head(queue[j]) = queue[j][1] /\ Tail(queue[j]) = SubSeq(queue[j], 2, Len(queue[j]))
          /\ 1 \in 1..Len(queue[j])
      BY <2>1, TailIsSubSeq, EmptySeq
    <3>2. Len(queue[j]) \in 1..Len(queue[j])
      BY <3>1, <2>1, LenProperties
    <3>3. SubSeq(queue[j], 1, Len(queue[j])) = <<queue[j][1]>> \o SubSeq(queue[j], 2, Len(queue[j]))
      BY <2>1, <3>1, <3>2, SubSeqRecursiveFirst
    <3> QED BY <2>1, <3>1, <3>3, SubSeqFull
  <2>4. TodoBar' = TodoBar
    <3>1. Todo(j)' = Todo(j)
      BY <2>1, <2>2, <2>3 DEF Todo
    <3>2. ASSUME NEW o \in Judgers, o # j PROVE Todo(o)' = Todo(o)
      BY <2>1, <3>2 DEF Todo
    <3> QED BY <3>1, <3>2 DEF TodoBar
  <2>5. AliveBar' = AliveBar
    BY <2>1 DEF AliveBar
  <2> QED BY <1>a, <2>1, <2>4, <2>5, Bars
<1>2. CASE Missing(j) \/ Copy(j) \/ OpenResult(j) \/ PostLost(j)
  BY <1>2, <1>b DEF Missing, Copy, OpenResult, PostLost
<1>3. CASE CloseResult(j) \/ ProgramDies(j)
  BY <1>3, <1>b DEF CloseResult, ProgramDies, AfterRun
<1>4. CASE Clean(j) \/ Read(j)
  BY <1>4, <1>b DEF Clean, Read
<1>5. CASE CopyDies(j) \/ CleanDies(j) \/ AgainLost(j)
  BY <1>5, <1>c DEF CopyDies, CleanDies, AgainLost, Service!ServiceNext
<1>6. CASE AgainLate(j)
  BY <1>6, <1>c, AnswerStep DEF AgainLate, Service!ServiceNext
<1>7. CASE Post(j) \/ Again(j)
  BY <1>7, <1>d DEF Post, Again, Service!ServiceNext
<1>8. CASE PostLate(j)
  <2>1. TodoBar' = TodoBar /\ AliveBar' = AliveBar
    BY <1>8, TodoStep, AliveStep DEF PostLate
  <2>2. Service!ServeUnsure(j)
    BY <1>8, <2>1, AnswerStep DEF PostLate, Service!ServeUnsure, TodoBar, AnswersBar, AliveBar
  <2> QED BY <2>2 DEF Service!ServiceNext
<1> QED BY <1>1, <1>2, <1>3, <1>4, <1>5, <1>6, <1>7, <1>8 DEF Thread

LEMMA RefinesStep ==
    Typed /\ JobsOK /\ [Next]_vars => [Service!ServiceNext]_(Service!serviceVars)
<1> SUFFICES ASSUME Typed, JobsOK, [Next]_vars
             PROVE  [Service!ServiceNext]_(Service!serviceVars)
  OBVIOUS
<1>1. CASE UNCHANGED <<queue, tpc, cur, reports>>
  <2>1. TodoBar' = TodoBar /\ AnswersBar' = AnswersBar /\ AliveBar' = AliveBar
    BY <1>1 DEF TodoBar, Todo, AnswersBar, AliveBar
  <2> QED BY <2>1, Bars
<1>2. ASSUME NEW i \in Jobs, Accept(i) PROVE Service!ServiceNext
  BY <1>2, RefinesAccept DEF Service!ServiceNext
<1>3. ASSUME NEW j \in Judgers, Thread(j)
      PROVE  [Service!ServiceNext]_(Service!serviceVars)
  BY <1>3, RefinesThread
<1> QED BY <1>1, <1>2, <1>3 DEF Next, RemoveScripts, ExtractScripts, Poll, vars

(* Every behaviour of the threads is one of the service the backend relies *)
(* on: jobs are served in the order of their arrival, each answered before *)
(* the next one is begun (the safety part of ImplementsService).           *)
THEOREM Implements == Spec => Service!ServiceInit /\ [][Service!ServiceNext]_(Service!serviceVars)
BY JobsAlways, RefinesInit, RefinesStep, PTL DEF Spec
===============================================================================
