----------------------------- MODULE JudgerServer -----------------------------
(***************************************************************************)
(* The judger service (judger/JudgerServer.py).  Two request handlers put  *)
(* jobs into a queue each; one thread per queue runs the judging program,  *)
(* reads the verdict the program left in result.json and posts it to the   *)
(* backend.  Both threads run in one working directory, so they share      *)
(* result.json.  A script is judged in the directory of its problem, which *)
(* the backend replaces when the problem is updated.                       *)
(*                                                                         *)
(* The threads are preempted anywhere; an action is one access to what     *)
(* they share (queue, file, backend).  A verdict is named by the job it is *)
(* about; a post may raise before or after the backend has handled it.     *)
(***************************************************************************)
EXTENDS Naturals, Sequences

CONSTANTS
    Jobs,
    Kind,         \* Kind[i]: the queue job i is posted to
    NoSource,     \* script jobs whose source is not on disk
    MaxUpdates,   \* how often the scripts of the problem are replaced
    None

Judgers == {"tradi", "script"}

ASSUME JobAssumption ==
    /\ Kind \in [Jobs -> Judgers]
    /\ NoSource \subseteq Jobs
    /\ MaxUpdates \in Nat
    /\ None \notin Jobs /\ "garbled" \notin Jobs /\ "failed" \notin Jobs

VARIABLES
    queue,        \* tradiQ, scriptQ
    accepted,     \* jobs that were put into a queue
    tpc,          \* where each thread is
    cur,          \* data: the job of each thread
    file,         \* result.json: the job it is about
    mixed,        \* two programs have had result.json open at a time
    fresh,        \* history: the jobs whose results were finished since the program
                  \* of each thread opened result.json; all jobs, if it has not
    got,          \* judgerResult of each thread
    scripts,      \* the script directory of the problem is there
    index,        \* ... and has the student's index.js in it
    updates,      \* replacements of the script directory so far
    reports       \* reports[i]: the verdicts the backend has got for job i

diskVars == <<file, mixed, fresh>>
scriptVars == <<scripts, index, updates>>
vars == <<queue, accepted, tpc, cur, diskVars, got, scriptVars, reports>>

Init ==
    /\ queue = [j \in Judgers |-> <<>>]
    /\ accepted = {}
    /\ tpc = [j \in Judgers |-> "get"]
    /\ cur = [j \in Judgers |-> None]
    /\ file = None
    /\ mixed = FALSE
    /\ fresh = [j \in Judgers |-> Jobs]
    /\ got = [j \in Judgers |-> None]
    /\ scripts = TRUE
    /\ index = FALSE
    /\ updates = 0
    /\ reports = [i \in Jobs |-> <<>>]

Go(j, label) == tpc' = [tpc EXCEPT ![j] = label]

Report(j) == reports' = [reports EXCEPT ![cur[j]] = Append(@, got[j])]

-----------------------------------------------------------------------------
(* FAULTS: plausible mistakes, one for each property.                      *)

(* The newest job is taken first.                                          *)
GetFault(j) ==
    /\ tpc[j] = "get"
    /\ queue[j] # <<>>
    /\ cur' = [cur EXCEPT ![j] = queue[j][Len(queue[j])]]
    /\ queue' = [queue EXCEPT ![j] = SubSeq(@, 1, Len(@) - 1)]
    /\ Go(j, IF j = "script" THEN "copy" ELSE "run")
    /\ UNCHANGED <<accepted, diskVars, got, scriptVars, reports>>

(* A job without a source is answered before there is an answer.           *)
MissingFault(j) ==
    /\ tpc[j] = "copy"
    /\ cur[j] \in NoSource
    /\ Go(j, "again")
    /\ UNCHANGED <<queue, accepted, cur, got, diskVars, scriptVars, reports>>

(* result.json is opened without being cut off.                           *)
OpenResultFault(j) ==
    /\ tpc[j] = "run"
    /\ mixed' = (\E o \in Judgers : tpc[o] = "write")
    /\ fresh' = [fresh EXCEPT ![j] = {}]
    /\ Go(j, "write")
    /\ UNCHANGED <<queue, accepted, cur, got, file, scriptVars, reports>>

(* A post that raises is given up.                                         *)
PostLostFault(j) ==
    /\ tpc[j] = "post"
    /\ Go(j, "get")
    /\ UNCHANGED <<queue, accepted, cur, got, diskVars, scriptVars, reports>>

(* The second post is tried until it returns.                              *)
AgainLateFault(j) ==
    /\ tpc[j] = "again"
    /\ Len(reports[cur[j]]) < 3
    /\ Report(j)
    /\ Go(j, "again")
    /\ UNCHANGED <<queue, accepted, cur, got, diskVars, scriptVars>>

-----------------------------------------------------------------------------
(* The handlers.                                                           *)
Accept(i) ==
    /\ i \notin accepted
    /\ accepted' = accepted \cup {i}
    /\ queue' = [queue EXCEPT ![Kind[i]] = Append(@, i)]
    /\ UNCHANGED <<tpc, cur, diskVars, got, scriptVars, reports>>

(* The threads.                                                            *)
Get(j) ==
    /\ tpc[j] = "get"
    /\ queue[j] # <<>>
    /\ cur' = [cur EXCEPT ![j] = Head(queue[j])]
    /\ queue' = [queue EXCEPT ![j] = Tail(@)]
    /\ fresh' = [fresh EXCEPT ![j] = Jobs]
    /\ Go(j, IF j = "script" THEN "copy" ELSE "run")
    /\ UNCHANGED <<accepted, file, mixed, got, scriptVars, reports>>

(* A script job without a source is answered with score 0; that post is    *)
(* not inside any try.                                                     *)
Missing(j) ==
    /\ tpc[j] = "copy"
    /\ cur[j] \in NoSource
    /\ got' = [got EXCEPT ![j] = "failed"]
    /\ Go(j, "again")
    /\ UNCHANGED <<queue, accepted, cur, diskVars, scriptVars, reports>>

Copy(j) ==
    /\ tpc[j] = "copy"
    /\ cur[j] \notin NoSource
    /\ scripts
    /\ index' = TRUE
    /\ Go(j, "run")
    /\ UNCHANGED <<queue, accepted, cur, got, diskVars, scripts, updates, reports>>

(* open raises outside any try: the thread ends.                           *)
CopyDies(j) ==
    /\ tpc[j] = "copy"
    /\ cur[j] \notin NoSource
    /\ ~scripts
    /\ Go(j, "dead")
    /\ UNCHANGED <<queue, accepted, cur, got, diskVars, scriptVars, reports>>

-----------------------------------------------------------------------------
(* The judging program opens result.json for writing at its very end, or   *)
(* dies before that.                                                       *)
OpenResult(j) ==
    /\ tpc[j] = "run"
    /\ file' = "garbled"
    /\ mixed' = (\E o \in Judgers : tpc[o] = "write")
    /\ fresh' = [fresh EXCEPT ![j] = {}]
    /\ Go(j, "write")
    /\ UNCHANGED <<queue, accepted, cur, got, scriptVars, reports>>

AfterRun(j) == IF j = "script" THEN "clean" ELSE "read"

(* The last write.  What two programs write at a time is the result of one *)
(* of them or unreadable; what a script printed is not escaped, so its     *)
(* result may be unreadable too.                                           *)
CloseResult(j) ==
    /\ tpc[j] = "write"
    /\ \/ file' = cur[j]
       \/ (mixed \/ j = "script") /\ file' = "garbled"
       \/ mixed /\ UNCHANGED file
    /\ fresh' = [o \in Judgers |-> fresh[o] \cup {cur[j]}]
    /\ Go(j, AfterRun(j))
    /\ UNCHANGED <<queue, accepted, cur, got, mixed, scriptVars, reports>>

ProgramDies(j) ==
    /\ tpc[j] = "run"
    /\ Go(j, AfterRun(j))
    /\ UNCHANGED <<queue, accepted, cur, got, diskVars, scriptVars, reports>>

(* os.remove(index.js), outside any try; so is chmodr of the scripts, which *)
(* raises on a file that was just removed.                                 *)
Clean(j) ==
    /\ tpc[j] = "clean"
    /\ index
    /\ index' = FALSE
    /\ Go(j, "read")
    /\ UNCHANGED <<queue, accepted, cur, got, diskVars, scripts, updates, reports>>

CleanDies(j) ==
    /\ tpc[j] = "clean"
    /\ ~index
    /\ Go(j, "dead")
    /\ UNCHANGED <<queue, accepted, cur, got, diskVars, scriptVars, reports>>

-----------------------------------------------------------------------------
(* json.load raises on anything but a complete result.                     *)
Read(j) ==
    /\ tpc[j] = "read"
    /\ got' = [got EXCEPT ![j] = IF file \in Jobs THEN file ELSE "failed"]
    /\ Go(j, IF file \in Jobs THEN "post" ELSE "again")
    /\ UNCHANGED <<queue, accepted, cur, diskVars, scriptVars, reports>>

(* requests.post inside the try: what raises is answered by a second post. *)
Post(j) ==
    /\ tpc[j] = "post"
    /\ Report(j)
    /\ Go(j, "get")
    /\ UNCHANGED <<queue, accepted, cur, got, diskVars, scriptVars>>

PostLost(j) ==
    /\ tpc[j] = "post"
    /\ got' = [got EXCEPT ![j] = "failed"]
    /\ Go(j, "again")
    /\ UNCHANGED <<queue, accepted, cur, diskVars, scriptVars, reports>>

PostLate(j) ==
    /\ tpc[j] = "post"
    /\ Report(j)
    /\ got' = [got EXCEPT ![j] = "failed"]
    /\ Go(j, "again")
    /\ UNCHANGED <<queue, accepted, cur, diskVars, scriptVars>>

(* The post in the except clause: what raises ends the thread.             *)
Again(j) ==
    /\ tpc[j] = "again"
    /\ Report(j)
    /\ Go(j, "get")
    /\ UNCHANGED <<queue, accepted, cur, got, diskVars, scriptVars>>

AgainLost(j) ==
    /\ tpc[j] = "again"
    /\ Go(j, "dead")
    /\ UNCHANGED <<queue, accepted, cur, got, diskVars, scriptVars, reports>>

AgainLate(j) ==
    /\ tpc[j] = "again"
    /\ Report(j)
    /\ Go(j, "dead")
    /\ UNCHANGED <<queue, accepted, cur, got, diskVars, scriptVars>>

-----------------------------------------------------------------------------
(* The backend replaces the scripts of the problem: rmtree, extractall.    *)
RemoveScripts ==
    /\ scripts /\ updates < MaxUpdates
    /\ scripts' = FALSE
    /\ index' = FALSE
    /\ updates' = updates + 1
    /\ UNCHANGED <<queue, accepted, tpc, cur, got, diskVars, reports>>

ExtractScripts ==
    /\ ~scripts
    /\ scripts' = TRUE
    /\ UNCHANGED <<queue, accepted, tpc, cur, got, diskVars, index, updates, reports>>

Thread(j) ==
    \/ Get(j) \/ Missing(j) \/ Copy(j) \/ CopyDies(j)
    \/ OpenResult(j) \/ CloseResult(j) \/ ProgramDies(j) \/ Clean(j) \/ CleanDies(j)
    \/ Read(j) \/ Post(j) \/ PostLost(j) \/ PostLate(j)
    \/ Again(j) \/ AgainLost(j) \/ AgainLate(j)

(* All jobs of the instance are in; queue.get times out and is tried again.*)
Poll == accepted = Jobs /\ UNCHANGED vars

Next == \/ \E i \in Jobs : Accept(i)
        \/ \E j \in Judgers : Thread(j)
        \/ RemoveScripts \/ ExtractScripts \/ Poll

(* A thread runs on; a judging program ends, by its time limit if by       *)
(* nothing else.                                                           *)
Spec == Init /\ [][Next]_vars /\ \A j \in Judgers : WF_vars(Thread(j))

-----------------------------------------------------------------------------
(* PROPERTIES                                                              *)

Verdicts == Jobs \cup {"failed"}

(* Every variable has its type; a thread that posts has something to post. *)
TypeOK ==
    /\ queue \in [Judgers -> Seq(Jobs)]
    /\ accepted \subseteq Jobs
    /\ tpc \in [Judgers -> {"get", "copy", "run", "write", "clean", "read", "post",
                            "again", "dead"}]
    /\ cur \in [Judgers -> Jobs \cup {None}]
    /\ file \in Jobs \cup {None, "garbled"}
    /\ mixed \in BOOLEAN
    /\ fresh \in [Judgers -> SUBSET Jobs]
    /\ got \in [Judgers -> Verdicts \cup {None}]
    /\ scripts \in BOOLEAN /\ index \in BOOLEAN
    /\ updates \in 0..MaxUpdates
    /\ reports \in [Jobs -> Seq(Verdicts)]
    /\ \A j \in Judgers : tpc[j] \in {"post", "again"} => got[j] \in Verdicts

(* The backend gets at most two verdicts for a job, and the second is the  *)
(* fallback of the except clause: an actual verdict is never repeated, nor *)
(* follows a fallback (JudgerServer.py:70-94).                             *)
SecondIsFallback ==
    \A i \in Jobs : /\ Len(reports[i]) <= 2
                    /\ Len(reports[i]) = 2 => reports[i][2] = "failed"

(* What is posted for a job whose program got as far as its result is this *)
(* result, or one the other thread's program finished after this one began *)
(* to write: never one that was there before (JudgerServer.py:64-84).      *)
NoOlderVerdict == \A j \in Judgers : tpc[j] = "post" => got[j] \in fresh[j]

(* Every accepted job is reported, unless its thread has died: a program   *)
(* that dies, a result that cannot be read and a post that raises all lead *)
(* to another attempt (JudgerServer.py:29-94, 108-193).                    *)
EveryJobReported ==
    \A i \in Jobs : i \in accepted ~> reports[i] # <<>> \/ tpc[Kind[i]] = "dead"

-----------------------------------------------------------------------------
(* Refinement: a job is left when its thread is back for the next one.     *)
Todo(j) == IF tpc[j] = "get" THEN queue[j] ELSE <<cur[j]>> \o queue[j]

Service == INSTANCE JudgeService WITH
    todo    <- [j \in Judgers |-> Todo(j)],
    answers <- [i \in Jobs |-> Len(reports[i])],
    alive   <- {j \in Judgers : tpc[j] # "dead"}

(* The threads implement the service the backend relies on: jobs are left  *)
(* in the order of their arrival, none without an answer.                  *)
ImplementsService == Service!ServiceSpec

===============================================================================
