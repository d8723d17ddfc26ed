----------------------------- MODULE JudgeService -----------------------------
(***************************************************************************)
(* What the backend may rely on of the judger (judger/JudgerServer.py):    *)
(* two queues that are served in order, each job answered at most twice,   *)
(* and no job passed over for a later one.  A judger may stop for good.    *)
(***************************************************************************)
EXTENDS Naturals, Sequences

CONSTANTS Jobs, Judgers,
          Kind            \* Kind[i]: the judger job i is for

VARIABLES todo,           \* jobs each judger has accepted and not yet left
          answers,        \* how many verdicts the backend has got for a job
          alive           \* judgers that still work

serviceVars == <<todo, answers, alive>>

ServiceInit ==
    /\ todo = [j \in Judgers |-> <<>>]
    /\ answers = [i \in Jobs |-> 0]
    /\ alive = Judgers

Enqueue(i) ==
    /\ todo' = [todo EXCEPT ![Kind[i]] = Append(@, i)]
    /\ answers[i] = 0
    /\ UNCHANGED <<answers, alive>>

Answer(j) ==
    /\ j \in alive /\ todo[j] # <<>>
    /\ answers[Head(todo[j])] < 2
    /\ answers' = [answers EXCEPT ![Head(todo[j])] = @ + 1]

(* The job is answered and left.                                           *)
Serve(j) ==
    /\ Answer(j)
    /\ todo' = [todo EXCEPT ![j] = Tail(@)]
    /\ UNCHANGED alive

(* It is answered and the judger does not know: it will answer again.      *)
ServeUnsure(j) ==
    /\ Answer(j)
    /\ answers[Head(todo[j])] = 0
    /\ UNCHANGED <<todo, alive>>

(* A judger stops over a job, with or without a last answer.               *)
Stop(j) ==
    /\ j \in alive /\ todo[j] # <<>>
    /\ alive' = alive \ {j}
    /\ \/ UNCHANGED answers
       \/ Answer(j)
    /\ UNCHANGED todo

ServiceNext ==
    \/ \E i \in Jobs : Enqueue(i)
    \/ \E j \in Judgers : Serve(j) \/ ServeUnsure(j) \/ Stop(j)

ServiceSpec ==
    /\ ServiceInit /\ [][ServiceNext]_serviceVars
    /\ \A j \in Judgers : WF_serviceVars(Serve(j) \/ Stop(j))

===============================================================================
