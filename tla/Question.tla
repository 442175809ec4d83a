------------------------------ MODULE Question ------------------------------
(***************************************************************************)
(* What the API promises whoever asks a question: one answer, at most one  *)
(* task, and no change behind the asker's back.  A question answered with  *)
(* 202 changes in sight only once its task has settled, which a task does  *)
(* once; after any other answer nothing about it changes in sight.         *)
(*                                                                         *)
(* What is in sight (the run's row, its messages and its events) is not    *)
(* interpreted here: the specification says when it may change.            *)
(***************************************************************************)
CONSTANTS
  Runs,     \* the questions
  Nothing   \* what is in sight of one before it is asked

VARIABLES
  answer,   \* how the request was answered
  task,     \* what polling the task says
  seen      \* what is in sight

vars == <<answer, task, seen>>

Unsettled == {"queued", "running"}
Outcomes  == {"succeeded", "failed", "timeout", "expired"}

Init ==
  /\ answer = [r \in Runs |-> "none"]
  /\ task = [r \in Runs |-> "absent"]
  /\ seen = [r \in Runs |-> Nothing]

\* Something of r, and of no other question, comes in sight.
Show(r) == seen' = [seen EXCEPT ![r] = seen'[r]]

\* While it is being answered a question may change in sight.
Work(r) ==
  /\ answer[r] = "none"
  /\ Show(r)
  /\ UNCHANGED <<answer, task>>

\* An error is the last that is seen of it, even if a task was made.
Refuse(r) ==
  /\ answer[r] = "none"
  /\ answer' = [answer EXCEPT ![r] = "error"]
  /\ Show(r)
  /\ UNCHANGED task

\* An answer on the spot needs no task and leaves none.
Finish(r) ==
  /\ answer[r] = "none" /\ task[r] = "absent"
  /\ answer' = [answer EXCEPT ![r] = "ok"]
  /\ Show(r)
  /\ UNCHANGED task

Create(r) ==
  /\ answer[r] = "none" /\ task[r] = "absent"
  /\ task' = [task EXCEPT ![r] = "queued"]
  /\ UNCHANGED <<answer, seen>>

\* 202 is said of a task that exists.
Promise(r) ==
  /\ answer[r] = "none" /\ task[r] # "absent"
  /\ answer' = [answer EXCEPT ![r] = "accepted"]
  /\ UNCHANGED <<task, seen>>

\* Tasks settle, each once, unseen at first.
Settle(S, st) ==
  /\ \A r \in S : task[r] \in Unsettled
  /\ task' = [r \in Runs |-> IF r \in S THEN st ELSE task[r]]
  /\ UNCHANGED <<answer, seen>>

\* What came of an accepted question is seen with its settling or after.
Report(r) ==
  /\ answer[r] = "accepted"
  /\ \/ task[r] \in Outcomes /\ UNCHANGED task
     \/ /\ task[r] \in Unsettled
        /\ \E st \in Outcomes : task' = [task EXCEPT ![r] = st]
  /\ Show(r)
  /\ UNCHANGED answer

\* The server dies: the questions in S get no answer any more.
Die(S) ==
  /\ \A r \in S : answer[r] = "none"
  /\ answer' = [r \in Runs |-> IF r \in S THEN "error" ELSE answer[r]]
  /\ UNCHANGED <<task, seen>>

Next ==
  \/ \E r \in Runs : Work(r) \/ Refuse(r) \/ Finish(r) \/ Create(r) \/ Promise(r) \/ Report(r)
  \/ \E S \in SUBSET Runs, st \in Outcomes : Settle(S, st)
  \/ \E S \in SUBSET Runs : Die(S)

Spec == Init /\ [][Next]_vars
=============================================================================
