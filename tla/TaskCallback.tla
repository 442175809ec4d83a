---------------------------- MODULE TaskCallback ----------------------------
(***************************************************************************)
(* InternalServer.TaskCallback: the gRPC handler by which the worker       *)
(* reports how a task ended.  Its five statements are five steps.  A       *)
(* worker sends at most one report of each kind for a task, so a handler   *)
(* is named by the task and the reported status.                           *)
(*                                                                         *)
(* The handler's context ends with the caller's connection: from then on   *)
(* its statements fail, and it goes on to the end of its code.             *)
(***************************************************************************)
EXTENDS HubTables

VARIABLES
  cb,       \* task, reported status -> where the handler is
  cbDone    \* the handlers whose context has ended

cbVars == <<cb, cbDone>>

Reports == {"succeeded", "failed"}

InCallback == {"update", "findRun", "setRun", "findSession", "store", "show"}
CbStates   == {"none", "end"} \cup InCallback

CbTypeOK ==
  /\ cb \in [Runs -> [Reports -> CbStates]]
  /\ cbDone \in SUBSET (Runs \X Reports)

CbInit ==
  /\ cb = [r \in Runs |-> [k \in Reports |-> "none"]]
  /\ cbDone = {}

CbGoto(r, k, pc) == cb' = [cb EXCEPT ![r][k] = pc]

\* A statement of the handler can succeed, or fail.
CbDbOk(r, k)   == <<r, k>> \notin cbDone
CbDbFail(r, k) == <<r, k>> \in cbDone \/ "db" \in Faults

\* Faulty variant: the task's status is written to the run as it is.
RunStatusAsReported(k) == k

\* The run status a report stands for.
RunStatusOf(k) == IF k = "failed" THEN "failed" ELSE "completed"

-----------------------------------------------------------------------------
\* Faulty variant: an error of the UPDATE is logged and the handler goes on.
CbUpdateIgnoresError(r, k) ==
  /\ cb[r][k] = "update"
  /\ \/ CbDbOk(r, k) /\ SettleTask(r, k)
     \/ CbDbFail(r, k) /\ UNCHANGED tasks
  /\ CbGoto(r, k, "findRun")
  /\ UNCHANGED <<runs, msgs, log, cbDone>>

\* UPDATE async_tasks, only from an active status; an error ends the call.
CbUpdate(r, k) ==
  /\ cb[r][k] = "update"
  /\ \/ CbDbOk(r, k) /\ SettleTask(r, k) /\ CbGoto(r, k, "findRun")
     \/ CbDbFail(r, k) /\ UNCHANGED tasks /\ CbGoto(r, k, "end")
  /\ UNCHANGED <<runs, msgs, log, cbDone>>

\* SELECT run_id; on an error the task is taken to have no run.
CbFindRun(r, k) ==
  /\ cb[r][k] = "findRun"
  /\ \/ CbDbOk(r, k) /\ CbGoto(r, k, "setRun")
     \/ CbDbFail(r, k) /\ CbGoto(r, k, "end")
  /\ UNCHANGED <<tableVars, cbDone>>

\* UPDATE runs, whatever its status is; an error is only logged.
CbSetRun(r, k) ==
  /\ cb[r][k] = "setRun"
  /\ \/ CbDbOk(r, k) /\ SetRun(r, RunStatusOf(k))
     \/ CbDbFail(r, k) /\ UNCHANGED runs
  /\ CbGoto(r, k, "findSession")
  /\ UNCHANGED <<tasks, msgs, log, cbDone>>

\* SELECT session_id FROM runs: without it there is no message and no event.
CbFindSession(r, k) ==
  /\ cb[r][k] = "findSession"
  /\ \/ CbDbOk(r, k) /\ runs[r] # "absent" /\ CbGoto(r, k, "store")
     \/ (CbDbFail(r, k) \/ runs[r] = "absent") /\ CbGoto(r, k, "end")
  /\ UNCHANGED <<tableVars, cbDone>>

\* INSERT the assistant message; an error is only logged.
CbStore(r, k) ==
  /\ cb[r][k] = "store"
  /\ \/ CbDbOk(r, k) /\ AddMessage(r)
     \/ CbDbFail(r, k) /\ UNCHANGED msgs
  /\ CbGoto(r, k, "show")
  /\ UNCHANGED <<runs, tasks, log, cbDone>>

\* Faulty variant: a failure is stored and not shown.
CbShowSuccessOnly(r, k) ==
  /\ cb[r][k] = "show"
  /\ IF k = "succeeded" THEN Emit(r, "result") ELSE UNCHANGED log
  /\ CbGoto(r, k, "end")
  /\ UNCHANGED <<runs, tasks, msgs, cbDone>>

\* Publish the result event, for a failure too, and return.
CbShow(r, k) ==
  /\ cb[r][k] = "show"
  /\ Emit(r, "result")
  /\ CbGoto(r, k, "end")
  /\ UNCHANGED <<runs, tasks, msgs, cbDone>>

CallbackStep(r, k) ==
  \/ CbUpdate(r, k) \/ CbFindRun(r, k) \/ CbSetRun(r, k)
  \/ CbFindSession(r, k) \/ CbStore(r, k) \/ CbShow(r, k)
=============================================================================
