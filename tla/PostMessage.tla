----------------------------- MODULE PostMessage -----------------------------
(***************************************************************************)
(* The handler of POST /v1/sessions/{id}/messages, one step per statement  *)
(* it sends to the database or per call it makes to another service.       *)
(*                                                                         *)
(* Every statement uses the request context, which ends when the client    *)
(* goes away or after the router's 60 s: from then on each of them fails.  *)
(* The statements of finishRunFailed use the same context.                 *)
(***************************************************************************)
EXTENDS AsyncTask

VARIABLES
  req,      \* where the request is, or how it was answered
  ctxDone   \* the requests whose context has ended

reqVars == <<req, ctxDone>>

InHandler == {"insertRun", "resolve", "dispatch", "enqueue", "publishTask",
              "storeResult", "complete", "storeFailure", "markFailed"}

\* rejected: 4xx before the run exists.  badSchema: 502 of the legacy path.
\* failed: an error status after finishRunFailed.  accepted: 202.  ok: 200.
Answered == {"rejected", "badSchema", "failed", "accepted", "ok"}

ReqStates == {"new", "aborted"} \cup InHandler \cup Answered

ReqTypeOK ==
  /\ req \in [Runs -> ReqStates]
  /\ ctxDone \in SUBSET Runs

ReqInit ==
  /\ req = [r \in Runs |-> "new"]
  /\ ctxDone = {}

Goto(r, pc) == req' = [req EXCEPT ![r] = pc]

\* A statement of request r can succeed, or fail.
DbOk(r)   == r \notin ctxDone
DbFail(r) == r \in ctxDone \/ "db" \in Faults

-----------------------------------------------------------------------------
\* Rate limit, empty text or foreign session: answered before any write.
\* Otherwise the user message is stored (an error is only logged) and shown.
Accept(r) ==
  /\ req[r] = "new"
  /\ \/ Goto(r, "rejected") /\ UNCHANGED log
     \/ Goto(r, "insertRun") /\ Emit(r, "user_message")
  /\ UNCHANGED <<runs, tasks, msgs, asyncVars, ctxDone>>

\* INSERT INTO runs; an error is only logged and the handler goes on.
InsertRun(r) ==
  /\ req[r] = "insertRun"
  /\ \/ DbOk(r) /\ runs' = [runs EXCEPT ![r] = "running"]
     \/ DbFail(r) /\ UNCHANGED runs
  /\ Emit(r, "run_started")
  /\ Goto(r, "resolve")
  /\ UNCHANGED <<tasks, msgs, asyncVars, ctxDone>>

\* A session with a dataset: its schema, its row and its pool, where any error
\* fails the run.  The dataset's server may fail at any time.
ResolveDataset(r) == (DbOk(r) /\ Goto(r, "dispatch")) \/ Goto(r, "storeFailure")

\* No dataset and an LLM: RAGSearch, or else the LLM itself, has the answer.
AskKnowledge(r) == (DbOk(r) /\ Goto(r, "storeResult")) \/ Goto(r, "storeFailure")

\* The legacy path: the schema of the data source.  An error is answered with
\* 502 and the run is left as it is.
ResolveSource(r) == (DbOk(r) /\ Goto(r, "dispatch")) \/ Goto(r, "badSchema")

\* What precedes the choice of a workflow, by the kind of the session.
Resolve(r) ==
  /\ req[r] = "resolve"
  /\ ResolveDataset(r) \/ AskKnowledge(r) \/ ResolveSource(r)
  /\ UNCHANGED <<tableVars, asyncVars, ctxDone>>

\* The agent pipeline is queued; anything else is executed on the spot.
Dispatch(r) ==
  /\ req[r] = "dispatch"
  /\ \/ Goto(r, "enqueue")
     \/ DbOk(r) /\ Goto(r, "storeResult")
     \/ Goto(r, "storeFailure")
  /\ UNCHANGED <<tableVars, asyncVars, ctxDone>>

\* Faulty variant: the message is published and the watcher started before
\* the outcome of the INSERT is known.
EnqueuePublishFirst(r) ==
  /\ req[r] = "enqueue"
  /\ \E outcome \in EnqueueOutcomes :
       /\ InsertTask(r, outcome)
       /\ Goto(r, IF outcome = "queued" THEN "accepted" ELSE "storeFailure")
  /\ PublishTask(r)
  /\ UNCHANGED <<runs, msgs, log, ctxDone>>

\* EnqueueTask, up to the outcome of its INSERT.  With a driver that returns no
\* row there is only an error, whether the server kept the row (it may fill in
\* the id and expires_at that the INSERT leaves out) or not.
Enqueue(r) ==
  /\ req[r] = "enqueue"
  /\ \E outcome \in EnqueueOutcomes :
       /\ outcome = "error" => DbFail(r) \/ ~RowReturned
       /\ outcome = "queued" => DbOk(r) /\ RowReturned
       /\ outcome = "committedError" => "db" \in Faults \/ ~RowReturned
       /\ InsertTask(r, outcome)
       /\ Goto(r, IF outcome = "queued" THEN "publishTask" ELSE "storeFailure")
  /\ UNCHANGED <<runs, msgs, log, asyncVars, ctxDone>>

\* EnqueueTask returns and the request is answered 202.
AnswerAccepted(r) ==
  /\ req[r] = "publishTask"
  /\ PublishTask(r)
  /\ Goto(r, "accepted")
  /\ UNCHANGED <<tableVars, ctxDone>>

\* publishSyncResult: the sql_generated event, then the assistant message,
\* whose error is only logged.  A result that cannot be marshalled fails.
StoreResult(r) ==
  /\ req[r] = "storeResult"
  /\ Emit(r, "sql_generated")
  /\ \/ DbOk(r) /\ AddMessage(r) /\ Goto(r, "complete")
     \/ DbFail(r) /\ UNCHANGED msgs /\ Goto(r, "complete")
     \/ UNCHANGED msgs /\ Goto(r, "storeFailure")
  /\ UNCHANGED <<runs, tasks, asyncVars, ctxDone>>

\* UPDATE runs to completed, its error only logged; result event; 200.
CompleteRun(r) ==
  /\ req[r] = "complete"
  /\ \/ DbOk(r) /\ SetRun(r, "completed")
     \/ DbFail(r) /\ UNCHANGED runs
  /\ Emit(r, "result")
  /\ Goto(r, "ok")
  /\ UNCHANGED <<tasks, msgs, asyncVars, ctxDone>>

\* finishRunFailed: the assistant message, its error only logged.
StoreFailure(r) ==
  /\ req[r] = "storeFailure"
  /\ \/ DbOk(r) /\ AddMessage(r)
     \/ DbFail(r) /\ UNCHANGED msgs
  /\ Goto(r, "markFailed")
  /\ UNCHANGED <<runs, tasks, log, asyncVars, ctxDone>>

\* UPDATE runs to failed, its error only logged; error event; error status.
MarkFailed(r) ==
  /\ req[r] = "markFailed"
  /\ \/ DbOk(r) /\ SetRun(r, "failed")
     \/ DbFail(r) /\ UNCHANGED runs
  /\ Emit(r, "error")
  /\ Goto(r, "failed")
  /\ UNCHANGED <<tasks, msgs, asyncVars, ctxDone>>

\* The 60 s of the router's Timeout are over, or the client hung up.
EndContext(r) ==
  /\ "ctx" \in Faults
  /\ req[r] \in InHandler
  /\ r \notin ctxDone
  /\ ctxDone' = ctxDone \cup {r}
  /\ UNCHANGED <<tableVars, asyncVars, req>>

RequestStep(r) ==
  \/ Accept(r) \/ InsertRun(r) \/ Resolve(r) \/ Dispatch(r) \/ Enqueue(r)
  \/ AnswerAccepted(r) \/ StoreResult(r) \/ CompleteRun(r)
  \/ StoreFailure(r) \/ MarkFailed(r)
=============================================================================
