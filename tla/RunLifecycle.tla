---------------------------- MODULE RunLifecycle ----------------------------
(***************************************************************************)
(* The life of a user's question: PostMessage, the task queue with its     *)
(* timeout watchers, the Python consumer (process_message) and the         *)
(* callback handler, running side by side on the same tables, with the API *)
(* process and the worker process able to die at any point.                *)
(*                                                                         *)
(* The consumer handles one message after the other: nats-py awaits the    *)
(* subscription's callback before it takes the next message.               *)
(***************************************************************************)
EXTENDS PostMessage, TaskCallback, FiniteSets

CONSTANTS
  NoRun,       \* the worker has no message in hand
  MaxCrashes   \* bound: crashes of the API process and of the worker

ASSUME RunAssumption ==
  /\ NoRun \notin Runs
  /\ MaxCrashes \in Nat

VARIABLES
  worker,    \* [pc, run] of the coroutine process_message
  crashes    \* how many crashes there were

workerVars == <<worker, crashes>>
vars == <<tableVars, asyncVars, reqVars, cbVars, workerVars>>

WorkerStates == {"idle", "graph", "report", "ack", "giveUp"}

WorkerTypeOK ==
  /\ worker \in [pc : WorkerStates, run : Runs \cup {NoRun}]
  /\ worker.pc # "idle" => worker.run \in Runs
  /\ crashes \in 0 .. MaxCrashes

(***************************************************************************)
(* The one type invariant.                                                 *)
(***************************************************************************)
TypeOK ==
  TablesTypeOK /\ AsyncTypeOK /\ ReqTypeOK /\ CbTypeOK /\ WorkerTypeOK

Idle == [pc |-> "idle", run |-> NoRun]

Init ==
  /\ TablesInit
  /\ AsyncInit
  /\ ReqInit
  /\ CbInit
  /\ worker = Idle
  /\ crashes = 0

-----------------------------------------------------------------------------
(* process_message.  run_consumer may end (its fifth failed attempt to     *)
(* connect is the last), which is a worker that takes no step any more.    *)

WorkerReceive ==
  /\ worker.pc = "idle"
  /\ nats # <<>>
  /\ worker' = [pc |-> "graph", run |-> Head(nats)]
  /\ nats' = Tail(nats)
  /\ UNCHANGED <<tableVars, watch, reqVars, cbVars, crashes>>

\* client.task_callback: the call reaches the server, or its error is logged
\* by the client and the caller does not notice.
SendReport(k, pc) ==
  /\ worker' = [worker EXCEPT !.pc = pc]
  /\ \/ cb' = [cb EXCEPT ![worker.run][k] = "update"]
     \/ "net" \in Faults /\ cb' = [cb EXCEPT ![worker.run][k] = "end"]
  /\ UNCHANGED cbDone

\* workflow_graph.ainvoke returns.
GraphSucceeds ==
  /\ worker.pc = "graph"
  /\ SendReport("succeeded", "report")
  /\ UNCHANGED <<tableVars, asyncVars, reqVars, crashes>>

\* It raises, or asyncio.wait_for gives up after 120 s.
GraphFails ==
  /\ worker.pc = "graph"
  /\ SendReport("failed", "giveUp")
  /\ UNCHANGED <<tableVars, asyncVars, reqVars, crashes>>

\* The report of success is answered, or its connection breaks.
ReportReturns ==
  /\ worker.pc = "report"
  /\ worker' = [worker EXCEPT !.pc = "ack"]
  /\ \/ cb[worker.run]["succeeded"] = "end" /\ UNCHANGED cbDone
     \/ /\ "net" \in Faults
        /\ cbDone' = cbDone \cup {<<worker.run, "succeeded">>}
  /\ UNCHANGED <<tableVars, asyncVars, reqVars, cb, crashes>>

\* msg.ack() raises for a message without a reply subject, which is what a
\* plain publish sends; the except branch then reports a failure.
Acknowledge ==
  /\ worker.pc = "ack"
  /\ \/ worker' = Idle /\ UNCHANGED cbVars
     \/ SendReport("failed", "giveUp")
  /\ UNCHANGED <<tableVars, asyncVars, reqVars, crashes>>

\* The report of failure is answered, or lost; nak's errors are ignored and
\* no message comes back.
GiveUpReturns ==
  /\ worker.pc = "giveUp"
  /\ worker' = Idle
  /\ \/ cb[worker.run]["failed"] = "end" /\ UNCHANGED cbDone
     \/ /\ "net" \in Faults
        /\ cbDone' = cbDone \cup {<<worker.run, "failed">>}
  /\ UNCHANGED <<tableVars, asyncVars, reqVars, cb, crashes>>

WorkerStep ==
  \/ WorkerReceive \/ GraphSucceeds \/ GraphFails
  \/ ReportReturns \/ Acknowledge \/ GiveUpReturns

-----------------------------------------------------------------------------
(* Crashes.  The database keeps its rows; everything else is in memory.    *)

\* The API process dies and is started again: its requests, its callback
\* handlers and its watchers are gone, and nothing looks for queued tasks.
ApiCrash ==
  /\ crashes < MaxCrashes
  /\ crashes' = crashes + 1
  /\ req' = [r \in Runs |-> IF req[r] \in InHandler THEN "aborted" ELSE req[r]]
  /\ watch' = [r \in Runs |-> IF watch[r] \in {"armed", "expiring"}
                              THEN "lost" ELSE watch[r]]
  /\ cb' = [r \in Runs |-> [k \in Reports |->
              IF cb[r][k] \in InCallback THEN "end" ELSE cb[r][k]]]
  /\ UNCHANGED <<tableVars, nats, ctxDone, cbDone, worker>>

\* The worker process dies: the message in hand and the pending ones are
\* lost, and the connections of its open calls break.
WorkerCrash ==
  /\ crashes < MaxCrashes
  /\ crashes' = crashes + 1
  /\ worker' = Idle
  /\ nats' = <<>>
  /\ cbDone' = {p \in Runs \X Reports :
                  p \in cbDone \/ cb[p[1]][p[2]] \in InCallback}
  /\ UNCHANGED <<tableVars, watch, reqVars, cb>>

-----------------------------------------------------------------------------
WatcherStep(r) == WatcherCheck(r) \/ WatcherMark(r)

Next ==
  \/ \E r \in Runs : RequestStep(r) /\ UNCHANGED <<cbVars, workerVars>>
  \/ \E r \in Runs : EndContext(r) /\ UNCHANGED <<cbVars, workerVars>>
  \/ \E r \in Runs : WatcherStep(r) /\ UNCHANGED <<reqVars, cbVars, workerVars>>
  \/ \E S \in SUBSET Runs :
       ReapExpired(S) /\ UNCHANGED <<reqVars, cbVars, workerVars>>
  \/ \E r \in Runs, k \in Reports :
       CallbackStep(r, k) /\ UNCHANGED <<asyncVars, reqVars, workerVars>>
  \/ WorkerStep
  \/ ApiCrash
  \/ WorkerCrash

Spec == Init /\ [][Next]_vars

\* The steps of request r that are one statement under the request context,
\* which the router ends after 60 s, or take no call at all.
BoundedStep(r) ==
  \/ Enqueue(r) \/ AnswerAccepted(r) \/ StoreFailure(r) \/ MarkFailed(r)

\* The timer of a watcher fires and its two statements have 5 s; a request
\* gets through its bounded steps.  Nothing is assumed of users, agents, the
\* consumer, the callbacks it makes (which have no deadline), crashes or the
\* reaper.
FairSpec ==
  /\ Spec
  /\ \A r \in Runs :
       /\ WF_vars(WatcherStep(r) /\ UNCHANGED <<reqVars, cbVars, workerVars>>)
       /\ WF_vars(BoundedStep(r) /\ UNCHANGED <<cbVars, workerVars>>)

-----------------------------------------------------------------------------
(* Properties.                                                             *)

\* A task that has settled keeps its status, although the watcher, two
\* callback handlers and the reaper may all try to settle it.
SettledForever ==
  [][\A r \in Runs : tasks[r] \in Settled => tasks'[r] = tasks[r]]_vars

\* The run was given an outcome, an answer was stored or shown, or a timeout
\* was announced.
Reported(r) ==
  \/ runs[r] \in {"completed", "failed"}
  \/ msgs[r] > 0
  \/ Emitted(r, "result")
  \/ Emitted(r, "task_timeout")

\* Nobody reports on a task that is still open: once a callback has touched
\* the run, stored its answer or shown it, and once a timeout was announced,
\* the task's own row has settled, so polling TaskStatus agrees that it ended.
ReportedIsSettled ==
  \A r \in Runs :
    req[r] = "accepted" /\ Reported(r) => tasks[r] \in Settled

\* A request that was told its run failed, or was answered on the spot, has
\* left nothing behind that could still change the run: no message, no
\* watcher, no callback, even if the task row was written after all.
RefusedLeavesNothing ==
  \A r \in Runs : req[r] \in Answered \ {"accepted"} =>
    /\ \A i \in 1 .. Len(nats) : nats[i] # r
    /\ worker.run # r
    /\ watch[r] = "none"
    /\ \A k \in Reports : cb[r][k] = "none"

\* The result and error events of a run, the callback handlers between INSERT
\* and publish, and the same for its request handler.
Shown(r)   == {i \in 1 .. Len(log[r]) : log[r][i] \in {"result", "error"}}
About(r)   == {k \in Reports : cb[r][k] = "show"}
Pending(r) == IF req[r] \in {"complete", "markFailed"} THEN 1 ELSE 0

Told(r) == msgs[r] <= Cardinality(Shown(r)) + Cardinality(About(r)) + Pending(r)

\* An answer that was stored is also shown: as long as no process died, the
\* assistant messages of a run outnumber its result and error events only by
\* the handlers that are between the INSERT and the publish.
StoredIsShown == crashes = 0 => \A r \in Runs : Told(r)

\* A task with a live watcher does not stay open forever: it settles, unless
\* the watcher itself was stopped by a database error or died with the API.
WatchedTaskSettles ==
  \A r \in Runs :
    (tasks[r] \in Active /\ watch[r] = "armed")
      ~> (tasks[r] \in Settled \/ watch[r] \in {"gaveup", "lost"})

-----------------------------------------------------------------------------
(* The inductive invariant behind the two safety invariants.  It ties the  *)
(* place of a request to what its task has set in motion.                  *)

\* The message of run r waits for the consumer or is in its hands.
Waits(r) == (\E i \in 1 .. Len(nats) : nats[i] = r) \/ worker.run = r

\* Nothing is under way for a task before its request was answered 202.
UnderwayIsAccepted(r) ==
  (Waits(r) \/ watch[r] # "none" \/ \E k \in Reports : cb[r][k] # "none")
    => req[r] = "accepted"

\* The row is written by Enqueue and by nothing else.
RowByEnqueue(r) ==
  /\ req[r] \in {"publishTask", "accepted"} => tasks[r] # "absent"
  /\ req[r] \in {"new", "insertRun", "resolve", "dispatch", "enqueue",
                 "storeResult", "complete"} => tasks[r] = "absent"

\* A callback handler past its UPDATE works for a settled task.
HandlerAfterUpdate(r) ==
  \A k \in Reports :
    cb[r][k] \in InCallback \ {"update"} => tasks[r] \in Settled

\* Before the answer the handler has nothing to report.
SilentBefore(r) ==
  req[r] \in {"new", "insertRun", "resolve", "dispatch", "enqueue",
              "publishTask"} => ~Reported(r)

Consistent(r) ==
  /\ UnderwayIsAccepted(r)
  /\ RowByEnqueue(r)
  /\ HandlerAfterUpdate(r)
  /\ SilentBefore(r)
  /\ req[r] = "accepted" /\ Reported(r) => tasks[r] \in Settled

\* Request, queue, watcher, callbacks and tables of every run fit together.
AllConsistent == \A r \in Runs : Consistent(r)

\* A task is handed to the consumer once, and is reported on with either
\* outcome once: what StoredIsShown needs to be inductive.
HandedOnce ==
  /\ \A i, j \in 1 .. Len(nats) : nats[i] = nats[j] => i = j
  /\ \A i \in 1 .. Len(nats) :
       nats[i] # worker.run /\ \A k \in Reports : cb[nats[i]][k] = "none"
  /\ worker.pc = "graph" => \A k \in Reports : cb[worker.run][k] = "none"
  /\ worker.pc \in {"report", "ack"} => cb[worker.run]["failed"] = "none"

-----------------------------------------------------------------------------
(* Refinement: runs, tasks and their handlers implement Question.          *)

AnswerOf(r) == CASE req[r] \in {"accepted", "ok"} -> req[r]
                 [] req[r] \in {"rejected", "badSchema", "failed", "aborted"} -> "error"
                 [] OTHER -> "none"

Q == INSTANCE Question WITH
       Nothing <- <<"absent", 0, <<>>>>,
       answer  <- [r \in Runs |-> AnswerOf(r)],
       task    <- tasks,
       seen    <- [r \in Runs |-> <<runs[r], msgs[r], log[r]>>]

\* A question is answered once and as its task is; after 202 its run, messages
\* and events change only with a settled task, after any other answer never,
\* whatever watchers, callbacks, the reaper and crashes do in between.
ImplementsQuestion == Q!Spec

-----------------------------------------------------------------------------
(* What documents of the repository say and the code does not do.  Both    *)
(* are violated, and the README tells how.                                 *)

\* docs/SMOKE_TEST.md: a question for the agent pipeline is answered with 202.
QueuedIsAccepted ==
  \A r \in Runs : (req[r] = "enqueue") ~> (req[r] = "accepted")

\* openspec/specs/error-handling: if the update of a run's status fails, the
\* answer is an error.  So a run whose request was answered with 200 does not
\* show as running any more.
AnsweredIsRecorded ==
  \A r \in Runs : req[r] = "ok" => runs[r] # "running"
=============================================================================
