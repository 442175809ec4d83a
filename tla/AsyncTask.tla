------------------------------ MODULE AsyncTask ------------------------------
(***************************************************************************)
(* async.Client: the task queue.  EnqueueTask writes the row, publishes    *)
(* the task to NATS and starts a goroutine that watches for the timeout;   *)
(* the watcher reads the row and then updates it, in two statements.       *)
(*                                                                         *)
(* NATS is used without JetStream: Publish hands the message to whoever is *)
(* subscribed, once.  nats is the pending queue of the one subscriber.     *)
(***************************************************************************)
EXTENDS HubTables

CONSTANTS
  ReaperOn,      \* whether StartReaper was called; main.go never does
  RowReturned    \* whether the database driver answers an INSERT with a row:
                 \* EnqueueTask relies on it, go-sql-driver/mysql does not

ASSUME AsyncAssumption ==
  /\ ReaperOn \in BOOLEAN
  /\ RowReturned \in BOOLEAN

VARIABLES
  nats,    \* messages delivered to the consumer and not yet handled
  watch    \* timeout watcher of each task

asyncVars == <<nats, watch>>

WatchStates == {"none", "armed", "expiring", "stopped", "gaveup", "lost"}

AsyncTypeOK ==
  /\ nats \in Seq(Runs)
  /\ watch \in [Runs -> WatchStates]

AsyncInit ==
  /\ nats = <<>>
  /\ watch = [r \in Runs |-> "none"]

-----------------------------------------------------------------------------
\* The INSERT of EnqueueTask, run with QueryRow and Scan.  Scan gives an error
\* if the INSERT is refused, and also if it answers no row.  So the row may be
\* written and the caller still see an error: the connection broke after the
\* commit, or the driver has no row to give.
EnqueueOutcomes == {"queued", "error", "committedError"}

InsertTask(r, outcome) ==
  tasks' = IF outcome = "error" THEN tasks ELSE [tasks EXCEPT ![r] = "queued"]

\* The rest of EnqueueTask after a good INSERT: publish to NATS, where a
\* failed publish, or no connection, is only logged, and start the watcher.
PublishTask(r) ==
  /\ \/ nats' = Append(nats, r)
     \/ "net" \in Faults /\ nats' = nats
  /\ watch' = [watch EXCEPT ![r] = "armed"]

\* Faulty variant: only a running task is taken to be open.
WatcherCheckRunningOnly(r) ==
  /\ watch[r] = "armed"
  /\ watch' = [watch EXCEPT ![r] = IF tasks[r] = "running" THEN "expiring"
                                                           ELSE "stopped"]
  /\ UNCHANGED <<tableVars, nats>>

\* The timer fires: SELECT status.  An error ends the watcher, and so does a
\* task that is settled already.
WatcherCheck(r) ==
  /\ watch[r] = "armed"
  /\ \/ /\ "db" \in Faults
        /\ watch' = [watch EXCEPT ![r] = "gaveup"]
     \/ /\ tasks[r] \notin Active
        /\ watch' = [watch EXCEPT ![r] = "stopped"]
     \/ /\ tasks[r] \in Active
        /\ watch' = [watch EXCEPT ![r] = "expiring"]
  /\ UNCHANGED <<tableVars, nats>>

\* Faulty variant: the timeout is announced although the UPDATE failed.
WatcherMarkAnnounces(r) ==
  /\ watch[r] = "expiring"
  /\ \/ "db" \in Faults /\ UNCHANGED tasks
     \/ SettleTask(r, "timeout")
  /\ Emit(r, "task_timeout")
  /\ watch' = [watch EXCEPT ![r] = "stopped"]
  /\ UNCHANGED <<runs, msgs, nats>>

\* The UPDATE to 'timeout', then the task_timeout event; whether the UPDATE
\* matched a row is not looked at.
WatcherMark(r) ==
  /\ watch[r] = "expiring"
  /\ \/ /\ "db" \in Faults
        /\ watch' = [watch EXCEPT ![r] = "gaveup"]
        /\ UNCHANGED <<tasks, log>>
     \/ /\ SettleTask(r, "timeout")
        /\ Emit(r, "task_timeout")
        /\ watch' = [watch EXCEPT ![r] = "stopped"]
  /\ UNCHANGED <<runs, msgs, nats>>

\* One tick of the reaper: one UPDATE of the rows whose expires_at is past.
ReapExpired(S) ==
  /\ ReaperOn
  /\ S # {} /\ \A r \in S : tasks[r] \in Active
  /\ tasks' = [r \in Runs |-> IF r \in S THEN "expired" ELSE tasks[r]]
  /\ UNCHANGED <<runs, msgs, log, asyncVars>>
=============================================================================
