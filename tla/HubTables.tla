------------------------------ MODULE HubTables ------------------------------
(***************************************************************************)
(* The rows and the event stream that the request handlers, the timeout    *)
(* watchers and the worker's callbacks all write: the tables runs,         *)
(* async_tasks and messages of the platform database, and the events       *)
(* handed to the SSE bus.                                                  *)
(*                                                                         *)
(* One POST /messages call creates at most one run and that run at most    *)
(* one task, so one identifier names the request, its run and its task.    *)
(* Row contents other than the status are abstracted away.                 *)
(***************************************************************************)
EXTENDS Integers, Sequences

CONSTANTS
  Runs,    \* requests, with their runs and tasks
  Faults   \* what may go wrong: "db" a statement, "net" a NATS publish or a
           \* call to the API, "ctx" a request context that ends early

ASSUME FaultsAssumption == Faults \subseteq {"db", "net", "ctx"}

VARIABLES
  runs,    \* runs.status, or "absent" while there is no row
  tasks,   \* async_tasks.status, or "absent"
  msgs,    \* how many assistant messages the run has in table messages
  log      \* events published to the run's session, in order

tableVars == <<runs, tasks, msgs, log>>

\* The statuses an UPDATE of async_tasks still accepts as its starting point.
Active == {"queued", "running"}

\* The statuses in which a task stays.
Settled == {"succeeded", "failed", "timeout", "expired"}

RunStatus  == {"absent", "running", "completed", "failed"}
TaskStatus == {"absent"} \cup Active \cup Settled
EventType  == {"user_message", "run_started", "sql_generated",
               "result", "error", "task_timeout"}

TablesTypeOK ==
  /\ runs \in [Runs -> RunStatus]
  /\ tasks \in [Runs -> TaskStatus]
  /\ msgs \in [Runs -> Nat]
  /\ log \in [Runs -> Seq(EventType)]

TablesInit ==
  /\ runs = [r \in Runs |-> "absent"]
  /\ tasks = [r \in Runs |-> "absent"]
  /\ msgs = [r \in Runs |-> 0]
  /\ log = [r \in Runs |-> <<>>]

\* Faulty variant: the UPDATE does not look at the old status.
SettleTaskAlways(r, st) == tasks' = [tasks EXCEPT ![r] = st]

\* UPDATE async_tasks SET status = st WHERE id = r AND status IN (Active).
\* The statement succeeds whether or not a row matched.
SettleTask(r, st) ==
  tasks' = IF tasks[r] \in Active THEN [tasks EXCEPT ![r] = st] ELSE tasks

\* UPDATE runs SET status = st WHERE id = r: no condition on the old status.
SetRun(r, st) ==
  runs' = IF runs[r] = "absent" THEN runs ELSE [runs EXCEPT ![r] = st]

\* INSERT INTO messages ... role 'assistant'.
AddMessage(r) == msgs' = [msgs EXCEPT ![r] = @ + 1]

\* Bus.Publish to the session of run r.
Emit(r, ev) == log' = [log EXCEPT ![r] = Append(@, ev)]

\* The event ev was published for run r.
Emitted(r, ev) == \E i \in 1 .. Len(log[r]) : log[r][i] = ev
=============================================================================
