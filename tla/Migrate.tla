------------------------------ MODULE Migrate ------------------------------
(***************************************************************************)
(* Replicas of the API start and bring the platform database up to date:   *)
(* migrate.Up executes the embedded files it does not find recorded, in    *)
(* the order of their names, and records each in a statement of its own.   *)
(* DDL commits by itself, and two replicas do not wait for each other.     *)
(***************************************************************************)
EXTENDS Naturals

CONSTANTS
  Replicas,         \* API processes
  Statements,       \* file -> how many statements it has; files are 1 .. n
  Repeatable,       \* files that can be run again; 001 creates indexes
  MultiStatements,  \* the DSN lets one Exec carry several statements
  MaxCrashes,       \* bound: crashes
  Faults            \* "db": a statement on the database fails, perhaps done

Files == DOMAIN Statements

VARIABLES
  pc,        \* replica -> where its start is
  file,      \* replica -> the file it is at
  applied,   \* replica -> the versions it has loaded
  executed,  \* files whose statements were run, though perhaps not recorded
  recorded,  \* rows of schema_migrations
  crashes    \* crashes so far

vars == <<pc, file, applied, executed, recorded, crashes>>

Init ==
  /\ pc = [r \in Replicas |-> "down"]
  /\ file = [r \in Replicas |-> 1]
  /\ applied = [r \in Replicas |-> {}]
  /\ executed = {} /\ recorded = {}
  /\ crashes = 0

Goto(r, where) == pc' = [pc EXCEPT ![r] = where]

\* main, up to the CREATE TABLE IF NOT EXISTS of schema_migrations; an error
\* is fatal, and somebody starts the process again.
Start(r) ==
  /\ pc[r] \in {"down", "fatal"}
  /\ Goto(r, "load") \/ ("db" \in Faults /\ Goto(r, "fatal"))
  /\ file' = [file EXCEPT ![r] = 1]
  /\ UNCHANGED <<applied, executed, recorded, crashes>>

\* SELECT version.
Load(r) ==
  /\ pc[r] = "load"
  /\ \/ Goto(r, "exec") /\ applied' = [applied EXCEPT ![r] = recorded]
     \/ "db" \in Faults /\ Goto(r, "fatal") /\ UNCHANGED applied
  /\ UNCHANGED <<file, executed, recorded, crashes>>

\* A file is sent as one text.  Without multiStatements the server takes one
\* statement and refuses the rest as a syntax error, having run nothing.  A
\* CREATE INDEX that was run before is an error.
Accepted(f) ==
  /\ MultiStatements \/ Statements[f] = 1
  /\ f \in Repeatable \/ f \notin executed

NextFile(r) == file' = [file EXCEPT ![r] = @ + 1]

ExecFile(r) ==
  /\ pc[r] = "exec" /\ file[r] \in Files
  /\ \/ /\ file[r] \in applied[r]
        /\ NextFile(r) /\ UNCHANGED <<pc, executed>>
     \/ /\ file[r] \notin applied[r] /\ Accepted(file[r])
        /\ executed' = executed \cup {file[r]}
        /\ Goto(r, "record") \/ ("db" \in Faults /\ Goto(r, "fatal"))
        /\ UNCHANGED file
     \/ /\ file[r] \notin applied[r] /\ (~Accepted(file[r]) \/ "db" \in Faults)
        /\ Goto(r, "fatal") /\ UNCHANGED <<file, executed>>
  /\ UNCHANGED <<applied, recorded, crashes>>

\* The INSERT fails on its primary key when another replica was faster.
Record(r) ==
  /\ pc[r] = "record"
  /\ \/ /\ file[r] \notin recorded /\ recorded' = recorded \cup {file[r]}
        /\ NextFile(r) /\ Goto(r, "exec")
     \/ /\ file[r] \in recorded \/ "db" \in Faults
        /\ Goto(r, "fatal") /\ UNCHANGED <<recorded, file>>
  /\ UNCHANGED <<applied, executed, crashes>>

\* Up returns nil and main goes on.
Finish(r) ==
  /\ pc[r] = "exec" /\ file[r] \notin Files
  /\ Goto(r, "up")
  /\ UNCHANGED <<file, applied, executed, recorded, crashes>>

Crash(r) ==
  /\ pc[r] # "down" /\ crashes < MaxCrashes
  /\ Goto(r, "down") /\ crashes' = crashes + 1
  /\ UNCHANGED <<file, applied, executed, recorded>>

Step(r) == Start(r) \/ Load(r) \/ ExecFile(r) \/ Record(r) \/ Finish(r)

Next == \E r \in Replicas : Step(r) \/ Crash(r)

\* A process goes on, and one that has ended is started again.
Spec == Init /\ [][Next]_vars /\ \A r \in Replicas : WF_vars(Step(r))

-----------------------------------------------------------------------------
\* The embedded files are executed when the application starts: in the end
\* every file is recorded and a replica is up.
StartExecutesFiles == <>(recorded = Files /\ \E r \in Replicas : pc[r] = "up")
=============================================================================
