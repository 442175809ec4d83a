----------------------------- MODULE DataImport -----------------------------
(***************************************************************************)
(* The requests that move rows in and out of one table of a dataset: file  *)
(* uploads (CSV, XLSX and SQL files), the SQL terminal, and SQL generated  *)
(* for a question or for the agent, next to the administrators who grant   *)
(* and revoke access and delete the table.                                 *)
(*                                                                         *)
(* Nothing here runs in a transaction: a row or a statement is a step.     *)
(* How a request gets its connection pool is DatasetStore; here it gets    *)
(* one or does not.                                                        *)
(***************************************************************************)
EXTENDS SqlGate, Sequences

CONSTANTS
  Requests,    \* requests, each sent once, by a caller of its own
  Jobs,        \* request -> the kinds of request it may be
  Callers,     \* roles of the callers
  MaxItems,    \* bound: rows or statements in a file
  FileTypes,   \* types of the statements in SQL files
  Stmts,       \* statements typed into the terminal or generated
  MaxRows,     \* rows the terminal shows (500 in the code)
  MaxRetries,  \* llm.Client.MaxRetries (3 in the code)
  Faults       \* "db": a statement on the platform database fails;
               \* "mysql": one on the dataset's server fails, perhaps done;
               \* "llm": the language model cannot be reached

ASSUME ImportAssumption ==
  /\ Jobs \in [Requests -> SUBSET {"upload", "terminal", "question", "plain", "agent"}]
  /\ Callers \subseteq Roles
  /\ MaxItems \in Nat
  /\ Stmts \subseteq Statement
  /\ FileTypes \subseteq SQLTypes
  /\ MaxRows \in Nat
  /\ MaxRetries \in Nat \ {0}
  /\ Faults \subseteq {"db", "mysql", "llm"}

VARIABLES
  meta,     \* dataset_tables.status is active
  phys,     \* the table exists in MySQL
  rows,     \* how many rows it has
  deleter,  \* where DeleteDatasetTable is
  grants,   \* callers with a row in dataset_permissions
  req,      \* request -> what it asks for and where its handler is
  next,     \* request -> its next row or statement
  attempt,  \* request -> calls of the language model so far
  good,     \* request -> sqlFileResult.Succeeded
  bad,      \* request -> sqlFileResult.Failed
  errs,     \* request -> the statements its answer complains about
  answer,   \* request -> what it was answered
  \* History, read by the properties only.
  put,      \* request -> its rows or statements that took effect, in order
  touched   \* requests whose generated write ran on the platform database

tableVars == <<meta, phys, rows, deleter, grants>>
loopVars  == <<next, good, bad, errs, put>>
vars == <<tableVars, req, attempt, loopVars, answer, touched>>

\* A row has as many cells as the header or, in a spreadsheet whose last
\* cells are empty, fewer.  Header names match the table's fields up to case
\* and blanks, or are for the language model to recognise.
SeqOf(S) == UNION {[1 .. n -> S] : n \in 0 .. MaxItems}
RowFile  == [ext : {"csv", "xlsx"}, cols : {"match", "other"},
             items : SeqOf({"full", "short"})]
SqlFile  == [ext : {"sql"}, cols : {"match"}, items : SeqOf(FileTypes)]
NoFile   == [ext |-> "other", cols |-> "match", items |-> <<>>]
File     == RowFile \cup SqlFile \cup {NoFile}

\* A file that was parsed: rows under a header, or statements.
Parsed(f) == IF f.ext = "sql" THEN f ELSE [f EXCEPT !.ext = "rows"]
NoStmt   == [type |-> "SELECT", writes |-> FALSE, where |-> FALSE, sys |-> FALSE]

Waiting  == {"access", "table", "pool", "fields", "model", "rows", "file",
             "explain", "query", "exec", "generate", "read"}
NoReq    == [pc |-> "idle", job |-> "none", role |-> "", file |-> NoFile,
             stmt |-> NoStmt]
NoAnswer == [status |-> "none", n |-> 0, found |-> 0, truncated |-> FALSE]

FileOK == [ext : {"rows", "sql", "other"}, cols : {"match", "other"},
           items : SeqOf({"full", "short"} \cup FileTypes)]
Asked  == [pc : Waiting \cup {"idle", "done"},
           job : {"none", "upload", "terminal", "question", "plain", "agent"},
           role : Roles \cup {""}, file : FileOK, stmt : Statement]
Answer == [status : {"none", "ok", "partial", "failed", "refused"},
           n : Nat, found : Nat, truncated : BOOLEAN]

(***************************************************************************)
(* The one type invariant.                                                 *)
(***************************************************************************)
TypeOK ==
  /\ meta \in BOOLEAN /\ phys \in BOOLEAN
  /\ rows \in Nat
  /\ deleter \in {"idle", "drop", "mark", "done"}
  /\ grants \in SUBSET Requests
  /\ req \in [Requests -> Asked]
  /\ next \in [Requests -> Nat \ {0}]
  /\ attempt \in [Requests -> 0 .. MaxRetries]
  /\ good \in [Requests -> Nat] /\ bad \in [Requests -> Nat]
  /\ errs \in [Requests -> SUBSET Nat]
  /\ answer \in [Requests -> Answer]
  /\ put \in [Requests -> Seq(Nat)]
  /\ touched \in SUBSET Requests

Init ==
  /\ meta = TRUE /\ phys = TRUE /\ rows = 0
  /\ deleter = "idle"
  /\ grants = {}
  /\ req = [u \in Requests |-> NoReq]
  /\ next = [u \in Requests |-> 1]
  /\ attempt = [u \in Requests |-> 0]
  /\ good = [u \in Requests |-> 0] /\ bad = [u \in Requests |-> 0]
  /\ errs = [u \in Requests |-> {}]
  /\ answer = [u \in Requests |-> NoAnswer]
  /\ put = [u \in Requests |-> <<>>]
  /\ touched = {}

Goto(u, pc)    == req' = [req EXCEPT ![u] = [@ EXCEPT !.pc = pc]]
Status(s, n)   == [NoAnswer EXCEPT !.status = s, !.n = n]

\* The answer ends the request; its text and its caller are forgotten.
Reply(u, a) ==
  /\ req' = [req EXCEPT ![u] = [@ EXCEPT !.pc = "done", !.role = "", !.stmt = NoStmt]]
  /\ answer' = [answer EXCEPT ![u] = a]

Refuse(u) ==
  /\ req' = [req EXCEPT ![u] = [NoReq EXCEPT !.pc = "done", !.job = req[u].job]]
  /\ answer' = [answer EXCEPT ![u] = Status("refused", 0)]

Continue(u, pc) == Goto(u, pc) /\ UNCHANGED answer

-----------------------------------------------------------------------------
(* Requests arrive.                                                        *)

Arrive(u, job, role, pc) ==
  /\ req[u].pc = "idle" /\ job \in Jobs[u]
  /\ req' = [req EXCEPT ![u] = [NoReq EXCEPT !.pc = pc, !.job = job, !.role = role]]
  /\ UNCHANGED <<tableVars, attempt, loopVars, answer, touched>>

\* A role too low or a form that does not parse is refused on the spot, which
\* leaves the slot as it was.  The form's operation is checked and not used.
UploadData(u, role) ==
  /\ MinRole("normal_user", role) /\ IsAllowedForRole("INSERT", role)
  /\ Arrive(u, "upload", role, "access")

ExecuteDataSQL(u, role) ==
  /\ MinRole("data_admin", role) /\ IsAllowedForRole("INSERT", role)
  /\ Arrive(u, "terminal", role, "access")

\* Executor.Execute with the role of the caller, on the session's dataset or,
\* for a session without one, on the platform database.
Question(u, role) ==
  \E job \in {"question", "plain"} : Arrive(u, job, role, "generate")

\* Executor.Execute on the platform database, without a role.
InternalNL2SQL(u) == Arrive(u, "agent", "", "generate")

-----------------------------------------------------------------------------
(* Administrators.                                                         *)

\* A caller's access is read once: only until then do changes need states of
\* their own.
Undecided(u) == req[u].pc = "access" /\ req[u].role # "super_admin"

GrantDatasetAccess(u) ==
  /\ Undecided(u)
  /\ grants' = grants \cup {u}
  /\ UNCHANGED <<meta, phys, rows, deleter, req, attempt, loopVars, answer, touched>>

RevokeDatasetAccess(u) ==
  /\ Undecided(u)
  /\ grants' = grants \ {u}
  /\ UNCHANGED <<meta, phys, rows, deleter, req, attempt, loopVars, answer, touched>>

\* DeleteDatasetTable: the SELECT, the DROP TABLE whose error is logged, and
\* the UPDATE whose error is the answer.
FindForDelete ==
  /\ deleter = "idle" /\ meta /\ deleter' = "drop"
  /\ UNCHANGED <<meta, phys, rows, grants, req, attempt, loopVars, answer, touched>>

DropTable ==
  /\ deleter = "drop" /\ deleter' = "mark"
  /\ \/ phys' = FALSE /\ rows' = 0
     \/ "mysql" \in Faults /\ UNCHANGED <<phys, rows>>
  /\ UNCHANGED <<meta, grants, req, attempt, loopVars, answer, touched>>

MarkInactive ==
  /\ deleter = "mark" /\ deleter' = "done"
  /\ meta' = FALSE \/ ("db" \in Faults /\ UNCHANGED meta)
  /\ UNCHANGED <<phys, rows, grants, req, attempt, loopVars, answer, touched>>

-----------------------------------------------------------------------------
(* The way to the table.                                                   *)

\* hasDatasetAccess, an error counting as no.  The terminal's statement is
\* looked at next, before anything else is asked of a database.
CheckAccess(u) ==
  /\ req[u].pc = "access"
  /\ LET may == req[u].role = "super_admin" \/ u \in grants
     IN \/ /\ may /\ req[u].job = "upload"
           /\ req' = [req EXCEPT ![u] = [@ EXCEPT !.pc = "table", !.role = ""]]
           /\ UNCHANGED answer
        \/ /\ may /\ req[u].job = "terminal"
           /\ \E s \in Stmts :
                IF validateSQLTerminal(s)
                THEN /\ req' = [req EXCEPT ![u] =
                                  [@ EXCEPT !.pc = "pool", !.role = "", !.stmt = s]]
                     /\ UNCHANGED answer
                ELSE Refuse(u)
        \/ (~may \/ ("db" \in Faults /\ req[u].role # "super_admin")) /\ Refuse(u)
  /\ UNCHANGED <<tableVars, attempt, loopVars, touched>>

\* The SELECT of an active table, 404.
FindTable(u) ==
  /\ req[u].pc = "table"
  /\ \/ meta /\ Continue(u, "pool")
     \/ (~meta \/ "db" \in Faults) /\ Refuse(u)
  /\ UNCHANGED <<tableVars, attempt, loopVars, touched>>

\* parseCSV insists on rows of equal length, parseXLSX does not.
Parses(f) ==
  \/ f.ext \in {"xlsx", "sql"}
  \/ f.ext = "csv" /\ \A k \in DOMAIN f.items : f.items[k] = "full"

\* GetPool or Connect; then the upload's file is looked at.
GetPool(u) ==
  /\ req[u].pc = "pool"
  /\ \/ /\ req[u].job = "terminal"
        /\ Continue(u, IF req[u].stmt.type = "SELECT" THEN "explain" ELSE "exec")
     \/ /\ req[u].job = "upload"
        /\ \E f \in File :
             IF Parses(f)
             THEN /\ req' = [req EXCEPT ![u] =
                       [@ EXCEPT !.pc = IF f.ext = "sql" THEN "file" ELSE "fields",
                                 !.file = Parsed(f)]]
                  /\ UNCHANGED answer
             ELSE Refuse(u)
     \/ "mysql" \in Faults /\ Refuse(u)
  /\ UNCHANGED <<tableVars, attempt, loopVars, touched>>

-----------------------------------------------------------------------------
(* CSV and XLSX files.                                                     *)

\* basicColumnCheck: every name is a field of the table, or the file is refused.
BasicCheck(u) ==
  IF req[u].file.cols = "match"
  THEN Continue(u, "rows")
  ELSE Refuse(u)

\* getDatasetTableFields, which may fail.  Without an API key in the
\* configuration the names decide.
ReadFields(u) ==
  /\ req[u].pc = "fields"
  /\ \/ Continue(u, "model")
     \/ BasicCheck(u)
     \/ "db" \in Faults /\ Refuse(u)
  /\ UNCHANGED <<tableVars, attempt, loopVars, touched>>

\* The model's verdict: not acceptable, or a column map that is taken as it
\* is and may name columns the table does not have.
Verdict(u) ==
  \/ Refuse(u)
  \/ /\ \E c \in {"match", "other"} :
          req' = [req EXCEPT ![u] =
                    [@ EXCEPT !.pc = "rows", !.file.cols = c]]
     /\ UNCHANGED answer

\* Faulty variant: the count starts again instead of ending the calls.
AskModelForever(u) ==
  /\ req[u].pc = "model"
  /\ \/ /\ "llm" \in Faults
        /\ attempt' = [attempt EXCEPT ![u] = (@ + 1) % MaxRetries]
        /\ UNCHANGED <<req, answer>>
     \/ /\ Verdict(u) \/ ("llm" \in Faults /\ BasicCheck(u))
        /\ attempt' = [attempt EXCEPT ![u] = 0]
  /\ UNCHANGED <<tableVars, loopVars, touched>>

\* One call of ChatCompletion's loop.  No connection, 429 and 5xx count and
\* are tried again; any other status, an answer that is no JSON, the 15
\* seconds of validateColumns and the last failure fall back to the names.
AskModel(u) ==
  /\ req[u].pc = "model"
  /\ \/ /\ "llm" \in Faults /\ attempt[u] + 1 < MaxRetries
        /\ attempt' = [attempt EXCEPT ![u] = @ + 1]
        /\ UNCHANGED <<req, answer>>
     \/ /\ Verdict(u) \/ ("llm" \in Faults /\ BasicCheck(u))
        /\ attempt' = [attempt EXCEPT ![u] = 0]
  /\ UNCHANGED <<tableVars, loopVars, touched>>

\* Row i of the file, as an INSERT on its own.
Fits(u) ==
  phys /\ req[u].file.cols = "match" /\ req[u].file.items[next[u]] = "full"

Stored(u) ==
  /\ rows' = rows + 1
  /\ put' = [put EXCEPT ![u] = Append(@, next[u])]

\* Faulty variant: a row that fails is skipped.
InsertRowSkips(u) ==
  /\ req[u].pc = "rows" /\ next[u] <= Len(req[u].file.items)
  /\ \/ Fits(u) /\ Stored(u)
     \/ (~Fits(u) \/ "mysql" \in Faults) /\ UNCHANGED <<rows, put>>
  /\ next' = [next EXCEPT ![u] = @ + 1]
  /\ UNCHANGED <<meta, phys, deleter, grants, req, attempt, good, bad, errs, answer, touched>>

\* The first error ends the import with the number of its row.
InsertRow(u) ==
  /\ req[u].pc = "rows" /\ next[u] <= Len(req[u].file.items)
  /\ \/ /\ Fits(u) /\ Stored(u)
        /\ next' = [next EXCEPT ![u] = @ + 1]
        /\ UNCHANGED <<req, answer>>
     \/ /\ ~Fits(u) \/ "mysql" \in Faults
        /\ Reply(u, Status("failed", next[u]))
        /\ UNCHANGED <<next, rows, put>>
     \/ /\ Fits(u) /\ "mysql" \in Faults /\ Stored(u)
        /\ Reply(u, Status("failed", next[u]))
        /\ UNCHANGED next
  /\ UNCHANGED <<meta, phys, deleter, grants, attempt, good, bad, errs, touched>>

RowsDone(u) ==
  /\ req[u].pc = "rows" /\ next[u] > Len(req[u].file.items)
  /\ Reply(u, Status("ok", next[u] - 1))
  /\ UNCHANGED <<tableVars, attempt, loopVars, touched>>

-----------------------------------------------------------------------------
(* SQL files.                                                              *)

Type(u)    == req[u].file.items[next[u]]
Allowed(u) == validateSQLStatement(Type(u))

\* What a write does to the number of rows.
Effect(type) ==
  CASE type = "INSERT"                -> rows' = rows + 1 /\ UNCHANGED phys
    [] type \in {"DELETE", "TRUNCATE"} -> rows' \in 0 .. rows /\ UNCHANGED phys
    [] type = "DROP"                  -> rows' = 0 /\ phys' = FALSE
    [] OTHER                          -> UNCHANGED <<rows, phys>>

Executed(u) ==
  /\ Effect(Type(u))
  /\ put' = [put EXCEPT ![u] = Append(@, next[u])]

Complain(u) ==
  /\ errs' = [errs EXCEPT ![u] = @ \cup {next[u]}]
  /\ bad' = [bad EXCEPT ![u] = @ + 1]

\* Faulty variant: a statement the file may not contain is passed over.
RunStatementSilent(u) ==
  /\ req[u].pc = "file" /\ next[u] <= Len(req[u].file.items)
  /\ \/ ~Allowed(u) /\ UNCHANGED <<rows, phys, put, good, errs, bad>>
     \/ /\ Allowed(u) /\ phys /\ Executed(u)
        /\ good' = [good EXCEPT ![u] = @ + 1] /\ UNCHANGED <<errs, bad>>
     \/ /\ Allowed(u) /\ (~phys \/ "mysql" \in Faults) /\ Complain(u)
        /\ UNCHANGED <<rows, phys, put, good>>
  /\ next' = [next EXCEPT ![u] = @ + 1]
  /\ UNCHANGED <<meta, deleter, grants, req, attempt, answer, touched>>

\* executeSQLFile: whatever happens to a statement, the next one follows.
RunStatement(u) ==
  /\ req[u].pc = "file" /\ next[u] <= Len(req[u].file.items)
  /\ \/ /\ Allowed(u) /\ phys /\ Executed(u)
        /\ good' = [good EXCEPT ![u] = @ + 1]
        /\ UNCHANGED <<errs, bad>>
     \/ /\ ~Allowed(u) \/ ~phys \/ "mysql" \in Faults
        /\ Complain(u)
        /\ UNCHANGED <<rows, phys, put, good>>
     \/ /\ Allowed(u) /\ phys /\ "mysql" \in Faults
        /\ Executed(u) /\ Complain(u)
        /\ UNCHANGED good
  /\ next' = [next EXCEPT ![u] = @ + 1]
  /\ UNCHANGED <<meta, deleter, grants, req, attempt, answer, touched>>

\* Answered 200 in any case, with ok saying whether something failed.
FileDone(u) ==
  /\ req[u].pc = "file" /\ next[u] > Len(req[u].file.items)
  /\ Reply(u, Status(IF bad[u] = 0 THEN "ok" ELSE "partial", good[u]))
  /\ UNCHANGED <<tableVars, attempt, loopVars, touched>>

-----------------------------------------------------------------------------
(* The SQL terminal and generated SQL.                                     *)

\* GenerateSQL, the only source of a generated statement, and its route.
Generate(u) ==
  /\ req[u].pc = "generate"
  /\ \/ \E s \in Stmts :
          LET way == Route(s, req[u].role)
          IN IF way = "refused" THEN Refuse(u)
             ELSE /\ req' = [req EXCEPT ![u] =
                       [@ EXCEPT !.stmt = s,
                                 !.pc = IF way = "read" THEN "read" ELSE "exec"]]
                  /\ UNCHANGED answer
     \/ "llm" \in Faults /\ Refuse(u)
  /\ UNCHANGED <<tableVars, attempt, loopVars, touched>>

\* explainValidate: syntax and names, before anything is run.
Explain(u) ==
  /\ req[u].pc = "explain"
  /\ \/ phys /\ Continue(u, "query")
     \/ (~phys \/ "mysql" \in Faults) /\ Refuse(u)
  /\ UNCHANGED <<tableVars, attempt, loopVars, touched>>

Least(a, b) == IF a <= b THEN a ELSE b

\* Faulty variant: QueryRows is asked for no more than is shown.
QueryLimit == MaxRows

\* The limit the terminal gives QueryRows: one row more than it shows.
TerminalLimit == MaxRows + 1

\* QueryRows and the cut of its result.  Found is what the query would return
\* without a limit.
Query(u) ==
  /\ req[u].pc = "query"
  /\ \/ /\ phys /\ IsReadOnlySQL(req[u].stmt)
        /\ \E found \in 0 .. rows :
             LET got == Least(found, TerminalLimit)
             IN Reply(u, [status |-> "ok", n |-> Least(got, MaxRows),
                          found |-> found, truncated |-> got > MaxRows])
     \/ (~phys \/ ~IsReadOnlySQL(req[u].stmt) \/ "mysql" \in Faults) /\ Refuse(u)
  /\ UNCHANGED <<tableVars, attempt, loopVars, touched>>

\* The database a generated statement runs on, and whether it can fail there.
OnPlatform(u) == req[u].job \in {"plain", "agent"}
MayFail(u)    == IF OnPlatform(u) THEN "db" \in Faults ELSE ~phys \/ "mysql" \in Faults

\* QueryRows on behalf of the executor.
ReadGenerated(u) ==
  /\ req[u].pc = "read"
  /\ \/ (OnPlatform(u) \/ phys) /\ Reply(u, Status("ok", 0))
     \/ MayFail(u) /\ Reply(u, Status("failed", 0))
  /\ UNCHANGED <<tableVars, attempt, loopVars, touched>>

\* ExecuteWrite.  An error may follow the effect.
Execute(u) ==
  /\ req[u].pc = "exec"
  /\ \/ /\ OnPlatform(u) /\ touched' = touched \cup {u}
        /\ Reply(u, Status("ok", 0)) \/ (MayFail(u) /\ Reply(u, Status("failed", 0)))
        /\ UNCHANGED <<rows, phys>>
     \/ /\ ~OnPlatform(u) /\ phys /\ Effect(req[u].stmt.type)
        /\ Reply(u, Status("ok", 0)) \/ (MayFail(u) /\ Reply(u, Status("failed", 0)))
        /\ UNCHANGED touched
     \/ /\ MayFail(u) /\ Reply(u, Status("failed", 0))
        /\ UNCHANGED <<rows, phys, touched>>
  /\ UNCHANGED <<meta, deleter, grants, attempt, loopVars>>

-----------------------------------------------------------------------------
Step(u) ==
  \/ CheckAccess(u) \/ FindTable(u) \/ GetPool(u)
  \/ ReadFields(u) \/ AskModel(u) \/ InsertRow(u) \/ RowsDone(u)
  \/ RunStatement(u) \/ FileDone(u)
  \/ Explain(u) \/ Query(u)
  \/ Generate(u) \/ ReadGenerated(u) \/ Execute(u)

Next ==
  \/ \E u \in Requests, role \in Callers : UploadData(u, role)
  \/ \E u \in Requests, role \in Callers : ExecuteDataSQL(u, role)
  \/ \E u \in Requests, role \in Callers : Question(u, role)
  \/ \E u \in Requests : InternalNL2SQL(u)
  \/ \E u \in Requests : GrantDatasetAccess(u)
  \/ \E u \in Requests : RevokeDatasetAccess(u)
  \/ FindForDelete \/ DropTable \/ MarkInactive
  \/ \E u \in Requests : Step(u)

Spec == Init /\ [][Next]_vars

\* validateColumns gives the calls of the model 15 s, after which each of them
\* fails.  Of the rest nothing is assumed: opening a pool and generating SQL
\* for the agent wait without a deadline.
FairSpec == Spec /\ \A u \in Requests : WF_vars(AskModel(u))

-----------------------------------------------------------------------------
(* Properties.                                                             *)

RowsTold(u) ==
  req[u].job = "upload" /\ req[u].file.ext # "sql" =>
    /\ \A k \in 1 .. Len(put[u]) : put[u][k] = k
    /\ answer[u].status = "ok" =>
         Len(put[u]) = answer[u].n /\ answer[u].n = Len(req[u].file.items)
    /\ answer[u].status = "failed" =>
         Len(put[u]) \in {answer[u].n - 1, answer[u].n}
    /\ answer[u].status = "refused" => put[u] = <<>>

\* What the answer of a CSV or XLSX upload says about the table is true,
\* although its rows are inserted one by one while the table may be dropped:
\* the rows stored are a prefix of the file, each once and in order; all of
\* them if it says ok, those before the row it names (or that row too, if its
\* INSERT was done and reported as failed) if it failed, none if refused.
AnswerTellsRows == \A u \in Requests : RowsTold(u)

StatementsTold(u) ==
  req[u].file.ext = "sql" =>
    /\ \A k \in 1 .. next[u] - 1 :
         k \in errs[u] \/ \E j \in 1 .. Len(put[u]) : put[u][j] = k
    /\ \A j \in 1 .. Len(put[u]) :
         req[u].file.items[put[u][j]] \in {"INSERT", "UPDATE"}
    /\ \A j, k \in 1 .. Len(put[u]) : j < k => put[u][j] < put[u][k]
    /\ answer[u].status \in {"ok", "partial"} =>
         /\ good[u] + bad[u] = Len(req[u].file.items)
         /\ answer[u].status = "ok" <=> errs[u] = {}

\* Every statement of a SQL file is accounted for in the answer: it took
\* effect or is complained about, none is executed twice, only INSERT and
\* UPDATE ever are, and the counts add up to the file.
StatementsAccounted == \A u \in Requests : StatementsTold(u)

CutTold(u) ==
  req[u].job = "terminal" /\ answer[u].status = "ok" =>
    /\ answer[u].n = Least(answer[u].found, MaxRows)
    /\ answer[u].truncated <=> answer[u].found > MaxRows

\* The terminal says that a result was cut exactly if rows are missing, also
\* when there are as many rows as it can show, or one more.
TruncatedIffMore == \A u \in Requests : CutTold(u)

\* SQL generated for the agent pipeline, which runs on the platform's own
\* database and names no role, reads and never writes.
AgentOnlyReads == \A u \in touched : req[u].job # "agent"

\* An upload does not hang on the language model, whatever the model does: its
\* columns are accepted, or it is answered, after a bounded number of calls.
ColumnCheckEnds ==
  \A u \in Requests : (req[u].pc = "model") ~> (req[u].pc \in {"rows", "done"})

-----------------------------------------------------------------------------
(* The inductive invariant.                                                *)

\* Nothing is stored or answered before its time.
Begun(u) ==
  /\ req[u].pc # "done" => answer[u] = NoAnswer
  /\ req[u].pc \notin {"rows", "file", "done"} =>
       put[u] = <<>> /\ next[u] = 1 /\ good[u] = 0 /\ bad[u] = 0 /\ errs[u] = {}

\* Which kinds of request are where; the agent's never reaches a write.
Placed(u) ==
  /\ req[u].pc \in {"fields", "model", "rows"} => req[u].file.ext # "sql"
  /\ req[u].pc = "file" => req[u].file.ext = "sql"
  /\ req[u].file.ext = "sql" => req[u].pc \in {"file", "done"} /\ req[u].job = "upload"
  /\ req[u].pc \in {"table", "fields", "model", "rows"} => req[u].job = "upload"
  /\ req[u].pc \in {"access", "pool"} => req[u].job \in {"upload", "terminal"}
  /\ req[u].pc \in {"explain", "query"} => req[u].job = "terminal"
  /\ req[u].pc \in {"generate", "read", "exec"} => req[u].job # "upload"
  /\ req[u].job = "agent" => req[u].pc \in {"generate", "read", "done"} /\ req[u].role = ""

\* The loops: what was stored and counted up to the next row or statement.
Looping(u) ==
  /\ req[u].pc \in {"rows", "file"} => next[u] <= Len(req[u].file.items) + 1
  /\ req[u].pc = "rows" => Len(put[u]) = next[u] - 1
  /\ req[u].pc = "file" =>
       /\ good[u] + bad[u] = next[u] - 1
       /\ bad[u] = 0 <=> errs[u] = {}
       /\ \A j \in 1 .. Len(put[u]) : put[u][j] < next[u]

Sound(u) ==
  /\ Begun(u) /\ Placed(u) /\ Looping(u)
  /\ RowsTold(u) /\ StatementsTold(u) /\ CutTold(u)
  /\ u \in touched => req[u].job # "agent"

\* Every request is where and has done what its kind allows, and one that
\* wrote to the platform database has ended.
ImportInv ==
  /\ \A u \in Requests : Sound(u)
  /\ \A u \in touched : req[u].pc = "done"
=============================================================================
