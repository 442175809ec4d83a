-------------------------- MODULE DataImportProofs --------------------------
(***************************************************************************)
(* Proofs about DataImport, for any requests, files, roles and faults:     *)
(* its types, the inductive invariant ImportInv, and from it what answers  *)
(* say about the table and that the agent's SQL only reads.                *)
(***************************************************************************)
EXTENDS DataImport, TLAPS

\* What Append does to the list of stored rows or statements.
LEMMA AppendFacts ==
  ASSUME NEW s \in Seq(Nat), NEW x \in Nat
  PROVE  /\ Append(s, x) \in Seq(Nat)
         /\ Len(Append(s, x)) = Len(s) + 1
         /\ Append(s, x)[Len(s) + 1] = x
         /\ \A k \in 1 .. Len(s) : Append(s, x)[k] = s[k]
         /\ Len(s) \in Nat
OBVIOUS

\* The items of a file are a finite sequence.
LEMMA ItemsFacts ==
  ASSUME NEW S, NEW s \in SeqOf(S)
  PROVE  s \in Seq(S) /\ Len(s) \in Nat
BY ImportAssumption DEF SeqOf, ImportAssumption

\* The values that answers and requests are built from have their types.
LEMMA DefaultTypes ==
  /\ NoStmt \in Statement
  /\ NoFile \in FileOK
  /\ NoReq \in Asked
  /\ NoAnswer \in Answer
<1>1. NoStmt \in Statement
  BY DEF NoStmt, Statement, SQLTypes, Writes
<1>2. <<>> \in SeqOf({"full", "short"} \cup FileTypes)
  <2>1. <<>> \in [1 .. 0 -> {"full", "short"} \cup FileTypes]
    OBVIOUS
  <2>2. 0 \in 0 .. MaxItems
    BY ImportAssumption DEF ImportAssumption
  <2> QED BY <2>1, <2>2 DEF SeqOf
<1>3. NoFile \in FileOK
  BY <1>2 DEF NoFile, FileOK
<1>4. NoReq \in Asked
  BY <1>1, <1>3 DEF NoReq, Asked
<1>5. NoAnswer \in Answer
  BY DEF NoAnswer, Answer
<1> QED BY <1>1, <1>3, <1>4, <1>5

\* So has every file that is parsed.
LEMMA ParsedTypes ==
  ASSUME NEW f \in File, Parses(f)
  PROVE  /\ Parsed(f) \in FileOK
         /\ Parsed(f).ext = "sql" <=> f.ext = "sql"
<1>1. ASSUME NEW S, NEW T, S \subseteq T, NEW s \in SeqOf(S) PROVE s \in SeqOf(T)
  BY <1>1 DEF SeqOf
<1>2. CASE f \in RowFile
  <2>1. f.items \in SeqOf({"full", "short"} \cup FileTypes)
    BY <1>1, <1>2 DEF RowFile
  <2> QED BY <1>2, <2>1 DEF RowFile, Parsed, FileOK
<1>3. CASE f \in SqlFile
  <2>1. f.items \in SeqOf({"full", "short"} \cup FileTypes)
    BY <1>1, <1>3 DEF SqlFile
  <2> QED BY <1>3, <2>1 DEF SqlFile, Parsed, FileOK
<1>4. CASE f = NoFile
  BY <1>4 DEF NoFile, Parses
<1> QED BY <1>2, <1>3, <1>4 DEF File

\* A caller that names no role is allowed nothing.
LEMMA NoRole ==
  ASSUME NEW type \in SQLTypes
  PROVE  ~IsAllowedForRole(type, "")
BY DEF IsAllowedForRole, RoleOrder, minRoleForSQLType, SQLTypes, Writes

-----------------------------------------------------------------------------
\* Init satisfies the type invariant.
LEMMA InitTypes == Init => TypeOK
<1> SUFFICES ASSUME Init PROVE TypeOK
  OBVIOUS
<1>1. req \in [Requests -> Asked] /\ answer \in [Requests -> Answer]
  BY DefaultTypes DEF Init
<1>2. attempt \in [Requests -> 0 .. MaxRetries]
  BY ImportAssumption DEF Init, ImportAssumption
<1>3. meta \in BOOLEAN /\ phys \in BOOLEAN
  BY DEF Init
<1>4. put \in [Requests -> Seq(Nat)]
  BY DEF Init
<1> QED BY <1>1, <1>2, <1>3, <1>4 DEF Init, TypeOK

\* An answer ends the request and changes nothing else about it.
LEMMA ReplyTypes ==
  ASSUME TypeOK, NEW u \in Requests, NEW a \in Answer, Reply(u, a)
  PROVE  req' \in [Requests -> Asked] /\ answer' \in [Requests -> Answer]
BY DefaultTypes DEF Reply, TypeOK, Asked

\* A status with a number is an answer.
LEMMA StatusTypes ==
  ASSUME NEW s \in {"ok", "partial", "failed", "refused"}, NEW n \in Nat
  PROVE  Status(s, n) \in Answer
BY DEF Status, NoAnswer, Answer

\* A refusal has the types of an answered request.
LEMMA RefuseTypes ==
  ASSUME TypeOK, NEW u \in Requests, Refuse(u)
  PROVE  req' \in [Requests -> Asked] /\ answer' \in [Requests -> Answer]
<1>1. [NoReq EXCEPT !.pc = "done", !.job = req[u].job] \in Asked
  BY DefaultTypes DEF TypeOK, Asked
<1>2. Status("refused", 0) \in Answer
  BY StatusTypes
<1> QED BY <1>1, <1>2 DEF Refuse, TypeOK

\* So has a request that only goes on to its next step.
LEMMA ContinueTypes ==
  ASSUME TypeOK, NEW u \in Requests, NEW p \in Waiting, Continue(u, p)
  PROVE  req' \in [Requests -> Asked] /\ answer' \in [Requests -> Answer]
BY DEF Continue, Goto, TypeOK, Asked

\* Most steps of a request move it and nothing else.
LEMMA MovedTypes ==
  ASSUME TypeOK, UNCHANGED <<tableVars, attempt, loopVars, touched>>,
         req' \in [Requests -> Asked] /\ answer' \in [Requests -> Answer]
  PROVE  TypeOK'
BY DEF TypeOK, tableVars, loopVars

\* A request that goes on with other fields.
LEMMA ChangedTypes ==
  ASSUME TypeOK, NEW u \in Requests, NEW r \in Asked,
         req' = [req EXCEPT ![u] = r] /\ UNCHANGED answer
  PROVE  req' \in [Requests -> Asked] /\ answer' \in [Requests -> Answer]
BY DEF TypeOK

\* Arrivals.
LEMMA ArriveTypes ==
  ASSUME TypeOK, NEW u \in Requests,
         NEW job \in {"upload", "terminal", "question", "plain", "agent"},
         NEW role \in Roles \cup {""}, NEW pc \in {"access", "generate"},
         Arrive(u, job, role, pc)
  PROVE  TypeOK'
<1>1. [NoReq EXCEPT !.pc = pc, !.job = job, !.role = role] \in Asked
  BY DefaultTypes DEF Asked, Waiting
<1>2. req' \in [Requests -> Asked] /\ answer' \in [Requests -> Answer]
  BY <1>1 DEF Arrive, TypeOK
<1> QED BY <1>2, MovedTypes DEF Arrive

\* The steps before the rows and statements.
LEMMA WayTypes ==
  ASSUME TypeOK, NEW u \in Requests,
         CheckAccess(u) \/ FindTable(u) \/ GetPool(u) \/ ReadFields(u)
  PROVE  TypeOK'
<1>1. CASE CheckAccess(u)
  <2>1. UNCHANGED <<tableVars, attempt, loopVars, touched>>
    BY <1>1 DEF CheckAccess
  <2>0. req[u] \in Asked
    BY DEF TypeOK
  <2>2. CASE Refuse(u)
    BY <2>1, <2>2, RefuseTypes, MovedTypes
  <2>3. CASE req' = [req EXCEPT ![u] = [@ EXCEPT !.pc = "table", !.role = ""]]
             /\ UNCHANGED answer
    <3>1. [req[u] EXCEPT !.pc = "table", !.role = ""] \in Asked
      BY <2>0 DEF Asked, Waiting
    <3> QED BY <2>1, <2>3, <3>1, ChangedTypes, MovedTypes
  <2>4. ASSUME NEW s \in Stmts, UNCHANGED answer,
               req' = [req EXCEPT ![u] = [@ EXCEPT !.pc = "pool", !.role = "", !.stmt = s]]
        PROVE  TypeOK'
    <3>1. s \in Statement
      BY ImportAssumption DEF ImportAssumption
    <3>2. [req[u] EXCEPT !.pc = "pool", !.role = "", !.stmt = s] \in Asked
      BY <2>0, <3>1 DEF Asked, Waiting
    <3> QED BY <2>1, <2>4, <3>2, ChangedTypes, MovedTypes
  <2> QED BY <1>1, <2>2, <2>3, <2>4 DEF CheckAccess
<1>2. CASE FindTable(u)
  BY <1>2, ContinueTypes, RefuseTypes, MovedTypes DEF FindTable, Waiting
<1>3. CASE GetPool(u)
  <2>1. UNCHANGED <<tableVars, attempt, loopVars, touched>>
    BY <1>3 DEF GetPool
  <2>2. CASE Refuse(u)
    BY <2>1, <2>2, RefuseTypes, MovedTypes
  <2>3. ASSUME NEW p \in {"explain", "exec"}, Continue(u, p) PROVE TypeOK'
    BY <2>1, <2>3, ContinueTypes, MovedTypes DEF Waiting
  <2>4. ASSUME NEW f \in File, Parses(f), UNCHANGED answer,
               NEW p \in {"file", "fields"},
               req' = [req EXCEPT ![u] = [@ EXCEPT !.pc = p, !.file = Parsed(f)]]
        PROVE  TypeOK'
    <3>1. req[u] \in Asked /\ Parsed(f) \in FileOK
      BY <2>4, ParsedTypes DEF TypeOK
    <3>2. [req[u] EXCEPT !.pc = p, !.file = Parsed(f)] \in Asked
      BY <3>1 DEF Asked, Waiting
    <3> QED BY <2>1, <2>4, <3>2, ChangedTypes, MovedTypes
  <2> QED BY <1>3, <2>2, <2>3, <2>4 DEF GetPool
<1>4. CASE ReadFields(u)
  BY <1>4, ContinueTypes, RefuseTypes, MovedTypes DEF ReadFields, BasicCheck, Waiting
<1> QED BY <1>1, <1>2, <1>3, <1>4

\* Asking the language model.
LEMMA ModelTypes ==
  ASSUME TypeOK, NEW u \in Requests, AskModel(u)
  PROVE  TypeOK'
<1>1. req' \in [Requests -> Asked] /\ answer' \in [Requests -> Answer]
  <2>1. CASE Verdict(u)
    <3>1. ASSUME NEW c \in {"match", "other"}, UNCHANGED answer,
                 req' = [req EXCEPT ![u] =
                          [@ EXCEPT !.pc = "rows", !.file.cols = c]]
          PROVE  req' \in [Requests -> Asked] /\ answer' \in [Requests -> Answer]
      <4>1. req[u] \in Asked /\ req[u].file \in FileOK
        BY DEF TypeOK, Asked
      <4>2. [req[u].file EXCEPT !.cols = c] \in FileOK
        BY <4>1 DEF FileOK
      <4>3. [req[u] EXCEPT !.pc = "rows", !.file.cols = c] \in Asked
        BY <4>1, <4>2 DEF Asked, Waiting
      <4> QED BY <3>1, <4>3, ChangedTypes
    <3> QED BY <2>1, <3>1, RefuseTypes DEF Verdict
  <2>2. CASE BasicCheck(u)
    BY <2>2, ContinueTypes, RefuseTypes DEF BasicCheck, Waiting
  <2>3. CASE UNCHANGED <<req, answer>>
    BY <2>3 DEF TypeOK
  <2> QED BY <2>1, <2>2, <2>3 DEF AskModel
<1>2. attempt' \in [Requests -> 0 .. MaxRetries]
  <2>1. MaxRetries \in Nat /\ attempt \in [Requests -> 0 .. MaxRetries]
    BY ImportAssumption DEF TypeOK, ImportAssumption
  <2>2. CASE attempt[u] + 1 < MaxRetries /\ attempt' = [attempt EXCEPT ![u] = @ + 1]
    BY <2>1, <2>2
  <2>3. CASE attempt' = [attempt EXCEPT ![u] = 0]
    BY <2>1, <2>3
  <2> QED BY <2>2, <2>3 DEF AskModel
<1> QED BY <1>1, <1>2 DEF AskModel, TypeOK, tableVars, loopVars

\* The rows of a file.
LEMMA RowTypes ==
  ASSUME TypeOK, NEW u \in Requests, InsertRow(u) \/ RowsDone(u)
  PROVE  TypeOK'
<1>0. next[u] \in Nat /\ next[u] - 1 \in Nat
  BY DEF TypeOK
<1>1. CASE RowsDone(u)
  BY <1>0, <1>1, StatusTypes, ReplyTypes, MovedTypes DEF RowsDone
<1>2. CASE InsertRow(u)
  <2>1. req' \in [Requests -> Asked] /\ answer' \in [Requests -> Answer]
    <3>1. CASE UNCHANGED <<req, answer>>
      BY <3>1 DEF TypeOK
    <3>2. CASE Reply(u, Status("failed", next[u]))
      BY <1>0, <3>2, StatusTypes, ReplyTypes
    <3> QED BY <1>2, <3>1, <3>2 DEF InsertRow
  <2>2. put' \in [Requests -> Seq(Nat)] /\ rows' \in Nat
    <3>1. Append(put[u], next[u]) \in Seq(Nat)
      BY <1>0, AppendFacts DEF TypeOK
    <3>2. CASE Stored(u)
      BY <3>1, <3>2 DEF Stored, TypeOK
    <3>3. CASE UNCHANGED <<rows, put>>
      BY <3>3 DEF TypeOK
    <3> QED BY <1>2, <3>2, <3>3 DEF InsertRow
  <2>3. next' \in [Requests -> Nat \ {0}]
    BY <1>2 DEF InsertRow, TypeOK
  <2> QED BY <1>2, <2>1, <2>2, <2>3 DEF InsertRow, TypeOK
<1> QED BY <1>1, <1>2

\* What a write does to the table.
LEMMA EffectTypes ==
  ASSUME TypeOK, NEW type \in SQLTypes, Effect(type)
  PROVE  rows' \in Nat /\ phys' \in BOOLEAN
<1>1. rows' \in Nat
  BY DEF Effect, TypeOK, SQLTypes, Writes
<1>2. phys' \in BOOLEAN
  BY DEF Effect, TypeOK, SQLTypes, Writes
<1> QED BY <1>1, <1>2

\* The statements of a SQL file.
LEMMA FileTypesKept ==
  ASSUME TypeOK, NEW u \in Requests, RunStatement(u) \/ FileDone(u)
  PROVE  TypeOK'
<1>0. next[u] \in Nat /\ good[u] \in Nat
  BY DEF TypeOK
<1>1. CASE FileDone(u)
  BY <1>0, <1>1, StatusTypes, ReplyTypes, MovedTypes DEF FileDone
<1>2. CASE RunStatement(u)
  <2>1. put' \in [Requests -> Seq(Nat)] /\ rows' \in Nat /\ phys' \in BOOLEAN
    <3>1. CASE UNCHANGED <<rows, phys, put>>
      BY <3>1 DEF TypeOK
    <3>2. CASE Allowed(u) /\ Executed(u)
      <4>1. Type(u) \in SQLTypes
        BY <3>2 DEF Allowed, validateSQLStatement, SQLTypes, Writes
      <4>2. rows' \in Nat /\ phys' \in BOOLEAN
        BY <3>2, <4>1, EffectTypes DEF Executed
      <4>3. Append(put[u], next[u]) \in Seq(Nat)
        BY <1>0, AppendFacts DEF TypeOK
      <4>4. put' = [put EXCEPT ![u] = Append(put[u], next[u])]
        BY <3>2 DEF Executed
      <4>5. put' \in [Requests -> Seq(Nat)]
        BY <4>3, <4>4 DEF TypeOK
      <4> QED BY <4>2, <4>5
    <3> QED BY <1>2, <3>1, <3>2 DEF RunStatement
  <2>2. good' \in [Requests -> Nat]
    <3>1. CASE good' = [good EXCEPT ![u] = @ + 1]
      BY <3>1 DEF TypeOK
    <3>2. CASE UNCHANGED good
      BY <3>2 DEF TypeOK
    <3> QED BY <1>2, <3>1, <3>2 DEF RunStatement
  <2>3. bad' \in [Requests -> Nat] /\ errs' \in [Requests -> SUBSET Nat]
    <3>1. CASE Complain(u)
      <4>1. bad' \in [Requests -> Nat]
        BY <3>1 DEF Complain, TypeOK
      <4>2. errs[u] \cup {next[u]} \in SUBSET Nat
        BY <1>0 DEF TypeOK
      <4>3. errs' \in [Requests -> SUBSET Nat]
        BY <3>1, <4>2 DEF Complain, TypeOK
      <4> QED BY <4>1, <4>3
    <3>2. CASE UNCHANGED <<errs, bad>>
      BY <3>2 DEF TypeOK
    <3> QED BY <1>2, <3>1, <3>2 DEF RunStatement
  <2>4. next' \in [Requests -> Nat \ {0}]
    BY <1>2 DEF RunStatement, TypeOK
  <2> QED BY <1>2, <2>1, <2>2, <2>3, <2>4 DEF RunStatement, TypeOK
<1> QED BY <1>1, <1>2

\* Generated SQL and the terminal.
LEMMA SqlTypesKept ==
  ASSUME TypeOK, NEW u \in Requests,
         Generate(u) \/ Explain(u) \/ Query(u) \/ ReadGenerated(u) \/ Execute(u)
  PROVE  TypeOK'
<1>1. CASE Generate(u)
  <2>1. UNCHANGED <<tableVars, attempt, loopVars, touched>>
    BY <1>1 DEF Generate
  <2>2. CASE Refuse(u)
    BY <2>1, <2>2, RefuseTypes, MovedTypes
  <2>3. ASSUME NEW s \in Stmts, NEW p \in {"read", "exec"}, UNCHANGED answer,
               req' = [req EXCEPT ![u] = [@ EXCEPT !.stmt = s, !.pc = p]]
        PROVE  TypeOK'
    <3>1. s \in Statement /\ req[u] \in Asked
      BY ImportAssumption DEF ImportAssumption, TypeOK
    <3>2. [req[u] EXCEPT !.stmt = s, !.pc = p] \in Asked
      BY <3>1 DEF Asked, Waiting
    <3> QED BY <2>1, <2>3, <3>2, ChangedTypes, MovedTypes
  <2> QED BY <1>1, <2>2, <2>3 DEF Generate
<1>2. CASE Explain(u)
  BY <1>2, ContinueTypes, RefuseTypes, MovedTypes DEF Explain, Waiting
<1>3. CASE Query(u)
  <2>1. ASSUME NEW found \in 0 .. rows,
               Reply(u, [status |-> "ok", n |-> Least(Least(found, TerminalLimit), MaxRows),
                         found |-> found,
                         truncated |-> Least(found, TerminalLimit) > MaxRows])
        PROVE  req' \in [Requests -> Asked] /\ answer' \in [Requests -> Answer]
    <3>1. found \in Nat /\ MaxRows \in Nat
      BY ImportAssumption DEF ImportAssumption, TypeOK
    <3>2. [status |-> "ok", n |-> Least(Least(found, TerminalLimit), MaxRows),
           found |-> found, truncated |-> Least(found, TerminalLimit) > MaxRows] \in Answer
      BY <3>1 DEF Answer, Least, TerminalLimit
    <3> QED BY <2>1, <3>2, ReplyTypes
  <2> QED BY <1>3, <2>1, RefuseTypes, MovedTypes DEF Query
<1>4. CASE ReadGenerated(u)
  BY <1>4, StatusTypes, ReplyTypes, MovedTypes DEF ReadGenerated
<1>5. CASE Execute(u)
  <2>1. req' \in [Requests -> Asked] /\ answer' \in [Requests -> Answer]
    BY <1>5, StatusTypes, ReplyTypes DEF Execute
  <2>2. rows' \in Nat /\ phys' \in BOOLEAN
    <3>1. req[u].stmt.type \in SQLTypes
      BY DEF TypeOK, Asked, Statement
    <3>2. CASE UNCHANGED <<rows, phys>>
      BY <3>2 DEF TypeOK
    <3>3. CASE Effect(req[u].stmt.type)
      BY <3>1, <3>3, EffectTypes
    <3> QED BY <1>5, <3>2, <3>3 DEF Execute
  <2>3. touched' \in SUBSET Requests
    BY <1>5 DEF Execute, TypeOK
  <2> QED BY <1>5, <2>1, <2>2, <2>3 DEF Execute, TypeOK, loopVars
<1> QED BY <1>1, <1>2, <1>3, <1>4, <1>5

\* Every step keeps the types.
LEMMA NextTypes ==
  ASSUME TypeOK, [Next]_vars
  PROVE  TypeOK'
<1>1. ASSUME NEW u \in Requests, NEW role \in Callers,
             UploadData(u, role) \/ ExecuteDataSQL(u, role) \/ Question(u, role)
      PROVE  TypeOK'
  <2>1. role \in Roles
    BY ImportAssumption DEF ImportAssumption
  <2> QED BY <1>1, <2>1, ArriveTypes DEF UploadData, ExecuteDataSQL, Question
<1>2. ASSUME NEW u \in Requests, InternalNL2SQL(u) PROVE TypeOK'
  BY <1>2, ArriveTypes DEF InternalNL2SQL
<1>3. ASSUME NEW u \in Requests, GrantDatasetAccess(u) \/ RevokeDatasetAccess(u)
      PROVE  TypeOK'
  BY <1>3 DEF GrantDatasetAccess, RevokeDatasetAccess, TypeOK, loopVars
<1>4. CASE FindForDelete
  BY <1>4 DEF FindForDelete, TypeOK, loopVars
<1>5. CASE DropTable
  <2>1. phys' \in BOOLEAN
    BY <1>5 DEF DropTable, TypeOK
  <2> QED BY <1>5, <2>1 DEF DropTable, TypeOK, loopVars
<1>6. CASE MarkInactive
  <2>1. meta' \in BOOLEAN
    BY <1>6 DEF MarkInactive, TypeOK
  <2> QED BY <1>6, <2>1 DEF MarkInactive, TypeOK, loopVars
<1>7. ASSUME NEW u \in Requests, Step(u) PROVE TypeOK'
  BY <1>7, WayTypes, ModelTypes, RowTypes, FileTypesKept, SqlTypesKept DEF Step
<1>8. CASE UNCHANGED vars
  BY <1>8 DEF vars, tableVars, loopVars, TypeOK
<1> QED BY <1>1, <1>2, <1>3, <1>4, <1>5, <1>6, <1>7, <1>8 DEF Next

\* Requests, answers, the table and its loops keep their types, for any
\* requests, statements, files and faults of the handlers in data.go.
THEOREM TypeCorrect == Spec => []TypeOK
<1>1. Init => TypeOK
  BY InitTypes
<1>2. TypeOK /\ [Next]_vars => TypeOK'
  BY NextTypes
<1> QED BY <1>1, <1>2, PTL DEF Spec

-----------------------------------------------------------------------------
(* The inductive invariant.                                                *)

\* Init satisfies it.
LEMMA InitSound == Init => ImportInv
<1> SUFFICES ASSUME Init PROVE ImportInv
  OBVIOUS
<1>0. SUFFICES ASSUME NEW u \in Requests PROVE Sound(u)
  BY DEF Init, ImportInv
<1>1. /\ req[u].pc = "idle" /\ req[u].job = "none" /\ req[u].file.ext = "other"
      /\ answer[u] = NoAnswer /\ answer[u].status = "none"
      /\ put[u] = <<>> /\ next[u] = 1 /\ good[u] = 0 /\ bad[u] = 0 /\ errs[u] = {}
      /\ touched = {}
  BY DEF Init, NoReq, NoFile, NoAnswer
<1> QED BY <1>1 DEF Sound, Begun, Placed, Looping, RowsTold, StatementsTold, CutTold

\* Sound speaks of one request: another one's step keeps it.
LEMMA FrameSound ==
  ASSUME NEW u \in Requests, Sound(u),
         req'[u] = req[u] /\ answer'[u] = answer[u],
         next'[u] = next[u] /\ good'[u] = good[u] /\ bad'[u] = bad[u],
         errs'[u] = errs[u] /\ put'[u] = put[u],
         u \in touched' => u \in touched
  PROVE  Sound(u)'
<1>1. Begun(u)' /\ Placed(u)' /\ CutTold(u)'
  BY DEF Sound, Begun, Placed, CutTold
<1>2. Looping(u)' /\ RowsTold(u)'
  BY DEF Sound, Looping, RowsTold
<1>3. StatementsTold(u)'
  BY DEF Sound, StatementsTold
<1> QED BY <1>1, <1>2, <1>3 DEF Sound

\* A request that goes on to a later place before or at the start of its loop.
LEMMA MoveSound ==
  ASSUME TypeOK, TypeOK', NEW u \in Requests, Sound(u), Placed(u)',
         req[u].pc \notin {"rows", "file", "done"}, req'[u].pc # "done",
         UNCHANGED <<loopVars, answer>>,
         u \in touched' => req'[u].job # "agent"
  PROVE  Sound(u)'
<1>1. /\ put'[u] = <<>> /\ next'[u] = 1 /\ good'[u] = 0 /\ bad'[u] = 0 /\ errs'[u] = {}
      /\ answer'[u] = NoAnswer
  BY DEF Sound, Begun, loopVars
<1>2. answer'[u].status = "none"
  BY <1>1 DEF NoAnswer
<1>3. Len(req'[u].file.items) \in Nat
  BY ItemsFacts DEF TypeOK, Asked, FileOK
<1>4. Begun(u)'
  BY <1>1 DEF Begun
<1>5. Looping(u)'
  BY <1>1, <1>3 DEF Looping
<1>6. RowsTold(u)' /\ StatementsTold(u)' /\ CutTold(u)'
  BY <1>1, <1>2 DEF RowsTold, StatementsTold, CutTold
<1> QED BY <1>4, <1>5, <1>6 DEF Sound

\* A refusal, which comes before any loop.
LEMMA RefuseSound ==
  ASSUME TypeOK, NEW u \in Requests, Sound(u), Refuse(u),
         req[u].pc \notin {"rows", "file", "done"},
         UNCHANGED <<loopVars, touched>>
  PROVE  Sound(u)'
<1>1. /\ req'[u].pc = "done" /\ req'[u].job = req[u].job /\ req'[u].role = ""
      /\ req'[u].file.ext = "other" /\ answer'[u].status = "refused"
  BY DEF Refuse, NoReq, NoFile, Status, NoAnswer, TypeOK
<1>2. put'[u] = <<>>
  BY DEF Sound, Begun, loopVars
<1>3. Begun(u)' /\ Placed(u)' /\ Looping(u)'
  BY <1>1 DEF Begun, Placed, Looping
<1>4. RowsTold(u)'
  <2>1. \A k \in 1 .. Len(put'[u]) : put'[u][k] = k
    BY <1>2
  <2>2. answer'[u].status \notin {"ok", "failed"}
    BY <1>1
  <2> QED BY <1>2, <2>1, <2>2 DEF RowsTold
<1>5. StatementsTold(u)' /\ CutTold(u)'
  BY <1>1 DEF StatementsTold, CutTold
<1> QED BY <1>1, <1>3, <1>4, <1>5 DEF Sound

\* What Reply leaves of a request.
LEMMA ReplyFacts ==
  ASSUME TypeOK, NEW u \in Requests, NEW a, Reply(u, a)
  PROVE  /\ req'[u].pc = "done" /\ req'[u].job = req[u].job /\ req'[u].role = ""
         /\ req'[u].file = req[u].file /\ answer'[u] = a
BY DEF Reply, TypeOK, Asked

\* The answer of a request that is no upload.
LEMMA AnswerSound ==
  ASSUME TypeOK, NEW u \in Requests, Sound(u), NEW a, Reply(u, a),
         req[u].job # "upload", UNCHANGED loopVars,
         u \in touched' => req[u].job # "agent",
         req[u].job = "terminal" /\ a.status = "ok" =>
           a.n = Least(a.found, MaxRows) /\ (a.truncated <=> a.found > MaxRows)
  PROVE  Sound(u)'
<1>1. /\ req'[u].pc = "done" /\ req'[u].job = req[u].job /\ req'[u].role = ""
      /\ req'[u].file = req[u].file /\ answer'[u] = a
  BY ReplyFacts
<1>2. req[u].file.ext # "sql"
  BY DEF Sound, Placed
<1>3. Begun(u)' /\ Placed(u)' /\ Looping(u)'
  BY <1>1, <1>2 DEF Begun, Placed, Looping
<1>4. RowsTold(u)' /\ StatementsTold(u)' /\ CutTold(u)'
  BY <1>1, <1>2 DEF RowsTold, StatementsTold, CutTold
<1> QED BY <1>1, <1>3, <1>4 DEF Sound

\* What Continue leaves of a request.
LEMMA ContinueFacts ==
  ASSUME TypeOK, NEW u \in Requests, NEW p, Continue(u, p)
  PROVE  /\ req'[u].pc = p /\ req'[u].job = req[u].job /\ req'[u].role = req[u].role
         /\ req'[u].file = req[u].file /\ UNCHANGED answer
BY DEF Continue, Goto, TypeOK, Asked

\* The steps before the loops.
LEMMA WaySound ==
  ASSUME TypeOK, TypeOK', NEW u \in Requests, Sound(u),
         CheckAccess(u) \/ FindTable(u) \/ GetPool(u) \/ ReadFields(u) \/ AskModel(u)
  PROVE  Sound(u)'
<1>0. /\ req[u].pc \in {"access", "table", "pool", "fields", "model"}
      /\ UNCHANGED <<loopVars, touched>>
  BY DEF CheckAccess, FindTable, GetPool, ReadFields, AskModel
<1>1. CASE Refuse(u)
  BY <1>0, <1>1, RefuseSound
<1>2. ASSUME UNCHANGED answer, Placed(u)', req'[u].pc # "done", req'[u].job = req[u].job
      PROVE  Sound(u)'
  <2>1. u \in touched' => req'[u].job # "agent"
    BY <1>0, <1>2 DEF Sound
  <2> QED BY <1>0, <1>2, <2>1, MoveSound
<1>3. Placed(u) /\ req[u] \in Asked
  BY DEF Sound, TypeOK
<1>4. CASE CheckAccess(u)
  <2>1. CASE req[u].job = "upload" /\ UNCHANGED answer
             /\ req' = [req EXCEPT ![u] = [@ EXCEPT !.pc = "table", !.role = ""]]
    <3>1. /\ req'[u].pc = "table" /\ req'[u].job = req[u].job
          /\ req'[u].file = req[u].file
      BY <1>3, <2>1 DEF TypeOK, Asked
    <3>2. Placed(u)'
      BY <1>0, <1>3, <1>4, <2>1, <3>1 DEF Placed, CheckAccess
    <3> QED BY <1>2, <2>1, <3>1, <3>2
  <2>2. ASSUME NEW s \in Stmts, req[u].job = "terminal", UNCHANGED answer,
               req' = [req EXCEPT ![u] = [@ EXCEPT !.pc = "pool", !.role = "", !.stmt = s]]
        PROVE  Sound(u)'
    <3>1. /\ req'[u].pc = "pool" /\ req'[u].job = req[u].job
          /\ req'[u].file = req[u].file
      BY <1>3, <2>2 DEF TypeOK, Asked
    <3>2. Placed(u)'
      BY <1>0, <1>3, <1>4, <2>2, <3>1 DEF Placed, CheckAccess
    <3> QED BY <1>2, <2>2, <3>1, <3>2
  <2> QED BY <1>1, <1>4, <2>1, <2>2 DEF CheckAccess
<1>5. CASE FindTable(u)
  <2>1. CASE Continue(u, "pool")
    <3>1. /\ req'[u].pc = "pool" /\ req'[u].job = req[u].job
          /\ req'[u].file = req[u].file
      BY <2>1, ContinueFacts
    <3>2. req[u].pc = "table"
      BY <1>5 DEF FindTable
    <3>3. Placed(u)'
      BY <1>3, <3>1, <3>2 DEF Placed
    <3> QED BY <1>2, <2>1, <3>1, <3>3 DEF Continue
  <2> QED BY <1>1, <1>5, <2>1 DEF FindTable
<1>6. CASE GetPool(u)
  <2>1. ASSUME req[u].job = "terminal", NEW p \in {"explain", "exec"}, Continue(u, p)
        PROVE  Sound(u)'
    <3>1. Placed(u)' /\ req'[u].pc = p /\ req'[u].job = req[u].job
      BY <1>3, <1>6, <2>1, ContinueFacts DEF Placed, GetPool
    <3> QED BY <1>2, <2>1, <3>1 DEF Continue
  <2>2. ASSUME req[u].job = "upload", NEW f \in File, Parses(f), UNCHANGED answer,
               req' = [req EXCEPT ![u] =
                        [@ EXCEPT !.pc = IF f.ext = "sql" THEN "file" ELSE "fields",
                                  !.file = Parsed(f)]]
        PROVE  Sound(u)'
    <3>1. Parsed(f).ext = "sql" <=> f.ext = "sql"
      BY <2>2, ParsedTypes
    <3>2. /\ req'[u].pc = IF f.ext = "sql" THEN "file" ELSE "fields"
          /\ req'[u].job = req[u].job /\ req'[u].file = Parsed(f)
      BY <1>3, <2>2 DEF TypeOK, Asked
    <3>3. CASE f.ext = "sql"
      <4>1. req'[u].pc = "file" /\ req'[u].file.ext = "sql" /\ req'[u].job = "upload"
        BY <2>2, <3>1, <3>2, <3>3
      <4>2. Placed(u)'
        BY <4>1 DEF Placed
      <4> QED BY <1>2, <2>2, <4>1, <4>2
    <3>4. CASE f.ext # "sql"
      <4>1. req'[u].pc = "fields" /\ req'[u].file.ext # "sql" /\ req'[u].job = "upload"
        BY <2>2, <3>1, <3>2, <3>4
      <4>2. Placed(u)'
        BY <4>1 DEF Placed
      <4> QED BY <1>2, <2>2, <4>1, <4>2
    <3> QED BY <3>3, <3>4
  <2> QED BY <1>1, <1>6, <2>1, <2>2 DEF GetPool
<1>7. ASSUME req[u].pc \in {"fields", "model"}, NEW p \in {"model", "rows"}, Continue(u, p)
      PROVE  Sound(u)'
  <2>1. Placed(u)' /\ req'[u].pc = p /\ req'[u].job = req[u].job
    BY <1>3, <1>7, ContinueFacts DEF Placed
  <2> QED BY <1>2, <1>7, <2>1 DEF Continue
<1>8. CASE ReadFields(u)
  BY <1>1, <1>7, <1>8 DEF ReadFields, BasicCheck
<1>9. CASE AskModel(u)
  <2>1. ASSUME NEW c \in {"match", "other"}, UNCHANGED answer,
               req' = [req EXCEPT ![u] = [@ EXCEPT !.pc = "rows", !.file.cols = c]]
        PROVE  Sound(u)'
    <3>1. req[u].file \in FileOK
      BY <1>3 DEF Asked
    <3>2. /\ req'[u].pc = "rows" /\ req'[u].job = req[u].job
          /\ req'[u].role = req[u].role /\ req'[u].file.ext = req[u].file.ext
      BY <1>3, <2>1, <3>1 DEF TypeOK, Asked, FileOK
    <3>3. Placed(u)'
      BY <1>3, <1>9, <3>2 DEF Placed, AskModel
    <3> QED BY <1>2, <2>1, <3>2, <3>3
  <2>2. CASE UNCHANGED <<req, answer>>
    BY <1>0, <2>2, FrameSound DEF loopVars
  <2> QED BY <1>1, <1>7, <1>9, <2>1, <2>2 DEF AskModel, Verdict, BasicCheck
<1> QED BY <1>4, <1>5, <1>6, <1>8, <1>9

\* Numbers and lengths of a request, from the types.
LEMMA Counts ==
  ASSUME TypeOK, NEW u \in Requests
  PROVE  /\ next[u] \in Nat \ {0} /\ good[u] \in Nat /\ bad[u] \in Nat
         /\ put[u] \in Seq(Nat) /\ Len(put[u]) \in Nat
         /\ Len(req[u].file.items) \in Nat
<1>1. next[u] \in Nat \ {0} /\ good[u] \in Nat /\ bad[u] \in Nat /\ put[u] \in Seq(Nat)
  BY DEF TypeOK
<1>2. req[u].file.items \in SeqOf({"full", "short"} \cup FileTypes)
  BY DEF TypeOK, Asked, FileOK
<1> QED BY <1>1, <1>2, ItemsFacts

\* A row of a CSV or XLSX file, and the answer after the last one.
LEMMA RowsSound ==
  ASSUME TypeOK, NEW u \in Requests, Sound(u), InsertRow(u) \/ RowsDone(u)
  PROVE  Sound(u)'
<1>0. /\ req[u].pc = "rows" /\ req[u].job = "upload" /\ req[u].file.ext # "sql"
      /\ Len(put[u]) = next[u] - 1 /\ next[u] <= Len(req[u].file.items) + 1
      /\ \A k \in 1 .. Len(put[u]) : put[u][k] = k
      /\ touched' = touched /\ (u \in touched => req[u].job # "agent")
  BY DEF InsertRow, RowsDone, Sound, Placed, Looping, RowsTold
<1>1. /\ next[u] \in Nat \ {0} /\ put[u] \in Seq(Nat) /\ Len(put[u]) \in Nat
      /\ Len(req[u].file.items) \in Nat
  BY Counts
<1>2. ASSUME NEW a, Reply(u, a), a.status \in {"ok", "failed"},
             \A k \in 1 .. Len(put'[u]) : put'[u][k] = k,
             a.status = "ok" => Len(put'[u]) = a.n /\ a.n = Len(req[u].file.items),
             a.status = "failed" => Len(put'[u]) \in {a.n - 1, a.n}
      PROVE  Sound(u)'
  <2>1. /\ req'[u].pc = "done" /\ req'[u].job = req[u].job /\ req'[u].role = ""
        /\ req'[u].file = req[u].file /\ answer'[u] = a
    BY <1>2, ReplyFacts
  <2>2. Begun(u)' /\ Placed(u)' /\ Looping(u)'
    BY <1>0, <2>1 DEF Begun, Placed, Looping
  <2>3. RowsTold(u)'
    BY <1>2, <2>1 DEF RowsTold
  <2>4. StatementsTold(u)' /\ CutTold(u)'
    BY <1>0, <2>1 DEF StatementsTold, CutTold
  <2> QED BY <1>0, <2>1, <2>2, <2>3, <2>4 DEF Sound
<1>3. ASSUME Stored(u)
      PROVE  /\ Len(put'[u]) = next[u]
             /\ \A k \in 1 .. Len(put'[u]) : put'[u][k] = k
  <2>1. put'[u] = Append(put[u], next[u])
    BY <1>3 DEF Stored, TypeOK
  <2> QED BY <1>0, <1>1, <2>1, AppendFacts
<1>4. ASSUME NEW s \in {"ok", "failed"}, NEW n
      PROVE  Status(s, n).status = s /\ Status(s, n).n = n
  BY DEF Status, NoAnswer
<1>5. CASE RowsDone(u)
  <2>1. Reply(u, Status("ok", next[u] - 1)) /\ put' = put
        /\ next[u] - 1 = Len(req[u].file.items)
    BY <1>0, <1>1, <1>5 DEF RowsDone, loopVars
  <2> QED BY <1>0, <1>2, <1>4, <2>1
<1>6. CASE InsertRow(u)
  <2>1. CASE Stored(u) /\ next' = [next EXCEPT ![u] = @ + 1] /\ UNCHANGED <<req, answer>>
    <3>1. next'[u] = next[u] + 1 /\ req'[u] = req[u] /\ answer'[u] = answer[u]
      BY <2>1 DEF TypeOK
    <3>2. answer[u].status = "none"
      BY <1>0 DEF Sound, Begun, NoAnswer
    <3>3. next[u] <= Len(req[u].file.items)
      BY <1>6 DEF InsertRow
    <3>4. Begun(u)' /\ Placed(u)'
      BY <1>0, <3>1 DEF Sound, Begun, Placed
    <3>5. Looping(u)'
      BY <1>0, <1>1, <1>3, <2>1, <3>1, <3>3 DEF Looping
    <3>6. RowsTold(u)'
      BY <1>3, <2>1, <3>1, <3>2 DEF RowsTold
    <3>7. StatementsTold(u)' /\ CutTold(u)'
      BY <1>0, <3>1 DEF StatementsTold, CutTold
    <3> QED BY <1>0, <3>1, <3>4, <3>5, <3>6, <3>7 DEF Sound
  <2>2. CASE Reply(u, Status("failed", next[u])) /\ UNCHANGED put
    BY <1>0, <1>2, <1>4, <2>2
  <2>3. CASE Reply(u, Status("failed", next[u])) /\ Stored(u)
    BY <1>2, <1>3, <1>4, <2>3
  <2> QED BY <1>6, <2>1, <2>2, <2>3 DEF InsertRow
<1> QED BY <1>5, <1>6

\* The answer to a SQL file.
LEMMA FileDoneSound ==
  ASSUME TypeOK, NEW u \in Requests, Sound(u), FileDone(u)
  PROVE  Sound(u)'
<1>0. /\ req[u].pc = "file" /\ req[u].job = "upload" /\ req[u].file.ext = "sql"
      /\ next[u] > Len(req[u].file.items) /\ next[u] <= Len(req[u].file.items) + 1
      /\ good[u] + bad[u] = next[u] - 1 /\ (bad[u] = 0 <=> errs[u] = {})
      /\ UNCHANGED <<loopVars, touched>>
  BY DEF FileDone, Sound, Placed, Looping
<1>1. PICK s \in {"ok", "partial"} :
        Reply(u, Status(s, good[u])) /\ (s = "ok" <=> bad[u] = 0)
  BY DEF FileDone
<1>2. Status(s, good[u]).status = s
  BY DEF Status, NoAnswer
<1>3. /\ req'[u].pc = "done" /\ req'[u].job = req[u].job /\ req'[u].role = ""
      /\ req'[u].file = req[u].file /\ answer'[u].status = s
  BY <1>1, <1>2, ReplyFacts
<1>4. Begun(u)' /\ Placed(u)' /\ Looping(u)'
  BY <1>0, <1>3 DEF Begun, Placed, Looping
<1>5. good[u] + bad[u] = Len(req[u].file.items)
  <2>1. good[u] + bad[u] = next[u] - 1 /\ next[u] > Len(req[u].file.items)
        /\ next[u] <= Len(req[u].file.items) + 1
    BY <1>0
  <2>2. next[u] \in Nat /\ good[u] \in Nat /\ bad[u] \in Nat /\ Len(req[u].file.items) \in Nat
    BY Counts
  <2> QED BY <2>1, <2>2
<1>6. StatementsTold(u)'
  BY <1>0, <1>1, <1>3, <1>5 DEF StatementsTold, Sound, loopVars
<1>7. RowsTold(u)' /\ CutTold(u)'
  BY <1>0, <1>3 DEF RowsTold, CutTold
<1> QED BY <1>0, <1>3, <1>4, <1>6, <1>7 DEF Sound

\* A statement of a SQL file: whatever becomes of it is recorded.
LEMMA StatementSound ==
  ASSUME TypeOK, NEW u \in Requests, Sound(u), RunStatement(u)
  PROVE  Sound(u)'
<1>0. /\ req[u].pc = "file" /\ req[u].job = "upload" /\ req[u].file.ext = "sql"
      /\ next[u] <= Len(req[u].file.items)
      /\ good[u] + bad[u] = next[u] - 1 /\ (bad[u] = 0 <=> errs[u] = {})
      /\ \A j \in 1 .. Len(put[u]) : put[u][j] < next[u]
      /\ req' = req /\ answer' = answer /\ touched' = touched
      /\ StatementsTold(u)
  BY DEF RunStatement, Sound, Placed, Looping
<1>1. /\ next[u] \in Nat \ {0} /\ good[u] \in Nat /\ bad[u] \in Nat
      /\ put[u] \in Seq(Nat) /\ Len(put[u]) \in Nat
  BY Counts
<1>10. good[u] + bad[u] = next[u] - 1
  BY <1>0
<1>11. next[u] \in Nat /\ good[u] \in Nat /\ bad[u] \in Nat
  BY <1>1
<1>12. \A j \in 1 .. Len(put[u]) : put[u][j] < next[u] /\ put[u][j] \in Nat
  BY <1>0, <1>1
<1>2. next'[u] = next[u] + 1
  BY DEF RunStatement, TypeOK
<1>13. /\ req'[u].pc = "file" /\ next'[u] <= Len(req'[u].file.items) + 1
      /\ next'[u] - 1 = next[u]
  <2>1. next[u] <= Len(req[u].file.items) /\ req' = req /\ req[u].pc = "file"
    BY <1>0
  <2>2. Len(req[u].file.items) \in Nat
    BY Counts
  <2> QED BY <1>11, <1>2, <2>1, <2>2
<1>3. answer[u].status = "none"
  BY <1>0 DEF Sound, Begun, NoAnswer
<1>4. Begun(u)' /\ Placed(u)' /\ RowsTold(u)' /\ CutTold(u)'
  BY <1>0 DEF Sound, Begun, Placed, RowsTold, CutTold
<1>5. ASSUME Executed(u), Allowed(u)
      PROVE  /\ Len(put'[u]) = Len(put[u]) + 1 /\ put'[u][Len(put[u]) + 1] = next[u]
             /\ \A j \in 1 .. Len(put[u]) : put'[u][j] = put[u][j]
             /\ req[u].file.items[next[u]] \in {"INSERT", "UPDATE"}
  <2>1. put'[u] = Append(put[u], next[u])
    BY <1>5 DEF Executed, TypeOK
  <2> QED BY <1>1, <1>5, <2>1, AppendFacts DEF Allowed, Type, validateSQLStatement
<1>6. ASSUME Complain(u)
      PROVE  errs'[u] = errs[u] \cup {next[u]} /\ bad'[u] = bad[u] + 1
  BY <1>6 DEF Complain, TypeOK
<1>7. ASSUME good'[u] + bad'[u] = next[u], bad'[u] = 0 <=> errs'[u] = {},
             errs[u] \subseteq errs'[u],
             \/ put'[u] = put[u] /\ next[u] \in errs'[u]
             \/ Executed(u) /\ Allowed(u)
      PROVE  Sound(u)'
  <2>1. CASE put'[u] = put[u] /\ next[u] \in errs'[u]
    <3>0. \A j \in 1 .. Len(put'[u]) : put'[u][j] < next'[u]
      BY <1>11, <1>12, <1>2, <2>1
    <3>1. Looping(u)'
      BY <1>13, <1>7, <3>0 DEF Looping
    <3>2. \A k \in 1 .. next'[u] - 1 :
            k \in errs'[u] \/ \E j \in 1 .. Len(put'[u]) : put'[u][j] = k
      <4>1. SUFFICES ASSUME NEW k \in 1 .. next'[u] - 1, k \notin errs'[u]
                     PROVE  \E j \in 1 .. Len(put'[u]) : put'[u][j] = k
        OBVIOUS
      <4>2. k # next[u] /\ k \notin errs[u]
        BY <1>7, <2>1, <4>1
      <4>3. k \in 1 .. next[u] - 1
        BY <1>11, <1>2, <4>2
      <4> QED BY <1>0, <2>1, <4>2, <4>3 DEF StatementsTold
    <3>3. StatementsTold(u)'
      BY <1>0, <1>3, <2>1, <3>2 DEF StatementsTold
    <3> QED BY <1>0, <1>4, <3>1, <3>3 DEF Sound
  <2>2. CASE Executed(u) /\ Allowed(u)
    <3> DEFINE n == Len(put[u])
    <3>1. /\ Len(put'[u]) = n + 1 /\ put'[u][n + 1] = next[u]
          /\ \A j \in 1 .. n : put'[u][j] = put[u][j]
          /\ req[u].file.items[next[u]] \in {"INSERT", "UPDATE"}
      BY <1>5, <2>2
    <3>2. \A j \in 1 .. n + 1 : j \in 1 .. n \/ j = n + 1
      BY <1>1
    <3>3. \A j \in 1 .. Len(put'[u]) : put'[u][j] < next'[u]
      <4>1. SUFFICES ASSUME NEW j \in 1 .. n + 1 PROVE put'[u][j] < next[u] + 1
        BY <1>2, <3>1
      <4>2. CASE j = n + 1
        BY <1>11, <3>1, <4>2
      <4>3. CASE j \in 1 .. n
        BY <1>11, <1>12, <3>1, <4>3
      <4> QED BY <3>2, <4>2, <4>3
    <3>4. Looping(u)'
      BY <1>13, <1>7, <3>3 DEF Looping
    <3>5. \A k \in 1 .. next'[u] - 1 :
            k \in errs'[u] \/ \E j \in 1 .. Len(put'[u]) : put'[u][j] = k
      <4>1. SUFFICES ASSUME NEW k \in 1 .. next'[u] - 1, k \notin errs'[u]
                     PROVE  \E j \in 1 .. Len(put'[u]) : put'[u][j] = k
        OBVIOUS
      <4>2. CASE k = next[u]
        BY <1>1, <3>1, <4>2
      <4>3. CASE k # next[u]
        <5>1. k \in 1 .. next[u] - 1 /\ k \notin errs[u]
          BY <1>1, <1>2, <1>7, <4>1, <4>3
        <5>2. PICK j \in 1 .. n : put[u][j] = k
          BY <1>0, <5>1 DEF StatementsTold
        <5>3. j \in 1 .. Len(put'[u]) /\ put'[u][j] = k
          BY <1>1, <3>1, <5>2
        <5> QED BY <5>3
      <4> QED BY <4>2, <4>3
    <3>6. \A j \in 1 .. Len(put'[u]) :
            req'[u].file.items[put'[u][j]] \in {"INSERT", "UPDATE"}
      BY <1>0, <3>1, <3>2 DEF StatementsTold
    <3>7. \A j, k \in 1 .. Len(put'[u]) : j < k => put'[u][j] < put'[u][k]
      <4>1. SUFFICES ASSUME NEW j \in 1 .. n + 1, NEW k \in 1 .. n + 1, j < k
                     PROVE  put'[u][j] < put'[u][k]
        BY <3>1
      <4>2. j \in 1 .. n
        BY <1>1, <4>1
      <4>3. CASE k = n + 1
        BY <1>0, <3>1, <4>2, <4>3
      <4>4. CASE k \in 1 .. n
        BY <1>0, <3>1, <4>1, <4>2, <4>4 DEF StatementsTold
      <4> QED BY <3>2, <4>3, <4>4
    <3>8. StatementsTold(u)'
      BY <1>0, <1>3, <3>5, <3>6, <3>7 DEF StatementsTold
    <3> QED BY <1>0, <1>4, <3>4, <3>8 DEF Sound
  <2> QED BY <1>7, <2>1, <2>2
<1>8. CASE Allowed(u) /\ Executed(u) /\ good' = [good EXCEPT ![u] = @ + 1]
           /\ UNCHANGED <<errs, bad>>
  <2>1. good'[u] = good[u] + 1
    BY <1>8 DEF TypeOK
  <2>2. good'[u] + bad'[u] = next[u]
    BY <1>10, <1>11, <1>8, <2>1
  <2> QED BY <1>0, <1>7, <1>8, <2>2
<1>9. CASE Complain(u) /\ UNCHANGED good /\ (put' = put \/ (Executed(u) /\ Allowed(u)))
  <2>1. good'[u] + bad'[u] = next[u] /\ bad'[u] # 0
    BY <1>10, <1>11, <1>6, <1>9
  <2>2. next[u] \in errs'[u] /\ errs[u] \subseteq errs'[u]
    BY <1>6, <1>9
  <2> QED BY <1>7, <1>9, <2>1, <2>2
<1> QED BY <1>8, <1>9 DEF RunStatement

\* Generated SQL and the terminal.
LEMMA SqlSound ==
  ASSUME TypeOK, TypeOK', NEW u \in Requests, Sound(u),
         Generate(u) \/ Explain(u) \/ Query(u) \/ ReadGenerated(u) \/ Execute(u)
  PROVE  Sound(u)'
<1>0. /\ req[u].pc \in {"generate", "explain", "query", "read", "exec"}
      /\ UNCHANGED loopVars /\ Placed(u) /\ req[u] \in Asked
  BY DEF Generate, Explain, Query, ReadGenerated, Execute, Sound, TypeOK
<1>1. req[u].job # "upload" /\ MaxRows \in Nat
  BY <1>0, ImportAssumption DEF Placed, ImportAssumption
<1>2. u \in touched => req[u].job # "agent"
  BY DEF Sound
<1>3. ASSUME NEW s \in {"ok", "failed"}
      PROVE  /\ Status(s, 0).n = Least(Status(s, 0).found, MaxRows)
             /\ Status(s, 0).truncated <=> Status(s, 0).found > MaxRows
  BY <1>1 DEF Status, NoAnswer, Least
<1>4. CASE Generate(u)
  <2>1. touched' = touched /\ req[u].pc = "generate"
    BY <1>4 DEF Generate
  <2>2. CASE Refuse(u)
    BY <1>0, <2>1, <2>2, RefuseSound
  <2>3. ASSUME NEW s \in Stmts, Route(s, req[u].role) # "refused", UNCHANGED answer,
               req' = [req EXCEPT ![u] =
                        [@ EXCEPT !.stmt = s,
                                  !.pc = IF Route(s, req[u].role) = "read" THEN "read"
                                         ELSE "exec"]]
        PROVE  Sound(u)'
    <3>1. /\ req'[u].pc = IF Route(s, req[u].role) = "read" THEN "read" ELSE "exec"
          /\ req'[u].job = req[u].job /\ req'[u].role = req[u].role
          /\ req'[u].file = req[u].file
      BY <1>0, <2>3 DEF TypeOK, Asked
    <3>2. req[u].job = "agent" => req'[u].pc = "read"
      <4>1. SUFFICES ASSUME req[u].job = "agent" PROVE Route(s, req[u].role) = "read"
        BY <3>1
      <4>2. req[u].role = ""
        BY <1>0, <4>1 DEF Placed
      <4>3. s.type \in SQLTypes
        BY ImportAssumption DEF ImportAssumption, Statement
      <4>4. ~IsAllowedForRole(s.type, "")
        BY <4>3, NoRole
      <4> QED BY <2>3, <4>2, <4>4 DEF Route
    <3>3. req'[u].pc \in {"read", "exec"}
      BY <3>1
    <3>4. Placed(u)'
      BY <1>0, <1>1, <2>1, <3>1, <3>2, <3>3 DEF Placed
    <3>5. u \in touched' => req'[u].job # "agent"
      BY <1>2, <2>1, <3>1
    <3> QED BY <1>0, <2>1, <2>3, <3>3, <3>4, <3>5, MoveSound
  <2> QED BY <1>4, <2>2, <2>3 DEF Generate
<1>5. CASE Explain(u)
  <2>1. touched' = touched /\ req[u].pc = "explain"
    BY <1>5 DEF Explain
  <2>2. CASE Refuse(u)
    BY <1>0, <2>1, <2>2, RefuseSound
  <2>3. CASE Continue(u, "query")
    <3>1. /\ req'[u].pc = "query" /\ req'[u].job = req[u].job
          /\ req'[u].role = req[u].role /\ req'[u].file = req[u].file /\ UNCHANGED answer
      BY <2>3, ContinueFacts
    <3>2. Placed(u)'
      BY <1>0, <2>1, <3>1 DEF Placed
    <3>3. u \in touched' => req'[u].job # "agent"
      BY <1>2, <2>1, <3>1
    <3> QED BY <1>0, <2>1, <3>1, <3>2, <3>3, MoveSound
  <2> QED BY <1>5, <2>2, <2>3 DEF Explain
<1>6. CASE Query(u)
  <2>1. touched' = touched /\ req[u].pc = "query"
    BY <1>6 DEF Query
  <2>2. CASE Refuse(u)
    BY <1>0, <2>1, <2>2, RefuseSound
  <2>3. ASSUME NEW found \in 0 .. rows,
               Reply(u, [status |-> "ok", n |-> Least(Least(found, TerminalLimit), MaxRows),
                         found |-> found,
                         truncated |-> Least(found, TerminalLimit) > MaxRows])
        PROVE  Sound(u)'
    <3>1. found \in Nat
      BY DEF TypeOK
    <3>2. /\ Least(Least(found, TerminalLimit), MaxRows) = Least(found, MaxRows)
          /\ Least(found, TerminalLimit) > MaxRows <=> found > MaxRows
      BY <1>1, <3>1 DEF Least, TerminalLimit
    <3> QED BY <1>0, <1>1, <1>2, <2>1, <2>3, <3>2, AnswerSound
  <2> QED BY <1>6, <2>2, <2>3 DEF Query
<1>7. CASE ReadGenerated(u)
  <2>1. touched' = touched
    BY <1>7 DEF ReadGenerated
  <2>2. ASSUME NEW s \in {"ok", "failed"}, Reply(u, Status(s, 0)) PROVE Sound(u)'
    BY <1>0, <1>1, <1>2, <1>3, <2>1, <2>2, AnswerSound
  <2> QED BY <1>7, <2>2 DEF ReadGenerated
<1>8. CASE Execute(u)
  <2>1. req[u].job # "agent"
    BY <1>0, <1>8 DEF Placed, Execute
  <2>2. ASSUME NEW s \in {"ok", "failed"}, Reply(u, Status(s, 0)) PROVE Sound(u)'
    BY <1>0, <1>1, <1>3, <2>1, <2>2, AnswerSound
  <2> QED BY <1>8, <2>2 DEF Execute
<1> QED BY <1>4, <1>5, <1>6, <1>7, <1>8

\* A step of a request changes nothing of another one.
LEMMA StepFrame ==
  ASSUME TypeOK, NEW u \in Requests, NEW v \in Requests, v # u, Step(u)
  PROVE  /\ req'[v] = req[v] /\ answer'[v] = answer[v]
         /\ next'[v] = next[v] /\ good'[v] = good[v] /\ bad'[v] = bad[v]
         /\ errs'[v] = errs[v] /\ put'[v] = put[v]
         /\ v \in touched' => v \in touched
<1>1. ASSUME NEW a, Reply(u, a) PROVE req'[v] = req[v] /\ answer'[v] = answer[v]
  BY <1>1 DEF Reply, TypeOK
<1>2. ASSUME Refuse(u) PROVE req'[v] = req[v] /\ answer'[v] = answer[v]
  BY <1>2 DEF Refuse, TypeOK
<1>3. ASSUME NEW p, Continue(u, p) PROVE req'[v] = req[v] /\ answer'[v] = answer[v]
  BY <1>3 DEF Continue, Goto, TypeOK
<1>4. CASE CheckAccess(u)
  BY <1>2, <1>4 DEF CheckAccess, loopVars, TypeOK
<1>5. CASE FindTable(u) \/ Explain(u)
  BY <1>2, <1>3, <1>5 DEF FindTable, Explain, loopVars
<1>6. CASE GetPool(u)
  BY <1>2, <1>3, <1>6 DEF GetPool, loopVars, TypeOK
<1>7. CASE ReadFields(u)
  BY <1>2, <1>3, <1>7 DEF ReadFields, BasicCheck, loopVars
<1>8. CASE AskModel(u)
  BY <1>2, <1>3, <1>8 DEF AskModel, Verdict, BasicCheck, loopVars, TypeOK
<1>9. CASE InsertRow(u) \/ RowsDone(u)
  BY <1>1, <1>9 DEF InsertRow, RowsDone, Stored, loopVars, TypeOK
<1>10. CASE RunStatement(u)
  BY <1>10 DEF RunStatement, Executed, Complain, TypeOK
<1>11. CASE FileDone(u)
  BY <1>1, <1>11 DEF FileDone, loopVars
<1>12. CASE Query(u)
  BY <1>1, <1>2, <1>12 DEF Query, loopVars
<1>13. CASE Generate(u)
  BY <1>2, <1>13 DEF Generate, loopVars, TypeOK
<1>14. CASE ReadGenerated(u)
  BY <1>1, <1>14 DEF ReadGenerated, loopVars
<1>15. CASE Execute(u)
  BY <1>1, <1>15 DEF Execute, loopVars
<1> QED BY <1>4, <1>5, <1>6, <1>7, <1>8, <1>9, <1>10, <1>11, <1>12, <1>13, <1>14, <1>15
        DEF Step

\* An arrival at a slot.
LEMMA ArriveSound ==
  ASSUME TypeOK, TypeOK', NEW u \in Requests, Sound(u),
         NEW job \in {"upload", "terminal", "question", "plain", "agent"},
         NEW role, NEW pc \in {"access", "generate"}, Arrive(u, job, role, pc),
         pc = "access" => job \in {"upload", "terminal"},
         pc = "generate" => job \notin {"upload", "terminal"},
         job = "agent" => role = "" /\ u \notin touched
  PROVE  Sound(u)'
<1>1. /\ req'[u].pc = pc /\ req'[u].job = job /\ req'[u].role = role
      /\ req'[u].file.ext = "other"
  BY DEF Arrive, NoReq, NoFile, TypeOK
<1>2. Placed(u)'
  BY <1>1 DEF Placed
<1>3. req[u].pc = "idle" /\ UNCHANGED <<loopVars, answer, touched>>
  BY DEF Arrive
<1>4. u \in touched' => req'[u].job # "agent"
  BY <1>1, <1>3
<1> QED BY <1>1, <1>2, <1>3, <1>4, MoveSound

\* A step of a request that had not ended leaves it ended if it wrote to the
\* platform database.
LEMMA TouchedEnds ==
  ASSUME TypeOK, ImportInv, NEW u \in Requests, Step(u), u \in touched'
  PROVE  req'[u].pc = "done"
<1>1. CASE Execute(u)
  <2>1. ASSUME NEW a, Reply(u, a) PROVE req'[u].pc = "done"
    BY <2>1, ReplyFacts
  <2> QED BY <1>1, <2>1 DEF Execute, ImportInv
<1>2. CASE CheckAccess(u)
  BY <1>2 DEF CheckAccess, ImportInv
<1>3. CASE FindTable(u)
  BY <1>3 DEF FindTable, ImportInv
<1>4. CASE GetPool(u)
  BY <1>4 DEF GetPool, ImportInv
<1>5. CASE ReadFields(u)
  BY <1>5 DEF ReadFields, ImportInv
<1>6. CASE AskModel(u)
  BY <1>6 DEF AskModel, ImportInv
<1>7. CASE InsertRow(u)
  BY <1>7 DEF InsertRow, ImportInv
<1>8. CASE RowsDone(u)
  BY <1>8 DEF RowsDone, ImportInv
<1>9. CASE RunStatement(u)
  BY <1>9 DEF RunStatement, ImportInv
<1>10. CASE FileDone(u)
  BY <1>10 DEF FileDone, ImportInv
<1>11. CASE Explain(u)
  BY <1>11 DEF Explain, ImportInv
<1>12. CASE Query(u)
  BY <1>12 DEF Query, ImportInv
<1>13. CASE Generate(u)
  BY <1>13 DEF Generate, ImportInv
<1>14. CASE ReadGenerated(u)
  BY <1>14 DEF ReadGenerated, ImportInv
<1> QED BY <1>1, <1>2, <1>3, <1>4, <1>5, <1>6, <1>7,
           <1>8, <1>9, <1>10, <1>11, <1>12, <1>13, <1>14 DEF Step

\* A step of a request keeps the invariant.
LEMMA StepSound ==
  ASSUME TypeOK, TypeOK', ImportInv, NEW u \in Requests, Step(u)
  PROVE  ImportInv'
<1>0. Sound(u)
  BY DEF ImportInv
<1>1. Sound(u)'
  <2>1. CASE CheckAccess(u) \/ FindTable(u) \/ GetPool(u) \/ ReadFields(u) \/ AskModel(u)
    BY <1>0, <2>1, WaySound
  <2>2. CASE InsertRow(u) \/ RowsDone(u)
    BY <1>0, <2>2, RowsSound
  <2>3. CASE RunStatement(u)
    BY <1>0, <2>3, StatementSound
  <2>4. CASE FileDone(u)
    BY <1>0, <2>4, FileDoneSound
  <2>5. CASE Generate(u) \/ Explain(u) \/ Query(u) \/ ReadGenerated(u) \/ Execute(u)
    BY <1>0, <2>5, SqlSound
  <2> QED BY <2>1, <2>2, <2>3, <2>4, <2>5 DEF Step
<1>2. ASSUME NEW v \in Requests, v # u PROVE Sound(v)'
  <2>1. Sound(v)
    BY DEF ImportInv
  <2> QED BY <1>2, <2>1, StepFrame, FrameSound
<1>3. ASSUME NEW v \in touched' PROVE req'[v].pc = "done"
  <2>1. v \in Requests
    BY DEF TypeOK
  <2>2. CASE v = u
    BY <1>3, <2>2, TouchedEnds
  <2>3. CASE v # u
    <3>1. req'[v] = req[v] /\ v \in touched
      BY <1>3, <2>1, <2>3, StepFrame
    <3> QED BY <3>1 DEF ImportInv
  <2> QED BY <2>2, <2>3
<1> QED BY <1>1, <1>2, <1>3 DEF ImportInv

\* An arrival keeps the invariant.
LEMMA ArrivalSound ==
  ASSUME TypeOK, TypeOK', ImportInv, NEW u \in Requests,
         NEW job \in {"upload", "terminal", "question", "plain", "agent"},
         NEW role, NEW pc \in {"access", "generate"}, Arrive(u, job, role, pc),
         pc = "access" => job \in {"upload", "terminal"},
         pc = "generate" => job \notin {"upload", "terminal"},
         job = "agent" => role = ""
  PROVE  ImportInv'
<1>1. req[u].pc = "idle" /\ UNCHANGED <<loopVars, answer, touched>>
  BY DEF Arrive
<1>2. u \notin touched /\ Sound(u)
  BY <1>1 DEF ImportInv
<1>3. Sound(u)'
  BY <1>2, ArriveSound
<1>4. ASSUME NEW v \in Requests, v # u PROVE req'[v] = req[v] /\ Sound(v)'
  <2>1. req'[v] = req[v]
    BY <1>4 DEF Arrive, TypeOK
  <2>2. Sound(v)
    BY DEF ImportInv
  <2>3. /\ answer'[v] = answer[v] /\ next'[v] = next[v] /\ good'[v] = good[v]
        /\ bad'[v] = bad[v] /\ errs'[v] = errs[v] /\ put'[v] = put[v]
        /\ touched' = touched
    BY <1>1 DEF loopVars
  <2> QED BY <2>1, <2>2, <2>3, FrameSound
<1>5. ASSUME NEW v \in touched' PROVE req'[v].pc = "done"
  <2>1. v \in touched /\ v \in Requests /\ v # u
    BY <1>1, <1>2 DEF TypeOK
  <2> QED BY <1>4, <2>1 DEF ImportInv
<1> QED BY <1>3, <1>4, <1>5 DEF ImportInv

\* Administrators change nothing of a request.
LEMMA AdminSound ==
  ASSUME ImportInv, UNCHANGED <<req, loopVars, answer, touched>>
  PROVE  ImportInv'
<1>1. ASSUME NEW v \in Requests PROVE Sound(v)'
  <2>1. Sound(v)
    BY DEF ImportInv
  <2>2. /\ req'[v] = req[v] /\ answer'[v] = answer[v] /\ next'[v] = next[v]
        /\ good'[v] = good[v] /\ bad'[v] = bad[v] /\ errs'[v] = errs[v]
        /\ put'[v] = put[v] /\ touched' = touched
    BY DEF loopVars
  <2> QED BY <2>1, <2>2, FrameSound
<1> QED BY <1>1 DEF ImportInv

\* Every step keeps the invariant.
LEMMA NextSound ==
  ASSUME TypeOK, TypeOK', ImportInv, [Next]_vars
  PROVE  ImportInv'
<1>1. ASSUME NEW u \in Requests, NEW role \in Callers,
             UploadData(u, role) \/ ExecuteDataSQL(u, role)
      PROVE  ImportInv'
  BY <1>1, ArrivalSound DEF UploadData, ExecuteDataSQL
<1>2. ASSUME NEW u \in Requests, NEW role \in Callers, Question(u, role)
      PROVE  ImportInv'
  BY <1>2, ArrivalSound DEF Question
<1>3. ASSUME NEW u \in Requests, InternalNL2SQL(u) PROVE ImportInv'
  BY <1>3, ArrivalSound DEF InternalNL2SQL
<1>4. ASSUME NEW u \in Requests, GrantDatasetAccess(u) \/ RevokeDatasetAccess(u)
      PROVE  ImportInv'
  BY <1>4, AdminSound DEF GrantDatasetAccess, RevokeDatasetAccess
<1>5. CASE FindForDelete \/ DropTable \/ MarkInactive
  BY <1>5, AdminSound DEF FindForDelete, DropTable, MarkInactive
<1>6. ASSUME NEW u \in Requests, Step(u) PROVE ImportInv'
  BY <1>6, StepSound
<1>7. CASE UNCHANGED vars
  BY <1>7, AdminSound DEF vars
<1> QED BY <1>1, <1>2, <1>3, <1>4, <1>5, <1>6, <1>7 DEF Next

-----------------------------------------------------------------------------
\* In every reachable state every request is where and has done what its
\* kind allows (uploads, terminal and generated SQL, data.go and executor.go).
THEOREM ImportConsistent == Spec => []ImportInv
<1>1. Init => ImportInv
  BY InitSound
<1>2. TypeOK /\ TypeOK' /\ ImportInv /\ [Next]_vars => ImportInv'
  BY NextSound
<1> QED BY <1>1, <1>2, TypeCorrect, PTL DEF Spec

\* The rows an upload stored are those its answer speaks of
\* (executeMySQLInsert), for any number of requests, rows and faults.
THEOREM RowsAreTold == Spec => []AnswerTellsRows
<1>1. ImportInv => AnswerTellsRows
  BY DEF ImportInv, Sound, AnswerTellsRows
<1> QED BY <1>1, ImportConsistent, PTL

\* Every statement of a SQL file is accounted for (executeSQLFile).
THEOREM StatementsAreTold == Spec => []StatementsAccounted
<1>1. ImportInv => StatementsAccounted
  BY DEF ImportInv, Sound, StatementsAccounted
<1> QED BY <1>1, ImportConsistent, PTL

\* The terminal says that it cut a result exactly if it did (ExecuteDataSQL),
\* for any number of rows it can show.
THEOREM CutIsTold == Spec => []TruncatedIffMore
<1>1. ImportInv => TruncatedIffMore
  BY DEF ImportInv, Sound, TruncatedIffMore
<1> QED BY <1>1, ImportConsistent, PTL

\* SQL generated for the agent never writes to the platform database
\* (Executor.Execute called by InternalNL2SQL).
THEOREM AgentReadsOnly == Spec => []AgentOnlyReads
<1>1. TypeOK /\ ImportInv => AgentOnlyReads
  BY DEF TypeOK, ImportInv, Sound, AgentOnlyReads
<1> QED BY <1>1, TypeCorrect, ImportConsistent, PTL
=============================================================================
