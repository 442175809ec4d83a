------------------------- MODULE RunLifecycleProofs -------------------------
(***************************************************************************)
(* Proofs about RunLifecycle, for any set of runs, any combination of      *)
(* faults, with or without the reaper, and any number of crashes.          *)
(***************************************************************************)
EXTENDS RunLifecycle, FiniteSetTheorems, TLAPS

-----------------------------------------------------------------------------
(* What the statements shared by all actors do to the types.               *)

\* Publishing an event keeps the log a log.
LEMMA EmitType ==
  ASSUME TablesTypeOK, NEW r \in Runs, NEW ev \in EventType, Emit(r, ev)
  PROVE  log' \in [Runs -> Seq(EventType)]
<1>1. Append(log[r], ev) \in Seq(EventType)
  BY DEF TablesTypeOK
<1> QED
  BY <1>1 DEF TablesTypeOK, Emit

\* Storing an assistant message keeps the count a count.
LEMMA AddMessageType ==
  ASSUME TablesTypeOK, NEW r \in Runs, AddMessage(r)
  PROVE  msgs' \in [Runs -> Nat]
<1>1. msgs[r] + 1 \in Nat
  BY DEF TablesTypeOK
<1> QED
  BY <1>1 DEF TablesTypeOK, AddMessage

\* An UPDATE of runs writes a status the run may have.
LEMMA SetRunType ==
  ASSUME TablesTypeOK, NEW r \in Runs, NEW st \in RunStatus, SetRun(r, st)
  PROVE  runs' \in [Runs -> RunStatus]
BY DEF TablesTypeOK, SetRun

\* An UPDATE of async_tasks writes a status the task may have.
LEMMA SettleTaskType ==
  ASSUME TablesTypeOK, NEW r \in Runs, NEW st \in TaskStatus, SettleTask(r, st)
  PROVE  tasks' \in [Runs -> TaskStatus]
BY DEF TablesTypeOK, SettleTask

\* A request moves between the states of a request.
LEMMA GotoType ==
  ASSUME ReqTypeOK, NEW r \in Runs, NEW pc \in ReqStates, Goto(r, pc)
  PROVE  req' \in [Runs -> ReqStates]
BY DEF ReqTypeOK, Goto

\* A callback handler moves between the states of a handler.
LEMMA CbGotoType ==
  ASSUME CbTypeOK, NEW r \in Runs, NEW k \in Reports, NEW pc \in CbStates,
         CbGoto(r, k, pc)
  PROVE  cb' \in [Runs -> [Reports -> CbStates]]
BY DEF CbTypeOK, CbGoto

-----------------------------------------------------------------------------
(* Type correctness, one lemma per component.                              *)

\* Every step of PostMessage keeps the tables, the queue and the request
\* well typed.
LEMMA RequestType ==
  ASSUME TypeOK, NEW r \in Runs, RequestStep(r) \/ EndContext(r)
  PROVE  TablesTypeOK' /\ AsyncTypeOK' /\ ReqTypeOK'
<1>0. TablesTypeOK /\ AsyncTypeOK /\ ReqTypeOK
  BY DEF TypeOK
<1> USE <1>0
<1> USE DEF tableVars, asyncVars
<1>n. /\ "user_message" \in EventType /\ "run_started" \in EventType
      /\ "sql_generated" \in EventType /\ "result" \in EventType
      /\ "error" \in EventType
      /\ "running" \in RunStatus /\ "completed" \in RunStatus
      /\ "failed" \in RunStatus
      /\ {"rejected", "badSchema", "failed", "accepted", "ok"} \subseteq ReqStates
      /\ InHandler \subseteq ReqStates
  BY DEF EventType, RunStatus, ReqStates, InHandler, Answered
<1>1. CASE Accept(r)
  <2>1. log' \in [Runs -> Seq(EventType)]
    BY <1>1, <1>n, EmitType DEF Accept, TablesTypeOK
  <2>2. req' \in [Runs -> ReqStates]
    BY <1>1, <1>n, GotoType DEF Accept, InHandler
  <2> QED
    BY <1>1, <2>1, <2>2 DEF Accept, TablesTypeOK, AsyncTypeOK, ReqTypeOK
<1>2. CASE InsertRun(r)
  <2>1. log' \in [Runs -> Seq(EventType)]
    BY <1>2, <1>n, EmitType DEF InsertRun
  <2>2. req' \in [Runs -> ReqStates]
    BY <1>2, <1>n, GotoType DEF InsertRun, InHandler
  <2>3. runs' \in [Runs -> RunStatus]
    BY <1>2, <1>n DEF InsertRun, TablesTypeOK
  <2> QED
    BY <1>2, <2>1, <2>2, <2>3
       DEF InsertRun, TablesTypeOK, AsyncTypeOK, ReqTypeOK
<1>3. CASE Resolve(r)
  <2>1. req' \in [Runs -> ReqStates]
    BY <1>3, <1>n, GotoType DEF
           Resolve, ResolveDataset, AskKnowledge, ResolveSource, InHandler
  <2> QED
    BY <1>3, <2>1 DEF
           Resolve, ResolveDataset, AskKnowledge, ResolveSource, TablesTypeOK, AsyncTypeOK, ReqTypeOK
<1>4. CASE Dispatch(r)
  <2>1. req' \in [Runs -> ReqStates]
    BY <1>4, <1>n, GotoType DEF Dispatch, InHandler
  <2> QED
    BY <1>4, <2>1 DEF Dispatch, TablesTypeOK, AsyncTypeOK, ReqTypeOK
<1>5. CASE Enqueue(r)
  <2>1. req' \in [Runs -> ReqStates]
    BY <1>5, <1>n, GotoType DEF Enqueue, InHandler
  <2>2. tasks' \in [Runs -> TaskStatus]
    BY <1>5 DEF Enqueue, InsertTask, TablesTypeOK, TaskStatus, Active
  <2> QED
    BY <1>5, <2>1, <2>2 DEF Enqueue, TablesTypeOK, AsyncTypeOK, ReqTypeOK
<1>6. CASE AnswerAccepted(r)
  <2>1. req' \in [Runs -> ReqStates]
    BY <1>6, <1>n, GotoType DEF AnswerAccepted
  <2>2. nats' \in Seq(Runs)
    BY <1>6 DEF AnswerAccepted, PublishTask, AsyncTypeOK
  <2>3. watch' \in [Runs -> WatchStates]
    BY <1>6 DEF AnswerAccepted, PublishTask, AsyncTypeOK, WatchStates
  <2> QED
    BY <1>6, <2>1, <2>2, <2>3
       DEF AnswerAccepted, TablesTypeOK, AsyncTypeOK, ReqTypeOK
<1>7. CASE StoreResult(r)
  <2>1. log' \in [Runs -> Seq(EventType)]
    BY <1>7, <1>n, EmitType DEF StoreResult
  <2>2. req' \in [Runs -> ReqStates]
    BY <1>7, <1>n, GotoType DEF StoreResult, InHandler
  <2>3. msgs' \in [Runs -> Nat]
    BY <1>7, AddMessageType DEF StoreResult, TablesTypeOK
  <2> QED
    BY <1>7, <2>1, <2>2, <2>3
       DEF StoreResult, TablesTypeOK, AsyncTypeOK, ReqTypeOK
<1>8. CASE CompleteRun(r)
  <2>1. log' \in [Runs -> Seq(EventType)]
    BY <1>8, <1>n, EmitType DEF CompleteRun
  <2>2. req' \in [Runs -> ReqStates]
    BY <1>8, <1>n, GotoType DEF CompleteRun
  <2>3. runs' \in [Runs -> RunStatus]
    BY <1>8, <1>n, SetRunType DEF CompleteRun, TablesTypeOK
  <2> QED
    BY <1>8, <2>1, <2>2, <2>3
       DEF CompleteRun, TablesTypeOK, AsyncTypeOK, ReqTypeOK
<1>9. CASE StoreFailure(r)
  <2>1. req' \in [Runs -> ReqStates]
    BY <1>9, <1>n, GotoType DEF StoreFailure, InHandler
  <2>2. msgs' \in [Runs -> Nat]
    BY <1>9, AddMessageType DEF StoreFailure, TablesTypeOK
  <2> QED
    BY <1>9, <2>1, <2>2
       DEF StoreFailure, TablesTypeOK, AsyncTypeOK, ReqTypeOK
<1>10. CASE MarkFailed(r)
  <2>1. log' \in [Runs -> Seq(EventType)]
    BY <1>10, <1>n, EmitType DEF MarkFailed
  <2>2. req' \in [Runs -> ReqStates]
    BY <1>10, <1>n, GotoType DEF MarkFailed
  <2>3. runs' \in [Runs -> RunStatus]
    BY <1>10, <1>n, SetRunType DEF MarkFailed, TablesTypeOK
  <2> QED
    BY <1>10, <2>1, <2>2, <2>3
       DEF MarkFailed, TablesTypeOK, AsyncTypeOK, ReqTypeOK
<1>11. CASE EndContext(r)
  BY <1>11 DEF EndContext, TablesTypeOK, AsyncTypeOK, ReqTypeOK
<1> QED
  BY <1>1, <1>2, <1>3, <1>4, <1>5, <1>6, <1>7, <1>8, <1>9, <1>10, <1>11
     DEF RequestStep

\* So do the watcher and the reaper.
LEMMA AsyncType ==
  ASSUME TypeOK,
         \/ \E r \in Runs : WatcherStep(r)
         \/ \E S \in SUBSET Runs : ReapExpired(S)
  PROVE  TablesTypeOK' /\ AsyncTypeOK'
<1>0. TablesTypeOK /\ AsyncTypeOK
  BY DEF TypeOK
<1> USE <1>0
<1> USE DEF tableVars, asyncVars
<1>1. ASSUME NEW r \in Runs, WatcherCheck(r)
      PROVE  TablesTypeOK' /\ AsyncTypeOK'
  <2>1. watch' \in [Runs -> WatchStates]
    BY <1>1 DEF WatcherCheck, AsyncTypeOK, WatchStates
  <2> QED
    BY <1>1, <2>1 DEF WatcherCheck, TablesTypeOK, AsyncTypeOK
<1>2. ASSUME NEW r \in Runs, WatcherMark(r)
      PROVE  TablesTypeOK' /\ AsyncTypeOK'
  <2>1. watch' \in [Runs -> WatchStates]
    BY <1>2 DEF WatcherMark, AsyncTypeOK, WatchStates
  <2>2. log' \in [Runs -> Seq(EventType)]
    BY <1>2, EmitType DEF WatcherMark, TablesTypeOK, EventType
  <2>3. tasks' \in [Runs -> TaskStatus]
    BY <1>2, SettleTaskType DEF WatcherMark, TablesTypeOK, TaskStatus, Settled
  <2> QED
    BY <1>2, <2>1, <2>2, <2>3 DEF WatcherMark, TablesTypeOK, AsyncTypeOK
<1>3. ASSUME NEW S \in SUBSET Runs, ReapExpired(S)
      PROVE  TablesTypeOK' /\ AsyncTypeOK'
  <2>1. tasks' \in [Runs -> TaskStatus]
    BY <1>3 DEF ReapExpired, TablesTypeOK, TaskStatus, Settled
  <2> QED
    BY <1>3, <2>1 DEF ReapExpired, TablesTypeOK, AsyncTypeOK
<1> QED
  BY <1>1, <1>2, <1>3 DEF WatcherStep

\* So does the callback handler.
LEMMA CallbackType ==
  ASSUME TypeOK, NEW r \in Runs, NEW k \in Reports, CallbackStep(r, k)
  PROVE  TablesTypeOK' /\ CbTypeOK'
<1>0. TablesTypeOK /\ CbTypeOK
  BY DEF TypeOK
<1> USE <1>0
<1> USE DEF tableVars
<1>n. /\ k \in TaskStatus /\ RunStatusOf(k) \in RunStatus
      /\ "result" \in EventType
      /\ {"end", "findRun", "setRun", "findSession", "store", "show"}
           \subseteq CbStates
  BY DEF Reports, TaskStatus, Settled, RunStatusOf, RunStatus, EventType,
         CbStates, InCallback
<1>c. cb' \in [Runs -> [Reports -> CbStates]]
  BY <1>n, CbGotoType
     DEF CallbackStep, CbUpdate, CbFindRun, CbSetRun, CbFindSession, CbStore,
         CbShow
<1>1. CASE CbUpdate(r, k)
  <2>1. tasks' \in [Runs -> TaskStatus]
    BY <1>1, <1>n, SettleTaskType DEF CbUpdate, TablesTypeOK
  <2> QED
    BY <1>1, <1>c, <2>1 DEF CbUpdate, TablesTypeOK, CbTypeOK
<1>2. CASE CbFindRun(r, k)
  BY <1>2, <1>c DEF CbFindRun, TablesTypeOK, CbTypeOK
<1>3. CASE CbSetRun(r, k)
  <2>1. runs' \in [Runs -> RunStatus]
    BY <1>3, <1>n, SetRunType DEF CbSetRun, TablesTypeOK
  <2> QED
    BY <1>3, <1>c, <2>1 DEF CbSetRun, TablesTypeOK, CbTypeOK
<1>4. CASE CbFindSession(r, k)
  BY <1>4, <1>c DEF CbFindSession, TablesTypeOK, CbTypeOK
<1>5. CASE CbStore(r, k)
  <2>1. msgs' \in [Runs -> Nat]
    BY <1>5, AddMessageType DEF CbStore, TablesTypeOK
  <2> QED
    BY <1>5, <1>c, <2>1 DEF CbStore, TablesTypeOK, CbTypeOK
<1>6. CASE CbShow(r, k)
  <2>1. log' \in [Runs -> Seq(EventType)]
    BY <1>6, <1>n, EmitType DEF CbShow
  <2> QED
    BY <1>6, <1>c, <2>1 DEF CbShow, TablesTypeOK, CbTypeOK
<1> QED
  BY <1>1, <1>2, <1>3, <1>4, <1>5, <1>6 DEF CallbackStep

\* So do the worker and the two crashes.
LEMMA WorkerType ==
  ASSUME TypeOK, WorkerStep \/ ApiCrash \/ WorkerCrash
  PROVE  TypeOK'
<1> USE DEF TypeOK, tableVars, asyncVars, reqVars, cbVars
<1> DEFINE Busy == [pc : WorkerStates \ {"idle"}, run : Runs]
<1>w. (worker' \in Busy \/ worker' = Idle) /\ UNCHANGED crashes => WorkerTypeOK'
  BY RunAssumption DEF WorkerTypeOK, Idle, WorkerStates
<1>b. worker.pc # "idle" => worker \in Busy
  BY DEF WorkerTypeOK, WorkerStates
<1> HIDE DEF Busy
<1>1. CASE WorkerReceive
  <2>1. Head(nats) \in Runs /\ Tail(nats) \in Seq(Runs)
    BY <1>1 DEF WorkerReceive, AsyncTypeOK
  <2>2. worker' \in Busy
    BY <1>1, <2>1 DEF WorkerReceive, Busy, WorkerStates
  <2> QED
    BY <1>1, <1>w, <2>1, <2>2
       DEF WorkerReceive, TablesTypeOK, AsyncTypeOK, ReqTypeOK, CbTypeOK
<1>2. ASSUME NEW k \in Reports, NEW pc \in WorkerStates \ {"idle"},
             worker.pc # "idle", SendReport(k, pc)
      PROVE  CbTypeOK' /\ worker' \in Busy
  <2>1. worker' \in Busy
    BY <1>2, <1>b DEF SendReport, Busy
  <2> QED
    BY <1>2, <2>1 DEF SendReport, CbTypeOK, CbStates, InCallback
<1>3. CASE GraphSucceeds \/ GraphFails \/ Acknowledge
  <2>1. CbTypeOK' /\ (worker' \in Busy \/ worker' = Idle)
    BY <1>3, <1>2 DEF GraphSucceeds, GraphFails, Acknowledge, Reports,
                      WorkerStates, CbTypeOK
  <2> QED
    BY <1>3, <1>w, <2>1 DEF GraphSucceeds, GraphFails, Acknowledge,
                            TablesTypeOK, AsyncTypeOK, ReqTypeOK
<1>4. CASE ReportReturns \/ GiveUpReturns
  <2>1. worker' \in Busy \/ worker' = Idle
    BY <1>4, <1>b DEF ReportReturns, GiveUpReturns, Busy, WorkerStates
  <2>2. cbDone' \in SUBSET (Runs \X Reports)
    BY <1>4 DEF ReportReturns, GiveUpReturns, WorkerTypeOK, CbTypeOK, Reports
  <2> QED
    BY <1>4, <1>w, <2>1, <2>2 DEF ReportReturns, GiveUpReturns, TablesTypeOK,
                                  AsyncTypeOK, ReqTypeOK, CbTypeOK
<1>5. CASE ApiCrash
  <2>1. req' \in [Runs -> ReqStates]
    BY <1>5 DEF ApiCrash, ReqTypeOK, ReqStates
  <2>2. watch' \in [Runs -> WatchStates]
    BY <1>5 DEF ApiCrash, AsyncTypeOK, WatchStates
  <2>3. cb' \in [Runs -> [Reports -> CbStates]]
    BY <1>5 DEF ApiCrash, CbTypeOK, CbStates
  <2>4. crashes' \in 0 .. MaxCrashes
    BY <1>5, RunAssumption DEF ApiCrash, WorkerTypeOK
  <2> QED
    BY <1>5, <2>1, <2>2, <2>3, <2>4
       DEF ApiCrash, TablesTypeOK, AsyncTypeOK, ReqTypeOK, CbTypeOK,
           WorkerTypeOK
<1>6. CASE WorkerCrash
  <2>1. crashes' \in 0 .. MaxCrashes
    BY <1>6, RunAssumption DEF WorkerCrash, WorkerTypeOK
  <2> QED
    BY <1>6, <2>1, RunAssumption
       DEF WorkerCrash, TablesTypeOK, AsyncTypeOK, ReqTypeOK, CbTypeOK,
           WorkerTypeOK, Idle, WorkerStates
<1> QED
  BY <1>1, <1>3, <1>4, <1>5, <1>6 DEF WorkerStep

\* The initial state is well typed.
LEMMA InitType == Init => TypeOK
<1> SUFFICES ASSUME Init PROVE TypeOK
  OBVIOUS
<1>1. TablesTypeOK
  BY DEF Init, TablesInit, TablesTypeOK, RunStatus, TaskStatus
<1>2. AsyncTypeOK
  BY DEF Init, AsyncInit, AsyncTypeOK, WatchStates
<1>3. ReqTypeOK
  BY DEF Init, ReqInit, ReqTypeOK, ReqStates
<1>4. CbTypeOK
  BY DEF Init, CbInit, CbTypeOK, CbStates
<1>5. WorkerTypeOK
  BY RunAssumption DEF Init, Idle, WorkerTypeOK, WorkerStates
<1> QED
  BY <1>1, <1>2, <1>3, <1>4, <1>5 DEF TypeOK

\* Every step, and a step that changes nothing, keeps the types.
LEMMA NextType == TypeOK /\ [Next]_vars => TypeOK'
<1> SUFFICES ASSUME TypeOK, [Next]_vars PROVE TypeOK'
  OBVIOUS
<1> USE DEF tableVars, asyncVars, reqVars, cbVars, workerVars
<1>1. ASSUME NEW r \in Runs, RequestStep(r) \/ EndContext(r),
             UNCHANGED <<cbVars, workerVars>>
      PROVE  TypeOK'
  BY <1>1, RequestType DEF TypeOK, CbTypeOK, WorkerTypeOK
<1>2. ASSUME NEW r \in Runs, WatcherStep(r),
             UNCHANGED <<reqVars, cbVars, workerVars>>
      PROVE  TypeOK'
  BY <1>2, AsyncType DEF TypeOK, ReqTypeOK, CbTypeOK, WorkerTypeOK
<1>3. ASSUME NEW S \in SUBSET Runs, ReapExpired(S),
             UNCHANGED <<reqVars, cbVars, workerVars>>
      PROVE  TypeOK'
  BY <1>3, AsyncType DEF TypeOK, ReqTypeOK, CbTypeOK, WorkerTypeOK
<1>4. ASSUME NEW r \in Runs, NEW k \in Reports, CallbackStep(r, k),
             UNCHANGED <<asyncVars, reqVars, workerVars>>
      PROVE  TypeOK'
  BY <1>4, CallbackType DEF TypeOK, AsyncTypeOK, ReqTypeOK, WorkerTypeOK
<1>5. CASE UNCHANGED vars
  BY <1>5 DEF vars, TypeOK, TablesTypeOK, AsyncTypeOK, ReqTypeOK, CbTypeOK,
              WorkerTypeOK
<1> QED
  BY <1>1, <1>2, <1>3, <1>4, <1>5, WorkerType DEF Next

\* Type correctness of the whole run lifecycle, whatever fails or crashes.
THEOREM TypeCorrect == Spec => []TypeOK
BY InitType, NextType, PTL DEF Spec

-----------------------------------------------------------------------------
(* The inductive invariant.  Every step works for one run, or changes one  *)
(* field of all runs; the others keep what Consistent speaks of.           *)

\* What Consistent(q) reads of run q is as before, and q does not start to
\* wait for the consumer.
Undisturbed(q) ==
  /\ req'[q] = req[q] /\ tasks'[q] = tasks[q] /\ runs'[q] = runs[q]
  /\ msgs'[q] = msgs[q] /\ log'[q] = log[q]
  /\ watch'[q] = watch[q] /\ cb'[q] = cb[q]
  /\ Waits(q)' => Waits(q)

\* A run that a step does not touch stays consistent.
LEMMA UndisturbedConsistent ==
  ASSUME NEW q \in Runs, Consistent(q), Undisturbed(q)
  PROVE  Consistent(q)'
BY DEF Undisturbed, Consistent, UnderwayIsAccepted, RowByEnqueue,
       HandlerAfterUpdate, SilentBefore, Reported, Emitted

\* Publishing adds one event to one run's log and takes none away.
LEMMA EmitAdds ==
  ASSUME TablesTypeOK, NEW r \in Runs, NEW ev \in EventType, Emit(r, ev)
  PROVE  /\ \A q \in Runs : q # r => log'[q] = log[q]
         /\ \A e : Emitted(r, e)' <=> Emitted(r, e) \/ e = ev
<1>1. \A q \in Runs : q # r => log'[q] = log[q]
  BY DEF TablesTypeOK, Emit
<1>2. log'[r] = Append(log[r], ev)
  BY DEF TablesTypeOK, Emit
<1>3. /\ Len(Append(log[r], ev)) = Len(log[r]) + 1
      /\ Append(log[r], ev)[Len(log[r]) + 1] = ev
      /\ \A i \in 1 .. Len(log[r]) : Append(log[r], ev)[i] = log[r][i]
      /\ Len(log[r]) \in Nat
  BY DEF TablesTypeOK
<1>4. ASSUME NEW e PROVE Emitted(r, e)' <=> Emitted(r, e) \/ e = ev
  <2>1. Emitted(r, e)' <=> \E i \in 1 .. Len(log[r]) + 1 : log'[r][i] = e
    BY <1>2, <1>3 DEF Emitted
  <2>2. ASSUME NEW i \in 1 .. Len(log[r]) + 1, log'[r][i] = e
        PROVE  Emitted(r, e) \/ e = ev
    <3>1. CASE i = Len(log[r]) + 1
      BY <3>1, <2>2, <1>2, <1>3
    <3>2. CASE i \in 1 .. Len(log[r])
      BY <3>2, <2>2, <1>2, <1>3 DEF Emitted
    <3> QED
      BY <3>1, <3>2, <1>3
  <2>3. ASSUME e = ev PROVE \E i \in 1 .. Len(log[r]) + 1 : log'[r][i] = e
    BY <2>3, <1>2, <1>3
  <2>4. ASSUME Emitted(r, e)
        PROVE  \E i \in 1 .. Len(log[r]) + 1 : log'[r][i] = e
    <3>1. PICK i \in 1 .. Len(log[r]) : log[r][i] = e
      BY <2>4 DEF Emitted
    <3>2. i \in 1 .. Len(log[r]) + 1 /\ log'[r][i] = e
      BY <3>1, <1>2, <1>3
    <3> QED
      BY <3>2
  <2> QED
    BY <2>1, <2>2, <2>3, <2>4
<1> QED
  BY <1>1, <1>4

\* While the queue and the worker are left alone, nobody starts to wait.
LEMMA SameQueueSameWaits ==
  ASSUME UNCHANGED <<nats, worker>>, NEW q
  PROVE  Waits(q)' <=> Waits(q)
BY DEF Waits

\* A request only changes its own run: the others are left undisturbed.
LEMMA RequestIsLocal ==
  ASSUME TypeOK, NEW r \in Runs, RequestStep(r),
         UNCHANGED <<cbVars, workerVars>>, NEW q \in Runs, q # r
  PROVE  Undisturbed(q)
<1> USE DEF tableVars, asyncVars, cbVars, workerVars
<1>0. TablesTypeOK /\ AsyncTypeOK /\ ReqTypeOK
  BY DEF TypeOK
<1>1. req'[q] = req[q]
  BY <1>0 DEF RequestStep, Accept, InsertRun,
         Resolve, ResolveDataset, AskKnowledge, ResolveSource, Dispatch, Enqueue,
     AnswerAccepted, StoreResult, CompleteRun, StoreFailure, MarkFailed,
     Goto, ReqTypeOK
<1>2. tasks'[q] = tasks[q]
  BY <1>0 DEF RequestStep, Accept, InsertRun,
         Resolve, ResolveDataset, AskKnowledge, ResolveSource, Dispatch, Enqueue,
     AnswerAccepted, StoreResult, CompleteRun, StoreFailure, MarkFailed,
     InsertTask, TablesTypeOK
<1>3. runs'[q] = runs[q]
  BY <1>0 DEF RequestStep, Accept, InsertRun,
         Resolve, ResolveDataset, AskKnowledge, ResolveSource, Dispatch, Enqueue,
     AnswerAccepted, StoreResult, CompleteRun, StoreFailure, MarkFailed,
     SetRun, TablesTypeOK
<1>4. msgs'[q] = msgs[q]
  BY <1>0 DEF RequestStep, Accept, InsertRun,
         Resolve, ResolveDataset, AskKnowledge, ResolveSource, Dispatch, Enqueue,
     AnswerAccepted, StoreResult, CompleteRun, StoreFailure, MarkFailed,
     AddMessage, TablesTypeOK
<1>5. log'[q] = log[q]
  BY <1>0 DEF RequestStep, Accept, InsertRun,
         Resolve, ResolveDataset, AskKnowledge, ResolveSource, Dispatch, Enqueue,
     AnswerAccepted, StoreResult, CompleteRun, StoreFailure, MarkFailed,
     Emit, TablesTypeOK
<1>6. watch'[q] = watch[q]
  BY <1>0 DEF RequestStep, Accept, InsertRun,
         Resolve, ResolveDataset, AskKnowledge, ResolveSource, Dispatch, Enqueue,
     AnswerAccepted, StoreResult, CompleteRun, StoreFailure, MarkFailed,
     PublishTask, AsyncTypeOK
<1>7. Waits(q)' => Waits(q)
  <2>1. nats' = nats \/ nats' = Append(nats, r)
    BY DEF RequestStep, Accept, InsertRun,
           Resolve, ResolveDataset, AskKnowledge, ResolveSource, Dispatch, Enqueue,
       AnswerAccepted, StoreResult, CompleteRun, StoreFailure, MarkFailed,
       PublishTask
  <2>2. CASE nats' = Append(nats, r)
    <3>1. /\ Len(nats') = Len(nats) + 1 /\ nats'[Len(nats) + 1] = r
          /\ \A i \in 1 .. Len(nats) : nats'[i] = nats[i]
          /\ Len(nats) \in Nat
      BY <2>2, <1>0 DEF AsyncTypeOK
    <3>2. ASSUME NEW i \in 1 .. Len(nats'), nats'[i] = q
          PROVE  i \in 1 .. Len(nats) /\ nats[i] = q
      BY <3>1, <3>2
    <3> QED
      BY <3>2 DEF Waits
  <2> QED
    BY <2>1, <2>2 DEF Waits
<1> QED
  BY <1>1, <1>2, <1>3, <1>4, <1>5, <1>6, <1>7 DEF Undisturbed

\* A request step keeps its own run consistent.
LEMMA RequestConsistent ==
  ASSUME TypeOK, AllConsistent, NEW r \in Runs, RequestStep(r),
         UNCHANGED <<cbVars, workerVars>>
  PROVE  Consistent(r)'
<1> USE DEF tableVars, asyncVars, cbVars, workerVars
<1>0. TablesTypeOK /\ AsyncTypeOK /\ ReqTypeOK /\ Consistent(r)
  BY DEF TypeOK, AllConsistent
<1>a. /\ "user_message" \in EventType /\ "run_started" \in EventType
      /\ "sql_generated" \in EventType /\ "result" \in EventType
      /\ "error" \in EventType
  BY DEF EventType
\* Nothing is under way as long as the request has not been answered 202.
<1>b. /\ req[r] # "accepted"
      /\ ~Waits(r) /\ watch[r] = "none" /\ \A k \in Reports : cb[r][k] = "none"
  BY <1>0 DEF RequestStep, Accept, InsertRun,
         Resolve, ResolveDataset, AskKnowledge, ResolveSource, Dispatch, Enqueue,
     AnswerAccepted, StoreResult, CompleteRun, StoreFailure, MarkFailed,
     Consistent, UnderwayIsAccepted
<1>c. ASSUME UNCHANGED asyncVars
      PROVE  /\ ~Waits(r)' /\ watch'[r] = "none"
             /\ \A k \in Reports : cb'[r][k] = "none"
  BY <1>b, <1>c, SameQueueSameWaits
<1>d. ASSUME NEW pc, Goto(r, pc) PROVE req'[r] = pc
  BY <1>d, <1>0 DEF Goto, ReqTypeOK
\* A step that stays in the handler and reports nothing.
<1>q. ASSUME UNCHANGED asyncVars, req'[r] # "accepted",
             RowByEnqueue(r)', SilentBefore(r)'
      PROVE  Consistent(r)'
  BY <1>q, <1>c DEF Consistent, UnderwayIsAccepted, HandlerAfterUpdate,
                    InCallback
<1>1. CASE Accept(r)
  <2>1. UNCHANGED asyncVars /\ req'[r] \in {"rejected", "insertRun"}
        /\ req[r] = "new" /\ UNCHANGED <<runs, tasks, msgs>>
    BY <1>1, <1>d DEF Accept
  <2>2. UNCHANGED log \/ Emit(r, "user_message")
    BY <1>1 DEF Accept
  <2>3. CASE UNCHANGED log
    BY <2>1, <2>3, <1>0, <1>q
       DEF Consistent, RowByEnqueue, SilentBefore, Reported, Emitted
  <2>4. CASE Emit(r, "user_message")
    <3>1. \A e : Emitted(r, e)' <=> Emitted(r, e) \/ e = "user_message"
      BY <2>4, <1>0, <1>a, EmitAdds
    <3> QED
      BY <2>1, <3>1, <1>0, <1>q
         DEF Consistent, RowByEnqueue, SilentBefore, Reported
  <2> QED
    BY <2>2, <2>3, <2>4
<1>2. CASE InsertRun(r)
  <2>1. UNCHANGED asyncVars /\ req'[r] = "resolve"
        /\ req[r] = "insertRun" /\ UNCHANGED <<tasks, msgs>>
    BY <1>2, <1>d DEF InsertRun
  <2>2. Emitted(r, "result")' => Emitted(r, "result")
    BY <1>2, <1>0, <1>a, EmitAdds DEF InsertRun
  <2>3. Emitted(r, "task_timeout")' => Emitted(r, "task_timeout")
    BY <1>2, <1>0, <1>a, EmitAdds DEF InsertRun
  <2>4. runs'[r] \in {runs[r], "running"}
    BY <1>2, <1>0 DEF InsertRun, TablesTypeOK
  <2> QED
    BY <2>1, <2>2, <2>3, <2>4, <1>0, <1>q
       DEF Consistent, RowByEnqueue, SilentBefore, Reported
<1>3. CASE Resolve(r)
  <2>1. UNCHANGED asyncVars /\ UNCHANGED tableVars /\ req[r] = "resolve"
        /\ req'[r] \in {"dispatch", "storeResult", "storeFailure", "badSchema"}
    BY <1>3, <1>d DEF Resolve, ResolveDataset, AskKnowledge, ResolveSource
  <2> QED
    BY <2>1, <1>0, <1>q
       DEF Consistent, RowByEnqueue, SilentBefore, Reported, Emitted
<1>4. CASE Dispatch(r)
  <2>1. UNCHANGED asyncVars /\ UNCHANGED tableVars /\ req[r] = "dispatch"
        /\ req'[r] \in {"enqueue", "storeResult", "storeFailure"}
    BY <1>4, <1>d DEF Dispatch
  <2> QED
    BY <2>1, <1>0, <1>q
       DEF Consistent, RowByEnqueue, SilentBefore, Reported, Emitted
<1>5. CASE Enqueue(r)
  <2>1. /\ UNCHANGED asyncVars /\ UNCHANGED <<runs, msgs, log>>
        /\ req[r] = "enqueue"
        /\ \/ req'[r] = "publishTask" /\ tasks'[r] = "queued"
           \/ req'[r] = "storeFailure"
    BY <1>5, <1>d, <1>0 DEF Enqueue, InsertTask, EnqueueOutcomes, TablesTypeOK
  <2> QED
    BY <2>1, <1>0, <1>q
       DEF Consistent, RowByEnqueue, SilentBefore, Reported, Emitted
<1>6. CASE AnswerAccepted(r)
  <2>1. UNCHANGED tableVars /\ req[r] = "publishTask" /\ req'[r] = "accepted"
    BY <1>6, <1>d DEF AnswerAccepted
  <2>2. \A k \in Reports : cb'[r][k] = "none"
    BY <1>b
  <2> QED
    BY <2>1, <2>2, <1>0 DEF Consistent, UnderwayIsAccepted, RowByEnqueue,
       HandlerAfterUpdate, SilentBefore, Reported, Emitted, InCallback
<1>7. CASE StoreResult(r)
  <2>1. UNCHANGED <<asyncVars, tasks>> /\ req'[r] \in {"complete", "storeFailure"}
    BY <1>7, <1>d DEF StoreResult
  <2>2. tasks[r] = "absent"
    BY <1>7, <1>0 DEF StoreResult, Consistent, RowByEnqueue
  <2> QED
    BY <2>1, <2>2, <1>q DEF RowByEnqueue, SilentBefore
<1>8. CASE CompleteRun(r)
  <2>1. UNCHANGED asyncVars /\ req'[r] = "ok"
    BY <1>8, <1>d DEF CompleteRun
  <2> QED
    BY <2>1, <1>q DEF RowByEnqueue, SilentBefore
<1>9. CASE StoreFailure(r)
  <2>1. UNCHANGED asyncVars /\ req'[r] = "markFailed"
    BY <1>9, <1>d DEF StoreFailure
  <2> QED
    BY <2>1, <1>q DEF RowByEnqueue, SilentBefore
<1>10. CASE MarkFailed(r)
  <2>1. UNCHANGED asyncVars /\ req'[r] = "failed"
    BY <1>10, <1>d DEF MarkFailed
  <2> QED
    BY <2>1, <1>q DEF RowByEnqueue, SilentBefore
<1> QED
  BY <1>1, <1>2, <1>3, <1>4, <1>5, <1>6, <1>7, <1>8, <1>9, <1>10
     DEF RequestStep

\* The watcher reports a timeout only after its UPDATE, which finds the task
\* open or settled already, never absent.
LEMMA WatcherConsistent ==
  ASSUME TypeOK, AllConsistent, NEW r \in Runs, WatcherStep(r),
         UNCHANGED <<reqVars, cbVars, workerVars>>
  PROVE  AllConsistent'
<1> USE DEF tableVars, asyncVars, reqVars, cbVars, workerVars
<1>0. TablesTypeOK /\ AsyncTypeOK /\ Consistent(r)
  BY DEF TypeOK, AllConsistent
<1>1. req[r] = "accepted" /\ tasks[r] \in Active \cup Settled
  BY <1>0 DEF WatcherStep, WatcherCheck, WatcherMark, Consistent,
     UnderwayIsAccepted, RowByEnqueue, TablesTypeOK, TaskStatus
<1>2. \A q \in Runs : Waits(q)' => Waits(q)
  BY SameQueueSameWaits DEF WatcherStep, WatcherCheck, WatcherMark
<1>3. ASSUME NEW q \in Runs, q # r PROVE Consistent(q)'
  <2>1. tasks'[q] = tasks[q]
    BY <1>0, <1>3 DEF WatcherStep, WatcherCheck, WatcherMark, SettleTask,
                      TablesTypeOK
  <2>2. log'[q] = log[q]
    BY <1>0, <1>3 DEF WatcherStep, WatcherCheck, WatcherMark, Emit,
                      TablesTypeOK
  <2>3. Undisturbed(q)
    BY <1>0, <1>2, <1>3, <2>1, <2>2
       DEF WatcherStep, WatcherCheck, WatcherMark, AsyncTypeOK, Undisturbed
  <2> QED
    BY <2>3, UndisturbedConsistent DEF AllConsistent
<1>4. /\ tasks'[r] = tasks[r] /\ UNCHANGED log
      \/ tasks'[r] \in Settled
  BY <1>0, <1>1 DEF WatcherStep, WatcherCheck, WatcherMark, SettleTask,
                    TablesTypeOK, Settled
<1>5. tasks[r] \in Settled => tasks'[r] \in Settled
  BY <1>4
<1>6. req'[r] = "accepted" /\ UNCHANGED <<runs, msgs, cb>>
  BY <1>1 DEF WatcherStep, WatcherCheck, WatcherMark
<1>7. tasks'[r] # "absent"
  BY <1>1, <1>4 DEF Active, Settled
<1>8. Consistent(r)'
  BY <1>0, <1>1, <1>4, <1>5, <1>6, <1>7
     DEF Consistent, UnderwayIsAccepted, RowByEnqueue, HandlerAfterUpdate,
         SilentBefore, Reported, Emitted
<1> QED
  BY <1>3, <1>8 DEF AllConsistent

\* The reaper only moves open tasks to a settled status.
LEMMA ReaperConsistent ==
  ASSUME TypeOK, AllConsistent, NEW S \in SUBSET Runs, ReapExpired(S),
         UNCHANGED <<reqVars, cbVars, workerVars>>
  PROVE  AllConsistent'
<1> USE DEF asyncVars, reqVars, cbVars, workerVars
<1> SUFFICES ASSUME NEW q \in Runs PROVE Consistent(q)'
  BY DEF AllConsistent
<1>1. /\ tasks'[q] = tasks[q] \/ tasks'[q] \in Settled
      /\ tasks'[q] # "absent" <=> tasks[q] # "absent"
  BY DEF ReapExpired, Settled, Active
<1>2. Waits(q)' => Waits(q)
  BY SameQueueSameWaits DEF ReapExpired
<1> QED
  BY <1>1, <1>2
     DEF ReapExpired, AllConsistent, Consistent, UnderwayIsAccepted,
         RowByEnqueue, HandlerAfterUpdate, SilentBefore, Reported, Emitted,
         Settled

\* A callback handler touches the run, the messages and the stream only
\* after its UPDATE of the task, and nothing makes a settled task open again.
LEMMA CallbackConsistent ==
  ASSUME TypeOK, AllConsistent, NEW r \in Runs, NEW k \in Reports,
         CallbackStep(r, k), UNCHANGED <<asyncVars, reqVars, workerVars>>
  PROVE  AllConsistent'
<1> USE DEF tableVars, asyncVars, reqVars, workerVars
<1>0. TablesTypeOK /\ CbTypeOK /\ Consistent(r)
  BY DEF TypeOK, AllConsistent
<1>1. req[r] = "accepted" /\ tasks[r] \in Active \cup Settled
  <2>1. cb[r][k] # "none"
    BY DEF CallbackStep, CbUpdate, CbFindRun, CbSetRun, CbFindSession,
           CbStore, CbShow
  <2> QED
    BY <1>0, <2>1 DEF Consistent, UnderwayIsAccepted, RowByEnqueue,
                      TablesTypeOK, TaskStatus
<1>2. \A q \in Runs : Waits(q)' => Waits(q)
  BY SameQueueSameWaits
<1>3. ASSUME NEW q \in Runs, q # r PROVE Consistent(q)'
  <2>1. tasks'[q] = tasks[q]
    BY <1>0, <1>3 DEF CallbackStep, CbUpdate, CbFindRun, CbSetRun,
       CbFindSession, CbStore, CbShow, SettleTask, TablesTypeOK
  <2>2. runs'[q] = runs[q]
    BY <1>0, <1>3 DEF CallbackStep, CbUpdate, CbFindRun, CbSetRun,
       CbFindSession, CbStore, CbShow, SetRun, TablesTypeOK
  <2>3. msgs'[q] = msgs[q]
    BY <1>0, <1>3 DEF CallbackStep, CbUpdate, CbFindRun, CbSetRun,
       CbFindSession, CbStore, CbShow, AddMessage, TablesTypeOK
  <2>4. log'[q] = log[q]
    BY <1>0, <1>3 DEF CallbackStep, CbUpdate, CbFindRun, CbSetRun,
       CbFindSession, CbStore, CbShow, Emit, TablesTypeOK
  <2>5. cb'[q] = cb[q]
    BY <1>0, <1>3 DEF CallbackStep, CbUpdate, CbFindRun, CbSetRun,
       CbFindSession, CbStore, CbShow, CbGoto, CbTypeOK
  <2>6. Undisturbed(q)
    BY <1>2, <2>1, <2>2, <2>3, <2>4, <2>5 DEF Undisturbed
  <2> QED
    BY <2>6, UndisturbedConsistent DEF AllConsistent
<1>4. ASSUME CbUpdate(r, k) PROVE Consistent(r)'
  <2>1. /\ UNCHANGED <<runs, msgs, log>>
        /\ tasks'[r] = tasks[r] \/ tasks'[r] \in Settled
        /\ tasks'[r] \in Settled \/ cb'[r][k] = "end"
    BY <1>4, <1>0, <1>1 DEF CbUpdate, SettleTask, CbGoto, TablesTypeOK,
                            CbTypeOK, Settled, Active, Reports
  <2>2. \A j \in Reports : j # k => cb'[r][j] = cb[r][j]
    BY <1>4, <1>0 DEF CbUpdate, CbGoto, CbTypeOK
  <2>3. HandlerAfterUpdate(r)'
    BY <2>1, <2>2, <1>0 DEF Consistent, HandlerAfterUpdate, InCallback
  <2>4. req'[r] = "accepted" /\ tasks'[r] # "absent"
    BY <1>1, <2>1 DEF Active, Settled
  <2> QED
    BY <2>1, <2>3, <2>4, <1>0
       DEF Consistent, UnderwayIsAccepted, RowByEnqueue, SilentBefore,
           Reported, Emitted
<1>5. ASSUME \/ CbFindRun(r, k) \/ CbSetRun(r, k) \/ CbFindSession(r, k)
             \/ CbStore(r, k) \/ CbShow(r, k)
      PROVE  Consistent(r)'
  <2>1. tasks[r] \in Settled /\ UNCHANGED tasks
    BY <1>5, <1>0
       DEF CbFindRun, CbSetRun, CbFindSession, CbStore, CbShow,
           Consistent, HandlerAfterUpdate, InCallback
  <2>2. req'[r] = "accepted" /\ tasks'[r] # "absent" /\ tasks'[r] \in Settled
    BY <1>1, <2>1 DEF Settled
  <2>3. UnderwayIsAccepted(r)' /\ RowByEnqueue(r)'
    BY <2>2 DEF UnderwayIsAccepted, RowByEnqueue
  <2>4. HandlerAfterUpdate(r)' /\ SilentBefore(r)'
    BY <2>2 DEF HandlerAfterUpdate, SilentBefore
  <2> QED
    BY <2>2, <2>3, <2>4 DEF Consistent
<1>6. Consistent(r)'
  BY <1>4, <1>5 DEF CallbackStep
<1> QED
  BY <1>3, <1>6 DEF AllConsistent

\* The worker and the crashes change no table.  A run leaves the queue for
\* the worker's hands, and a report is sent only for the run in its hands.
LEMMA WorkerConsistent ==
  ASSUME TypeOK, AllConsistent, WorkerStep \/ ApiCrash \/ WorkerCrash
  PROVE  AllConsistent'
<1> USE DEF tableVars, asyncVars, reqVars, cbVars
<1>0. AsyncTypeOK /\ ReqTypeOK /\ CbTypeOK /\ WorkerTypeOK
  BY DEF TypeOK
<1>t. UNCHANGED tableVars
  BY DEF WorkerStep, WorkerReceive, GraphSucceeds, GraphFails, ReportReturns,
         Acknowledge, GiveUpReturns, ApiCrash, WorkerCrash
<1> SUFFICES ASSUME NEW q \in Runs PROVE Consistent(q)'
  BY DEF AllConsistent
<1>c. Consistent(q)
  BY DEF AllConsistent
<1>i. worker' = Idle => worker'.run # q
  BY RunAssumption DEF Idle
\* What is left to show: nothing new is under way for q, and a handler of q
\* that is past its UPDATE was so before.
<1>s. ASSUME req'[q] = req[q] \/ (req[q] \in InHandler /\ req'[q] = "aborted"),
             Waits(q)' => Waits(q),
             watch'[q] # "none" => watch[q] # "none",
             \A k \in Reports : cb'[q][k] = cb[q][k]
                \/ (cb'[q][k] \in {"update", "end"}
                     /\ (cb[q][k] # "none" \/ Waits(q)))
      PROVE  Consistent(q)'
  <2>1. UnderwayIsAccepted(q)'
    BY <1>s, <1>c DEF Consistent, UnderwayIsAccepted, InHandler
  <2>2. RowByEnqueue(q)'
    BY <1>s, <1>c, <1>t DEF Consistent, RowByEnqueue
  <2>3. HandlerAfterUpdate(q)'
    BY <1>s, <1>c, <1>t DEF Consistent, HandlerAfterUpdate, InCallback
  <2>4. Reported(q)' <=> Reported(q)
    BY <1>t DEF Reported, Emitted
  <2>5. SilentBefore(q)'
    BY <1>s, <1>c, <2>4 DEF Consistent, SilentBefore
  <2> QED
    BY <1>s, <1>c, <1>t, <2>1, <2>2, <2>3, <2>4, <2>5 DEF Consistent
<1>1. CASE WorkerReceive
  <2>1. Waits(q)' => Waits(q)
    <3>1. /\ nats # <<>> /\ Len(nats) \in Nat /\ Head(nats) = nats[1]
          /\ Len(nats) >= 1
          /\ Len(Tail(nats)) = Len(nats) - 1
          /\ \A i \in 1 .. Len(nats) - 1 : Tail(nats)[i] = nats[i + 1]
      BY <1>1, <1>0 DEF WorkerReceive, AsyncTypeOK
    <3>2. worker'.run = nats[1] /\ nats' = Tail(nats)
      BY <1>1, <3>1 DEF WorkerReceive
    <3>3. ASSUME NEW i \in 1 .. Len(nats'), nats'[i] = q
          PROVE  i + 1 \in 1 .. Len(nats) /\ nats[i + 1] = q
      BY <3>1, <3>2, <3>3
    <3>4. 1 \in 1 .. Len(nats)
      BY <3>1
    <3> QED
      BY <3>2, <3>3, <3>4 DEF Waits
  <2> QED
    BY <1>1, <1>s, <2>1 DEF WorkerReceive
<1>2. ASSUME NEW k \in Reports, NEW pc, SendReport(k, pc),
             UNCHANGED <<tableVars, asyncVars, reqVars, crashes>>
      PROVE  Consistent(q)'
  <2>1. worker'.run = worker.run
    BY <1>2, <1>0 DEF SendReport, WorkerTypeOK
  <2>2. Waits(q)' <=> Waits(q)
    BY <1>2, <2>1 DEF Waits
  <2>3. \A j \in Reports : cb'[q][j] = cb[q][j]
          \/ (cb'[q][j] \in {"update", "end"} /\ worker.run = q)
    BY <1>2, <1>0 DEF SendReport, CbTypeOK
  <2> QED
    BY <1>2, <1>s, <2>2, <2>3 DEF Waits
<1>3. ASSUME worker' = Idle, UNCHANGED <<tableVars, asyncVars, reqVars, cb>>
      PROVE  Consistent(q)'
  <2>1. Waits(q)' => Waits(q)
    BY <1>3, <1>i DEF Waits
  <2> QED
    BY <1>3, <1>s, <2>1
<1>4. CASE GraphSucceeds \/ GraphFails \/ Acknowledge
  BY <1>4, <1>2, <1>3 DEF GraphSucceeds, GraphFails, Acknowledge, Reports
<1>5. CASE ReportReturns
  <2>1. worker'.run = worker.run
    BY <1>5, <1>0 DEF ReportReturns, WorkerTypeOK
  <2>2. Waits(q)' <=> Waits(q)
    BY <1>5, <2>1 DEF ReportReturns, Waits
  <2> QED
    BY <1>5, <1>s, <2>2 DEF ReportReturns
<1>6. CASE GiveUpReturns
  BY <1>6, <1>3 DEF GiveUpReturns
<1>7. CASE ApiCrash
  <2>1. Waits(q)' <=> Waits(q)
    BY <1>7, SameQueueSameWaits DEF ApiCrash
  <2>2. req'[q] = req[q] \/ (req[q] \in InHandler /\ req'[q] = "aborted")
    BY <1>7 DEF ApiCrash
  <2>3. watch'[q] # "none" => watch[q] # "none"
    BY <1>7 DEF ApiCrash
  <2>4. \A k \in Reports : cb'[q][k] = cb[q][k]
          \/ (cb'[q][k] = "end" /\ cb[q][k] # "none")
    BY <1>7 DEF ApiCrash, InCallback
  <2> QED
    BY <1>s, <2>1, <2>2, <2>3, <2>4
<1>8. CASE WorkerCrash
  <2>1. ~Waits(q)'
    BY <1>8, <1>i DEF WorkerCrash, Waits
  <2> QED
    BY <1>8, <1>s, <2>1 DEF WorkerCrash
<1> QED
  BY <1>1, <1>4, <1>5, <1>6, <1>7, <1>8 DEF WorkerStep

\* Nothing has happened yet, so everything fits.
LEMMA InitConsistent == Init => AllConsistent
<1> SUFFICES ASSUME Init, NEW r \in Runs PROVE Consistent(r)
  BY DEF AllConsistent
<1>1. Len(nats) = 0 /\ Len(log[r]) = 0
  BY DEF Init, AsyncInit, TablesInit
<1>2. ~Waits(r)
  BY <1>1, RunAssumption DEF Init, Idle, Waits
<1>3. ~Reported(r)
  BY <1>1 DEF Init, TablesInit, Reported, Emitted
<1> QED
  BY <1>2, <1>3
     DEF Init, TablesInit, AsyncInit, ReqInit, CbInit, Consistent,
         UnderwayIsAccepted, RowByEnqueue, HandlerAfterUpdate, SilentBefore,
         InCallback

\* Every step keeps every run consistent.
LEMMA NextConsistent ==
  TypeOK /\ AllConsistent /\ [Next]_vars => AllConsistent'
<1> SUFFICES ASSUME TypeOK, AllConsistent, [Next]_vars PROVE AllConsistent'
  OBVIOUS
<1>1. ASSUME NEW r \in Runs, RequestStep(r), UNCHANGED <<cbVars, workerVars>>
      PROVE  AllConsistent'
  <2>1. ASSUME NEW q \in Runs, q # r PROVE Consistent(q)'
    <3>1. Undisturbed(q)
      BY <1>1, <2>1, RequestIsLocal
    <3> QED
      BY <3>1, UndisturbedConsistent DEF AllConsistent
  <2> QED
    BY <1>1, <2>1, RequestConsistent DEF AllConsistent
<1>2. ASSUME NEW q \in Runs, UNCHANGED <<tableVars, asyncVars, req, cb, worker>>
      PROVE  Consistent(q)'
  <2>1. Undisturbed(q)
    BY <1>2, SameQueueSameWaits DEF Undisturbed, tableVars, asyncVars
  <2> QED
    BY <2>1, UndisturbedConsistent DEF AllConsistent
<1>3. ASSUME NEW r \in Runs, EndContext(r), UNCHANGED <<cbVars, workerVars>>
      PROVE  AllConsistent'
  BY <1>2, <1>3 DEF EndContext, AllConsistent, cbVars, workerVars
<1>4. CASE UNCHANGED vars
  BY <1>2, <1>4 DEF vars, reqVars, cbVars, workerVars, AllConsistent
<1> QED
  BY <1>1, <1>3, <1>4, WatcherConsistent, ReaperConsistent,
     CallbackConsistent, WorkerConsistent DEF Next

\* Requests, queue, watchers, callbacks and tables fit together in every
\* reachable state, whatever is lost, fails or crashes.
THEOREM Consistency == Spec => []AllConsistent
BY InitConsistent, NextConsistent, TypeCorrect, InitType, NextType, PTL
   DEF Spec

\* Whoever polls a task whose answer, failure or timeout was reported finds
\* it settled: the UPDATE of async_tasks always comes first.
THEOREM ReportsAreOfSettledTasks == Spec => []ReportedIsSettled
<1>1. AllConsistent => ReportedIsSettled
  BY DEF AllConsistent, Consistent, ReportedIsSettled
<1> QED
  BY <1>1, Consistency, PTL

\* A request answered on the spot, or with an error, leaves nothing under
\* way that could change its run afterwards.
THEOREM RefusalsAreFinal == Spec => []RefusedLeavesNothing
<1>1. AllConsistent => RefusedLeavesNothing
  BY DEF AllConsistent, Consistent, UnderwayIsAccepted, Waits,
         RefusedLeavesNothing, Answered
<1> QED
  BY <1>1, Consistency, PTL

\* No step of anyone changes a settled task: Enqueue writes a row only where
\* there is none, and everyone else guards the old status.
LEMMA SettledStep ==
  ASSUME TypeOK, AllConsistent, [Next]_vars, NEW r \in Runs,
         tasks[r] \in Settled
  PROVE  tasks'[r] = tasks[r]
<1> USE DEF tableVars, asyncVars
<1>0. TablesTypeOK /\ Consistent(r) /\ tasks[r] \notin Active
      /\ tasks[r] # "absent"
  BY DEF TypeOK, AllConsistent, Settled, Active
<1>1. ASSUME NEW q \in Runs, NEW st, SettleTask(q, st)
      PROVE  tasks'[r] = tasks[r]
  BY <1>0, <1>1 DEF SettleTask, TablesTypeOK
<1>2. ASSUME NEW q \in Runs, RequestStep(q) PROVE tasks'[r] = tasks[r]
  <2>1. CASE Enqueue(q)
    <3>1. q # r
      BY <2>1, <1>0 DEF Enqueue, Consistent, RowByEnqueue
    <3> QED
      BY <2>1, <3>1, <1>0 DEF Enqueue, InsertTask, TablesTypeOK
  <2> QED
    BY <1>2, <2>1 DEF RequestStep, Accept, InsertRun,
           Resolve, ResolveDataset, AskKnowledge, ResolveSource, Dispatch,
       AnswerAccepted, StoreResult, CompleteRun, StoreFailure, MarkFailed
<1>3. ASSUME NEW q \in Runs, EndContext(q) \/ WatcherStep(q)
      PROVE  tasks'[r] = tasks[r]
  BY <1>1, <1>3 DEF EndContext, WatcherStep, WatcherCheck, WatcherMark
<1>4. ASSUME NEW S \in SUBSET Runs, ReapExpired(S)
      PROVE  tasks'[r] = tasks[r]
  BY <1>0, <1>4 DEF ReapExpired
<1>5. ASSUME NEW q \in Runs, NEW k \in Reports, CallbackStep(q, k)
      PROVE  tasks'[r] = tasks[r]
  BY <1>1, <1>5 DEF CallbackStep, CbUpdate, CbFindRun, CbSetRun,
                    CbFindSession, CbStore, CbShow
<1>6. CASE WorkerStep \/ ApiCrash \/ WorkerCrash
  BY <1>6 DEF WorkerStep, WorkerReceive, GraphSucceeds, GraphFails,
     ReportReturns, Acknowledge, GiveUpReturns, ApiCrash, WorkerCrash
<1>7. CASE UNCHANGED vars
  BY <1>7 DEF vars
<1> QED
  BY <1>2, <1>3, <1>4, <1>5, <1>6, <1>7 DEF Next

\* A settled task stays as it is, although a timeout watcher, two callback
\* handlers and the reaper race for it.
THEOREM SettledTasksStay == Spec => SettledForever
<1>1. TypeOK /\ AllConsistent /\ [Next]_vars
        => [\A r \in Runs : tasks[r] \in Settled => tasks'[r] = tasks[r]]_vars
  BY SettledStep
<1> QED
  BY <1>1, TypeCorrect, Consistency, PTL DEF Spec, SettledForever

-----------------------------------------------------------------------------
(* Every stored answer is shown.                                           *)

\* The queue and the reports: a step that leaves queue, worker and the
\* unsent reports alone keeps them handed over once.
LEMMA HandedKept ==
  ASSUME HandedOnce, UNCHANGED <<nats, worker>>,
         \A r \in Runs, k \in Reports : cb[r][k] = "none" => cb'[r][k] = "none",
         nats \in Seq(Runs), worker.pc # "idle" => worker.run \in Runs
  PROVE  HandedOnce'
<1>1. \A i \in 1 .. Len(nats) : nats[i] \in Runs
  OBVIOUS
<1> QED
  BY <1>1 DEF HandedOnce, Reports

\* A request puts its task into the queue once: before, nothing was under way.
LEMMA RequestHands ==
  ASSUME TypeOK, AllConsistent, HandedOnce, NEW r \in Runs, RequestStep(r),
         UNCHANGED <<cbVars, workerVars>>
  PROVE  HandedOnce'
<1>0. nats \in Seq(Runs) /\ (worker.pc # "idle" => worker.run \in Runs)
  BY DEF TypeOK, AsyncTypeOK, WorkerTypeOK
<1>1. UNCHANGED <<cb, worker>>
  BY DEF cbVars, workerVars
<1>2. CASE nats' = nats
  BY <1>0, <1>1, <1>2, HandedKept
<1>3. CASE nats' # nats
  <2>1. AnswerAccepted(r)
    BY <1>3 DEF RequestStep, Accept, InsertRun, Resolve, Dispatch, Enqueue,
       StoreResult, CompleteRun, StoreFailure, MarkFailed, asyncVars
  <2>2. nats' = Append(nats, r) /\ req[r] = "publishTask"
    BY <1>3, <2>1 DEF AnswerAccepted, PublishTask
  <2>3. ~Waits(r) /\ \A k \in Reports : cb[r][k] = "none"
    BY <2>2 DEF AllConsistent, Consistent, UnderwayIsAccepted
  <2>4. /\ Len(nats') = Len(nats) + 1 /\ nats'[Len(nats) + 1] = r
        /\ \A i \in 1 .. Len(nats) : nats'[i] = nats[i]
        /\ Len(nats) \in Nat
    BY <1>0, <2>2
  <2>5. \A i \in 1 .. Len(nats') : i \in 1 .. Len(nats) \/ i = Len(nats) + 1
    BY <2>4
  <2>6. \A i \in 1 .. Len(nats) : nats[i] # r
    BY <2>3 DEF Waits
  <2>7. \A i, j \in 1 .. Len(nats') : nats'[i] = nats'[j] => i = j
    BY <2>4, <2>5, <2>6 DEF HandedOnce
  <2>8. \A i \in 1 .. Len(nats') :
          nats'[i] # worker.run /\ \A k \in Reports : cb[nats'[i]][k] = "none"
    BY <2>3, <2>4, <2>5 DEF HandedOnce, Waits
  <2> QED
    BY <1>1, <2>7, <2>8 DEF HandedOnce
<1> QED
  BY <1>2, <1>3

\* The worker takes a message from the queue and reports on it once with
\* either outcome; a crash takes messages and handlers away.
LEMMA WorkerHands ==
  ASSUME TypeOK, HandedOnce, WorkerStep \/ ApiCrash \/ WorkerCrash
  PROVE  HandedOnce'
<1>0. /\ nats \in Seq(Runs) /\ cb \in [Runs -> [Reports -> CbStates]]
      /\ worker \in [pc : WorkerStates, run : Runs \cup {NoRun}]
      /\ worker.pc # "idle" => worker.run \in Runs
  BY DEF TypeOK, AsyncTypeOK, WorkerTypeOK, CbTypeOK
<1>n. \A i \in 1 .. Len(nats) : nats[i] \in Runs
  BY <1>0
<1>i. ASSUME worker' = Idle, UNCHANGED <<nats, cb>> PROVE HandedOnce'
  <2>1. worker'.pc = "idle" /\ worker'.run \notin Runs
    BY <1>i, RunAssumption DEF Idle
  <2>2. \A i \in 1 .. Len(nats) : nats[i] # worker'.run
    BY <1>n, <2>1
  <2> QED
    BY <1>i, <2>1, <2>2 DEF HandedOnce
<1>s. ASSUME NEW k \in Reports, NEW pc \in {"report", "giveUp"}, SendReport(k, pc),
             worker.pc # "idle", UNCHANGED nats,
             pc = "report" => k = "succeeded" /\ worker.pc = "graph"
      PROVE  HandedOnce'
  <2>1. worker'.pc = pc /\ worker'.run = worker.run
    BY <1>0, <1>s DEF SendReport
  <2>2. \A q \in Runs : q # worker.run => cb'[q] = cb[q]
    BY <1>0, <1>s DEF SendReport
  <2>3. \A j \in Reports : j # k => cb'[worker.run][j] = cb[worker.run][j]
    BY <1>0, <1>s DEF SendReport
  <2>4. \A i \in 1 .. Len(nats) : cb'[nats[i]] = cb[nats[i]]
    BY <1>n, <2>2 DEF HandedOnce
  <2>5. pc = "report" => cb'[worker.run]["failed"] = "none"
    BY <1>s, <2>3 DEF HandedOnce, Reports
  <2> QED
    BY <1>s, <2>1, <2>4, <2>5 DEF HandedOnce
<1>1. CASE WorkerReceive
  <2>1. /\ nats # <<>> /\ nats' = Tail(nats) /\ worker'.pc = "graph"
        /\ worker'.run = Head(nats) /\ cb' = cb
    BY <1>1 DEF WorkerReceive, cbVars
  <2>2. /\ Len(nats) \in Nat /\ Len(nats) >= 1 /\ Head(nats) = nats[1]
        /\ Len(nats') = Len(nats) - 1
        /\ \A i \in 1 .. Len(nats') : nats'[i] = nats[i + 1]
    BY <1>0, <2>1
  <2>3. \A i \in 1 .. Len(nats') :
          i + 1 \in 1 .. Len(nats) /\ nats'[i] = nats[i + 1] /\ i + 1 # 1
    BY <2>2
  <2>4. 1 \in 1 .. Len(nats)
    BY <2>2
  <2>5. \A i, j \in 1 .. Len(nats') : nats'[i] = nats'[j] => i = j
    <3>1. SUFFICES ASSUME NEW i \in 1 .. Len(nats'), NEW j \in 1 .. Len(nats'),
                          nats'[i] = nats'[j]
                   PROVE  i = j
      OBVIOUS
    <3>a. /\ i + 1 \in 1 .. Len(nats) /\ j + 1 \in 1 .. Len(nats)
          /\ nats[i + 1] = nats[j + 1]
      BY <2>3, <3>1
    <3>b. \A p, q \in 1 .. Len(nats) : nats[p] = nats[q] => p = q
      BY DEF HandedOnce
    <3>2. i + 1 = j + 1
      BY <3>a, <3>b
    <3>3. i \in Nat /\ j \in Nat
      BY <2>2
    <3> QED
      BY <3>2, <3>3
  <2>6. \A i \in 1 .. Len(nats') :
          nats'[i] # worker'.run /\ \A k \in Reports : cb[nats'[i]][k] = "none"
    BY <2>1, <2>2, <2>3, <2>4 DEF HandedOnce
  <2>7. \A k \in Reports : cb[worker'.run][k] = "none"
    BY <2>1, <2>2, <2>4 DEF HandedOnce
  <2> QED
    BY <2>1, <2>5, <2>6, <2>7 DEF HandedOnce
<1>2. CASE GraphSucceeds
  BY <1>2, <1>s DEF GraphSucceeds, asyncVars, Reports
<1>3. CASE GraphFails
  BY <1>3, <1>s DEF GraphFails, asyncVars, Reports
<1>4. CASE ReportReturns
  <2>1. worker'.pc = "ack" /\ worker'.run = worker.run /\ UNCHANGED <<nats, cb>>
        /\ worker.pc = "report"
    BY <1>0, <1>4 DEF ReportReturns, asyncVars
  <2> QED
    BY <2>1 DEF HandedOnce
<1>5. CASE Acknowledge
  BY <1>5, <1>s, <1>i DEF Acknowledge, asyncVars, cbVars, Reports
<1>6. CASE GiveUpReturns
  BY <1>6, <1>i DEF GiveUpReturns, asyncVars
<1>7. CASE ApiCrash
  <2>1. \A r \in Runs, k \in Reports : cb[r][k] = "none" => cb'[r][k] = "none"
    BY <1>7 DEF ApiCrash, InCallback
  <2> QED
    BY <1>0, <1>7, <2>1, HandedKept DEF ApiCrash
<1>8. CASE WorkerCrash
  <2>1. worker'.pc = "idle" /\ Len(nats') = 0
    BY <1>8 DEF WorkerCrash, Idle
  <2> QED
    BY <2>1 DEF HandedOnce
<1> QED
  BY <1>1, <1>2, <1>3, <1>4, <1>5, <1>6, <1>7, <1>8 DEF WorkerStep

\* Every step hands a task over at most once.
LEMMA NextHands ==
  ASSUME TypeOK, AllConsistent, HandedOnce, [Next]_vars
  PROVE  HandedOnce'
<1>0. nats \in Seq(Runs) /\ (worker.pc # "idle" => worker.run \in Runs)
      /\ cb \in [Runs -> [Reports -> CbStates]]
  BY DEF TypeOK, AsyncTypeOK, WorkerTypeOK, CbTypeOK
<1>1. ASSUME UNCHANGED <<nats, worker, cb>> PROVE HandedOnce'
  BY <1>0, <1>1, HandedKept
<1>2. ASSUME NEW r \in Runs, EndContext(r) \/ WatcherStep(r), UNCHANGED <<cbVars, workerVars>>
      PROVE  HandedOnce'
  BY <1>1, <1>2 DEF EndContext, WatcherStep, WatcherCheck, WatcherMark, asyncVars,
                    cbVars, workerVars
<1>3. ASSUME NEW S \in SUBSET Runs, ReapExpired(S), UNCHANGED <<cbVars, workerVars>>
      PROVE  HandedOnce'
  BY <1>1, <1>3 DEF ReapExpired, asyncVars, cbVars, workerVars
<1>4. ASSUME NEW r \in Runs, NEW k \in Reports, CallbackStep(r, k),
             UNCHANGED <<asyncVars, workerVars>>
      PROVE  HandedOnce'
  <2>1. cb[r][k] # "none" /\ \E pc : CbGoto(r, k, pc)
    BY <1>4 DEF CallbackStep, CbUpdate, CbFindRun, CbSetRun, CbFindSession, CbStore,
                CbShow
  <2>2. \A q \in Runs, j \in Reports : cb[q][j] = "none" => cb'[q][j] = "none"
    BY <1>0, <2>1 DEF CbGoto
  <2> QED
    BY <1>0, <1>4, <2>2, HandedKept DEF asyncVars, workerVars
<1>5. CASE UNCHANGED vars
  BY <1>1, <1>5 DEF vars, asyncVars, cbVars, workerVars
<1> QED
  BY <1>2, <1>3, <1>4, <1>5, RequestHands, WorkerHands DEF Next

\* The sets that Told counts are finite.
LEMMA CountsAreNumbers ==
  ASSUME TypeOK, NEW r \in Runs
  PROVE  /\ IsFiniteSet(Shown(r)) /\ Cardinality(Shown(r)) \in Nat
         /\ IsFiniteSet(About(r)) /\ Cardinality(About(r)) \in Nat
         /\ Pending(r) \in Nat /\ msgs[r] \in Nat
<1>1. IsFiniteSet(1 .. Len(log[r]))
  <2>1. 1 \in Int /\ Len(log[r]) \in Int
    BY DEF TypeOK, TablesTypeOK
  <2> QED
    BY <2>1, FS_Interval
<1>2. IsFiniteSet(Shown(r))
  BY <1>1, FS_Subset DEF Shown
<1>3. IsFiniteSet(Reports)
  <2>1. IsFiniteSet({"succeeded"})
    BY FS_Singleton
  <2>2. Reports = {"succeeded"} \cup {"failed"}
    BY DEF Reports
  <2> QED
    BY <2>1, <2>2, FS_AddElement
<1>4. IsFiniteSet(About(r))
  BY <1>3, FS_Subset DEF About
<1> QED
  BY <1>2, <1>4, FS_CardinalityType DEF Pending, TypeOK, TablesTypeOK

\* An answer's event adds one to the events that show one, any other none.
LEMMA ShownGrows ==
  ASSUME TypeOK, NEW r \in Runs, NEW ev \in EventType, Emit(r, ev)
  PROVE  /\ \A q \in Runs : q # r => Shown(q)' = Shown(q)
         /\ ev \in {"result", "error"}
              => Cardinality(Shown(r)') = Cardinality(Shown(r)) + 1
         /\ ev \notin {"result", "error"} => Shown(r)' = Shown(r)
<1>0. log \in [Runs -> Seq(EventType)]
  BY DEF TypeOK, TablesTypeOK
<1>1. \A q \in Runs : q # r => Shown(q)' = Shown(q)
  BY <1>0 DEF Emit, Shown
<1>2. log'[r] = Append(log[r], ev)
  BY <1>0 DEF Emit
<1> DEFINE n == Len(log[r])
<1>3. /\ n \in Nat /\ Len(log'[r]) = n + 1 /\ log'[r][n + 1] = ev
      /\ \A i \in 1 .. n : log'[r][i] = log[r][i]
  BY <1>0, <1>2
<1>4. 1 .. Len(log'[r]) = (1 .. n) \cup {n + 1} /\ n + 1 \notin 1 .. n
  BY <1>3
<1> HIDE DEF n
<1>5. Shown(r) = {i \in 1 .. n : log[r][i] \in {"result", "error"}}
  BY DEF Shown, n
<1>6. Shown(r)' = {i \in (1 .. n) \cup {n + 1} : log'[r][i] \in {"result", "error"}}
  BY <1>4 DEF Shown
<1>7. ASSUME ev \in {"result", "error"}
      PROVE  Cardinality(Shown(r)') = Cardinality(Shown(r)) + 1
  <2>1. Shown(r)' = Shown(r) \cup {n + 1}
    BY <1>3, <1>5, <1>6, <1>7
  <2>2. n + 1 \notin Shown(r)
    BY <1>4, <1>5
  <2> QED
    BY <2>1, <2>2, CountsAreNumbers, FS_AddElement
<1>8. ASSUME ev \notin {"result", "error"} PROVE Shown(r)' = Shown(r)
  BY <1>3, <1>5, <1>6, <1>8
<1> QED
  BY <1>1, <1>7, <1>8

\* A handler that enters or leaves the step before its event is counted in
\* or out, and no other handler is.
LEMMA AboutMoves ==
  ASSUME TypeOK, NEW r \in Runs, NEW k \in Reports, NEW pc \in CbStates,
         CbGoto(r, k, pc)
  PROVE  /\ \A q \in Runs : q # r => About(q)' = About(q)
         /\ pc # "show" /\ cb[r][k] # "show" => About(r)' = About(r)
         /\ pc = "show" /\ cb[r][k] # "show"
              => Cardinality(About(r)') = Cardinality(About(r)) + 1
         /\ pc # "show" /\ cb[r][k] = "show"
              => Cardinality(About(r)') = Cardinality(About(r)) - 1
<1>0. cb \in [Runs -> [Reports -> CbStates]]
  BY DEF TypeOK, CbTypeOK
<1>1. \A q \in Runs : q # r => About(q)' = About(q)
  BY <1>0 DEF CbGoto, About
<1>2. cb'[r][k] = pc /\ \A j \in Reports : j # k => cb'[r][j] = cb[r][j]
  BY <1>0 DEF CbGoto
<1>3. ASSUME pc # "show", cb[r][k] # "show" PROVE About(r)' = About(r)
  BY <1>2, <1>3 DEF About
<1>4. ASSUME pc = "show", cb[r][k] # "show"
      PROVE  Cardinality(About(r)') = Cardinality(About(r)) + 1
  <2>1. About(r)' = About(r) \cup {k} /\ k \notin About(r)
    BY <1>2, <1>4 DEF About
  <2> QED
    BY <2>1, CountsAreNumbers, FS_AddElement
<1>5. ASSUME pc # "show", cb[r][k] = "show"
      PROVE  Cardinality(About(r)') = Cardinality(About(r)) - 1
  <2>1. About(r)' = About(r) \ {k} /\ k \in About(r)
    BY <1>2, <1>5 DEF About
  <2> QED
    BY <2>1, CountsAreNumbers, FS_RemoveElement
<1> QED
  BY <1>1, <1>3, <1>4, <1>5

\* A run whose messages, events and handlers stay as they were stays told.
LEMMA ToldKept ==
  ASSUME NEW q \in Runs, Told(q), msgs'[q] = msgs[q], Shown(q)' = Shown(q),
         About(q)' = About(q), Pending(q)' = Pending(q)
  PROVE  Told(q)'
BY DEF Told

\* A request stores an answer on its way to the step that shows it.
LEMMA RequestTells ==
  ASSUME TypeOK, NEW r \in Runs, RequestStep(r), UNCHANGED <<cbVars, workerVars>>,
         Told(r)
  PROVE  Told(r)'
<1>0. /\ req \in [Runs -> ReqStates] /\ msgs \in [Runs -> Nat]
      /\ log \in [Runs -> Seq(EventType)]
  BY DEF TypeOK, TablesTypeOK, ReqTypeOK
<1>1. About(r)' = About(r)
  BY DEF About, cbVars
<1>2. ASSUME NEW pc, Goto(r, pc)
      PROVE  Pending(r)' = IF pc \in {"complete", "markFailed"} THEN 1 ELSE 0
  BY <1>0, <1>2 DEF Goto, Pending
<1>3. ASSUME AddMessage(r) PROVE msgs'[r] = msgs[r] + 1
  BY <1>0, <1>3 DEF AddMessage
<1>4. ASSUME log' = log PROVE Shown(r)' = Shown(r)
  BY <1>4 DEF Shown
<1>5. ASSUME NEW ev \in EventType, ev \notin {"result", "error"}, Emit(r, ev)
      PROVE  Shown(r)' = Shown(r)
  BY <1>5, ShownGrows
<1>6. CASE Accept(r) \/ InsertRun(r)
  <2>1. msgs' = msgs /\ Pending(r)' = Pending(r)
    BY <1>6, <1>2 DEF Accept, InsertRun, Pending
  <2>2. Shown(r)' = Shown(r)
    BY <1>6, <1>4, <1>5 DEF Accept, InsertRun, EventType
  <2> QED
    BY <1>1, <2>1, <2>2, ToldKept
<1>7. CASE Resolve(r) \/ Dispatch(r) \/ Enqueue(r) \/ AnswerAccepted(r)
  <2>1. msgs' = msgs /\ log' = log
    BY <1>7 DEF Resolve, Dispatch, Enqueue, AnswerAccepted, tableVars
  <2>2. Pending(r) = 0
    BY <1>7 DEF Resolve, Dispatch, Enqueue, AnswerAccepted, Pending
  <2>3. Pending(r)' = 0
    <3>1. CASE Resolve(r)
      BY <3>1, <1>2 DEF Resolve, ResolveDataset, AskKnowledge, ResolveSource
    <3>2. CASE Dispatch(r)
      BY <3>2, <1>2 DEF Dispatch
    <3>3. CASE Enqueue(r)
      <4>1. Goto(r, "publishTask") \/ Goto(r, "storeFailure")
        BY <3>3 DEF Enqueue
      <4> QED
        BY <4>1, <1>2
    <3>4. CASE AnswerAccepted(r)
      BY <3>4, <1>2 DEF AnswerAccepted
    <3> QED
      BY <1>7, <3>1, <3>2, <3>3, <3>4
  <2> QED
    BY <1>1, <1>4, <2>1, <2>2, <2>3, ToldKept
<1>8. CASE StoreResult(r)
  <2>1. Shown(r)' = Shown(r) /\ Pending(r) = 0
    BY <1>8, <1>5 DEF StoreResult, EventType, Pending
  <2>2. \/ msgs'[r] = msgs[r] + 1 /\ Pending(r)' = 1
        \/ msgs'[r] = msgs[r] /\ Pending(r)' \in {0, 1}
    BY <1>8, <1>2, <1>3 DEF StoreResult
  <2> QED
    BY <1>1, <2>1, <2>2, CountsAreNumbers DEF Told
<1>9. CASE StoreFailure(r)
  <2>1. Shown(r)' = Shown(r) /\ Pending(r) = 0 /\ Pending(r)' = 1
    BY <1>9, <1>2, <1>4 DEF StoreFailure, Pending
  <2>2. msgs'[r] = msgs[r] + 1 \/ msgs'[r] = msgs[r]
    BY <1>9, <1>3 DEF StoreFailure
  <2> QED
    BY <1>1, <2>1, <2>2, CountsAreNumbers DEF Told
<1>10. CASE CompleteRun(r) \/ MarkFailed(r)
  <2>1. msgs' = msgs /\ Pending(r) = 1
    BY <1>10 DEF CompleteRun, MarkFailed, Pending
  <2>2. Pending(r)' = 0
    BY <1>10, <1>2 DEF CompleteRun, MarkFailed
  <2>3. \E ev \in {"result", "error"} : Emit(r, ev)
    BY <1>10 DEF CompleteRun, MarkFailed
  <2>4. Cardinality(Shown(r)') = Cardinality(Shown(r)) + 1
    BY <2>3, ShownGrows DEF EventType
  <2> QED
    BY <1>1, <2>1, <2>2, <2>4, CountsAreNumbers DEF Told
<1> QED
  BY <1>6, <1>7, <1>8, <1>9, <1>10 DEF RequestStep

\* A callback handler stores an answer on its way to the step that shows it.
LEMMA CallbackTells ==
  ASSUME TypeOK, NEW r \in Runs, NEW k \in Reports, CallbackStep(r, k),
         UNCHANGED <<asyncVars, reqVars, workerVars>>, NEW q \in Runs, Told(q)
  PROVE  Told(q)'
<1>0. msgs \in [Runs -> Nat] /\ log \in [Runs -> Seq(EventType)]
  BY DEF TypeOK, TablesTypeOK
<1>1. Pending(q)' = Pending(q)
  BY DEF Pending, reqVars
<1>2. ASSUME log' = log PROVE Shown(q)' = Shown(q)
  BY <1>2 DEF Shown
<1>3. CASE CbUpdate(r, k) \/ CbFindRun(r, k) \/ CbSetRun(r, k) \/ CbFindSession(r, k)
  <2>1. msgs' = msgs /\ log' = log /\ cb[r][k] # "show"
    BY <1>3 DEF CbUpdate, CbFindRun, CbSetRun, CbFindSession, tableVars
  <2>2. \E pc \in CbStates \ {"show"} : CbGoto(r, k, pc)
    BY <1>3 DEF CbUpdate, CbFindRun, CbSetRun, CbFindSession, CbStates, InCallback
  <2>3. About(q)' = About(q)
    BY <2>1, <2>2, AboutMoves
  <2> QED
    BY <1>1, <1>2, <2>1, <2>3, ToldKept
<1>4. CASE CbStore(r, k)
  <2>1. log' = log /\ cb[r][k] # "show" /\ CbGoto(r, k, "show")
    BY <1>4 DEF CbStore
  <2>2. /\ q # r => About(q)' = About(q)
        /\ q = r => Cardinality(About(q)') = Cardinality(About(q)) + 1
    BY <2>1, AboutMoves DEF CbStates, InCallback
  <2>3. /\ q # r => msgs'[q] = msgs[q]
        /\ msgs'[q] = msgs[q] + 1 \/ msgs'[q] = msgs[q]
    BY <1>0, <1>4 DEF CbStore, AddMessage
  <2> QED
    BY <1>1, <1>2, <2>1, <2>2, <2>3, CountsAreNumbers DEF Told
<1>5. CASE CbShow(r, k)
  <2>1. msgs' = msgs /\ cb[r][k] = "show" /\ CbGoto(r, k, "end") /\ Emit(r, "result")
    BY <1>5 DEF CbShow
  <2>2. /\ q # r => About(q)' = About(q)
        /\ q = r => Cardinality(About(q)') = Cardinality(About(q)) - 1
    BY <2>1, AboutMoves DEF CbStates, InCallback
  <2>3. /\ q # r => Shown(q)' = Shown(q)
        /\ q = r => Cardinality(Shown(q)') = Cardinality(Shown(q)) + 1
    BY <2>1, ShownGrows DEF EventType
  <2>4. CASE q = r
    BY <1>1, <2>1, <2>2, <2>3, <2>4, CountsAreNumbers DEF Told
  <2>5. CASE q # r
    BY <1>1, <2>1, <2>2, <2>3, <2>5, ToldKept
  <2> QED
    BY <2>4, <2>5
<1> QED
  BY <1>3, <1>4, <1>5 DEF CallbackStep

\* A report is sent where none of its kind was: no handler is replaced that
\* still has to show what it stored.
LEMMA WorkerTells ==
  ASSUME TypeOK, HandedOnce, WorkerStep, NEW q \in Runs, Told(q)
  PROVE  Told(q)'
<1>0. worker.pc # "idle" => worker.run \in Runs
  BY DEF TypeOK, WorkerTypeOK
<1>1. UNCHANGED <<msgs, log, req>>
  BY DEF WorkerStep, WorkerReceive, GraphSucceeds, GraphFails, ReportReturns,
         Acknowledge, GiveUpReturns, tableVars, reqVars
<1>2. Shown(q)' = Shown(q) /\ Pending(q)' = Pending(q) /\ msgs'[q] = msgs[q]
  BY <1>1 DEF Shown, Pending
<1>3. ASSUME NEW k \in Reports, NEW pc, SendReport(k, pc), worker.pc # "idle",
             cb[worker.run][k] = "none"
      PROVE  About(q)' = About(q)
  <2>1. \E st \in {"update", "end"} : CbGoto(worker.run, k, st)
    BY <1>3 DEF SendReport, CbGoto
  <2> QED
    BY <1>0, <1>3, <2>1, AboutMoves DEF CbStates, InCallback
<1>4. ASSUME cb' = cb PROVE About(q)' = About(q)
  BY <1>4 DEF About
<1>5. About(q)' = About(q)
  <2>1. CASE GraphSucceeds
    BY <2>1, <1>3 DEF GraphSucceeds, HandedOnce, Reports
  <2>2. CASE GraphFails
    BY <2>2, <1>3 DEF GraphFails, HandedOnce, Reports
  <2>3. CASE Acknowledge
    BY <2>3, <1>3, <1>4 DEF Acknowledge, HandedOnce, Reports, cbVars
  <2>4. CASE WorkerReceive \/ ReportReturns \/ GiveUpReturns
    BY <2>4, <1>4 DEF WorkerReceive, ReportReturns, GiveUpReturns, cbVars
  <2> QED
    BY <2>1, <2>2, <2>3, <2>4 DEF WorkerStep
<1> QED
  BY <1>2, <1>5, ToldKept

\* Every step of a process that lives keeps the stored answers on their way.
LEMMA NextTells ==
  ASSUME TypeOK, HandedOnce, StoredIsShown, [Next]_vars
  PROVE  StoredIsShown'
<1> SUFFICES ASSUME crashes' = 0, NEW q \in Runs PROVE Told(q)'
  BY DEF StoredIsShown
<1>0. crashes \in Nat /\ log \in [Runs -> Seq(EventType)]
  BY RunAssumption DEF TypeOK, WorkerTypeOK, TablesTypeOK
<1>1. ~ApiCrash /\ ~WorkerCrash
  BY <1>0 DEF ApiCrash, WorkerCrash
<1>2. crashes = 0
  <2>1. UNCHANGED crashes
    BY <1>1 DEF Next, WorkerStep, WorkerReceive, GraphSucceeds, GraphFails,
       ReportReturns, Acknowledge, GiveUpReturns, workerVars, vars
  <2> QED
    BY <2>1
<1>3. Told(q)
  BY <1>2 DEF StoredIsShown
<1>4. ASSUME UNCHANGED <<msgs, log, req, cb>> PROVE Told(q)'
  BY <1>3, <1>4 DEF Told, Shown, About, Pending
<1>5. ASSUME NEW r \in Runs, RequestStep(r), UNCHANGED <<cbVars, workerVars>>
      PROVE  Told(q)'
  <2>1. CASE q = r
    BY <1>3, <1>5, <2>1, RequestTells
  <2>2. CASE q # r
    <3>1. Undisturbed(q)
      BY <1>5, <2>2, RequestIsLocal
    <3> QED
      BY <1>3, <3>1 DEF Undisturbed, Told, Shown, About, Pending
  <2> QED
    BY <2>1, <2>2
<1>6. ASSUME NEW r \in Runs, EndContext(r), UNCHANGED <<cbVars, workerVars>>
      PROVE  Told(q)'
  BY <1>4, <1>6 DEF EndContext, tableVars, cbVars
<1>7. ASSUME NEW r \in Runs, WatcherStep(r), UNCHANGED <<reqVars, cbVars, workerVars>>
      PROVE  Told(q)'
  <2>1. UNCHANGED <<msgs, req, cb>> /\ (log' = log \/ Emit(r, "task_timeout"))
    BY <1>7 DEF WatcherStep, WatcherCheck, WatcherMark, tableVars, reqVars, cbVars
  <2>2. CASE Emit(r, "task_timeout")
    <3>1. Shown(q)' = Shown(q)
      BY <2>2, ShownGrows DEF EventType
    <3> QED
      BY <1>3, <2>1, <3>1, ToldKept DEF About, Pending
  <2> QED
    BY <1>4, <2>1, <2>2
<1>8. ASSUME NEW S \in SUBSET Runs, ReapExpired(S), UNCHANGED <<reqVars, cbVars, workerVars>>
      PROVE  Told(q)'
  BY <1>4, <1>8 DEF ReapExpired, reqVars, cbVars
<1>9. CASE UNCHANGED vars
  BY <1>4, <1>9 DEF vars, tableVars, reqVars, cbVars
<1> QED
  BY <1>1, <1>3, <1>5, <1>6, <1>7, <1>8, <1>9, CallbackTells, WorkerTells DEF Next

\* At the start nothing is queued, reported or stored.
LEMMA InitTells == Init => HandedOnce /\ StoredIsShown
<1> SUFFICES ASSUME Init PROVE HandedOnce /\ StoredIsShown
  OBVIOUS
<1>1. HandedOnce
  <2>1. Len(nats) = 0 /\ worker.pc = "idle"
    BY DEF Init, AsyncInit, Idle
  <2> QED
    BY <2>1 DEF HandedOnce
<1>2. ASSUME NEW r \in Runs PROVE Told(r)
  <2>1. msgs[r] = 0
    BY DEF Init, TablesInit
  <2> QED
    BY <2>1, InitType, CountsAreNumbers DEF Told
<1> QED
  BY <1>1, <1>2 DEF StoredIsShown

\* A task is handed to the consumer once and reported on once with either
\* outcome, in spite of crashes and of lost publishes and calls.
THEOREM TasksAreHandedOnce == Spec => []HandedOnce
BY InitTells, NextHands, TypeCorrect, Consistency, PTL DEF Spec

\* As long as no process died, every assistant message in the table was
\* shown by an event or is about to be, whichever statement or call fails.
THEOREM StoredAnswersAreShown == Spec => []StoredIsShown
BY InitTells, NextTells, TypeCorrect, TasksAreHandedOnce, PTL DEF Spec
-----------------------------------------------------------------------------
(* Refinement: runs, tasks and their handlers implement Question.          *)

\* Before anything happens no question is answered and nothing is in sight.
LEMMA InitQuestion == Init => Q!Init
BY DEF Init, TablesInit, ReqInit, Q!Init, AnswerOf

\* A step that writes rows and events of run r only shows something of r.
LEMMA ShowsOne ==
  ASSUME NEW r \in Runs,
         \A q \in Runs : q # r => runs'[q] = runs[q] /\ msgs'[q] = msgs[q] /\ log'[q] = log[q]
  PROVE  Q!Show(r)
BY DEF Q!Show

\* A step that answers request r answers no other.
LEMMA AnswersOne ==
  ASSUME NEW r \in Runs, \A q \in Runs : q # r => req'[q] = req[q]
  PROVE  [q \in Runs |-> AnswerOf(q)]'
           = [[q \in Runs |-> AnswerOf(q)] EXCEPT ![r] = AnswerOf(r)']
BY DEF AnswerOf

\* What a step of a request does to its answer and to its task.
LEMMA RequestAnswers ==
  ASSUME TypeOK, AllConsistent, NEW r \in Runs, RequestStep(r)
  PROVE  /\ AnswerOf(r) = "none"
         /\ \/ AnswerOf(r)' \in {"none", "error"} /\ UNCHANGED tasks
            \/ AnswerOf(r)' = "ok" /\ UNCHANGED tasks /\ tasks[r] = "absent"
            \/ /\ AnswerOf(r)' = "accepted" /\ UNCHANGED tableVars
               /\ tasks[r] # "absent"
            \/ /\ AnswerOf(r)' = "none" /\ tasks[r] = "absent"
               /\ tasks' = [tasks EXCEPT ![r] = "queued"]
               /\ UNCHANGED <<runs, msgs, log>>
<1> USE DEF tableVars
<1>0. TablesTypeOK /\ ReqTypeOK /\ RowByEnqueue(r)
  BY DEF TypeOK, AllConsistent, Consistent
<1>d. ASSUME NEW pc, Goto(r, pc) PROVE req'[r] = pc
  BY <1>d, <1>0 DEF Goto, ReqTypeOK
<1>1. CASE Accept(r)
  <2>1. req[r] = "new" /\ req'[r] \in {"rejected", "insertRun"} /\ UNCHANGED tasks
    BY <1>1, <1>d DEF Accept
  <2> QED
    BY <2>1 DEF AnswerOf
<1>2. CASE InsertRun(r)
  <2>1. req[r] = "insertRun" /\ req'[r] = "resolve" /\ UNCHANGED tasks
    BY <1>2, <1>d DEF InsertRun
  <2> QED
    BY <2>1 DEF AnswerOf
<1>3. CASE Resolve(r)
  <2>1. /\ req[r] = "resolve" /\ UNCHANGED tasks
        /\ req'[r] \in {"dispatch", "storeResult", "storeFailure", "badSchema"}
    BY <1>3, <1>d DEF Resolve, ResolveDataset, AskKnowledge, ResolveSource
  <2> QED
    BY <2>1 DEF AnswerOf
<1>4. CASE Dispatch(r)
  <2>1. /\ req[r] = "dispatch" /\ UNCHANGED tasks
        /\ req'[r] \in {"enqueue", "storeResult", "storeFailure"}
    BY <1>4, <1>d DEF Dispatch
  <2> QED
    BY <2>1 DEF AnswerOf
<1>5. CASE Enqueue(r)
  <2>1. /\ req[r] = "enqueue" /\ req'[r] \in {"publishTask", "storeFailure"}
        /\ UNCHANGED <<runs, msgs, log>>
        /\ tasks' = tasks \/ tasks' = [tasks EXCEPT ![r] = "queued"]
    BY <1>5, <1>d DEF Enqueue, InsertTask
  <2>2. tasks[r] = "absent"
    BY <1>0, <2>1 DEF RowByEnqueue
  <2> QED
    BY <2>1, <2>2 DEF AnswerOf
<1>6. CASE AnswerAccepted(r)
  <2>1. req[r] = "publishTask" /\ req'[r] = "accepted" /\ UNCHANGED tableVars
    BY <1>6, <1>d DEF AnswerAccepted
  <2>2. tasks[r] # "absent"
    BY <1>0, <2>1 DEF RowByEnqueue
  <2> QED
    BY <2>1, <2>2 DEF AnswerOf
<1>7. CASE StoreResult(r)
  <2>1. /\ req[r] = "storeResult" /\ UNCHANGED tasks
        /\ req'[r] \in {"complete", "storeFailure"}
    BY <1>7, <1>d DEF StoreResult
  <2> QED
    BY <2>1 DEF AnswerOf
<1>8. CASE CompleteRun(r)
  <2>1. req[r] = "complete" /\ req'[r] = "ok" /\ UNCHANGED tasks
    BY <1>8, <1>d DEF CompleteRun
  <2>2. tasks[r] = "absent"
    BY <1>0, <2>1 DEF RowByEnqueue
  <2> QED
    BY <2>1, <2>2 DEF AnswerOf
<1>9. CASE StoreFailure(r) \/ MarkFailed(r)
  <2>1. /\ req[r] \in {"storeFailure", "markFailed"} /\ UNCHANGED tasks
        /\ req'[r] \in {"markFailed", "failed"}
    BY <1>9, <1>d DEF StoreFailure, MarkFailed
  <2> QED
    BY <2>1 DEF AnswerOf
<1> QED
  BY <1>1, <1>2, <1>3, <1>4, <1>5, <1>6, <1>7, <1>8, <1>9 DEF RequestStep

\* A step of a request works on the question, answers it, or makes its task.
LEMMA RequestRefines ==
  ASSUME TypeOK, AllConsistent, NEW r \in Runs, RequestStep(r),
         UNCHANGED <<cbVars, workerVars>>
  PROVE  Q!Next
<1>1. \A q \in Runs : q # r => Undisturbed(q)
  BY RequestIsLocal
<1>2. Q!Show(r)
  BY <1>1, ShowsOne DEF Undisturbed
<1>3. [q \in Runs |-> AnswerOf(q)]'
        = [[q \in Runs |-> AnswerOf(q)] EXCEPT ![r] = AnswerOf(r)']
  BY <1>1, AnswersOne DEF Undisturbed
<1>4. AnswerOf(r) = "none"
  BY RequestAnswers
<1>5. CASE AnswerOf(r)' = "none" /\ UNCHANGED tasks
  <2>1. [q \in Runs |-> AnswerOf(q)]' = [q \in Runs |-> AnswerOf(q)]
    BY <1>3, <1>4, <1>5
  <2> QED
    BY <1>2, <1>4, <1>5, <2>1 DEF Q!Work, Q!Next
<1>6. CASE AnswerOf(r)' = "error" /\ UNCHANGED tasks
  BY <1>2, <1>3, <1>4, <1>6 DEF Q!Refuse, Q!Next
<1>7. CASE AnswerOf(r)' = "ok" /\ UNCHANGED tasks /\ tasks[r] = "absent"
  BY <1>2, <1>3, <1>4, <1>7 DEF Q!Finish, Q!Next
<1>8. CASE AnswerOf(r)' = "accepted" /\ UNCHANGED tableVars /\ tasks[r] # "absent"
  BY <1>3, <1>4, <1>8 DEF Q!Promise, Q!Next, tableVars
<1>9. CASE /\ AnswerOf(r)' = "none" /\ tasks[r] = "absent"
           /\ tasks' = [tasks EXCEPT ![r] = "queued"] /\ UNCHANGED <<runs, msgs, log>>
  <2>1. [q \in Runs |-> AnswerOf(q)]' = [q \in Runs |-> AnswerOf(q)]
    BY <1>3, <1>4, <1>9
  <2> QED
    BY <1>4, <1>9, <2>1 DEF Q!Create, Q!Next
<1> QED
  BY <1>5, <1>6, <1>7, <1>8, <1>9, RequestAnswers

\* A guarded UPDATE that nobody sees settles the task or changes nothing.
LEMMA SettleRefines ==
  ASSUME TablesTypeOK, NEW r \in Runs, NEW st \in Settled,
         SettleTask(r, st), UNCHANGED <<runs, msgs, log, req>>
  PROVE  [Q!Next]_Q!vars
<1>1. UNCHANGED [q \in Runs |-> AnswerOf(q)]
  BY DEF AnswerOf
<1>2. CASE tasks[r] \in Active
  <2>1. tasks' = [q \in Runs |-> IF q \in {r} THEN st ELSE tasks[q]]
    BY <1>2 DEF SettleTask, TablesTypeOK
  <2>2. Q!Settle({r}, st)
    BY <1>1, <1>2, <2>1 DEF Q!Settle, Q!Unsettled, Active
  <2> QED
    BY <2>2 DEF Q!Next, Q!Outcomes, Settled
<1>3. CASE tasks[r] \notin Active
  BY <1>1, <1>3 DEF SettleTask, Q!vars
<1> QED
  BY <1>2, <1>3

\* The watcher settles the task it announces, or finds it settled.
LEMMA WatcherRefines ==
  ASSUME TypeOK, AllConsistent, NEW r \in Runs, WatcherStep(r),
         UNCHANGED <<reqVars, cbVars, workerVars>>
  PROVE  [Q!Next]_Q!vars
<1> USE DEF tableVars, reqVars
<1>0. TablesTypeOK
  BY DEF TypeOK
<1>1. UNCHANGED [q \in Runs |-> AnswerOf(q)]
  BY DEF AnswerOf
<1>2. CASE UNCHANGED tableVars
  BY <1>1, <1>2 DEF Q!vars
<1>3. CASE /\ watch[r] = "expiring" /\ SettleTask(r, "timeout")
           /\ Emit(r, "task_timeout") /\ UNCHANGED <<runs, msgs>>
  <2>1. AnswerOf(r) = "accepted" /\ tasks[r] # "absent"
    BY <1>3 DEF AllConsistent, Consistent, UnderwayIsAccepted, RowByEnqueue, AnswerOf
  <2>2. Q!Show(r)
    BY <1>0, <1>3, ShowsOne DEF Emit, TablesTypeOK
  <2>3. tasks[r] \in Active \/ tasks[r] \in Settled
    BY <1>0, <2>1 DEF TablesTypeOK, TaskStatus
  <2>4. \/ tasks[r] \in Settled /\ UNCHANGED tasks
        \/ tasks[r] \in Active /\ tasks' = [tasks EXCEPT ![r] = "timeout"]
    BY <1>3, <2>3 DEF SettleTask, Settled, Active
  <2>5. Q!Report(r)
    BY <1>1, <2>1, <2>2, <2>4 DEF Q!Report, Q!Outcomes, Q!Unsettled, Settled, Active
  <2> QED
    BY <2>5 DEF Q!Next
<1> QED
  BY <1>2, <1>3 DEF WatcherStep, WatcherCheck, WatcherMark

\* A callback settles the task first and shows what came of it afterwards.
LEMMA CallbackRefines ==
  ASSUME TypeOK, AllConsistent, NEW r \in Runs, NEW k \in Reports, CallbackStep(r, k),
         UNCHANGED <<asyncVars, reqVars, workerVars>>
  PROVE  [Q!Next]_Q!vars
<1> USE DEF tableVars, reqVars
<1>0. TablesTypeOK /\ k \in Settled
  BY DEF TypeOK, Reports, Settled
<1>1. UNCHANGED [q \in Runs |-> AnswerOf(q)]
  BY DEF AnswerOf
<1>2. CASE UNCHANGED tableVars
  BY <1>1, <1>2 DEF Q!vars
<1>3. CASE CbUpdate(r, k)
  <2>1. SettleTask(r, k) \/ UNCHANGED tableVars
    BY <1>3 DEF CbUpdate
  <2> QED
    BY <1>0, <1>2, <1>3, <2>1, SettleRefines DEF CbUpdate
<1>4. CASE CbSetRun(r, k) \/ CbStore(r, k) \/ CbShow(r, k)
  <2>1. cb[r][k] \in InCallback \ {"update"} /\ cb[r][k] # "none" /\ UNCHANGED tasks
    BY <1>4 DEF CbSetRun, CbStore, CbShow, InCallback
  <2>2. AnswerOf(r) = "accepted" /\ tasks[r] \in Settled
    BY <2>1 DEF AllConsistent, Consistent, UnderwayIsAccepted, HandlerAfterUpdate, AnswerOf
  <2>3. Q!Show(r)
    BY <1>0, <1>4, ShowsOne
       DEF CbSetRun, CbStore, CbShow, SetRun, AddMessage, Emit, TablesTypeOK
  <2>4. Q!Report(r)
    BY <1>1, <2>1, <2>2, <2>3 DEF Q!Report, Q!Outcomes, Settled
  <2> QED
    BY <2>4 DEF Q!Next
<1> QED
  BY <1>2, <1>3, <1>4 DEF CallbackStep, CbFindRun, CbFindSession

\* Every step of the system is a step of Question or leaves it alone.
LEMMA StepQuestion ==
  TypeOK /\ AllConsistent /\ [Next]_vars => [Q!Next]_Q!vars
<1> SUFFICES ASSUME TypeOK, AllConsistent, [Next]_vars PROVE [Q!Next]_Q!vars
  OBVIOUS
<1>1. ASSUME UNCHANGED <<tableVars, req>> PROVE [Q!Next]_Q!vars
  BY <1>1 DEF Q!vars, AnswerOf, tableVars
<1>2. ASSUME NEW S \in SUBSET Runs, ReapExpired(S), UNCHANGED <<reqVars, cbVars, workerVars>>
      PROVE  [Q!Next]_Q!vars
  <2>1. UNCHANGED [q \in Runs |-> AnswerOf(q)]
    BY <1>2 DEF AnswerOf, reqVars
  <2>2. Q!Settle(S, "expired")
    BY <1>2, <2>1 DEF ReapExpired, Q!Settle, Q!Unsettled, Active
  <2> QED
    BY <2>2 DEF Q!Next, Q!Outcomes
<1>3. CASE ApiCrash
  <2> DEFINE S == {r \in Runs : req[r] \in InHandler}
  <2>1. UNCHANGED tableVars
        /\ req' = [r \in Runs |-> IF req[r] \in InHandler THEN "aborted" ELSE req[r]]
    BY <1>3 DEF ApiCrash
  <2>2. \A r \in S : AnswerOf(r) = "none"
    BY DEF AnswerOf, InHandler
  <2>3. \A r \in Runs : AnswerOf(r)' = IF r \in S THEN "error" ELSE AnswerOf(r)
    BY <2>1 DEF AnswerOf
  <2>4. Q!Die(S)
    BY <2>1, <2>2, <2>3 DEF Q!Die, tableVars
  <2> QED
    BY <2>4 DEF Q!Next
<1>4. CASE WorkerStep \/ WorkerCrash
  BY <1>1, <1>4 DEF WorkerStep, WorkerReceive, GraphSucceeds, GraphFails,
     ReportReturns, Acknowledge, GiveUpReturns, WorkerCrash, reqVars
<1>5. ASSUME NEW r \in Runs, EndContext(r) PROVE [Q!Next]_Q!vars
  BY <1>1, <1>5 DEF EndContext
<1>6. CASE UNCHANGED vars
  BY <1>1, <1>6 DEF vars, reqVars
<1> QED
  BY <1>2, <1>3, <1>4, <1>5, <1>6, RequestRefines, WatcherRefines, CallbackRefines
     DEF Next

\* The request handlers, watchers, callbacks, reaper and consumer, with every
\* failure and crash, keep the promise of Question to whoever asks.
THEOREM RunsImplementQuestion == Spec => ImplementsQuestion
BY InitQuestion, StepQuestion, TypeCorrect, Consistency, PTL
   DEF Spec, ImplementsQuestion, Q!Spec
=============================================================================
