-------------------------- MODULE DatasetStoreProofs --------------------------
(***************************************************************************)
(* Proofs about DatasetStore, for any tables, any number of deletes and    *)
(* requests, and any faults.                                               *)
(***************************************************************************)
EXTENDS DatasetStore, TLAPS

-----------------------------------------------------------------------------
(* Types.                                                                  *)

CallRecord == [pc : CallStates, job : Jobs, tab : Tables, pool : 0 .. MaxPools]
DelRecord  == [pc : DelStates, dropped : BOOLEAN]

\* A slot without a request is a request record.
LEMMA IdleType == Idle \in CallRecord
<1>1. (CHOOSE t \in Tables : TRUE) \in Tables
  BY StoreAssumption
<1> QED  BY <1>1, StoreAssumption DEF Idle, CallRecord, CallStates, Jobs

\* The initial state has the types of TypeOK.
LEMMA InitType == Init => TypeOK
<1> SUFFICES ASSUME Init PROVE TypeOK
  OBVIOUS
<1>1. call \in [Calls -> CallRecord]  BY IdleType DEF Init
<1>2. del \in [Deletes -> DelRecord]  BY DEF Init, DelRecord, DelStates
<1>3. cached \in 0 .. MaxPools /\ made \in 0 .. MaxPools
  BY StoreAssumption DEF Init
<1>4. /\ phys \in SUBSET Tables /\ opened \in SUBSET (1 .. made)
      /\ dropSent \in SUBSET Tables
  BY DEF Init
<1> QED
  BY <1>1, <1>2, <1>3, <1>4
     DEF Init, TypeOK, CallRecord, DelRecord, CreatorStates

\* CreateDataset keeps the types.
LEMMA CreateType ==
  ASSUME TypeOK, CheckName \/ CreateDb \/ InsertRow \/ Rollback \/ Grant
  PROVE  TypeOK'
<1> USE DEF TypeOK, CreatorStates, sqlVars, poolVars, histVars
<1>1. CASE CheckName  BY <1>1 DEF CheckName
<1>2. CASE CreateDb  BY <1>2 DEF CreateDb
<1>3. CASE InsertRow  BY <1>3 DEF InsertRow
<1>4. CASE Rollback  BY <1>4 DEF Rollback
<1>5. CASE Grant  BY <1>5 DEF Grant
<1> QED  BY <1>1, <1>2, <1>3, <1>4, <1>5

\* DeleteDataset keeps the types.
LEMMA DeleteType ==
  ASSUME TypeOK, NEW x \in Deletes, DeleteStep(x)
  PROVE  TypeOK'
<1> USE DEF TypeOK, DelStates, sqlVars, poolVars, histVars
<1>1. CASE BeginDelete(x)  BY <1>1 DEF BeginDelete
<1>2. CASE DropDatabase(x)
  <2>1. del' \in [Deletes -> [pc : DelStates, dropped : BOOLEAN]]
    <3>1. CASE del' = [del EXCEPT ![x] = [pc |-> "mark", dropped |-> TRUE]]
      BY <3>1
    <3>2. CASE del' = [del EXCEPT ![x].pc = "mark"]
      BY <3>2
    <3> QED  BY <1>2, <3>1, <3>2 DEF DropDatabase
  <2>2. db' \in BOOLEAN /\ phys' \in SUBSET Tables
    BY <1>2 DEF DropDatabase
  <2> QED  BY <1>2, <2>1, <2>2 DEF DropDatabase
<1>3. CASE MarkDeleted(x)  BY <1>3 DEF MarkDeleted
<1>4. CASE ClosePool(x)
  <2>1. opened' \in SUBSET (1 .. made') /\ cached' \in 0 .. MaxPools
    BY <1>4, StoreAssumption DEF ClosePool
  <2> QED  BY <1>4, <2>1 DEF ClosePool
<1> QED  BY <1>1, <1>2, <1>3, <1>4 DEF DeleteStep

\* The requests that use the dataset keep the types.
LEMMA CallType ==
  ASSUME TypeOK, NEW u \in Calls, CallStep(u)
  PROVE  TypeOK'
<1> USE IdleType DEF CallRecord
<1>0. call \in [Calls -> CallRecord]  BY DEF TypeOK
<1>1. ASSUME NEW job \in Jobs, NEW t \in Tables, BeginCall(u, job, t)
      PROVE  TypeOK'
  <2>1. call' \in [Calls -> CallRecord]
    BY <1>0, <1>1, StoreAssumption DEF BeginCall, CallStates
  <2> QED  BY <1>1, <2>1 DEF TypeOK, BeginCall, sqlVars, poolVars, histVars
<1>2. CASE GetPool(u)
  <2>1. call' \in [Calls -> CallRecord]
    BY <1>0, <1>2 DEF GetPool, CallStates, TypeOK
  <2> QED  BY <1>2, <2>1 DEF TypeOK, GetPool, sqlVars, poolVars, histVars
<1>3. CASE SelectActive(u)
  <2>1. call' \in [Calls -> CallRecord]
    BY <1>0, <1>3 DEF SelectActive, CallStates
  <2> QED  BY <1>3, <2>1 DEF TypeOK, SelectActive, sqlVars, poolVars, histVars
<1>4. CASE Connect(u)
  <2>1. ASSUME OpenPool(u)
        PROVE  /\ call' \in [Calls -> CallRecord]
               /\ cached' \in 0 .. MaxPools
               /\ made' \in 0 .. MaxPools
               /\ opened' \in SUBSET (1 .. made')
    <3>1. made \in Nat /\ made < MaxPools /\ made + 1 \in 0 .. MaxPools
      BY <2>1, StoreAssumption DEF OpenPool, TypeOK
    <3>2. call' \in [Calls -> CallRecord]
      BY <1>0, <2>1, <3>1 DEF OpenPool, CallStates
    <3>3. opened' \in SUBSET (1 .. made')
      <4>1. opened \in SUBSET (1 .. made)  BY DEF TypeOK
      <4>2. 1 .. made \subseteq 1 .. made + 1 /\ made + 1 \in 1 .. made + 1
        BY <3>1
      <4> QED  BY <2>1, <4>1, <4>2 DEF OpenPool
    <3> QED  BY <2>1, <3>1, <3>2, <3>3 DEF OpenPool
  <2>2. ASSUME ConnectFails(u)
        PROVE  call' \in [Calls -> CallRecord] /\ UNCHANGED poolVars
    BY <1>0, <2>2 DEF ConnectFails, CallStates
  <2>3. CASE OpenPool(u)
    BY <1>4, <2>1, <2>3 DEF TypeOK, Connect, sqlVars, histVars
  <2>4. CASE ConnectFails(u)
    BY <1>4, <2>2, <2>4 DEF TypeOK, Connect, sqlVars, poolVars, histVars
  <2>5. CASE call' = [call EXCEPT ![u].pool = cached, ![u].pc = "use"]
             /\ UNCHANGED poolVars
    <3>1. call' \in [Calls -> CallRecord]
      BY <1>0, <2>5 DEF CallStates, TypeOK
    <3> QED  BY <1>4, <2>5, <3>1 DEF TypeOK, Connect, sqlVars, poolVars, histVars
  <2> QED  BY <1>4, <2>3, <2>4, <2>5 DEF Connect
<1>5. CASE UsePool(u)
  <2>1. call' \in [Calls -> CallRecord]
    BY <1>0, <1>5 DEF UsePool, RunStatement, CallStates
  <2>2. phys' \in SUBSET Tables /\ dropSent' \in SUBSET Tables
    BY <1>0, <1>5 DEF UsePool, RunStatement, TypeOK
  <2> QED  BY <1>5, <2>1, <2>2 DEF TypeOK, UsePool, poolVars
<1>6. CASE WriteMeta(u)
  <2>1. call' \in [Calls -> CallRecord]
    BY <1>0, <1>6 DEF WriteMeta, CallStates
  <2>2. meta' \in [Tables -> {"absent", "active", "inactive"}]
    BY <1>0, <1>6 DEF WriteMeta, TypeOK
  <2> QED  BY <1>6, <2>1, <2>2 DEF TypeOK, WriteMeta, poolVars, histVars
<1> QED  BY <1>1, <1>2, <1>3, <1>4, <1>5, <1>6 DEF CallStep

\* Every step keeps the types.
LEMMA StepType == TypeOK /\ [Next]_vars => TypeOK'
<1> SUFFICES ASSUME TypeOK, [Next]_vars PROVE TypeOK'
  OBVIOUS
<1>1. CASE CheckName \/ CreateDb \/ InsertRow \/ Rollback \/ Grant
  BY <1>1, CreateType
<1>2. CASE \E x \in Deletes : DeleteStep(x)  BY <1>2, DeleteType
<1>3. CASE \E u \in Calls : CallStep(u)  BY <1>3, CallType
<1>4. CASE UNCHANGED vars
  BY <1>4 DEF TypeOK, vars, sqlVars, poolVars, histVars
<1> QED  BY <1>1, <1>2, <1>3, <1>4 DEF Next

\* Rows, database, metadata, pools and the places of all handlers have the
\* types of TypeOK in every reachable state.
THEOREM TypeCorrect == Spec => []TypeOK
BY InitType, StepType, PTL DEF Spec
-----------------------------------------------------------------------------
(* The inductive invariant, one part after the other.                      *)

\* CreateDataset keeps the invariant: the database is made before anything
\* that needs it, and after the row only a rollback touches it.
LEMMA CreateInv ==
  ASSUME TypeOK, StoreInv,
         CheckName \/ CreateDb \/ InsertRow \/ Rollback \/ Grant
  PROVE  StoreInv'
<1> USE DEF StoreInv, MapHoldsTheOpenPool, CleanDeleteStays,
            ListedTableExists, BeforeRow, DroppedStays, MetaAfterTable,
            Deleting, sqlVars, poolVars, histVars
<1>1. CASE CheckName  BY <1>1 DEF CheckName
<1>2. CASE CreateDb
  <2>1. /\ \A x \in Deletes : ~del[x].dropped
        /\ ~clean /\ row = "absent"
        /\ \A t \in Tables : meta[t] = "absent"
        /\ \A u \in Calls : call[u].pc = "idle" \/ call[u].job = "terminal"
    BY <1>2 DEF CreateDb
  <2> QED  BY <1>2, <2>1 DEF CreateDb
<1>3. CASE InsertRow  BY <1>3 DEF InsertRow
<1>4. CASE Rollback  BY <1>4 DEF Rollback
<1>5. CASE Grant  BY <1>5 DEF Grant
<1> QED  BY <1>1, <1>2, <1>3, <1>4, <1>5

\* DeleteDataset keeps the invariant.
LEMMA DeleteInv ==
  ASSUME TypeOK, StoreInv, NEW x \in Deletes, DeleteStep(x)
  PROVE  StoreInv'
<1>0. /\ del \in [Deletes -> [pc : DelStates, dropped : BOOLEAN]]
      /\ opened \in SUBSET (1 .. made)
      /\ clean \in BOOLEAN
  BY DEF TypeOK
<1> USE DEF StoreInv, MapHoldsTheOpenPool, CleanDeleteStays,
            ListedTableExists, BeforeRow, DroppedStays, MetaAfterTable,
            Deleting, sqlVars, poolVars, histVars
<1>1. CASE BeginDelete(x)  BY <1>0, <1>1 DEF BeginDelete
<1>2. CASE DropDatabase(x)  BY <1>0, <1>2 DEF DropDatabase
<1>3. CASE MarkDeleted(x)  BY <1>0, <1>3 DEF MarkDeleted
<1>4. CASE ClosePool(x)  BY <1>0, <1>4 DEF ClosePool
<1> QED  BY <1>1, <1>2, <1>3, <1>4 DEF DeleteStep

\* The requests keep the invariant: a pool is opened only when the map has
\* none, and only while the database is there.
LEMMA CallInv ==
  ASSUME TypeOK, StoreInv, NEW u \in Calls, CallStep(u)
  PROVE  StoreInv'
<1>0. call \in [Calls -> CallRecord]  BY DEF TypeOK, CallRecord
<1>a. Idle.pc = "idle"  BY DEF Idle
<1>b. cached \in Nat /\ made \in Nat /\ opened \in SUBSET (1 .. made)
  BY StoreAssumption DEF TypeOK
<1> USE DEF StoreInv, MapHoldsTheOpenPool, CleanDeleteStays,
            ListedTableExists, BeforeRow, DroppedStays, MetaAfterTable,
            Deleting, sqlVars, poolVars, histVars, CallRecord
<1>1. ASSUME NEW job \in Jobs, NEW t \in Tables, BeginCall(u, job, t)
      PROVE  StoreInv'
  <2>1. row = "absent" => job = "terminal"
    <3>1. Admitted(job, t)  BY <1>1 DEF BeginCall
    <3>2. CASE job = "query"  BY <3>1, <3>2 DEF Admitted
    <3>3. CASE job = "create"  BY <3>1, <3>3 DEF Admitted
    <3>4. CASE job = "drop"  BY <3>1, <3>4 DEF Admitted
    <3> QED  BY <3>2, <3>3, <3>4, <1>1 DEF Jobs
  <2>2. call' = [call EXCEPT ![u] = [pc |-> "get", job |-> job, tab |-> t, pool |-> 0]]
    BY <1>1 DEF BeginCall
  <2>3. BeforeRow' /\ MetaAfterTable'
    BY <1>0, <1>1, <2>1, <2>2 DEF BeginCall
  <2> QED  BY <1>1, <2>3 DEF BeginCall
<1>2. CASE GetPool(u)  BY <1>0, <1>2 DEF GetPool
<1>3. CASE SelectActive(u)  BY <1>0, <1>a, <1>3 DEF SelectActive
<1>4. CASE Connect(u)
  <2>1. CASE cached = 0 /\ OpenPool(u)
    BY <1>0, <1>b, <1>4, <2>1 DEF Connect, OpenPool
  <2>2. CASE cached = 0 /\ ConnectFails(u)
    <3>1. \A w \in Calls : call'[w].pc = "meta" /\ call'[w].job = "create" =>
            call[w].pc = "meta" /\ call[w].job = "create" /\ call'[w].tab = call[w].tab
      BY <1>0, <1>a, <2>2 DEF ConnectFails
    <3>2. \A w \in Calls : \/ call'[w] = call[w]
                           \/ call'[w].pc = "idle"
                           \/ call[w].job = "drop" /\ call[w].pc = "connect"
      BY <1>0, <1>a, <1>4, <2>2 DEF Connect, ConnectFails
    <3>3. BeforeRow'
      BY <1>4, <2>2, <3>2 DEF Connect, ConnectFails
    <3> QED  BY <1>4, <2>2, <3>1, <3>3 DEF Connect, ConnectFails
  <2>3. CASE cached # 0
    BY <1>0, <1>4, <2>3 DEF Connect
  <2> QED  BY <1>4, <2>1, <2>2, <2>3 DEF Connect
<1>5. CASE UsePool(u)
  <2>1. MetaAfterTable'
    BY <1>0, <1>a, <1>5 DEF UsePool, RunStatement, Works, HiddenWork
  <2>2. ListedTableExists' /\ CleanDeleteStays' /\ DroppedStays'
    BY <1>0, <1>5 DEF UsePool, RunStatement, Works, HiddenWork, TypeOK
  <2>3. BeforeRow'
    <3>1. CASE row # "absent"  BY <1>5, <3>1 DEF UsePool
    <3>2. row # "absent"  BY <1>5 DEF UsePool
    <3> QED  BY <3>1, <3>2
  <2> QED  BY <1>5, <2>1, <2>2, <2>3 DEF UsePool
<1>6. CASE WriteMeta(u)
  <2>1. MetaAfterTable'
    BY <1>0, <1>a, <1>6 DEF WriteMeta
  <2>2. ListedTableExists'
    BY <1>0, <1>6 DEF WriteMeta, TypeOK
  <2>3. row # "absent"  BY <1>6 DEF WriteMeta
  <2> QED  BY <1>6, <2>1, <2>2, <2>3 DEF WriteMeta
<1> QED  BY <1>1, <1>2, <1>3, <1>4, <1>5, <1>6 DEF CallStep

\* The invariant is inductive.
LEMMA StepInv == TypeOK /\ StoreInv /\ [Next]_vars => StoreInv'
<1> SUFFICES ASSUME TypeOK, StoreInv, [Next]_vars PROVE StoreInv'
  OBVIOUS
<1>1. CASE CheckName \/ CreateDb \/ InsertRow \/ Rollback \/ Grant
  BY <1>1, CreateInv
<1>2. CASE \E x \in Deletes : DeleteStep(x)  BY <1>2, DeleteInv
<1>3. CASE \E u \in Calls : CallStep(u)  BY <1>3, CallInv
<1>4. CASE UNCHANGED vars
  BY <1>4 DEF StoreInv, MapHoldsTheOpenPool, CleanDeleteStays,
              ListedTableExists, BeforeRow, DroppedStays, MetaAfterTable,
              Deleting, vars, sqlVars, poolVars, histVars
<1> QED  BY <1>1, <1>2, <1>3, <1>4 DEF Next

\* The invariant holds at the start.
LEMMA InitInv == Init => StoreInv
<1>1. Idle.pc = "idle"  BY DEF Idle
<1> QED
  BY <1>1 DEF Init, StoreInv, MapHoldsTheOpenPool, CleanDeleteStays,
              ListedTableExists, BeforeRow, DroppedStays, MetaAfterTable, Deleting

\* Creator, deletes, requests, database and pool map fit together.
THEOREM StoreConsistent == Spec => []StoreInv
<1>1. TypeOK /\ StoreInv /\ [Next]_vars => (TypeOK /\ StoreInv)'
  BY StepType, StepInv
<1> QED  BY <1>1, InitType, InitInv, PTL DEF Spec

\* Manager never leaks a pool and never hands out a closed one, however many
\* requests miss in GetPool at once and whatever deletes run between.
THEOREM NoPoolLeaks == Spec => []MapHoldsTheOpenPool
<1>1. StoreInv => MapHoldsTheOpenPool  BY DEF StoreInv
<1> QED  BY <1>1, StoreConsistent, PTL

\* After a delete that dropped the database and ran to its end, no late
\* request brings the database, a table or a pool back.
THEOREM DeleteIsFinal == Spec => []CleanDeleteStays
<1>1. StoreInv => CleanDeleteStays  BY DEF StoreInv
<1> QED  BY <1>1, StoreConsistent, PTL

\* A dataset answered 201 is there until somebody deletes it.
THEOREM CreatedStays == Spec => []CreatedIsUsable
<1>1. StoreInv => CreatedIsUsable
  BY DEF StoreInv, BeforeRow, CreatedIsUsable
<1> QED  BY <1>1, StoreConsistent, PTL

\* The tables listed as active exist, as long as the database does and no
\* DROP TABLE was sent for them.
THEOREM ListedTablesExist == Spec => []ListedTableExists
<1>1. StoreInv => ListedTableExists  BY DEF StoreInv
<1> QED  BY <1>1, StoreConsistent, PTL
=============================================================================
