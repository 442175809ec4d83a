------------------------- MODULE KnowledgeDocsProofs -------------------------
(***************************************************************************)
(* Proofs about KnowledgeDocs, for any set of uploads, any combination of  *)
(* faults and any number of crashes.                                       *)
(***************************************************************************)
EXTENDS KnowledgeDocs, TLAPS

-----------------------------------------------------------------------------
(* Types.                                                                  *)

\* The initial state has the types of TypeOK.
LEMMA InitType == Init => TypeOK
BY DocsAssumption DEF Init, TypeOK, UpStates, Idle

\* The upload handlers keep the types.
LEMMA UploadType ==
  ASSUME TypeOK, NEW d \in Docs, UploadStep(d) \/ EndContext(d)
  PROVE  TypeOK'
<1> USE DEF TypeOK, Goto, UpStates, InHandler, Answered,
            storeVars, uploadVars, taskVars
<1>1. CASE Begin(d)  BY <1>1 DEF Begin, BeginText, BeginFile
<1>2. CASE SaveFile(d)  BY <1>2 DEF SaveFile
<1>3. CASE InsertDoc(d)  BY <1>3 DEF InsertDoc
<1>4. CASE CallIndex(d)  BY <1>4 DEF CallIndex
<1>5. CASE IndexReturns(d)  BY <1>5 DEF IndexReturns
<1>6. CASE MarkCompleted(d)  BY <1>6 DEF MarkCompleted
<1>7. CASE Enqueue(d)  BY <1>7 DEF Enqueue
<1>8. CASE AnswerQueued(d)
  <2>1. queue' \in Seq(Docs)
    <3>1. Append(queue, d) \in Seq(Docs)  OBVIOUS
    <3> QED  BY <1>8, <3>1 DEF AnswerQueued
  <2> QED  BY <1>8, <2>1 DEF AnswerQueued
<1>9. CASE EndContext(d)  BY <1>9 DEF EndContext
<1> QED  BY <1>1, <1>2, <1>3, <1>4, <1>5, <1>6, <1>7, <1>8, <1>9 DEF UploadStep

\* The consumer keeps the types.
LEMMA ConsumerType ==
  ASSUME TypeOK, ConsumerStep
  PROVE  TypeOK'
<1> USE DEF TypeOK, Idle, storeVars, uploadVars, taskVars
<1>1. CASE Receive
  <2>1. Head(queue) \in Docs /\ Tail(queue) \in Seq(Docs)
    BY <1>1 DEF Receive
  <2> QED  BY <1>1, <2>1 DEF Receive
<1>2. CASE Acknowledge  BY <1>2 DEF Acknowledge
<1>3. CASE ReportFailed  BY <1>3 DEF ReportFailed
<1> QED  BY <1>1, <1>2, <1>3 DEF ConsumerStep

\* Every step keeps the types.
LEMMA StepType == TypeOK /\ [Next]_vars => TypeOK'
<1> SUFFICES ASSUME TypeOK, [Next]_vars PROVE TypeOK'
  OBVIOUS
<1>1. CASE \E d \in Docs : UploadStep(d) \/ EndContext(d)
  BY <1>1, UploadType
<1>2. ASSUME NEW d \in Docs, WorkerIndexes(d) PROVE TypeOK'
  BY <1>2 DEF TypeOK, WorkerIndexes, uploadVars, taskVars
<1>3. ASSUME NEW d \in Docs, Watcher(d) PROVE TypeOK'
  BY <1>3 DEF TypeOK, Watcher, storeVars, uploadVars
<1>4. CASE ConsumerStep  BY <1>4, ConsumerType
<1>5. CASE ApiCrash
  <2>1. crashes' \in 0 .. MaxCrashes
    BY <1>5, DocsAssumption DEF ApiCrash, TypeOK
  <2> QED  BY <1>5, <2>1 DEF TypeOK, ApiCrash, UpStates, storeVars
<1>6. CASE WorkerCrash
  <2>1. crashes' \in 0 .. MaxCrashes
    BY <1>6, DocsAssumption DEF WorkerCrash, TypeOK
  <2> QED  BY <1>6, <2>1 DEF TypeOK, WorkerCrash, Idle, storeVars, uploadVars
<1>7. CASE UNCHANGED vars
  BY <1>7 DEF TypeOK, vars, storeVars, uploadVars, taskVars
<1> QED  BY <1>1, <1>2, <1>3, <1>4, <1>5, <1>6, <1>7 DEF Next

\* Rows, files, handlers, tasks, queue and consumer have the types of TypeOK
\* in every reachable state.
THEOREM TypeCorrect == Spec => []TypeOK
BY InitType, StepType, PTL DEF Spec

-----------------------------------------------------------------------------
(* The inductive invariant.                                                *)

\* What Placed says of a document besides the message about it.
OwnPlace(d) ==
  /\ rpc[d] = "ok" \/ up[d] = "mark" => d \in chroma \cup Blank
  /\ doc[d] = "completed" => up[d] = "indexed" /\ d \in chroma \cup Blank
  /\ kind[d] = "file" /\ up[d] \in {"error", "aborted"} =>
       d \in files \/ doc[d] = "absent"
  /\ kind[d] = "file" /\ up[d] \notin {"new", "rejected", "save", "error", "aborted"}
       => d \in files
  /\ up[d] \in {"new", "rejected", "save", "insert"} => doc[d] = "absent"

\* The two halves of Placed.
LEMMA PlacedParts ==
  AllPlaced <=> \A d \in Docs : OwnPlace(d) /\ (Handed(d) => up[d] = "queued")
BY DEF AllPlaced, Placed, OwnPlace

\* The upload handler of d keeps the invariant: messages are handed over by
\* its last step only, and whatever it does happens before.
LEMMA UploadPlaced ==
  ASSUME TypeOK, AllPlaced, NEW d \in Docs, UploadStep(d) \/ EndContext(d)
  PROVE  AllPlaced'
<1>0. \A e \in Docs : OwnPlace(e) /\ (Handed(e) => up[e] = "queued")
  BY PlacedParts
<1>a. /\ up \in [Docs -> UpStates]
      /\ doc \in [Docs -> {"absent", "pending", "completed", "failed"}]
      /\ rpc \in [Docs -> {"none", "running", "ok", "error"}]
  BY DEF TypeOK
<1>1. \A e \in Docs : OwnPlace(e)'
  <2> USE <1>0, <1>a DEF OwnPlace, Goto, storeVars, uploadVars, taskVars
  <2>1. CASE Begin(d)  BY <2>1 DEF Begin, BeginText, BeginFile
  <2>2. CASE SaveFile(d)  BY <2>2 DEF SaveFile
  <2>3. CASE InsertDoc(d)  BY <2>3 DEF InsertDoc
  <2>4. CASE CallIndex(d)  BY <2>4 DEF CallIndex
  <2>5. CASE IndexReturns(d)  BY <2>5 DEF IndexReturns
  <2>6. CASE MarkCompleted(d)  BY <2>6 DEF MarkCompleted
  <2>7. CASE Enqueue(d)  BY <2>7 DEF Enqueue
  <2>8. CASE AnswerQueued(d)  BY <2>8 DEF AnswerQueued
  <2>9. CASE EndContext(d)  BY <2>9 DEF EndContext
  <2> QED  BY <2>1, <2>2, <2>3, <2>4, <2>5, <2>6, <2>7, <2>8, <2>9 DEF UploadStep
<1>2. \A e \in Docs : Handed(e)' => up'[e] = "queued"
  <2>1. CASE AnswerQueued(d)
    <3>1. /\ consumer' = consumer
          /\ up' = [up EXCEPT ![d] = "queued"]
          /\ queue' = queue \/ queue' = Append(queue, d)
      BY <2>1 DEF AnswerQueued, Goto
    <3>2. ASSUME NEW e \in Docs, Handed(e)', e # d PROVE Handed(e)
      <4>1. CASE queue' = queue  BY <3>1, <3>2, <4>1 DEF Handed
      <4>2. CASE queue' = Append(queue, d)
        <5>1. /\ Len(Append(queue, d)) = Len(queue) + 1
              /\ Append(queue, d)[Len(queue) + 1] = d
              /\ \A i \in 1 .. Len(queue) : Append(queue, d)[i] = queue[i]
              /\ Len(queue) \in Nat
          BY DEF TypeOK
        <5>2. \A i \in 1 .. Len(queue) + 1 : i \in 1 .. Len(queue) \/ i = Len(queue) + 1
          BY <5>1
        <5> QED  BY <3>1, <3>2, <4>2, <5>1, <5>2 DEF Handed
      <4> QED  BY <3>1, <4>1, <4>2
    <3> QED  BY <1>0, <1>a, <3>1, <3>2
  <2>2. CASE ~AnswerQueued(d)
    <3>1. queue' = queue /\ consumer' = consumer
      BY <2>2 DEF UploadStep, Begin, BeginText, BeginFile, SaveFile, InsertDoc, CallIndex,
                  IndexReturns, MarkCompleted, Enqueue, EndContext, taskVars
    <3>2. \A e \in Docs : up[e] = "queued" => up'[e] = "queued"
      BY <1>a, <2>2 DEF UploadStep, Begin, BeginText, BeginFile, SaveFile, InsertDoc, CallIndex,
                  IndexReturns, MarkCompleted, Enqueue, EndContext, Goto
    <3> QED  BY <1>0, <3>1, <3>2 DEF Handed
  <2> QED  BY <2>1, <2>2
<1>3. \A e \in Docs : OwnPlace(e)' /\ (Handed(e)' => up'[e] = "queued")
  BY <1>1, <1>2
<1> QED  BY <1>3 DEF AllPlaced, Placed, OwnPlace

\* The consumer keeps the invariant: it fails a document only with a message
\* in hand, and such a document was not marked by its upload.
LEMMA ConsumerPlaced ==
  ASSUME TypeOK, AllPlaced, ConsumerStep
  PROVE  AllPlaced'
<1>0. \A e \in Docs : OwnPlace(e) /\ (Handed(e) => up[e] = "queued")
  BY PlacedParts
<1>a. /\ doc \in [Docs -> {"absent", "pending", "completed", "failed"}]
      /\ consumer \in [pc : {"idle", "ack", "report"}, doc : Docs \cup {NoDoc}]
      /\ NoDoc \notin Docs
  BY DocsAssumption DEF TypeOK
<1>1. CASE Receive
  <2>1. /\ queue # <<>> /\ Len(queue) \in Nat /\ Head(queue) = queue[1]
        /\ 1 \in 1 .. Len(queue)
        /\ Len(Tail(queue)) = Len(queue) - 1
        /\ \A i \in 1 .. Len(queue) - 1 : Tail(queue)[i] = queue[i + 1]
    BY <1>1 DEF Receive, TypeOK
  <2>2. consumer'.doc = queue[1] /\ queue' = Tail(queue) /\ up' = up
    BY <1>1, <2>1 DEF Receive, uploadVars
  <2>3. \A i \in 1 .. Len(queue) - 1 : i + 1 \in 1 .. Len(queue)
    BY <2>1
  <2>4. \A e \in Docs : Handed(e)' => Handed(e)
    BY <2>1, <2>2, <2>3 DEF Handed
  <2>5. \A e \in Docs : OwnPlace(e)'
    BY <1>0, <1>1 DEF Receive, OwnPlace, storeVars, uploadVars
  <2>6. \A e \in Docs : OwnPlace(e)' /\ (Handed(e)' => up'[e] = "queued")
    BY <1>0, <2>2, <2>4, <2>5
  <2> QED  BY <2>6 DEF AllPlaced, Placed, OwnPlace
<1>2. CASE Acknowledge
  <2>1. \A e \in Docs : Handed(e)' => Handed(e)
    BY <1>a, <1>2 DEF Acknowledge, Handed, Idle, taskVars
  <2>2. \A e \in Docs : OwnPlace(e)' /\ (Handed(e)' => up'[e] = "queued")
    BY <1>0, <1>2, <2>1 DEF Acknowledge, OwnPlace, storeVars, uploadVars
  <2> QED  BY <2>2 DEF AllPlaced, Placed, OwnPlace
<1>3. CASE ReportFailed
  <2>1. consumer.doc \in Docs /\ up[consumer.doc] = "queued"
    BY <1>0, <1>3 DEF ReportFailed, TypeOK, Handed
  <2>2. \A e \in Docs : Handed(e)' => Handed(e)
    BY <1>a, <1>3 DEF ReportFailed, Handed, Idle, taskVars
  <2>3. /\ \A e \in Docs : doc'[e] = doc[e]
                             \/ (e = consumer.doc /\ doc'[e] = "failed"
                                   /\ doc[e] # "absent")
        /\ UNCHANGED <<files, chroma, up, kind, rpc>>
    BY <1>a, <1>3, <2>1 DEF ReportFailed, uploadVars
  <2>4. \A e \in Docs : OwnPlace(e)' /\ (Handed(e)' => up'[e] = "queued")
    BY <1>0, <2>1, <2>2, <2>3 DEF OwnPlace
  <2> QED  BY <2>4 DEF AllPlaced, Placed, OwnPlace
<1> QED  BY <1>1, <1>2, <1>3 DEF ConsumerStep

\* The invariant is inductive.
LEMMA StepPlaced == TypeOK /\ AllPlaced /\ [Next]_vars => AllPlaced'
<1> SUFFICES ASSUME TypeOK, AllPlaced, [Next]_vars PROVE AllPlaced'
  OBVIOUS
<1>0. \A e \in Docs : Placed(e)  BY DEF AllPlaced
<1>1. CASE \E d \in Docs : UploadStep(d) \/ EndContext(d)
  BY <1>1, UploadPlaced
<1>2. ASSUME NEW d \in Docs, WorkerIndexes(d) PROVE AllPlaced'
  BY <1>0, <1>2 DEF TypeOK, AllPlaced, Placed, Handed, WorkerIndexes,
                    uploadVars, taskVars
<1>3. ASSUME NEW d \in Docs, Watcher(d) PROVE AllPlaced'
  BY <1>0, <1>3 DEF AllPlaced, Placed, Handed, Watcher, storeVars, uploadVars
<1>4. CASE ConsumerStep  BY <1>4, ConsumerPlaced
<1>5. CASE ApiCrash
  <2>1. \A e \in Docs : up'[e] = up[e] \/ (up[e] \in InHandler /\ up'[e] = "aborted")
    BY <1>5 DEF ApiCrash
  <2> QED
    BY <1>0, <1>5, <2>1 DEF ApiCrash, AllPlaced, Placed, Handed, InHandler, storeVars
<1>6. CASE WorkerCrash
  <2>1. \A e \in Docs : ~Handed(e)'
    <3>1. queue' = <<>> /\ consumer'.doc = NoDoc  BY <1>6 DEF WorkerCrash, Idle
    <3>2. Len(queue') = 0  BY <3>1
    <3> QED  BY <3>1, <3>2, DocsAssumption DEF Handed
  <2>2. \A e \in Docs : rpc'[e] = "ok" => rpc[e] = "ok"
    BY <1>6 DEF WorkerCrash
  <2> QED
    BY <1>0, <1>6, <2>1, <2>2 DEF WorkerCrash, AllPlaced, Placed, storeVars, uploadVars
<1>7. CASE UNCHANGED vars
  BY <1>7 DEF AllPlaced, Placed, Handed, vars, storeVars, uploadVars, taskVars
<1> QED  BY <1>1, <1>2, <1>3, <1>4, <1>5, <1>6, <1>7 DEF Next

\* The invariant holds at the start.
LEMMA InitPlaced == Init => AllPlaced
<1> SUFFICES ASSUME Init, NEW d \in Docs PROVE Placed(d)
  BY DEF AllPlaced
<1>1. ~Handed(d)
  <2>1. queue = <<>> /\ consumer.doc = NoDoc  BY DEF Init, Idle
  <2>2. Len(queue) = 0  BY <2>1
  <2> QED  BY <2>1, <2>2, DocsAssumption DEF Handed
<1> QED  BY <1>1 DEF Init, Placed

\* Upload, index call, queue, consumer, rows and files of every document fit
\* together.
THEOREM DocsConsistent == Spec => []AllPlaced
<1>1. TypeOK /\ AllPlaced /\ [Next]_vars => (TypeOK /\ AllPlaced)'
  BY StepType, StepPlaced
<1> QED  BY <1>1, InitType, InitPlaced, PTL DEF Spec

\* A document shown as completed has its chunks in Chroma.
THEOREM CompletedMeansIndexed == Spec => []CompletedIsIndexed
<1>1. AllPlaced => CompletedIsIndexed
  BY DEF AllPlaced, Placed, CompletedIsIndexed
<1> QED  BY <1>1, DocsConsistent, PTL

\* A listed document that came as a file can be downloaded.
THEOREM ListedFilesExist == Spec => []ListedFileExists
<1>1. TypeOK /\ AllPlaced => ListedFileExists
  BY DEF TypeOK, AllPlaced, Placed, ListedFileExists
<1> QED  BY <1>1, DocsConsistent, TypeCorrect, PTL

\* No callback takes a completed document back.
THEOREM CompletedDocsStay == Spec => CompletedStays
<1>1. ASSUME TypeOK, AllPlaced, [Next]_vars, NEW d \in Docs, doc[d] = "completed"
      PROVE  doc'[d] = "completed"
  <2>1. up[d] = "indexed" /\ ~Handed(d)
    BY <1>1 DEF AllPlaced, Placed
  <2>2. doc \in [Docs -> {"absent", "pending", "completed", "failed"}]
    BY <1>1 DEF TypeOK
  <2>3. ASSUME NEW e \in Docs, UploadStep(e) \/ EndContext(e)
        PROVE  doc'[d] = "completed"
    BY <1>1, <2>1, <2>2, <2>3
       DEF UploadStep, Begin, BeginText, BeginFile, SaveFile, InsertDoc, CallIndex, IndexReturns,
           MarkCompleted, Enqueue, AnswerQueued, EndContext, storeVars
  <2>4. CASE ConsumerStep
    <3>1. CASE ReportFailed
      BY <1>1, <2>1, <2>2, <3>1 DEF ReportFailed, Handed
    <3>2. CASE Receive \/ Acknowledge
      BY <1>1, <3>2 DEF Receive, Acknowledge, storeVars
    <3> QED  BY <2>4, <3>1, <3>2 DEF ConsumerStep
  <2>5. ASSUME NEW e \in Docs, WorkerIndexes(e) \/ Watcher(e)
        PROVE  doc'[d] = "completed"
    BY <1>1, <2>5 DEF WorkerIndexes, Watcher, storeVars
  <2>6. CASE ApiCrash \/ WorkerCrash \/ UNCHANGED vars
    BY <1>1, <2>6 DEF ApiCrash, WorkerCrash, vars, storeVars
  <2> QED  BY <1>1, <2>3, <2>4, <2>5, <2>6 DEF Next
<1>2. TypeOK /\ AllPlaced /\ [Next]_vars =>
        [\A d \in Docs : doc[d] = "completed" => doc'[d] = "completed"]_vars
  BY <1>1
<1> QED
  BY <1>2, TypeCorrect, DocsConsistent, PTL DEF Spec, CompletedStays
=============================================================================
