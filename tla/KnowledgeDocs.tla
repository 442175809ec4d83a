---------------------------- MODULE KnowledgeDocs ----------------------------
(***************************************************************************)
(* The life of a knowledge document: the two upload handlers, the worker's *)
(* IndexDocument call, the fallback through the task queue, and the        *)
(* consumer process_knowledge_message with its callback.                   *)
(*                                                                         *)
(* The consumer reads workspace_id from the top of the message.            *)
(* async.Task has no such field, so every message the API publishes ends   *)
(* in the consumer's early return; the code after it is reached by none    *)
(* and is not modelled.                                                    *)
(*                                                                         *)
(* Both handlers derive the deadline of the index call from the request    *)
(* context, and the router ends that context after 60 s: the call never    *)
(* times out by itself before the request does.                            *)
(***************************************************************************)
EXTENDS Integers, Sequences

CONSTANTS
  Docs,        \* uploads, with the documents they create
  Blank,       \* those whose text has no chunks
  NoDoc,       \* the consumer has no message in hand
  Faults,      \* "db": a statement fails; "net": the worker or NATS cannot be
               \* reached; "ctx": a request context ends early
  RowReturned, \* whether the driver answers an INSERT with a row, as in
               \* AsyncTask; go-sql-driver/mysql does not
  MaxCrashes   \* bound: crashes of the API process and of the worker

ASSUME DocsAssumption ==
  /\ NoDoc \notin Docs
  /\ Blank \subseteq Docs
  /\ RowReturned \in BOOLEAN
  /\ Faults \subseteq {"db", "net", "ctx"}
  /\ MaxCrashes \in Nat

VARIABLES
  doc,       \* knowledge_docs.status, or "absent"
  files,     \* documents whose file is on disk
  chroma,    \* documents whose chunks are in Chroma
  up,        \* where each upload is, or how it was answered
  kind,      \* "text": JSON body; "file": multipart upload
  ctxDone,   \* uploads whose request context has ended
  rpc,       \* IndexDocument call of each upload
  task,      \* async_tasks.status of the knowledge_index task, or "absent"
  watch,     \* its timeout watcher
  queue,     \* messages waiting for the consumer
  consumer,  \* [pc, doc] of process_knowledge_message
  crashes    \* how many crashes there were

storeVars  == <<doc, files, chroma>>
uploadVars == <<up, kind, ctxDone>>
taskVars   == <<task, watch, queue>>
vars == <<storeVars, uploadVars, rpc, taskVars, consumer, crashes>>

InHandler == {"save", "insert", "index", "wait", "mark", "enqueue", "publish"}

\* rejected: 4xx.  error: 500.  indexed: 202 "completed".  queued: 202 with a
\* task id and "pending".
Answered == {"rejected", "error", "indexed", "queued"}
UpStates == {"new", "aborted"} \cup InHandler \cup Answered

Idle == [pc |-> "idle", doc |-> NoDoc]

(***************************************************************************)
(* The one type invariant.                                                 *)
(***************************************************************************)
TypeOK ==
  /\ doc \in [Docs -> {"absent", "pending", "completed", "failed"}]
  /\ files \in SUBSET Docs
  /\ chroma \in SUBSET Docs
  /\ up \in [Docs -> UpStates]
  /\ kind \in [Docs -> {"text", "file"}]
  /\ ctxDone \in SUBSET Docs
  /\ rpc \in [Docs -> {"none", "running", "ok", "error"}]
  /\ task \in [Docs -> {"absent", "queued", "timeout"}]
  /\ watch \in [Docs -> {"none", "armed", "ended", "lost"}]
  /\ queue \in Seq(Docs)
  /\ consumer \in [pc : {"idle", "ack", "report"}, doc : Docs \cup {NoDoc}]
  /\ consumer.pc # "idle" => consumer.doc \in Docs
  /\ crashes \in 0 .. MaxCrashes

Init ==
  /\ doc = [d \in Docs |-> "absent"]
  /\ files = {}
  /\ chroma = {}
  /\ up = [d \in Docs |-> "new"]
  /\ kind \in [Docs -> {"text", "file"}]
  /\ ctxDone = {}
  /\ rpc = [d \in Docs |-> "none"]
  /\ task = [d \in Docs |-> "absent"]
  /\ watch = [d \in Docs |-> "none"]
  /\ queue = <<>>
  /\ consumer = Idle
  /\ crashes = 0

Goto(d, pc) == up' = [up EXCEPT ![d] = pc]

\* A statement of upload d can succeed, or fail.
DbOk(d)   == d \notin ctxDone
DbFail(d) == d \in ctxDone \/ "db" \in Faults

-----------------------------------------------------------------------------
(* UploadKnowledgeDoc and UploadKnowledgeDocFromFile.                      *)

\* Wrong workspace or bad payload: 4xx.
BeginText(d) == kind[d] = "text" /\ (Goto(d, "rejected") \/ Goto(d, "insert"))

\* Also no file, an unknown type or an empty one.  The file is saved first.
BeginFile(d) == kind[d] = "file" /\ (Goto(d, "rejected") \/ Goto(d, "save"))

Begin(d) ==
  /\ up[d] = "new"
  /\ BeginText(d) \/ BeginFile(d)
  /\ UNCHANGED <<storeVars, kind, ctxDone, rpc, taskVars, consumer, crashes>>

\* Faulty variant: a file that cannot be saved is logged and forgotten.
SaveFileIgnoresError(d) ==
  /\ up[d] = "save"
  /\ files' \in {files, files \cup {d}}
  /\ Goto(d, "insert")
  /\ UNCHANGED <<doc, chroma, kind, ctxDone, rpc, taskVars, consumer, crashes>>

\* saveKnowledgeFile; an error is answered with 500.
SaveFile(d) ==
  /\ up[d] = "save"
  /\ \/ files' = files \cup {d} /\ Goto(d, "insert")
     \/ UNCHANGED files /\ Goto(d, "error")
  /\ UNCHANGED <<doc, chroma, kind, ctxDone, rpc, taskVars, consumer, crashes>>

\* INSERT INTO knowledge_docs as pending.  An error, even one that hides a
\* commit, is answered with 500.
InsertDoc(d) ==
  /\ up[d] = "insert"
  /\ \/ /\ DbOk(d)
        /\ doc' = [doc EXCEPT ![d] = "pending"]
        /\ Goto(d, "index")
     \/ /\ DbFail(d)
        /\ doc' = doc \/ ("db" \in Faults /\ doc' = [doc EXCEPT ![d] = "pending"])
        /\ Goto(d, "error")
  /\ UNCHANGED <<files, chroma, kind, ctxDone, rpc, taskVars, consumer, crashes>>

\* IndexDocument is called; without a worker the queue is next.
CallIndex(d) ==
  /\ up[d] = "index"
  /\ \/ /\ d \notin ctxDone
        /\ rpc' = [rpc EXCEPT ![d] = "running"]
        /\ Goto(d, "wait")
     \/ /\ d \in ctxDone \/ "net" \in Faults
        /\ UNCHANGED rpc
        /\ Goto(d, "enqueue")
  /\ UNCHANGED <<storeVars, kind, ctxDone, taskVars, consumer, crashes>>

\* The worker has stored the chunks, and says ok for a document without any
\* as well; or it raised.
WorkerIndexes(d) ==
  /\ rpc[d] = "running"
  /\ \/ rpc' = [rpc EXCEPT ![d] = "ok"] /\ chroma' = chroma \cup ({d} \ Blank)
     \/ rpc' = [rpc EXCEPT ![d] = "error"] /\ UNCHANGED chroma
  /\ UNCHANGED <<doc, files, uploadVars, taskVars, consumer, crashes>>

\* Faulty variant: an answer is taken for success without looking at Ok.
IndexReturnsAnyAnswer(d) ==
  /\ up[d] = "wait"
  /\ \/ rpc[d] # "running" /\ Goto(d, "mark")
     \/ d \in ctxDone /\ Goto(d, "enqueue")
  /\ UNCHANGED <<storeVars, kind, ctxDone, rpc, taskVars, consumer, crashes>>

\* The call returns: ok; or not ok, or its context has ended, or the
\* connection broke, which all lead to the queue.
IndexReturns(d) ==
  /\ up[d] = "wait"
  /\ \/ rpc[d] = "ok" /\ Goto(d, "mark")
     \/ (rpc[d] = "error" \/ d \in ctxDone \/ "net" \in Faults) /\ Goto(d, "enqueue")
  /\ UNCHANGED <<storeVars, kind, ctxDone, rpc, taskVars, consumer, crashes>>

\* Faulty variant: the return after the answer is missing.
MarkCompletedGoesOn(d) ==
  /\ up[d] = "mark"
  /\ \/ DbOk(d) /\ doc' = [doc EXCEPT ![d] = "completed"]
     \/ DbFail(d) /\ UNCHANGED doc
  /\ Goto(d, "enqueue")
  /\ UNCHANGED <<files, chroma, kind, ctxDone, rpc, taskVars, consumer, crashes>>

\* updateDocStatus, its error only logged; 202.
MarkCompleted(d) ==
  /\ up[d] = "mark"
  /\ \/ DbOk(d) /\ doc' = [doc EXCEPT ![d] = "completed"]
     \/ DbFail(d) /\ UNCHANGED doc
  /\ Goto(d, "indexed")
  /\ UNCHANGED <<files, chroma, kind, ctxDone, rpc, taskVars, consumer, crashes>>

\* The INSERT of EnqueueTask; an error is answered with 500, and without a
\* returned row there is always one.
Enqueue(d) ==
  /\ up[d] = "enqueue"
  /\ \/ /\ DbOk(d) /\ RowReturned
        /\ task' = [task EXCEPT ![d] = "queued"]
        /\ Goto(d, "publish")
     \/ /\ DbFail(d) \/ ~RowReturned
        /\ UNCHANGED task
        /\ Goto(d, "error")
     \/ /\ "db" \in Faults \/ ~RowReturned
        /\ task' = [task EXCEPT ![d] = "queued"]
        /\ Goto(d, "error")
  /\ UNCHANGED <<storeVars, kind, ctxDone, rpc, watch, queue, consumer, crashes>>

\* The rest of EnqueueTask; 202.
AnswerQueued(d) ==
  /\ up[d] = "publish"
  /\ \/ queue' = Append(queue, d)
     \/ "net" \in Faults /\ UNCHANGED queue
  /\ watch' = [watch EXCEPT ![d] = "armed"]
  /\ Goto(d, "queued")
  /\ UNCHANGED <<storeVars, kind, ctxDone, rpc, task, consumer, crashes>>

EndContext(d) ==
  /\ "ctx" \in Faults
  /\ up[d] \in InHandler
  /\ d \notin ctxDone
  /\ ctxDone' = ctxDone \cup {d}
  /\ UNCHANGED <<storeVars, up, kind, rpc, taskVars, consumer, crashes>>

UploadStep(d) ==
  \/ Begin(d) \/ SaveFile(d) \/ InsertDoc(d) \/ CallIndex(d) \/ IndexReturns(d)
  \/ MarkCompleted(d) \/ Enqueue(d) \/ AnswerQueued(d)

-----------------------------------------------------------------------------
(* The queue.                                                              *)

\* Nobody reports on a knowledge task, so the watcher finds it queued and
\* marks it; an error ends the watcher.
Watcher(d) ==
  /\ watch[d] = "armed"
  /\ watch' = [watch EXCEPT ![d] = "ended"]
  /\ \/ task' = [task EXCEPT ![d] = "timeout"]
     \/ "db" \in Faults /\ UNCHANGED task
  /\ UNCHANGED <<storeVars, uploadVars, rpc, queue, consumer, crashes>>

\* process_knowledge_message, up to the ack of its early return.
Receive ==
  /\ consumer.pc = "idle"
  /\ queue # <<>>
  /\ consumer' = [pc |-> "ack", doc |-> Head(queue)]
  /\ queue' = Tail(queue)
  /\ UNCHANGED <<storeVars, uploadVars, rpc, task, watch, crashes>>

\* msg.ack() raises for a message without a reply subject.
Acknowledge ==
  /\ consumer.pc = "ack"
  /\ consumer' \in {Idle, [consumer EXCEPT !.pc = "report"]}
  /\ UNCHANGED <<storeVars, uploadVars, rpc, taskVars, crashes>>

\* KnowledgeDocCallback: UPDATE knowledge_docs, whatever the status is.  A
\* lost call or an error is only logged.
ReportFailed ==
  /\ consumer.pc = "report"
  /\ consumer' = Idle
  /\ \/ doc' = [doc EXCEPT ![consumer.doc] = IF @ = "absent" THEN @ ELSE "failed"]
     \/ Faults \cap {"db", "net"} # {} /\ UNCHANGED doc
  /\ UNCHANGED <<files, chroma, uploadVars, rpc, taskVars, crashes>>

ConsumerStep == Receive \/ Acknowledge \/ ReportFailed

-----------------------------------------------------------------------------
(* Crashes.                                                                *)

ApiCrash ==
  /\ crashes < MaxCrashes
  /\ crashes' = crashes + 1
  /\ up' = [d \in Docs |-> IF up[d] \in InHandler THEN "aborted" ELSE up[d]]
  /\ watch' = [d \in Docs |-> IF watch[d] = "armed" THEN "lost" ELSE watch[d]]
  /\ UNCHANGED <<storeVars, kind, ctxDone, rpc, task, queue, consumer>>

WorkerCrash ==
  /\ crashes < MaxCrashes
  /\ crashes' = crashes + 1
  /\ rpc' = [d \in Docs |-> IF rpc[d] = "running" THEN "error" ELSE rpc[d]]
  /\ queue' = <<>>
  /\ consumer' = Idle
  /\ UNCHANGED <<storeVars, uploadVars, task, watch>>

Next ==
  \/ \E d \in Docs : UploadStep(d)
  \/ \E d \in Docs : EndContext(d)
  \/ \E d \in Docs : WorkerIndexes(d)
  \/ \E d \in Docs : Watcher(d)
  \/ ConsumerStep
  \/ ApiCrash
  \/ WorkerCrash

Spec == Init /\ [][Next]_vars

-----------------------------------------------------------------------------
(* Properties.                                                             *)

\* A document shown as completed has its chunks in Chroma, unless it has none:
\* of several uploads, crashes and answers out of time, none marks a document
\* whose indexing failed.
CompletedIsIndexed ==
  \A d \in Docs : doc[d] = "completed" => d \in chroma \cup Blank

\* A completed document stays completed, although the callback's UPDATE does
\* not look at the old status: a document goes one way only, directly or
\* through the queue.
CompletedStays ==
  [][\A d \in Docs : doc[d] = "completed" => doc'[d] = "completed"]_vars

\* A document uploaded as a file and listed can be downloaded.
ListedFileExists ==
  \A d \in Docs : kind[d] = "file" /\ doc[d] # "absent" => d \in files

-----------------------------------------------------------------------------
(* The inductive invariant behind them.                                    *)

\* A message about d waits for the consumer or is in its hands.
Handed(d) == (\E i \in 1 .. Len(queue) : queue[i] = d) \/ consumer.doc = d

\* Where an upload is tells what it has done.
Placed(d) ==
  /\ Handed(d) => up[d] = "queued"
  /\ rpc[d] = "ok" \/ up[d] = "mark" => d \in chroma \cup Blank
  /\ doc[d] = "completed" => up[d] = "indexed" /\ d \in chroma \cup Blank
  /\ kind[d] = "file" /\ up[d] \in {"error", "aborted"} =>
       d \in files \/ doc[d] = "absent"
  /\ kind[d] = "file" /\ up[d] \notin {"new", "rejected", "save", "error", "aborted"}
       => d \in files
  /\ up[d] \in {"new", "rejected", "save", "insert"} => doc[d] = "absent"

AllPlaced == \A d \in Docs : Placed(d)
=============================================================================
