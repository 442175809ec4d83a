------------------------------- MODULE SseBus -------------------------------
(***************************************************************************)
(* ssebus.MemoryBus and its only consumer, the SessionStream handler.      *)
(*                                                                         *)
(* The bus keeps, per session, the channels of the streams that show it.   *)
(* Subscribe, the cancel function and Publish run under one mutex, so each *)
(* is one action.  Publish never blocks: a channel whose buffer is full    *)
(* loses the event, which only totalDrops records.  A SessionStream call   *)
(* owns one channel; both are named by the same element of Streams.        *)
(*                                                                         *)
(* The order of the channels inside one session's list is not observable,  *)
(* so the list is a set.  The content of an event is abstracted to its     *)
(* number in the publication order of its session.                         *)
(***************************************************************************)
EXTENDS Integers, Sequences, FiniteSets

CONSTANTS
  Sessions,      \* session ids
  Streams,       \* SessionStream calls, each with the channel it subscribes
  BufCap,        \* capacity of a channel: 32 in the code
  MaxPublished   \* bound: events published per session

ASSUME BusAssumption ==
  /\ BufCap \in Nat \ {0}
  /\ MaxPublished \in Nat
  /\ IsFiniteSet(Streams)

VARIABLES
  subs,        \* MemoryBus.subs: session -> channels to send to
  chan,        \* channel -> "nil" (not made), "open" or "closed"
  buf,         \* channel -> events waiting in it
  totalDrops,  \* MemoryBus.totalDrops
  stream,      \* SessionStream call -> where it is
  target,      \* SessionStream call -> the session of its URL
  \* History, read by the properties only.
  published,   \* session -> number of events published so far
  since,       \* stream -> published[target] when it subscribed
  last,        \* stream -> last event taken from its channel
  taken,       \* stream -> number of events taken from its channel
  dropped      \* stream -> number of events its full channel refused

busVars    == <<subs, chan, buf, totalDrops>>
streamVars == <<stream, target>>
histVars   == <<published, since, last, taken, dropped>>
vars       == <<busVars, streamVars, histVars>>

ChanStates   == {"nil", "open", "closed"}
StreamStates == {"idle", "loop", "writing", "leaving", "done"}

(***************************************************************************)
(* The one type invariant.                                                 *)
(***************************************************************************)
TypeOK ==
  /\ subs \in [Sessions -> SUBSET Streams]
  /\ chan \in [Streams -> ChanStates]
  /\ buf \in [Streams -> Seq(Nat)]
  /\ totalDrops \in Nat
  /\ stream \in [Streams -> StreamStates]
  /\ target \in [Streams -> Sessions]
  /\ published \in [Sessions -> Nat]
  /\ since \in [Streams -> Nat]
  /\ last \in [Streams -> Nat]
  /\ taken \in [Streams -> Nat]
  /\ dropped \in [Streams -> Nat]

Init ==
  /\ subs = [s \in Sessions |-> {}]
  /\ chan = [c \in Streams |-> "nil"]
  /\ buf = [c \in Streams |-> <<>>]
  /\ totalDrops = 0
  /\ stream = [c \in Streams |-> "idle"]
  /\ target \in [Streams -> Sessions]
  /\ published = [s \in Sessions |-> 0]
  /\ since = [c \in Streams |-> 0]
  /\ last = [c \in Streams |-> 0]
  /\ taken = [c \in Streams |-> 0]
  /\ dropped = [c \in Streams |-> 0]

-----------------------------------------------------------------------------
(* The bus.                                                                *)

\* Faulty variant: the capacity test is off by one.
FullOffByOne(s) == {c \in subs[s] : Len(buf[c]) > BufCap}

\* The channels of session s whose buffer has no room left.
Full(s) == {c \in subs[s] : Len(buf[c]) >= BufCap}

\* Faulty variant: the loop stops at the first full channel, and only that
\* channel is counted.
PublishStopsAtFull(s) ==
  LET n == published[s] + 1
  IN /\ published[s] < MaxPublished
     /\ \/ /\ Full(s) = {}
           /\ buf' = [c \in Streams |-> IF c \in subs[s]
                                        THEN Append(buf[c], n) ELSE buf[c]]
           /\ UNCHANGED <<dropped, totalDrops>>
        \/ /\ UNCHANGED buf
           /\ \E c \in Full(s) : dropped' = [dropped EXCEPT ![c] = @ + 1]
           /\ totalDrops' = totalDrops + 1
     /\ published' = [published EXCEPT ![s] = n]
     /\ UNCHANGED <<subs, chan, stream, target, since, last, taken>>

\* Faulty variant: the counter counts the deliveries instead, as a balance
\* that a drop brings down.
PublishBalance(s) ==
  LET n == published[s] + 1
  IN /\ published[s] < MaxPublished
     /\ buf' = [c \in Streams |-> IF c \in subs[s] \ Full(s)
                                  THEN Append(buf[c], n) ELSE buf[c]]
     /\ dropped' = [c \in Streams |-> IF c \in Full(s)
                                      THEN dropped[c] + 1 ELSE dropped[c]]
     /\ totalDrops' = totalDrops - Cardinality(Full(s))
     /\ published' = [published EXCEPT ![s] = n]
     /\ UNCHANGED <<subs, chan, stream, target, since, last, taken>>

\* Faulty variant: one drop is counted per publish, not per channel.
PublishCountsOnce(s) ==
  LET n == published[s] + 1
  IN /\ published[s] < MaxPublished
     /\ buf' = [c \in Streams |-> IF c \in subs[s] \ Full(s)
                                  THEN Append(buf[c], n) ELSE buf[c]]
     /\ dropped' = [c \in Streams |-> IF c \in Full(s)
                                      THEN dropped[c] + 1 ELSE dropped[c]]
     /\ totalDrops' = totalDrops + (IF Full(s) = {} THEN 0 ELSE 1)
     /\ published' = [published EXCEPT ![s] = n]
     /\ UNCHANGED <<subs, chan, stream, target, since, last, taken>>

\* Publish: a non-blocking send to every channel of the session.
Publish(s) ==
  LET n == published[s] + 1
  IN /\ published[s] < MaxPublished
     /\ buf' = [c \in Streams |-> IF c \in subs[s] \ Full(s)
                                  THEN Append(buf[c], n) ELSE buf[c]]
     /\ dropped' = [c \in Streams |-> IF c \in Full(s)
                                      THEN dropped[c] + 1 ELSE dropped[c]]
     /\ totalDrops' = totalDrops + Cardinality(Full(s))
     /\ published' = [published EXCEPT ![s] = n]
     /\ UNCHANGED <<subs, chan, stream, target, since, last, taken>>

-----------------------------------------------------------------------------
(* SessionStream.                                                          *)

\* The session is not one of the caller's workspace: 404, nothing is made.
RejectStream(c) ==
  /\ stream[c] = "idle"
  /\ stream' = [stream EXCEPT ![c] = "done"]
  /\ UNCHANGED <<busVars, target, histVars>>

\* Subscribe: a fresh buffered channel joins the session's list.
Subscribe(c) ==
  LET sid == target[c]
  IN /\ stream[c] = "idle"
     /\ stream' = [stream EXCEPT ![c] = "loop"]
     /\ chan' = [chan EXCEPT ![c] = "open"]
     /\ subs' = [subs EXCEPT ![sid] = @ \cup {c}]
     /\ since' = [since EXCEPT ![c] = published[sid]]
     /\ last' = [last EXCEPT ![c] = published[sid]]
     /\ UNCHANGED <<buf, totalDrops, target, published, taken, dropped>>

\* Faulty variant: events are written in full batches only.
ReceiveFullBatch(c) ==
  /\ stream[c] = "loop"
  /\ Len(buf[c]) = BufCap
  /\ stream' = [stream EXCEPT ![c] = "writing"]
  /\ buf' = [buf EXCEPT ![c] = <<>>]
  /\ last' = [last EXCEPT ![c] = buf[c][BufCap]]
  /\ taken' = [taken EXCEPT ![c] = @ + BufCap]
  /\ UNCHANGED <<subs, chan, totalDrops, target, published, since, dropped>>

\* Faulty variant: the newest event is written first.
ReceiveNewest(c) ==
  /\ stream[c] = "loop"
  /\ buf[c] # <<>>
  /\ buf' = [buf EXCEPT ![c] = SubSeq(@, 1, Len(@) - 1)]
  /\ last' = [last EXCEPT ![c] = buf[c][Len(buf[c])]]
  /\ taken' = [taken EXCEPT ![c] = @ + 1]
  /\ stream' = [stream EXCEPT ![c] = "writing"]
  /\ UNCHANGED <<subs, chan, totalDrops, target, published, since, dropped>>

\* The loop takes an event from its channel, to write it.
Receive(c) ==
  /\ stream[c] = "loop"
  /\ buf[c] # <<>>
  /\ buf' = [buf EXCEPT ![c] = Tail(@)]
  /\ last' = [last EXCEPT ![c] = Head(buf[c])]
  /\ taken' = [taken EXCEPT ![c] = @ + 1]
  /\ stream' = [stream EXCEPT ![c] = "writing"]
  /\ UNCHANGED <<subs, chan, totalDrops, target, published, since, dropped>>

\* The writes and the flush end: back to the loop, or out of the handler when
\* one of them fails.  They block while the client does not read, and the
\* server sets no write timeout.
Write(c) ==
  /\ stream[c] = "writing"
  /\ stream' \in {[stream EXCEPT ![c] = w] : w \in {"loop", "leaving"}}
  /\ UNCHANGED <<busVars, target, histVars>>

\* The request context ends (client gone, or the 60 s router timeout), or
\* the writer cannot flush: the handler returns and its defers run.  A
\* handler that is writing does not see its context.
ContextDone(c) ==
  /\ stream[c] = "loop"
  /\ stream' = [stream EXCEPT ![c] = "leaving"]
  /\ UNCHANGED <<busVars, target, histVars>>

\* Faulty variant: the channel is closed and stays on the list.
CancelKeepsListed(c) ==
  /\ stream[c] = "leaving"
  /\ stream' = [stream EXCEPT ![c] = "done"]
  /\ chan' = [chan EXCEPT ![c] = "closed"]
  /\ UNCHANGED <<subs, buf, totalDrops, target, histVars>>

\* Faulty variant: the list is written back only if other channels are left.
CancelKeepsLast(c) ==
  /\ stream[c] = "leaving"
  /\ stream' = [stream EXCEPT ![c] = "done"]
  /\ chan' = [chan EXCEPT ![c] = "closed"]
  /\ subs' = IF subs[target[c]] = {c} THEN subs
             ELSE [subs EXCEPT ![target[c]] = @ \ {c}]
  /\ UNCHANGED <<buf, totalDrops, target, histVars>>

\* The deferred cancel: take the channel off the list and close it.
Cancel(c) ==
  /\ stream[c] = "leaving"
  /\ stream' = [stream EXCEPT ![c] = "done"]
  /\ chan' = [chan EXCEPT ![c] = "closed"]
  /\ subs' = [subs EXCEPT ![target[c]] = @ \ {c}]
  /\ UNCHANGED <<buf, totalDrops, target, histVars>>

Next ==
  \/ \E s \in Sessions : Publish(s)
  \/ \E c \in Streams : RejectStream(c)
  \/ \E c \in Streams : Subscribe(c)
  \/ \E c \in Streams : Receive(c)
  \/ \E c \in Streams : Write(c)
  \/ \E c \in Streams : ContextDone(c)
  \/ \E c \in Streams : Cancel(c)

Spec == Init /\ [][Next]_vars

\* The Go scheduler runs every runnable goroutine: a handler at its select
\* takes an event when there is one, and a returning handler runs its defers.
\* Nothing is assumed of Write, which waits for the client.
FairSpec ==
  /\ Spec
  /\ \A c \in Streams : WF_vars(Receive(c)) /\ WF_vars(Cancel(c))

-----------------------------------------------------------------------------
(* Properties.                                                             *)

\* Publish sends to every channel on the list, and a send on a closed channel
\* panics in Go even inside a select: no closed channel is ever listed.  And
\* a channel still open is on the list of its own session and on no other, so
\* no stream shows another session and none is forgotten by the bus.
ListedIffOpen ==
  \A c \in Streams, s \in Sessions :
    c \in subs[s] <=> chan[c] = "open" /\ target[c] = s

\* Nothing is lost silently: of the events published since a stream joined,
\* each one was taken, is waiting in the channel, or was counted as dropped.
EveryEventAccounted ==
  \A c \in Streams : chan[c] = "open" =>
    taken[c] + Len(buf[c]) + dropped[c] = published[target[c]] - since[c]

\* A channel never holds more than its capacity, and it holds the newest
\* events it accepted: strictly increasing, none older than the last taken.
BufferInOrder ==
  \A c \in Streams :
    /\ Len(buf[c]) <= BufCap
    /\ \A i \in 1 .. Len(buf[c]) :
         /\ buf[c][i] > last[c]
         /\ buf[c][i] <= published[target[c]]
         /\ \A j \in 1 .. Len(buf[c]) : i < j => buf[c][i] < buf[c][j]

\* The events that full channels refused, each with the channel, over all
\* streams, closed ones included.
Refused == UNION {{c} \X (1 .. dropped[c]) : c \in Streams}

\* totalDrops, which the server logs when a stream ends and which nothing else
\* records, is the number of events that full channels refused.
DropsCounted == totalDrops = Cardinality(Refused)

Serving(c) == stream[c] \in {"loop", "writing"}

\* An event waiting in the channel of a running stream is eventually taken,
\* unless the stream ends first.  That takes a client that keeps reading, so
\* that no write of the handler blocks for ever; of one that stalls the code
\* promises nothing.
WaitingIsTaken ==
  \A c \in Streams, n \in 1 .. MaxPublished :
    []<>(stream[c] # "writing") =>
      (Serving(c) /\ (\E i \in 1 .. Len(buf[c]) : buf[c][i] = n)
         ~> last[c] >= n \/ ~Serving(c))

\* A stream that ends is always taken off the bus: no leaked channel keeps
\* receiving events nobody reads.
EndedIsForgotten ==
  \A c \in Streams, s \in Sessions :
    (stream[c] = "leaving") ~> (c \notin subs[s])

-----------------------------------------------------------------------------
(* What makes the invariants inductive.                                    *)

\* A channel is open exactly while its stream runs, a channel that was never
\* made holds and has seen nothing, and nobody is ahead of the publisher.
Lifetimes ==
  \A c \in Streams :
    /\ chan[c] = "open" <=> stream[c] \in {"loop", "writing", "leaving"}
    /\ stream[c] = "idle" => chan[c] = "nil"
    /\ chan[c] = "nil" => buf[c] = <<>> /\ taken[c] = 0 /\ dropped[c] = 0
    /\ last[c] <= published[target[c]]

BusInv == ListedIffOpen /\ EveryEventAccounted /\ BufferInOrder /\ Lifetimes

-----------------------------------------------------------------------------
(* Refinement: the bus and its streams implement SessionFeed.              *)

Joined(c) == CASE stream[c] = "idle" -> "out"
               [] stream[c] = "done" -> "gone"
               [] OTHER -> "in"

Feed == INSTANCE SessionFeed WITH joined <- [c \in Streams |-> Joined(c)]

\* What the browser sees is a feed: its own session, in order, at most once,
\* nothing from before it subscribed.
ImplementsFeed == Feed!Spec
=============================================================================
