------------------------------ MODULE RedisBus ------------------------------
(***************************************************************************)
(* ssebus.RedisBus, the bus used with SSE_DRIVER=redis, and SessionStream  *)
(* on top of it.                                                           *)
(*                                                                         *)
(* Every stream has a Redis subscription of its own and a goroutine, the   *)
(* relay, that moves events from the client's queue (inbox) to the channel *)
(* the handler reads (buf).  Redis keeps nothing for a subscriber that is  *)
(* not connected: while a link is down its events are missed, and a link   *)
(* that breaks takes what it had not delivered with it.                    *)
(*                                                                         *)
(* Publish either reaches Redis or fails and is only logged; an event that *)
(* Redis never took has no number, so a failed Publish changes nothing.    *)
(* As in SseBus an event is its number in its session.                     *)
(***************************************************************************)
EXTENDS Integers, Sequences

CONSTANTS
  Sessions,      \* session ids
  Streams,       \* SessionStream calls, each with its subscription
  BufCap,        \* capacity of the channel: 32 in the code
  MaxPublished   \* bound: events published per session

ASSUME RedisBusAssumption ==
  /\ BufCap \in Nat \ {0}
  /\ MaxPublished \in Nat

VARIABLES
  link,        \* stream -> its connection to Redis: "none", "up" or "down"
  inbox,       \* stream -> events received from Redis, not yet relayed
  buf,         \* stream -> events in the channel ch
  relay,       \* stream -> its goroutine: "none", "run" or "ended"
  cancelled,   \* the streams whose subscription context is cancelled
  stream,      \* SessionStream call -> where it is
  target,      \* SessionStream call -> the session of its URL
  \* History, read by the properties only.
  published, since, last, taken,
  dropped,     \* stream -> events the relay found no room for
  missed       \* stream -> events lost with or without a link

busVars  == <<link, inbox, buf, relay, cancelled>>
histVars == <<published, since, last, taken, dropped, missed>>
vars     == <<busVars, stream, target, histVars>>

StreamStates == {"idle", "subscribing", "loop", "leaving", "done"}

(***************************************************************************)
(* The one type invariant; a channel has room for BufCap events.           *)
(***************************************************************************)
TypeOK ==
  /\ link \in [Streams -> {"none", "up", "down"}]
  /\ inbox \in [Streams -> Seq(Nat)]
  /\ buf \in [Streams -> Seq(Nat)]
  /\ \A c \in Streams : Len(buf[c]) <= BufCap
  /\ relay \in [Streams -> {"none", "run", "ended"}]
  /\ cancelled \in SUBSET Streams
  /\ stream \in [Streams -> StreamStates]
  /\ target \in [Streams -> Sessions]
  /\ published \in [Sessions -> Nat]
  /\ since \in [Streams -> Nat]
  /\ last \in [Streams -> Nat]
  /\ taken \in [Streams -> Nat]
  /\ dropped \in [Streams -> Nat]
  /\ missed \in [Streams -> Nat]

Init ==
  /\ link = [c \in Streams |-> "none"]
  /\ inbox = [c \in Streams |-> <<>>]
  /\ buf = [c \in Streams |-> <<>>]
  /\ relay = [c \in Streams |-> "none"]
  /\ cancelled = {}
  /\ stream = [c \in Streams |-> "idle"]
  /\ target \in [Streams -> Sessions]
  /\ published = [s \in Sessions |-> 0]
  /\ since = [c \in Streams |-> 0]
  /\ last = [c \in Streams |-> 0]
  /\ taken = [c \in Streams |-> 0]
  /\ dropped = [c \in Streams |-> 0]
  /\ missed = [c \in Streams |-> 0]

-----------------------------------------------------------------------------
(* Publishing, and the connection to Redis.                                *)

\* The subscribers Redis knows for session s, and those it has lost.
Connected(s) == {c \in Streams : target[c] = s /\ link[c] = "up"}
Unreached(s) == {c \in Streams : target[c] = s /\ link[c] = "down"}

\* Publish: Redis hands the event to the connected subscribers.
Publish(s) ==
  LET n == published[s] + 1
  IN /\ published[s] < MaxPublished
     /\ published' = [published EXCEPT ![s] = n]
     /\ inbox' = [c \in Streams |-> IF c \in Connected(s)
                                    THEN Append(inbox[c], n) ELSE inbox[c]]
     /\ missed' = [c \in Streams |-> IF c \in Unreached(s)
                                     THEN missed[c] + 1 ELSE missed[c]]
     /\ UNCHANGED <<link, buf, relay, cancelled, stream, target, since, last,
                    taken, dropped>>

\* The connection fails; the newest k events had not been received yet.
LinkBreaks(c) ==
  /\ link[c] = "up"
  /\ link' = [link EXCEPT ![c] = "down"]
  /\ \E k \in 0 .. Len(inbox[c]) :
       /\ inbox' = [inbox EXCEPT ![c] = SubSeq(@, 1, Len(@) - k)]
       /\ missed' = [missed EXCEPT ![c] = @ + k]
  /\ UNCHANGED <<buf, relay, cancelled, stream, target, published, since,
                 last, taken, dropped>>

\* The client connects and subscribes again: while Subscribe waits for the
\* confirmation its Receive does, and later the health check that
\* pubsub.Channel starts, so once the relay has ended nobody does.
LinkBack(c) ==
  /\ link[c] = "down"
  /\ stream[c] = "subscribing" \/ relay[c] = "run"
  /\ link' = [link EXCEPT ![c] = "up"]
  /\ UNCHANGED <<inbox, buf, relay, cancelled, stream, target, histVars>>

-----------------------------------------------------------------------------
(* Subscribe.                                                              *)

\* The session is not one of the caller's workspace: 404, nothing is made.
RejectStream(c) ==
  /\ stream[c] = "idle"
  /\ stream' = [stream EXCEPT ![c] = "done"]
  /\ UNCHANGED <<busVars, target, histVars>>

\* SUBSCRIBE is sent; if Redis is reached it delivers from now on.
Subscribe(c) ==
  /\ stream[c] = "idle"
  /\ stream' = [stream EXCEPT ![c] = "subscribing"]
  /\ link' \in {[link EXCEPT ![c] = l] : l \in {"up", "down"}}
  /\ since' = [since EXCEPT ![c] = published[target[c]]]
  /\ last' = [last EXCEPT ![c] = published[target[c]]]
  /\ UNCHANGED <<inbox, buf, relay, cancelled, target, published, taken,
                 dropped, missed>>

\* The confirmation arrives: the relay starts and the handler enters its loop.
Confirm(c) ==
  /\ stream[c] = "subscribing" /\ link[c] = "up"
  /\ stream' = [stream EXCEPT ![c] = "loop"]
  /\ relay' = [relay EXCEPT ![c] = "run"]
  /\ UNCHANGED <<link, inbox, buf, cancelled, target, histVars>>

\* No confirmation: the context is cancelled and the channel closed, which
\* ends the handler's loop.  pubsub is not closed here.
SubscribeFails(c) ==
  /\ stream[c] = "subscribing"
  /\ cancelled' = cancelled \cup {c}
  /\ stream' = [stream EXCEPT ![c] = "leaving"]
  /\ UNCHANGED <<link, inbox, buf, relay, target, histVars>>

-----------------------------------------------------------------------------
(* The relay.                                                              *)

\* Faulty variant: an event that finds no room goes back to the queue.
RelayRequeues(c) ==
  /\ relay[c] = "run" /\ inbox[c] # <<>>
  /\ IF Len(buf[c]) < BufCap
     THEN /\ buf' = [buf EXCEPT ![c] = Append(@, Head(inbox[c]))]
          /\ inbox' = [inbox EXCEPT ![c] = Tail(@)]
     ELSE /\ inbox' = [inbox EXCEPT ![c] = Append(Tail(@), Head(@))]
          /\ UNCHANGED buf
  /\ UNCHANGED <<link, relay, cancelled, stream, target, published, since,
                 last, taken, dropped, missed>>

\* Faulty variant: an event that finds no room discards the whole queue.
RelayDiscards(c) ==
  /\ relay[c] = "run" /\ inbox[c] # <<>>
  /\ IF Len(buf[c]) < BufCap
     THEN /\ buf' = [buf EXCEPT ![c] = Append(@, Head(inbox[c]))]
          /\ inbox' = [inbox EXCEPT ![c] = Tail(@)]
          /\ UNCHANGED dropped
     ELSE /\ dropped' = [dropped EXCEPT ![c] = @ + 1]
          /\ inbox' = [inbox EXCEPT ![c] = <<>>]
          /\ UNCHANGED buf
  /\ UNCHANGED <<link, relay, cancelled, stream, target, published, since,
                 last, taken, missed>>

\* One event from Redis: a non-blocking send to the channel.
Relay(c) ==
  /\ relay[c] = "run" /\ inbox[c] # <<>>
  /\ inbox' = [inbox EXCEPT ![c] = Tail(@)]
  /\ IF Len(buf[c]) < BufCap
     THEN /\ buf' = [buf EXCEPT ![c] = Append(@, Head(inbox[c]))]
          /\ UNCHANGED dropped
     ELSE /\ dropped' = [dropped EXCEPT ![c] = @ + 1]
          /\ UNCHANGED buf
  /\ UNCHANGED <<link, relay, cancelled, stream, target, published, since,
                 last, taken, missed>>

\* ctx.Done: the relay returns and its deferred Close ends the subscription.
\* The select may still have chosen an event before.
RelayEnds(c) ==
  /\ relay[c] = "run" /\ c \in cancelled
  /\ relay' = [relay EXCEPT ![c] = "ended"]
  /\ link' = [link EXCEPT ![c] = "none"]
  /\ inbox' = [inbox EXCEPT ![c] = <<>>]
  /\ UNCHANGED <<buf, cancelled, stream, target, histVars>>

-----------------------------------------------------------------------------
(* SessionStream.                                                          *)

\* Faulty variant: the newest event is written first.
ReceiveNewest(c) ==
  /\ stream[c] = "loop" /\ buf[c] # <<>>
  /\ buf' = [buf EXCEPT ![c] = SubSeq(@, 1, Len(@) - 1)]
  /\ last' = [last EXCEPT ![c] = buf[c][Len(buf[c])]]
  /\ taken' = [taken EXCEPT ![c] = @ + 1]
  /\ stream' \in {stream, [stream EXCEPT ![c] = "leaving"]}
  /\ UNCHANGED <<link, inbox, relay, cancelled, target, published, since,
                 dropped, missed>>

\* The loop takes an event and writes it; a write error ends the handler.
\* The write may block, for which a stream that takes no further step stands:
\* nothing here assumes that Receive is taken (SseBus has the two apart).
Receive(c) ==
  /\ stream[c] = "loop" /\ buf[c] # <<>>
  /\ buf' = [buf EXCEPT ![c] = Tail(@)]
  /\ last' = [last EXCEPT ![c] = Head(buf[c])]
  /\ taken' = [taken EXCEPT ![c] = @ + 1]
  /\ stream' \in {stream, [stream EXCEPT ![c] = "leaving"]}
  /\ UNCHANGED <<link, inbox, relay, cancelled, target, published, since,
                 dropped, missed>>

\* The request context ends, or the writer cannot flush.
ContextDone(c) ==
  /\ stream[c] = "loop"
  /\ stream' = [stream EXCEPT ![c] = "leaving"]
  /\ UNCHANGED <<busVars, target, histVars>>

\* Faulty variant: the function returned for a failed subscription, which
\* does nothing, is returned always.
CancelNothing(c) ==
  /\ stream[c] = "leaving"
  /\ stream' = [stream EXCEPT ![c] = "done"]
  /\ UNCHANGED <<busVars, target, histVars>>

\* The deferred cancel function cancels the subscription's context.
Cancel(c) ==
  /\ stream[c] = "leaving"
  /\ stream' = [stream EXCEPT ![c] = "done"]
  /\ cancelled' = cancelled \cup {c}
  /\ UNCHANGED <<link, inbox, buf, relay, target, histVars>>

Next ==
  \/ \E s \in Sessions : Publish(s)
  \/ \E c \in Streams : LinkBreaks(c)
  \/ \E c \in Streams : LinkBack(c)
  \/ \E c \in Streams : RejectStream(c)
  \/ \E c \in Streams : Subscribe(c)
  \/ \E c \in Streams : Confirm(c)
  \/ \E c \in Streams : SubscribeFails(c)
  \/ \E c \in Streams : Relay(c)
  \/ \E c \in Streams : RelayEnds(c)
  \/ \E c \in Streams : Receive(c)
  \/ \E c \in Streams : ContextDone(c)
  \/ \E c \in Streams : Cancel(c)

Spec == Init /\ [][Next]_vars

\* Goroutines that can run do run, and a select that finds its context
\* cancelled again and again does not prefer the other case forever.
FairSpec ==
  /\ Spec
  /\ \A c \in Streams : /\ WF_vars(Cancel(c))
                        /\ WF_vars(RelayEnds(c))

-----------------------------------------------------------------------------
(* Properties.                                                             *)

\* A channel b and a queue q for a stream that has shown l of p events: all
\* of it new, increasing, and the channel older than the queue.
InOrder(b, q, l, p) ==
  /\ \A i \in 1 .. Len(b) : l < b[i] /\ b[i] <= p
  /\ \A i \in 1 .. Len(q) : l < q[i] /\ q[i] <= p
  /\ \A i, j \in 1 .. Len(b) : i < j => b[i] < b[j]
  /\ \A i, j \in 1 .. Len(q) : i < j => q[i] < q[j]
  /\ \A i \in 1 .. Len(b), j \in 1 .. Len(q) : b[i] < q[j]

\* The order of publication survives two queues, drops between them, links
\* that break and links that come back.
QueuesInOrder ==
  \A c \in Streams :
    InOrder(buf[c], inbox[c], last[c], published[target[c]])

\* There are three places where an event can be lost, a full channel, a
\* broken link and a link that is down, and no fourth: everything published
\* since the stream subscribed was taken, waits, or was lost at one of them.
LossesLocated ==
  \A c \in Streams : stream[c] \in {"subscribing", "loop", "leaving"} =>
    taken[c] + Len(buf[c]) + Len(inbox[c]) + dropped[c] + missed[c]
      = published[target[c]] - since[c]

\* A stream that was served and has ended closes its Redis subscription: the
\* cancel function reaches the relay, and the relay the subscription.
EndedIsUnsubscribed ==
  \A c \in Streams :
    (stream[c] = "done" /\ relay[c] = "run") ~> (link[c] = "none")

-----------------------------------------------------------------------------
(* What makes the invariants inductive.                                    *)

\* A stream that has not begun has no connection and has seen nothing, one
\* that runs has a link, and nobody is ahead of Redis.
NotBegun ==
  \A c \in Streams :
    /\ stream[c] = "idle" =>
         /\ link[c] = "none" /\ relay[c] = "none"
         /\ buf[c] = <<>> /\ inbox[c] = <<>>
         /\ taken[c] = 0 /\ dropped[c] = 0 /\ missed[c] = 0
    /\ stream[c] \in {"subscribing", "loop", "leaving"} =>
         link[c] \in {"up", "down"}
    /\ relay[c] = "run" /\ c \in cancelled => stream[c] = "done"
    /\ c \in cancelled => stream[c] \in {"leaving", "done"}
    /\ relay[c] = "run" => stream[c] \in {"loop", "leaving", "done"}
    /\ stream[c] = "subscribing" => relay[c] = "none"
    /\ last[c] <= published[target[c]]

RedisInv == QueuesInOrder /\ LossesLocated /\ NotBegun

-----------------------------------------------------------------------------
(* Refinement: this bus implements SessionFeed as well.                    *)

Joined(c) == CASE stream[c] = "idle" -> "out"
               [] stream[c] = "done" -> "gone"
               [] OTHER -> "in"

Feed == INSTANCE SessionFeed WITH joined <- [c \in Streams |-> Joined(c)]

\* Whichever driver SSE_DRIVER selects, a browser sees the same kind of feed:
\* its own session, in order, at most once, nothing from before it joined.
ImplementsFeed == Feed!Spec
=============================================================================
