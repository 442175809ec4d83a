--------------------------- MODULE RedisBusProofs ---------------------------
(***************************************************************************)
(* Proofs about RedisBus, for any sets of sessions and streams, any        *)
(* capacity, and links that break at any time.                             *)
(***************************************************************************)
EXTENDS RedisBus, SequenceTheorems, TLAPS

-----------------------------------------------------------------------------
(* What the steps do to a channel and a queue in order.                    *)

\* Redis hands over the next event, or the event goes elsewhere.
LEMMA OrderPublished ==
  ASSUME NEW b \in Seq(Nat), NEW q \in Seq(Nat), NEW l \in Nat, NEW p \in Nat,
         l <= p, InOrder(b, q, l, p)
  PROVE  InOrder(b, Append(q, p + 1), l, p + 1) /\ InOrder(b, q, l, p + 1)
<1>1. /\ Len(Append(q, p + 1)) = Len(q) + 1
      /\ Append(q, p + 1)[Len(q) + 1] = p + 1
      /\ \A i \in 1 .. Len(q) : Append(q, p + 1)[i] = q[i] /\ q[i] \in Nat
      /\ \A i \in 1 .. Len(b) : b[i] \in Nat
  OBVIOUS
<1>2. InOrder(b, q, l, p + 1)
  BY <1>1 DEF InOrder
<1>3. InOrder(b, Append(q, p + 1), l, p + 1)
  <2> DEFINE a == Append(q, p + 1)  n == Len(q) + 1
  <2>1. /\ Len(a) = n /\ Len(q) \in Nat /\ a[n] = p + 1
        /\ \A i \in 1 .. n : i = n \/ i \in 1 .. Len(q)
        /\ \A i \in 1 .. Len(q) : a[i] = q[i] /\ q[i] \in Nat
    BY <1>1
  <2> HIDE DEF a, n
  <2>0. l < p + 1 /\ p + 1 <= p + 1
    OBVIOUS
  <2>a. \A i \in 1 .. Len(q) : l < q[i] /\ q[i] <= p + 1 /\ q[i] < p + 1
    BY <1>1 DEF InOrder
  <2>b. \A i \in 1 .. Len(b) : b[i] < p + 1
    BY <1>1 DEF InOrder
  <2>2. ASSUME NEW i \in 1 .. Len(a) PROVE l < a[i] /\ a[i] <= p + 1
    BY <2>0, <2>1, <2>a
  <2>3. ASSUME NEW i \in 1 .. Len(a), NEW j \in 1 .. Len(a), i < j
        PROVE  a[i] < a[j]
    <3>1. i \in 1 .. Len(q)
      BY <2>1, <2>3 DEF n
    <3>2. CASE j = n
      BY <2>1, <2>a, <3>1, <3>2
    <3>3. CASE j \in 1 .. Len(q)
      BY <2>1, <2>3, <3>1, <3>3 DEF InOrder
    <3> QED
      BY <2>1, <3>2, <3>3
  <2>4. ASSUME NEW i \in 1 .. Len(b), NEW j \in 1 .. Len(a)
        PROVE  b[i] < a[j]
    <3>1. CASE j = n
      BY <2>1, <2>b, <3>1
    <3>2. CASE j \in 1 .. Len(q)
      BY <2>1, <3>2 DEF InOrder
    <3> QED
      BY <2>1, <3>1, <3>2
  <2>5. InOrder(b, a, l, p + 1)
    BY <1>2, <2>2, <2>3, <2>4 DEF InOrder
  <2> QED
    BY <2>5 DEF a
<1> QED
  BY <1>2, <1>3

\* The relay moves the oldest event of the queue to the channel, or drops it.
LEMMA OrderRelayed ==
  ASSUME NEW b \in Seq(Nat), NEW q \in Seq(Nat), NEW l \in Nat, NEW p \in Nat,
         q # <<>>, InOrder(b, q, l, p)
  PROVE  InOrder(Append(b, Head(q)), Tail(q), l, p) /\ InOrder(b, Tail(q), l, p)
<1>1. /\ Len(Tail(q)) = Len(q) - 1 /\ Len(q) \in Nat /\ Len(q) >= 1
      /\ Head(q) = q[1] /\ q[1] \in Nat
      /\ \A i \in 1 .. Len(q) - 1 : Tail(q)[i] = q[i + 1] /\ q[i + 1] \in Nat
  OBVIOUS
<1>2. /\ Len(Append(b, q[1])) = Len(b) + 1
      /\ Append(b, q[1])[Len(b) + 1] = q[1]
      /\ \A i \in 1 .. Len(b) : Append(b, q[1])[i] = b[i] /\ b[i] \in Nat
  BY <1>1
<1>3. InOrder(b, Tail(q), l, p)
  BY <1>1 DEF InOrder
<1>4. InOrder(Append(b, q[1]), Tail(q), l, p)
  <2> DEFINE a == Append(b, q[1])  n == Len(b) + 1
  <2>1. /\ Len(a) = n /\ Len(b) \in Nat /\ a[n] = q[1]
        /\ \A i \in 1 .. n : i = n \/ i \in 1 .. Len(b)
        /\ \A i \in 1 .. Len(b) : a[i] = b[i] /\ b[i] \in Nat
    BY <1>2
  <2>2. /\ 1 \in 1 .. Len(q)
        /\ \A i \in 1 .. Len(Tail(q)) : /\ i + 1 \in 1 .. Len(q) /\ 1 < i + 1
                                       /\ Tail(q)[i] = q[i + 1]
    BY <1>1
  <2> HIDE DEF a, n
  <2>3. ASSUME NEW i \in 1 .. Len(a) PROVE l < a[i] /\ a[i] <= p
    BY <2>1, <2>2, <2>3 DEF InOrder
  <2>4. ASSUME NEW i \in 1 .. Len(a), NEW j \in 1 .. Len(a), i < j
        PROVE  a[i] < a[j]
    <3>1. i \in 1 .. Len(b)
      BY <2>1, <2>4 DEF n
    <3>2. CASE j = n
      BY <2>1, <2>2, <3>1, <3>2 DEF InOrder
    <3>3. CASE j \in 1 .. Len(b)
      BY <2>1, <2>4, <3>1, <3>3 DEF InOrder
    <3> QED
      BY <2>1, <3>2, <3>3
  <2>5. ASSUME NEW i \in 1 .. Len(a), NEW j \in 1 .. Len(Tail(q))
        PROVE  a[i] < Tail(q)[j]
    <3>1. CASE i = n
      BY <2>1, <2>2, <3>1 DEF InOrder
    <3>2. CASE i \in 1 .. Len(b)
      BY <2>1, <2>2, <3>2 DEF InOrder
    <3> QED
      BY <2>1, <3>1, <3>2
  <2>6. InOrder(a, Tail(q), l, p)
    BY <1>3, <2>3, <2>4, <2>5 DEF InOrder
  <2> QED
    BY <2>6 DEF a
<1> QED
  BY <1>1, <1>3, <1>4

\* The handler shows the oldest event of the channel.
LEMMA OrderShown ==
  ASSUME NEW b \in Seq(Nat), NEW q \in Seq(Nat), NEW l \in Nat, NEW p \in Nat,
         b # <<>>, InOrder(b, q, l, p)
  PROVE  /\ InOrder(Tail(b), q, Head(b), p)
         /\ Head(b) \in Nat /\ l < Head(b) /\ Head(b) <= p
<1>1. /\ Len(Tail(b)) = Len(b) - 1 /\ Len(b) \in Nat /\ Len(b) >= 1
      /\ Head(b) = b[1] /\ b[1] \in Nat
      /\ \A i \in 1 .. Len(b) - 1 : Tail(b)[i] = b[i + 1] /\ b[i + 1] \in Nat
  OBVIOUS
<1>2. InOrder(Tail(b), q, b[1], p)
  BY <1>1 DEF InOrder
<1> QED
  BY <1>1, <1>2 DEF InOrder

\* A broken link takes the newest k events of the queue with it.
LEMMA OrderCut ==
  ASSUME NEW b \in Seq(Nat), NEW q \in Seq(Nat), NEW l \in Nat, NEW p \in Nat,
         NEW k \in 0 .. Len(q), InOrder(b, q, l, p)
  PROVE  /\ InOrder(b, SubSeq(q, 1, Len(q) - k), l, p)
         /\ SubSeq(q, 1, Len(q) - k) \in Seq(Nat)
         /\ Len(SubSeq(q, 1, Len(q) - k)) = Len(q) - k
<1>1. Len(q) \in Nat /\ k \in Nat /\ Len(q) - k \in Nat /\ Len(q) - k <= Len(q)
  OBVIOUS
<1>2. /\ SubSeq(q, 1, Len(q) - k) \in Seq(Nat)
      /\ Len(SubSeq(q, 1, Len(q) - k)) = Len(q) - k
      /\ \A i \in 1 .. Len(q) - k : SubSeq(q, 1, Len(q) - k)[i] = q[i]
  <2> DEFINE n == Len(q) - k
  <2>1. 1 \in Int /\ n \in Int /\ \A i \in 1 .. n : q[i] \in Nat
    BY <1>1
  <2>2. /\ SubSeq(q, 1, n) \in Seq(Nat)
        /\ Len(SubSeq(q, 1, n)) = IF 1 <= n THEN n - 1 + 1 ELSE 0
        /\ \A i \in 1 .. n - 1 + 1 : SubSeq(q, 1, n)[i] = q[1 + i - 1]
    <3> HIDE DEF n
    <3> QED
      BY <2>1, SubSeqProperties
  <2>3. n \in Nat
    BY <1>1
  <2> HIDE DEF n
  <2>4. /\ Len(SubSeq(q, 1, n)) = n
        /\ \A i \in 1 .. n : SubSeq(q, 1, n)[i] = q[i]
    BY <2>2, <2>3
  <2> QED
    BY <2>2, <2>4 DEF n
<1>3. InOrder(b, SubSeq(q, 1, Len(q) - k), l, p)
  <2> DEFINE h == SubSeq(q, 1, Len(q) - k)
  <2>1. \A i \in 1 .. Len(h) : i \in 1 .. Len(q) /\ h[i] = q[i]
    BY <1>1, <1>2
  <2> HIDE DEF h
  <2>2. InOrder(b, h, l, p)
    BY <2>1 DEF InOrder
  <2> QED
    BY <2>2 DEF h
<1> QED
  BY <1>2, <1>3

\* Emptying the queue when the relay ends.
LEMMA OrderClosed ==
  ASSUME NEW b, NEW q, NEW l, NEW p, InOrder(b, q, l, p)
  PROVE  InOrder(b, <<>>, l, p)
BY DEF InOrder

-----------------------------------------------------------------------------
(* What the steps do to the account of a stream's events.                  *)

\* Everything that became of the events of a stream.
Total(t, b, q, d, m) == t + Len(b) + Len(q) + d + m

\* The handler changes where an event is counted, not how often.
LEMMA TotalShown ==
  ASSUME NEW t \in Nat, NEW b \in Seq(Nat), NEW q \in Seq(Nat), NEW d \in Nat,
         NEW m \in Nat, b # <<>>
  PROVE  Total(t + 1, Tail(b), q, d, m) = Total(t, b, q, d, m)
<1>1. Len(Tail(b)) = Len(b) - 1 /\ Len(b) \in Nat /\ Len(q) \in Nat
  OBVIOUS
<1> QED
  BY <1>1 DEF Total

\* What a broken link takes is counted as missed.
LEMMA TotalCut ==
  ASSUME NEW t \in Nat, NEW b \in Seq(Nat), NEW q \in Seq(Nat), NEW d \in Nat,
         NEW m \in Nat, NEW h, NEW k \in Nat, Len(h) = Len(q) - k
  PROVE  Total(t, b, h, d, m + k) = Total(t, b, q, d, m)
<1>1. Len(b) \in Nat /\ Len(q) \in Nat
  OBVIOUS
<1> QED
  BY <1>1 DEF Total

-----------------------------------------------------------------------------
(* Type correctness.                                                       *)

\* The bus starts well typed.
LEMMA InitType == Init => TypeOK
BY RedisBusAssumption DEF Init, TypeOK, StreamStates

\* A channel may be given any content within its capacity.
LEMMA BufType ==
  ASSUME TypeOK, NEW c \in Streams, NEW x \in Seq(Nat), Len(x) <= BufCap,
         buf' = [buf EXCEPT ![c] = x]
  PROVE  buf' \in [Streams -> Seq(Nat)] /\ \A e \in Streams : Len(buf'[e]) <= BufCap
<1>1. buf' \in [Streams -> Seq(Nat)] /\ buf'[c] = x
      /\ \A e \in Streams : e # c => buf'[e] = buf[e]
  BY DEF TypeOK
<1>2. \A e \in Streams : Len(buf[e]) <= BufCap
  BY DEF TypeOK
<1> QED
  BY <1>1, <1>2

\* Every step keeps the types and the capacity of the channels.
LEMMA StepType == TypeOK /\ [Next]_vars => TypeOK'
<1> SUFFICES ASSUME TypeOK, [Next]_vars PROVE TypeOK'
  OBVIOUS
<1> USE DEF busVars, histVars
<1>1. ASSUME NEW s \in Sessions, Publish(s) PROVE TypeOK'
  <2>1. published[s] + 1 \in Nat
    BY DEF TypeOK
  <2>2. inbox' \in [Streams -> Seq(Nat)]
    BY <1>1, <2>1 DEF Publish, TypeOK
  <2>3. published' \in [Sessions -> Nat] /\ missed' \in [Streams -> Nat]
    BY <1>1, <2>1 DEF Publish, TypeOK
  <2> QED
    BY <1>1, <2>2, <2>3 DEF Publish, TypeOK
<1>2. ASSUME NEW c \in Streams, LinkBreaks(c) PROVE TypeOK'
  <2>1. PICK k \in 0 .. Len(inbox[c]) :
          /\ inbox' = [inbox EXCEPT ![c] = SubSeq(@, 1, Len(@) - k)]
          /\ missed' = [missed EXCEPT ![c] = @ + k]
    BY <1>2 DEF LinkBreaks
  <2>2. inbox[c] \in Seq(Nat) /\ k \in Nat
    BY DEF TypeOK
  <2>3. \A i \in 1 .. Len(inbox[c]) - k : inbox[c][i] \in Nat
    BY <2>2
  <2>4. SubSeq(inbox[c], 1, Len(inbox[c]) - k) \in Seq(Nat)
    BY <2>2, <2>3, SubSeqProperties
  <2>5. missed[c] + k \in Nat
    BY <2>2 DEF TypeOK
  <2>6. inbox' \in [Streams -> Seq(Nat)]
    BY <2>1, <2>4 DEF TypeOK
  <2>7. missed' \in [Streams -> Nat] /\ link' \in [Streams -> {"none", "up", "down"}]
    BY <1>2, <2>1, <2>5 DEF LinkBreaks, TypeOK
  <2> QED
    BY <1>2, <2>6, <2>7 DEF LinkBreaks, TypeOK
<1>3. ASSUME NEW c \in Streams, LinkBack(c) \/ RejectStream(c) \/ Confirm(c)
                                \/ SubscribeFails(c) \/ ContextDone(c) \/ Cancel(c)
      PROVE  TypeOK'
  BY <1>3 DEF LinkBack, RejectStream, Confirm, SubscribeFails, ContextDone,
        Cancel, TypeOK, StreamStates
<1>4. ASSUME NEW c \in Streams, Subscribe(c) PROVE TypeOK'
  <2>1. published[target[c]] \in Nat
    BY DEF TypeOK
  <2> QED
    BY <1>4, <2>1 DEF Subscribe, TypeOK, StreamStates
<1>5. ASSUME NEW c \in Streams, Relay(c) PROVE TypeOK'
  <2>1. Head(inbox[c]) \in Nat /\ Tail(inbox[c]) \in Seq(Nat)
    BY <1>5 DEF Relay, TypeOK
  <2>2. buf[c] \in Seq(Nat) /\ Len(buf[c]) \in Nat
    BY DEF TypeOK
  <2>3. /\ Append(buf[c], Head(inbox[c])) \in Seq(Nat)
        /\ Len(Append(buf[c], Head(inbox[c]))) = Len(buf[c]) + 1
    BY <2>1, <2>2
  <2>4. inbox' \in [Streams -> Seq(Nat)]
    BY <1>5, <2>1 DEF Relay, TypeOK
  <2>6. dropped' \in [Streams -> Nat]
    <3>1. dropped[c] + 1 \in Nat
      BY DEF TypeOK
    <3>2. CASE dropped' = [dropped EXCEPT ![c] = @ + 1]
      BY <3>1, <3>2 DEF TypeOK
    <3>3. CASE UNCHANGED dropped
      BY <3>3 DEF TypeOK
    <3> QED
      BY <1>5, <3>2, <3>3 DEF Relay
  <2>5. /\ buf' \in [Streams -> Seq(Nat)]
        /\ \A e \in Streams : Len(buf'[e]) <= BufCap
    <3>1. CASE Len(buf[c]) < BufCap
      <4>1. buf' = [buf EXCEPT ![c] = Append(buf[c], Head(inbox[c]))]
        BY <1>5, <3>1 DEF Relay
      <4>2. Len(Append(buf[c], Head(inbox[c]))) <= BufCap
        BY <2>2, <2>3, <3>1, RedisBusAssumption
      <4> QED
        BY <2>3, <4>1, <4>2, BufType
    <3>2. CASE UNCHANGED buf
      BY <3>2 DEF TypeOK
    <3> QED
      BY <1>5, <3>1, <3>2 DEF Relay
  <2> QED
    BY <1>5, <2>4, <2>5, <2>6 DEF Relay, TypeOK
<1>6. ASSUME NEW c \in Streams, RelayEnds(c) PROVE TypeOK'
  BY <1>6 DEF RelayEnds, TypeOK
<1>7. ASSUME NEW c \in Streams, Receive(c) PROVE TypeOK'
  <2>1. /\ Head(buf[c]) \in Nat /\ Tail(buf[c]) \in Seq(Nat)
        /\ Len(Tail(buf[c])) = Len(buf[c]) - 1 /\ Len(buf[c]) \in Nat
    BY <1>7 DEF Receive, TypeOK
  <2>2. /\ buf' \in [Streams -> Seq(Nat)]
        /\ \A e \in Streams : Len(buf'[e]) <= BufCap
    <3>1. buf' = [buf EXCEPT ![c] = Tail(buf[c])]
      BY <1>7 DEF Receive
    <3>2. Len(buf[c]) <= BufCap
      BY DEF TypeOK
    <3>3. Len(Tail(buf[c])) <= BufCap
      BY <2>1, <3>2, RedisBusAssumption
    <3> QED
      BY <2>1, <3>1, <3>3, BufType
  <2>3. last' \in [Streams -> Nat] /\ taken' \in [Streams -> Nat]
    BY <1>7, <2>1 DEF Receive, TypeOK
  <2> QED
    BY <1>7, <2>2, <2>3 DEF Receive, TypeOK, StreamStates
<1>8. CASE UNCHANGED vars
  BY <1>8 DEF vars, TypeOK
<1> QED
  BY <1>1, <1>2, <1>3, <1>4, <1>5, <1>6, <1>7, <1>8 DEF Next

\* The bus stays well typed, no channel ever holds more than BufCap events.
THEOREM TypeCorrect == Spec => []TypeOK
BY InitType, StepType, PTL DEF Spec

-----------------------------------------------------------------------------
(* The invariant, stream by stream.                                        *)

Ordered(c) == InOrder(buf[c], inbox[c], last[c], published[target[c]])

Located(c) ==
  stream[c] \in {"subscribing", "loop", "leaving"} =>
    Total(taken[c], buf[c], inbox[c], dropped[c], missed[c])
      = published[target[c]] - since[c]

Begun(c) ==
  /\ stream[c] = "idle" =>
       /\ link[c] = "none" /\ relay[c] = "none"
       /\ buf[c] = <<>> /\ inbox[c] = <<>>
       /\ taken[c] = 0 /\ dropped[c] = 0 /\ missed[c] = 0
  /\ stream[c] \in {"subscribing", "loop", "leaving"} =>
       link[c] \in {"up", "down"}
  /\ relay[c] = "run" /\ c \in cancelled => stream[c] = "done"
  /\ c \in cancelled => stream[c] \in {"leaving", "done"}
  /\ relay[c] = "run" => stream[c] \in {"loop", "leaving", "done"}
  /\ stream[c] = "subscribing" => relay[c] = "none"
  /\ last[c] <= published[target[c]]

Sound(c) == Ordered(c) /\ Located(c) /\ Begun(c)

\* The invariant speaks of each stream by itself.
LEMMA InvIsPerStream == RedisInv <=> \A c \in Streams : Sound(c)
BY DEF RedisInv, QueuesInOrder, LossesLocated, NotBegun, Sound, Ordered,
       Located, Begun, Total

\* The types of what belongs to one stream.
LEMMA StreamTypes ==
  ASSUME TypeOK, NEW c \in Streams
  PROVE  /\ target[c] \in Sessions /\ published[target[c]] \in Nat
         /\ buf[c] \in Seq(Nat) /\ inbox[c] \in Seq(Nat)
         /\ last[c] \in Nat /\ since[c] \in Nat /\ taken[c] \in Nat
         /\ dropped[c] \in Nat /\ missed[c] \in Nat
         /\ link[c] \in {"none", "up", "down"} /\ stream[c] \in StreamStates
BY DEF TypeOK

\* A step of one stream leaves the others alone.
LEMMA UntouchedIsSound ==
  ASSUME NEW c \in Streams, Sound(c), UNCHANGED published,
         link'[c] = link[c], inbox'[c] = inbox[c], buf'[c] = buf[c],
         relay'[c] = relay[c], c \in cancelled' <=> c \in cancelled,
         stream'[c] = stream[c], target'[c] = target[c], since'[c] = since[c],
         last'[c] = last[c], taken'[c] = taken[c], dropped'[c] = dropped[c],
         missed'[c] = missed[c]
  PROVE  Sound(c)'
BY DEF Sound, Ordered, Located, Begun

\* Publishing: the event waits at a stream with a link, is missed by one
\* whose link is down, and does not concern the others.
LEMMA PublishSound ==
  ASSUME TypeOK, NEW s \in Sessions, Publish(s), NEW c \in Streams, Sound(c)
  PROVE  Sound(c)'
<1> DEFINE p == published[target[c]]
<1>1. /\ link'[c] = link[c] /\ buf'[c] = buf[c] /\ relay'[c] = relay[c]
      /\ cancelled' = cancelled /\ stream'[c] = stream[c]
      /\ target'[c] = target[c] /\ since'[c] = since[c] /\ last'[c] = last[c]
      /\ taken'[c] = taken[c] /\ dropped'[c] = dropped[c]
  BY DEF Publish
<1>2. CASE target[c] # s
  <2>1. /\ published'[target[c]] = p /\ inbox'[c] = inbox[c]
        /\ missed'[c] = missed[c]
    BY <1>2, StreamTypes DEF Publish, Connected, Unreached, TypeOK
  <2> QED
    BY <1>1, <2>1 DEF Sound, Ordered, Located, Begun
<1>3. CASE target[c] = s
  <2>1. published'[target[c]] = p + 1 /\ p \in Nat /\ p = published[s]
    BY <1>3, StreamTypes DEF Publish, TypeOK
  <2>2. /\ inbox'[c] = IF link[c] = "up" THEN Append(inbox[c], p + 1)
                                         ELSE inbox[c]
        /\ missed'[c] = IF link[c] = "down" THEN missed[c] + 1 ELSE missed[c]
    BY <1>3, <2>1 DEF Publish, Connected, Unreached, TypeOK
  <2>3. Ordered(c)'
    <3>1. /\ InOrder(buf[c], Append(inbox[c], p + 1), last[c], p + 1)
          /\ InOrder(buf[c], inbox[c], last[c], p + 1)
      BY StreamTypes, OrderPublished DEF Sound, Ordered, Begun
    <3> QED
      BY <1>1, <2>1, <2>2, <3>1 DEF Ordered
  <2>4. Located(c)'
    <3> SUFFICES ASSUME stream[c] \in {"subscribing", "loop", "leaving"}
                 PROVE  Located(c)'
      BY <1>1 DEF Located
    <3>1. Total(taken[c], buf[c], inbox[c], dropped[c], missed[c]) = p - since[c]
      BY DEF Sound, Located
    <3>2. /\ Total(taken[c], buf[c], Append(inbox[c], p + 1), dropped[c], missed[c])
               = (p + 1) - since[c]
          /\ Total(taken[c], buf[c], inbox[c], dropped[c], missed[c] + 1)
               = (p + 1) - since[c]
      <4> DEFINE t == taken[c]  b == buf[c]  q == inbox[c]  d == dropped[c]
                 m == missed[c]  z == since[c]
      <4>1. /\ t \in Nat /\ b \in Seq(Nat) /\ q \in Seq(Nat) /\ d \in Nat
            /\ m \in Nat /\ p \in Nat /\ z \in Nat
            /\ Total(t, b, q, d, m) = p - z
        BY <3>1, StreamTypes
      <4>2. /\ Total(t, b, Append(q, p + 1), d, m) = (p + 1) - z
            /\ Total(t, b, q, d, m + 1) = (p + 1) - z
        <5> HIDE DEF t, b, q, d, m, p, z
        <5>1. Len(Append(q, p + 1)) = Len(q) + 1 /\ Len(q) \in Nat /\ Len(b) \in Nat
          BY <4>1
        <5> QED
          BY <4>1, <5>1 DEF Total
      <4> QED
        BY <4>2
    <3>3. link[c] \in {"up", "down"}
      BY DEF Sound, Begun
    <3> QED
      BY <1>1, <2>1, <2>2, <3>2, <3>3 DEF Located
  <2>5. Begun(c)'
    <3>1. last[c] <= p + 1
      BY <2>1, StreamTypes DEF Sound, Begun
    <3> QED
      BY <1>1, <2>1, <2>2, <3>1 DEF Sound, Begun
  <2> QED
    BY <2>3, <2>4, <2>5 DEF Sound
<1> QED
  BY <1>2, <1>3

\* A link breaks, the relay works, the handler shows an event, the relay ends:
\* the steps that move events.
LEMMA MoveSound ==
  ASSUME TypeOK, NEW c \in Streams, Sound(c),
         LinkBreaks(c) \/ Relay(c) \/ Receive(c) \/ RelayEnds(c)
  PROVE  Sound(c)'
<1> DEFINE p == published[target[c]]
<1>1. /\ target'[c] = target[c] /\ since'[c] = since[c]
      /\ published' = published /\ cancelled' = cancelled
  BY DEF LinkBreaks, Relay, Receive, RelayEnds, histVars
<1>2. CASE LinkBreaks(c)
  <2>1. PICK k \in 0 .. Len(inbox[c]) :
          /\ inbox' = [inbox EXCEPT ![c] = SubSeq(@, 1, Len(@) - k)]
          /\ missed' = [missed EXCEPT ![c] = @ + k]
    BY <1>2 DEF LinkBreaks
  <2> DEFINE h == SubSeq(inbox[c], 1, Len(inbox[c]) - k)
  <2>2. /\ inbox'[c] = h /\ missed'[c] = missed[c] + k
        /\ link[c] = "up" /\ link'[c] = "down"
        /\ buf'[c] = buf[c] /\ relay'[c] = relay[c] /\ stream'[c] = stream[c]
        /\ last'[c] = last[c] /\ taken'[c] = taken[c] /\ dropped'[c] = dropped[c]
    BY <1>2, <2>1 DEF LinkBreaks, TypeOK
  <2>3. InOrder(buf[c], h, last[c], p) /\ Len(h) = Len(inbox[c]) - k
    BY StreamTypes, OrderCut DEF Sound, Ordered
  <2>4. k \in Nat
    OBVIOUS
  <2> HIDE DEF h
  <2>5. Total(taken[c], buf[c], h, dropped[c], missed[c] + k)
          = Total(taken[c], buf[c], inbox[c], dropped[c], missed[c])
    <3> DEFINE t == taken[c]  b == buf[c]  q == inbox[c]  d == dropped[c]
               m == missed[c]
    <3>1. t \in Nat /\ b \in Seq(Nat) /\ q \in Seq(Nat) /\ d \in Nat /\ m \in Nat
      BY StreamTypes
    <3>2. k \in Nat /\ Len(h) = Len(q) - k
      BY <2>3, <2>4
    <3>3. Total(t, b, h, d, m + k) = Total(t, b, q, d, m)
      <4> HIDE DEF t, b, q, d, m
      <4> QED
        BY <3>1, <3>2, TotalCut
    <3> QED
      BY <3>3
  <2> QED
    BY <1>1, <2>2, <2>3, <2>5 DEF Sound, Ordered, Located, Begun
<1>3. CASE Relay(c)
  <2>1. /\ inbox[c] # <<>> /\ relay[c] = "run" /\ inbox'[c] = Tail(inbox[c])
        /\ \/ /\ buf'[c] = Append(buf[c], Head(inbox[c]))
              /\ dropped'[c] = dropped[c]
           \/ buf'[c] = buf[c] /\ dropped'[c] = dropped[c] + 1
        /\ link'[c] = link[c] /\ relay'[c] = relay[c] /\ stream'[c] = stream[c]
        /\ last'[c] = last[c] /\ taken'[c] = taken[c] /\ missed'[c] = missed[c]
    BY <1>3 DEF Relay, TypeOK
  <2>2. /\ InOrder(Append(buf[c], Head(inbox[c])), Tail(inbox[c]), last[c], p)
        /\ InOrder(buf[c], Tail(inbox[c]), last[c], p)
    BY <2>1, StreamTypes, OrderRelayed DEF Sound, Ordered
  <2>3. /\ Total(taken[c], Append(buf[c], Head(inbox[c])), Tail(inbox[c]),
                 dropped[c], missed[c])
             = Total(taken[c], buf[c], inbox[c], dropped[c], missed[c])
        /\ Total(taken[c], buf[c], Tail(inbox[c]), dropped[c] + 1, missed[c])
             = Total(taken[c], buf[c], inbox[c], dropped[c], missed[c])
    <3> DEFINE t == taken[c]  b == buf[c]  q == inbox[c]  d == dropped[c]
               m == missed[c]
    <3>1. t \in Nat /\ b \in Seq(Nat) /\ q \in Seq(Nat) /\ d \in Nat /\ m \in Nat
      BY StreamTypes
    <3>2. q # <<>>
      BY <2>1
    <3>3. /\ Total(t, Append(b, Head(q)), Tail(q), d, m) = Total(t, b, q, d, m)
          /\ Total(t, b, Tail(q), d + 1, m) = Total(t, b, q, d, m)
      <4> HIDE DEF t, b, q, d, m
      <4> QED
        <5>1. /\ Len(Append(b, Head(q))) = Len(b) + 1 /\ Len(b) \in Nat
              /\ Len(Tail(q)) = Len(q) - 1 /\ Len(q) \in Nat
          BY <3>1, <3>2
        <5> DEFINE x == Append(b, Head(q))  y == Tail(q)
        <5>2. Len(x) = Len(b) + 1 /\ Len(y) = Len(q) - 1
          BY <5>1
        <5> HIDE DEF x, y
        <5>3. /\ Total(t, x, y, d, m) = Total(t, b, q, d, m)
              /\ Total(t, b, y, d + 1, m) = Total(t, b, q, d, m)
          BY <3>1, <5>1, <5>2 DEF Total
        <5> QED
          BY <5>3 DEF x, y
    <3> QED
      BY <3>3
  <2>4. Ordered(c)'
    BY <1>1, <2>1, <2>2 DEF Ordered
  <2>5. Located(c)'
    BY <1>1, <2>1, <2>3 DEF Sound, Located
  <2>6. Begun(c)'
    BY <1>1, <2>1 DEF Sound, Begun
  <2> QED
    BY <2>4, <2>5, <2>6 DEF Sound
<1>4. CASE Receive(c)
  <2>1. /\ buf[c] # <<>> /\ buf'[c] = Tail(buf[c]) /\ last'[c] = Head(buf[c])
        /\ taken'[c] = taken[c] + 1 /\ stream[c] = "loop"
        /\ stream'[c] \in {"loop", "leaving"}
        /\ inbox'[c] = inbox[c] /\ dropped'[c] = dropped[c]
        /\ link'[c] = link[c] /\ relay'[c] = relay[c] /\ missed'[c] = missed[c]
    BY <1>4 DEF Receive, TypeOK
  <2>2. InOrder(Tail(buf[c]), inbox[c], Head(buf[c]), p) /\ Head(buf[c]) <= p
    BY <2>1, StreamTypes, OrderShown DEF Sound, Ordered
  <2>3. Total(taken[c] + 1, Tail(buf[c]), inbox[c], dropped[c], missed[c])
          = Total(taken[c], buf[c], inbox[c], dropped[c], missed[c])
    BY <2>1, StreamTypes, TotalShown
  <2>4. Ordered(c)'
    BY <1>1, <2>1, <2>2 DEF Ordered
  <2>5. Located(c)'
    BY <1>1, <2>1, <2>3 DEF Sound, Located
  <2>6. Begun(c)'
    BY <1>1, <2>1, <2>2 DEF Sound, Begun
  <2> QED
    BY <2>4, <2>5, <2>6 DEF Sound
<1>5. CASE RelayEnds(c)
  <2>1. /\ relay[c] = "run" /\ c \in cancelled /\ relay'[c] = "ended"
        /\ link'[c] = "none" /\ inbox'[c] = <<>> /\ buf'[c] = buf[c]
        /\ stream'[c] = stream[c] /\ last'[c] = last[c]
    BY <1>5 DEF RelayEnds, TypeOK, histVars
  <2>2. stream[c] = "done"
    BY <2>1 DEF Sound, Begun
  <2>3. InOrder(buf[c], <<>>, last[c], p)
    BY OrderClosed DEF Sound, Ordered
  <2> QED
    BY <1>1, <2>1, <2>2, <2>3 DEF Sound, Ordered, Located, Begun
<1> QED
  BY <1>2, <1>3, <1>4, <1>5

\* The steps that move no event.
LEMMA PhaseSound ==
  ASSUME TypeOK, NEW c \in Streams, Sound(c),
         LinkBack(c) \/ RejectStream(c) \/ Subscribe(c) \/ Confirm(c)
           \/ SubscribeFails(c) \/ ContextDone(c) \/ Cancel(c)
  PROVE  Sound(c)'
<1> DEFINE p == published[target[c]]
<1>1. /\ inbox'[c] = inbox[c] /\ buf'[c] = buf[c] /\ target'[c] = target[c]
      /\ published' = published /\ taken'[c] = taken[c]
      /\ dropped'[c] = dropped[c] /\ missed'[c] = missed[c]
  BY DEF LinkBack, RejectStream, Subscribe, Confirm, SubscribeFails,
         ContextDone, Cancel, busVars, histVars
<1>2. CASE Subscribe(c)
  <2>1. /\ stream[c] = "idle" /\ stream'[c] = "subscribing"
        /\ link'[c] \in {"up", "down"} /\ since'[c] = p /\ last'[c] = p
        /\ relay'[c] = relay[c] /\ cancelled' = cancelled
    BY <1>2 DEF Subscribe, TypeOK
  <2>2. /\ buf[c] = <<>> /\ inbox[c] = <<>> /\ taken[c] = 0 /\ dropped[c] = 0
        /\ missed[c] = 0 /\ relay[c] = "none" /\ c \notin cancelled
    BY <2>1 DEF Sound, Begun
  <2>3. InOrder(<<>>, <<>>, p, p)
    BY DEF InOrder
  <2>4. p \in Nat /\ Total(0, <<>>, <<>>, 0, 0) = p - p
    BY StreamTypes DEF Total
  <2>5. Ordered(c)'
    BY <1>1, <2>1, <2>2, <2>3 DEF Ordered
  <2>6. Located(c)'
    BY <1>1, <2>1, <2>2, <2>4 DEF Located
  <2>7. Begun(c)'
    BY <1>1, <2>1, <2>2, <2>4 DEF Begun
  <2> QED
    BY <2>5, <2>6, <2>7 DEF Sound
<1>3. CASE ~Subscribe(c)
  <2>1. since'[c] = since[c] /\ last'[c] = last[c]
    BY <1>3 DEF LinkBack, RejectStream, Confirm, SubscribeFails, ContextDone,
          Cancel, histVars
  <2>2. stream'[c] \in {"subscribing", "loop", "leaving"} =>
          stream[c] \in {"subscribing", "loop", "leaving"}
    BY <1>3 DEF LinkBack, RejectStream, Confirm, SubscribeFails, ContextDone,
          Cancel, TypeOK
  <2>3. Begun(c)'
    <3>1. CASE LinkBack(c) \/ Confirm(c)
      BY <1>1, <2>1, <3>1 DEF LinkBack, Confirm, TypeOK, Sound, Begun
    <3>2. CASE RejectStream(c) \/ ContextDone(c)
      BY <1>1, <2>1, <3>2 DEF RejectStream, ContextDone, TypeOK, Sound, Begun,
            busVars
    <3>3. CASE SubscribeFails(c) \/ Cancel(c)
      BY <1>1, <2>1, <3>3 DEF SubscribeFails, Cancel, TypeOK, Sound, Begun
    <3> QED
      BY <1>3, <3>1, <3>2, <3>3
  <2> QED
    BY <1>1, <2>1, <2>2, <2>3 DEF Sound, Ordered, Located
<1> QED
  BY <1>2, <1>3

\* Every step keeps the invariant.
LEMMA StepInv == TypeOK /\ RedisInv /\ [Next]_vars => RedisInv'
<1> SUFFICES ASSUME TypeOK, RedisInv, [Next]_vars, NEW e \in Streams
             PROVE  Sound(e)'
  BY DEF RedisInv, QueuesInOrder, LossesLocated, NotBegun, Sound, Ordered,
         Located, Begun, Total
<1> USE DEF busVars, histVars
<1>0. \A c \in Streams : Sound(c)
  BY InvIsPerStream
<1>1. ASSUME NEW s \in Sessions, Publish(s) PROVE Sound(e)'
  BY <1>0, <1>1, PublishSound
<1>2. ASSUME NEW c \in Streams,
             LinkBreaks(c) \/ Relay(c) \/ Receive(c) \/ RelayEnds(c)
      PROVE  Sound(e)'
  <2>1. CASE c = e
    BY <1>0, <1>2, <2>1, MoveSound
  <2>2. CASE c # e
    <3>1. /\ published' = published /\ link'[e] = link[e]
          /\ inbox'[e] = inbox[e] /\ buf'[e] = buf[e] /\ relay'[e] = relay[e]
          /\ (e \in cancelled' <=> e \in cancelled) /\ stream'[e] = stream[e]
          /\ target'[e] = target[e] /\ since'[e] = since[e]
          /\ last'[e] = last[e] /\ taken'[e] = taken[e]
          /\ dropped'[e] = dropped[e] /\ missed'[e] = missed[e]
      BY <1>2, <2>2 DEF LinkBreaks, Relay, Receive, RelayEnds, TypeOK
    <3> QED
      BY <1>0, <3>1, UntouchedIsSound
  <2> QED
    BY <2>1, <2>2
<1>3. ASSUME NEW c \in Streams,
             LinkBack(c) \/ RejectStream(c) \/ Subscribe(c) \/ Confirm(c)
               \/ SubscribeFails(c) \/ ContextDone(c) \/ Cancel(c)
      PROVE  Sound(e)'
  <2>1. CASE c = e
    BY <1>0, <1>3, <2>1, PhaseSound
  <2>2. CASE c # e
    <3>1. /\ published' = published /\ link'[e] = link[e]
          /\ inbox'[e] = inbox[e] /\ buf'[e] = buf[e] /\ relay'[e] = relay[e]
          /\ (e \in cancelled' <=> e \in cancelled) /\ stream'[e] = stream[e]
          /\ target'[e] = target[e] /\ since'[e] = since[e]
          /\ last'[e] = last[e] /\ taken'[e] = taken[e]
          /\ dropped'[e] = dropped[e] /\ missed'[e] = missed[e]
      BY <1>3, <2>2 DEF LinkBack, RejectStream, Subscribe, Confirm,
            SubscribeFails, ContextDone, Cancel, TypeOK
    <3> QED
      BY <1>0, <3>1, UntouchedIsSound
  <2> QED
    BY <2>1, <2>2
<1>4. CASE UNCHANGED vars
  BY <1>0, <1>4, UntouchedIsSound DEF vars
<1> QED
  BY <1>1, <1>2, <1>3, <1>4 DEF Next

\* Nobody has begun.
LEMMA InitInv == Init => RedisInv
<1> SUFFICES ASSUME Init, NEW c \in Streams PROVE Sound(c)
  BY InvIsPerStream
<1>1. target[c] \in Sessions /\ published[target[c]] = 0 /\ last[c] = 0
  BY DEF Init
<1> QED
  BY <1>1 DEF Init, Sound, Ordered, Located, Begun, InOrder

\* The inductive invariant holds in every reachable state.
LEMMA RedisInvariant == Spec => [](TypeOK /\ RedisInv)
BY InitType, StepType, InitInv, StepInv, PTL DEF Spec

-----------------------------------------------------------------------------
(* What follows for a browser.                                             *)

\* Order survives drops, broken links and new links.
THEOREM RedisKeepsOrder == Spec => []QueuesInOrder
BY RedisInvariant, PTL DEF RedisInv

\* An event is lost in the three known places only.
THEOREM LossesAreLocated == Spec => []LossesLocated
BY RedisInvariant, PTL DEF RedisInv

-----------------------------------------------------------------------------
(* Refinement: the Redis bus implements SessionFeed.                       *)

\* The initial states of the bus are initial states of the feed.
LEMMA InitFeed == Init => Feed!Init
BY DEF Init, Feed!Init, Joined

\* Every step of the bus is a step of the feed, or leaves the feed alone.
LEMMA StepFeed == TypeOK /\ RedisInv /\ [Next]_vars => [Feed!Next]_Feed!vars
<1> SUFFICES ASSUME TypeOK, RedisInv, [Next]_vars
             PROVE  [Feed!Next]_Feed!vars
  OBVIOUS
<1> USE DEF busVars, histVars
<1> DEFINE J == [c \in Streams |-> Joined(c)]
<1>1. ASSUME NEW s \in Sessions, Publish(s) PROVE Feed!Publish(s)
  BY <1>1 DEF Publish, Feed!Publish, TypeOK, Joined
<1>2. ASSUME NEW c \in Streams, RejectStream(c) \/ Cancel(c)
      PROVE  Feed!Leave(c)
  <2>1. J[c] # "gone" /\ J' = [J EXCEPT ![c] = "gone"]
    BY <1>2 DEF RejectStream, Cancel, Joined, TypeOK
  <2> QED
    BY <1>2, <2>1 DEF RejectStream, Cancel, Feed!Leave
<1>3. ASSUME NEW c \in Streams, Subscribe(c) PROVE Feed!Join(c)
  <2>1. J[c] = "out" /\ J' = [J EXCEPT ![c] = "in"]
    BY <1>3 DEF Subscribe, Joined, TypeOK
  <2> QED
    BY <1>3, <2>1 DEF Subscribe, Feed!Join
<1>4. ASSUME NEW c \in Streams, Receive(c)
      PROVE  \E n \in 1 .. published[target[c]] : Feed!Show(c, n)
  <2> DEFINE n == Head(buf[c])
  <2>1. J[c] = "in" /\ J' = J
    BY <1>4 DEF Receive, Joined, TypeOK
  <2>2. n \in Nat /\ last[c] < n /\ n <= published[target[c]]
    BY <1>4, StreamTypes, OrderShown DEF Receive, RedisInv, QueuesInOrder
  <2>3. n \in 1 .. published[target[c]] /\ n > last[c]
    BY <2>2, StreamTypes
  <2>4. Feed!Show(c, n)
    BY <1>4, <2>1, <2>2, <2>3 DEF Receive, Feed!Show
  <2> QED
    BY <2>3, <2>4
<1>5. ASSUME NEW c \in Streams,
             LinkBreaks(c) \/ LinkBack(c) \/ Confirm(c) \/ SubscribeFails(c)
               \/ Relay(c) \/ RelayEnds(c) \/ ContextDone(c)
      PROVE  UNCHANGED Feed!vars
  <2>1. J' = J
    BY <1>5 DEF LinkBreaks, LinkBack, Confirm, SubscribeFails, Relay, RelayEnds,
          ContextDone, Joined, TypeOK
  <2> QED
    BY <1>5, <2>1 DEF LinkBreaks, LinkBack, Confirm, SubscribeFails, Relay,
          RelayEnds, ContextDone, Feed!vars
<1>6. CASE UNCHANGED vars
  BY <1>6 DEF vars, Feed!vars, Joined
<1> QED
  BY <1>1, <1>2, <1>3, <1>4, <1>5, <1>6 DEF Next, Feed!Next

\* The Redis bus gives a browser the feed the in-memory bus gives it.
THEOREM RedisBusImplementsFeed == Spec => ImplementsFeed
BY RedisInvariant, InitFeed, StepFeed, PTL DEF Spec, ImplementsFeed, Feed!Spec
=============================================================================
