---------------------------- MODULE SseBusProofs ----------------------------
(***************************************************************************)
(* Proofs about SseBus, for any sets of sessions and streams, any buffer   *)
(* capacity and any number of events.                                      *)
(***************************************************************************)
EXTENDS SseBus, FiniteSetTheorems, TLAPS

-----------------------------------------------------------------------------
(* Type correctness.                                                       *)

\* The number of full channels of a session is a number.
LEMMA FullIsFinite ==
  ASSUME TypeOK, NEW s \in Sessions
  PROVE  Cardinality(Full(s)) \in Nat
<1>1. Full(s) \subseteq Streams
  BY DEF Full, TypeOK
<1>2. IsFiniteSet(Full(s))
  BY <1>1, BusAssumption, FS_Subset
<1> QED
  BY <1>2, FS_CardinalityType

\* The bus and the streams start well typed.
LEMMA InitType == Init => TypeOK
BY DEF Init, TypeOK, ChanStates, StreamStates

\* Every step keeps the types.
LEMMA NextType == TypeOK /\ [Next]_vars => TypeOK'
<1> SUFFICES ASSUME TypeOK, [Next]_vars PROVE TypeOK'
  OBVIOUS
<1> USE DEF busVars, streamVars, histVars
<1>1. ASSUME NEW s \in Sessions, Publish(s) PROVE TypeOK'
  <2>1. published[s] + 1 \in Nat
    BY DEF TypeOK
  <2>2. buf' \in [Streams -> Seq(Nat)]
    BY <1>1, <2>1 DEF Publish, TypeOK
  <2>3. totalDrops' \in Nat
    BY <1>1, FullIsFinite DEF Publish, TypeOK
  <2>4. dropped' \in [Streams -> Nat] /\ published' \in [Sessions -> Nat]
    BY <1>1, <2>1 DEF Publish, TypeOK
  <2> QED
    BY <1>1, <2>2, <2>3, <2>4 DEF Publish, TypeOK
<1>2. ASSUME NEW c \in Streams, RejectStream(c) \/ Write(c) \/ ContextDone(c)
      PROVE  TypeOK'
  <2>1. stream' \in [Streams -> StreamStates]
    <3>1. \E x \in StreamStates : stream' = [stream EXCEPT ![c] = x]
      BY <1>2 DEF RejectStream, Write, ContextDone, StreamStates
    <3> QED
      BY <3>1 DEF TypeOK
  <2> QED
    BY <1>2, <2>1 DEF RejectStream, Write, ContextDone, TypeOK
<1>3. ASSUME NEW c \in Streams, Subscribe(c) PROVE TypeOK'
  <2>1. target[c] \in Sessions /\ published[target[c]] \in Nat
    BY DEF TypeOK
  <2>2. stream' \in [Streams -> StreamStates] /\ chan' \in [Streams -> ChanStates]
    BY <1>3 DEF Subscribe, TypeOK, StreamStates, ChanStates
  <2>3. subs' \in [Sessions -> SUBSET Streams]
    BY <1>3, <2>1 DEF Subscribe, TypeOK
  <2>4. since' \in [Streams -> Nat] /\ last' \in [Streams -> Nat]
    BY <1>3, <2>1 DEF Subscribe, TypeOK
  <2> QED
    BY <1>3, <2>2, <2>3, <2>4 DEF Subscribe, TypeOK
<1>4. ASSUME NEW c \in Streams, Receive(c) PROVE TypeOK'
  <2>1. Head(buf[c]) \in Nat /\ Tail(buf[c]) \in Seq(Nat)
    BY <1>4 DEF Receive, TypeOK
  <2>2. buf' \in [Streams -> Seq(Nat)] /\ last' \in [Streams -> Nat]
    BY <1>4, <2>1 DEF Receive, TypeOK
  <2>3. stream' \in [Streams -> StreamStates]
    BY <1>4 DEF Receive, TypeOK, StreamStates
  <2>4. taken' \in [Streams -> Nat]
    BY <1>4 DEF Receive, TypeOK
  <2> QED
    BY <1>4, <2>2, <2>3, <2>4 DEF Receive, TypeOK
<1>5. ASSUME NEW c \in Streams, Cancel(c) PROVE TypeOK'
  <2>1. stream' \in [Streams -> StreamStates] /\ chan' \in [Streams -> ChanStates]
    BY <1>5 DEF Cancel, TypeOK, StreamStates, ChanStates
  <2>2. subs' \in [Sessions -> SUBSET Streams]
    BY <1>5 DEF Cancel, TypeOK
  <2> QED
    BY <1>5, <2>1, <2>2 DEF Cancel, TypeOK
<1>6. CASE UNCHANGED vars
  BY <1>6 DEF vars, TypeOK
<1> QED
  BY <1>1, <1>2, <1>3, <1>4, <1>5, <1>6 DEF Next

\* Type correctness of the bus and its streams.
THEOREM TypeCorrect == Spec => []TypeOK
BY InitType, NextType, PTL DEF Spec

-----------------------------------------------------------------------------
(* The invariants, stream by stream.                                       *)

Accounted(c) ==
  chan[c] = "open" =>
    taken[c] + Len(buf[c]) + dropped[c] = published[target[c]] - since[c]

Ordered(c) ==
  /\ Len(buf[c]) <= BufCap
  /\ \A i \in 1 .. Len(buf[c]) :
       /\ buf[c][i] > last[c]
       /\ buf[c][i] <= published[target[c]]
       /\ \A j \in 1 .. Len(buf[c]) : i < j => buf[c][i] < buf[c][j]

Alive(c) ==
  /\ chan[c] = "open" <=> stream[c] \in {"loop", "writing", "leaving"}
  /\ stream[c] = "idle" => chan[c] = "nil"
  /\ chan[c] = "nil" => buf[c] = <<>> /\ taken[c] = 0 /\ dropped[c] = 0
  /\ last[c] <= published[target[c]]

Listed(c) == \A s \in Sessions : c \in subs[s] <=> chan[c] = "open" /\ target[c] = s

Sound(c) == Listed(c) /\ Accounted(c) /\ Ordered(c) /\ Alive(c)

\* The invariant speaks of each stream by itself.
LEMMA BusInvIsPerStream == BusInv <=> \A c \in Streams : Sound(c)
BY DEF BusInv, ListedIffOpen, EveryEventAccounted, BufferInOrder, Lifetimes,
       Sound, Listed, Accounted, Ordered, Alive

\* What a stream's part of the invariant reads.
StreamView(c) == <<chan[c], buf[c], stream[c], target[c], since[c], last[c],
                   taken[c], dropped[c]>>

\* A stream that a step does not touch stays sound while others come and go.
LEMMA UntouchedIsSound ==
  ASSUME NEW c \in Streams, TypeOK, Sound(c),
         StreamView(c)' = StreamView(c), UNCHANGED published,
         \A s \in Sessions : c \in subs'[s] <=> c \in subs[s]
  PROVE  Sound(c)'
BY DEF StreamView, Sound, Listed, Accounted, Ordered, Alive

\* One more event published is one more event waiting, or one more dropped.
LEMMA OneMore ==
  ASSUME NEW a \in Nat, NEW b \in Nat, NEW d \in Nat, NEW p \in Nat,
         NEW q \in Nat, a + b + d = p - q
  PROVE  a + (b + 1) + d = (p + 1) - q /\ a + b + (d + 1) = (p + 1) - q
OBVIOUS

\* What Append does to a buffer.
LEMMA AppendAdds ==
  ASSUME NEW b \in Seq(Nat), NEW n \in Nat
  PROVE  /\ Len(Append(b, n)) = Len(b) + 1
         /\ Append(b, n)[Len(b) + 1] = n
         /\ \A i \in 1 .. Len(b) : Append(b, n)[i] = b[i] /\ b[i] \in Nat
OBVIOUS

\* Publishing keeps every stream sound: a listed channel takes the event at
\* its end or counts it as dropped, the others are left alone.
LEMMA PublishSound ==
  ASSUME TypeOK, BusInv, NEW s \in Sessions, Publish(s), NEW c \in Streams
  PROVE  Sound(c)'
<1>0. Sound(c)
  BY BusInvIsPerStream
<1>1. /\ chan'[c] = chan[c] /\ stream'[c] = stream[c] /\ target'[c] = target[c]
      /\ since'[c] = since[c] /\ last'[c] = last[c] /\ taken'[c] = taken[c]
      /\ UNCHANGED subs
  BY DEF Publish
<1>2. /\ target[c] \in Sessions /\ published[s] \in Nat
      /\ published[target[c]] \in Nat /\ last[c] \in Nat /\ since[c] \in Nat
      /\ taken[c] \in Nat /\ dropped[c] \in Nat /\ buf[c] \in Seq(Nat)
      /\ Len(buf[c]) \in Nat /\ BufCap \in Nat
  BY BusAssumption DEF TypeOK
<1>n. /\ taken[c] \in Nat /\ Len(buf[c]) \in Nat /\ dropped[c] \in Nat
      /\ published[s] \in Nat /\ since[c] \in Nat
  BY <1>2
<1>b. buf[c] \in Seq(Nat) /\ published[s] + 1 \in Nat
  BY <1>2
<1>3. published'[target[c]] = IF target[c] = s THEN published[s] + 1
                                               ELSE published[target[c]]
  BY <1>2 DEF Publish, TypeOK
<1>4. c \in subs[s] <=> chan[c] = "open" /\ target[c] = s
  BY <1>0 DEF Sound, Listed
<1>5. Listed(c)'
  BY <1>0, <1>1 DEF Sound, Listed
<1>6. ASSUME c \in subs[s], Len(buf[c]) < BufCap
      PROVE  Sound(c)'
  <2>1. buf'[c] = Append(buf[c], published[s] + 1) /\ dropped'[c] = dropped[c]
    BY <1>6, <1>2 DEF Publish, Full, TypeOK
  <2>2. /\ Len(buf'[c]) = Len(buf[c]) + 1
        /\ buf'[c][Len(buf[c]) + 1] = published[s] + 1
        /\ \A i \in 1 .. Len(buf[c]) : buf'[c][i] = buf[c][i] /\ buf[c][i] \in Nat
    BY <2>1, <1>n, <1>b, AppendAdds
  <2>3. Accounted(c)'
    <3>1. chan[c] = "open" /\ target[c] = s
      BY <1>4, <1>6
    <3>2. taken[c] + Len(buf[c]) + dropped[c] = published[s] - since[c]
      BY <3>1, <1>0 DEF Sound, Accounted
    <3>3. taken[c] + (Len(buf[c]) + 1) + dropped[c]
            = (published[s] + 1) - since[c]
      <4> DEFINE a == taken[c]
                 b == Len(buf[c])
                 d == dropped[c]
                 m == published[s]
                 q == since[c]
      <4>1. a \in Nat /\ b \in Nat /\ d \in Nat /\ m \in Nat /\ q \in Nat
            /\ a + b + d = m - q
        BY <3>2, <1>n
      <4>2. a + (b + 1) + d = (m + 1) - q
        <5> HIDE DEF a, b, d, m, q
        <5> QED
          BY <4>1, OneMore
      <4> QED
        BY <4>2
    <3>4. published'[target'[c]] = published[s] + 1
      BY <3>1, <1>1, <1>3
    <3> QED
      BY <3>3, <3>4, <1>1, <2>1, <2>2 DEF Accounted
  <2>4. Ordered(c)'
    <3>1. Len(buf'[c]) <= BufCap
      BY <1>2, <1>6, <2>2
    <3>2. target[c] = s /\ last[c] <= published[s]
      BY <1>0, <1>4, <1>6 DEF Sound, Alive
    <3>3. ASSUME NEW i \in 1 .. Len(buf'[c])
          PROVE  buf'[c][i] > last'[c] /\ buf'[c][i] <= published'[target'[c]]
      <4>1. CASE i = Len(buf[c]) + 1
        BY <4>1, <1>1, <1>2, <1>3, <2>2, <3>2
      <4>2. CASE i \in 1 .. Len(buf[c])
        <5>1. buf[c][i] > last[c] /\ buf[c][i] <= published[s]
          BY <4>2, <1>0, <3>2 DEF Sound, Ordered
        <5>2. buf[c][i] <= published[s] + 1 /\ published'[target'[c]] = published[s] + 1
          <6>1. buf[c][i] \in Nat
            BY <4>2, <2>2
          <6>2. published'[target'[c]] = published[s] + 1
            BY <1>1, <1>3, <3>2
          <6> QED
            BY <5>1, <6>1, <6>2, <1>2
        <5> QED
          BY <4>2, <5>1, <5>2, <1>1, <2>2
      <4> QED
        BY <4>1, <4>2, <2>2, <1>2
    <3>4. ASSUME NEW i \in 1 .. Len(buf'[c]), NEW j \in 1 .. Len(buf'[c]), i < j
          PROVE  buf'[c][i] < buf'[c][j]
      <4>0. i \in 1 .. Len(buf[c])
        BY <3>4, <2>2, <1>2
      <4>1. CASE j = Len(buf[c]) + 1
        <5>1. buf[c][i] <= published[s]
          BY <4>0, <1>0, <3>2 DEF Sound, Ordered
        <5> QED
          BY <4>0, <4>1, <5>1, <1>2, <2>2
      <4>2. CASE j \in 1 .. Len(buf[c])
        BY <4>0, <4>2, <3>4, <1>0, <2>2 DEF Sound, Ordered
      <4> QED
        BY <4>1, <4>2, <2>2, <1>2
    <3> QED
      BY <3>1, <3>3, <3>4 DEF Ordered
  <2>5. Alive(c)'
    BY <1>0, <1>1, <1>2, <1>3, <1>4, <1>6 DEF Sound, Alive
  <2> QED
    BY <1>5, <2>3, <2>4, <2>5 DEF Sound
<1>7. ASSUME ~(c \in subs[s] /\ Len(buf[c]) < BufCap)
      PROVE  Sound(c)'
  <2>1. /\ buf'[c] = buf[c]
        /\ dropped'[c] = IF c \in subs[s] THEN dropped[c] + 1 ELSE dropped[c]
    BY <1>7, <1>2 DEF Publish, Full, TypeOK
  <2>2. Accounted(c)'
    <3>1. CASE c \in subs[s]
      <4>1. chan[c] = "open" /\ target[c] = s
        BY <1>4, <3>1
      <4>2. taken[c] + Len(buf[c]) + dropped[c] = published[s] - since[c]
        BY <4>1, <1>0 DEF Sound, Accounted
      <4>3. taken[c] + Len(buf[c]) + (dropped[c] + 1)
              = (published[s] + 1) - since[c]
        <5> DEFINE a == taken[c]
                   b == Len(buf[c])
                   d == dropped[c]
                   m == published[s]
                   q == since[c]
        <5>1. a \in Nat /\ b \in Nat /\ d \in Nat /\ m \in Nat /\ q \in Nat
              /\ a + b + d = m - q
          BY <4>2, <1>n
        <5>2. a + b + (d + 1) = (m + 1) - q
          <6> HIDE DEF a, b, d, m, q
          <6> QED
            BY <5>1, OneMore
        <5> QED
          BY <5>2
      <4>4. published'[target'[c]] = published[s] + 1
        BY <4>1, <1>1, <1>3
      <4> QED
        BY <3>1, <4>3, <4>4, <1>1, <2>1 DEF Accounted
    <3>2. CASE c \notin subs[s]
      <4>1. chan[c] = "open" => target[c] # s
        BY <1>4, <3>2
      <4> QED
        BY <3>2, <4>1, <1>0, <1>1, <1>3, <2>1 DEF Sound, Accounted
    <3> QED
      BY <3>1, <3>2
  <2>3. published[target[c]] <= published'[target[c]]
    BY <1>2, <1>3
  <2>4. Ordered(c)'
    <3>1. ASSUME NEW i \in 1 .. Len(buf[c])
          PROVE  buf[c][i] \in Nat /\ buf[c][i] <= published'[target[c]]
      <4>1. buf[c][i] \in Nat /\ buf[c][i] <= published[target[c]]
        BY <1>0, <1>2 DEF Sound, Ordered
      <4> QED
        BY <4>1, <1>2, <1>3
    <3> QED
      BY <3>1, <1>0, <1>1, <2>1 DEF Sound, Ordered
  <2>5. Alive(c)'
    BY <1>0, <1>1, <1>2, <1>3, <1>4, <2>1 DEF Sound, Alive
  <2> QED
    BY <1>5, <2>2, <2>4, <2>5 DEF Sound
<1> QED
  BY <1>6, <1>7

\* Taking the oldest event keeps the stream sound: what is left in the
\* channel is newer than what was taken.
LEMMA ReceiveSound ==
  ASSUME TypeOK, BusInv, NEW c \in Streams, Receive(c)
  PROVE  Sound(c)'
<1>0. Sound(c)
  BY BusInvIsPerStream
<1>1. /\ chan'[c] = chan[c] /\ target'[c] = target[c] /\ since'[c] = since[c]
      /\ dropped'[c] = dropped[c] /\ UNCHANGED <<subs, published>>
  BY DEF Receive
<1>2. /\ last[c] \in Nat /\ since[c] \in Nat /\ taken[c] \in Nat
      /\ dropped[c] \in Nat /\ buf[c] \in Seq(Nat) /\ buf[c] # <<>>
      /\ published[target[c]] \in Nat /\ BufCap \in Nat
  BY BusAssumption DEF TypeOK, Receive
<1>3. /\ buf'[c] = Tail(buf[c]) /\ last'[c] = Head(buf[c])
      /\ taken'[c] = taken[c] + 1
      /\ stream[c] = "loop" /\ stream'[c] = "writing"
  BY DEF Receive, TypeOK
<1>4. /\ Len(buf[c]) \in Nat /\ Len(buf[c]) >= 1
      /\ Head(buf[c]) = buf[c][1]
      /\ Len(Tail(buf[c])) = Len(buf[c]) - 1
      /\ \A i \in 1 .. Len(buf[c]) - 1 : Tail(buf[c])[i] = buf[c][i + 1]
  BY <1>2
<1>n. \A i \in 1 .. Len(buf[c]) : buf[c][i] \in Nat
  BY <1>2
<1>5. Listed(c)'
  BY <1>0, <1>1 DEF Sound, Listed
<1>6. Accounted(c)'
  <2>1. chan[c] = "open"
    BY <1>0, <1>3 DEF Sound, Alive
  <2>2. taken[c] + Len(buf[c]) + dropped[c] = published[target[c]] - since[c]
    BY <2>1, <1>0 DEF Sound, Accounted
  <2>3. (taken[c] + 1) + (Len(buf[c]) - 1) + dropped[c]
          = published[target[c]] - since[c]
    BY <2>2, <1>2, <1>4
  <2> QED
    BY <2>3, <1>1, <1>3, <1>4 DEF Accounted
<1>7. Ordered(c)'
  <2>1. Len(buf'[c]) <= BufCap
    <3>1. Len(buf[c]) <= BufCap
      BY <1>0 DEF Sound, Ordered
    <3> QED
      BY <3>1, <1>2, <1>3, <1>4
  <2>2. ASSUME NEW i \in 1 .. Len(buf'[c])
        PROVE  /\ i \in Nat /\ 1 < i + 1
               /\ 1 \in 1 .. Len(buf[c]) /\ i + 1 \in 1 .. Len(buf[c])
               /\ buf'[c][i] = buf[c][i + 1]
    BY <1>3, <1>4, <2>2
  <2>3. ASSUME NEW i \in 1 .. Len(buf'[c])
        PROVE  buf'[c][i] > last'[c] /\ buf'[c][i] <= published'[target'[c]]
    <3>1. buf[c][1] < buf[c][i + 1] /\ buf[c][i + 1] <= published[target[c]]
      BY <2>2, <1>0 DEF Sound, Ordered
    <3>2. buf[c][1] \in Nat /\ buf[c][i + 1] \in Nat
      BY <2>2, <1>n
    <3> QED
      BY <3>1, <3>2, <2>2, <1>1, <1>3, <1>4
  <2>4. ASSUME NEW i \in 1 .. Len(buf'[c]), NEW j \in 1 .. Len(buf'[c]), i < j
        PROVE  buf'[c][i] < buf'[c][j]
    <3>1. i + 1 < j + 1
      BY <2>2, <2>4
    <3>2. buf[c][i + 1] < buf[c][j + 1]
      BY <3>1, <2>2, <1>0 DEF Sound, Ordered
    <3> QED
      BY <3>2, <2>2
  <2> QED
    BY <2>1, <2>3, <2>4 DEF Ordered
<1>8. Alive(c)'
  <2>1. chan[c] = "open"
    BY <1>0, <1>3 DEF Sound, Alive
  <2>2. Head(buf[c]) <= published[target[c]]
    BY <1>0, <1>4 DEF Sound, Ordered
  <2> QED
    BY <2>1, <2>2, <1>1, <1>3 DEF Alive
<1> QED
  BY <1>5, <1>6, <1>7, <1>8 DEF Sound

\* Joining and leaving keep the stream's channel on its session's list
\* exactly while the channel is open.
LEMMA JoinLeaveSound ==
  ASSUME TypeOK, BusInv, NEW c \in Streams,
         RejectStream(c) \/ Subscribe(c) \/ Write(c) \/ ContextDone(c) \/ Cancel(c)
  PROVE  Sound(c)'
<1> USE DEF busVars, histVars
<1>0. Sound(c)
  BY BusInvIsPerStream
<1>1. /\ buf'[c] = buf[c] /\ target'[c] = target[c] /\ taken'[c] = taken[c]
      /\ dropped'[c] = dropped[c] /\ UNCHANGED published
      /\ target[c] \in Sessions /\ published[target[c]] \in Nat
      /\ last[c] \in Nat
  BY DEF RejectStream, Subscribe, Write, ContextDone, Cancel, TypeOK
<1>2. CASE RejectStream(c) \/ Write(c) \/ ContextDone(c)
  <2>1. /\ chan'[c] = chan[c] /\ UNCHANGED subs
        /\ since'[c] = since[c] /\ last'[c] = last[c]
        /\ \/ stream[c] = "idle" /\ stream'[c] = "done"
           \/ stream[c] = "writing" /\ stream'[c] \in {"loop", "leaving"}
           \/ stream[c] = "loop" /\ stream'[c] = "leaving"
    BY <1>2 DEF RejectStream, Write, ContextDone, TypeOK
  <2> QED
    BY <1>0, <1>1, <2>1 DEF Sound, Listed, Accounted, Ordered, Alive
<1>3. CASE Subscribe(c)
  <2>1. /\ chan'[c] = "open" /\ stream[c] = "idle" /\ stream'[c] = "loop"
        /\ since'[c] = published[target[c]] /\ last'[c] = published[target[c]]
    BY <1>3 DEF Subscribe, TypeOK
  <2>2. buf[c] = <<>> /\ taken[c] = 0 /\ dropped[c] = 0 /\ chan[c] = "nil"
    BY <1>0, <2>1 DEF Sound, Alive
  <2>3. Listed(c)'
    <3>1. \A s \in Sessions : c \notin subs[s]
      BY <1>0, <2>2 DEF Sound, Listed
    <3> QED
      BY <3>1, <1>1, <1>3, <2>1 DEF Subscribe, Listed, TypeOK
  <2>4. Len(buf[c]) = 0
    BY <2>2
  <2>5. Accounted(c)'
    BY <1>1, <2>1, <2>2, <2>4 DEF Accounted
  <2>6. Ordered(c)' /\ Alive(c)'
    BY BusAssumption, <1>1, <2>1, <2>4 DEF Ordered, Alive
  <2> QED
    BY <2>3, <2>5, <2>6 DEF Sound
<1>4. CASE Cancel(c)
  <2>1. /\ chan'[c] = "closed" /\ stream'[c] = "done" /\ last'[c] = last[c]
    BY <1>4 DEF Cancel, TypeOK
  <2>2. Listed(c)'
    BY <1>0, <1>1, <1>4, <2>1 DEF Cancel, Sound, Listed, TypeOK
  <2> QED
    BY <1>0, <1>1, <2>1, <2>2 DEF Sound, Accounted, Ordered, Alive
<1> QED
  BY <1>2, <1>3, <1>4

\* Every step keeps the invariant.
LEMMA NextBusInv == TypeOK /\ BusInv /\ [Next]_vars => BusInv'
<1> SUFFICES ASSUME TypeOK, BusInv, [Next]_vars PROVE BusInv'
  OBVIOUS
<1>0. (\A c \in Streams : Sound(c)') => BusInv'
  BY DEF BusInv, ListedIffOpen, EveryEventAccounted, BufferInOrder, Lifetimes,
         Sound, Listed, Accounted, Ordered, Alive
<1> USE DEF busVars, streamVars, histVars
<1>1. ASSUME NEW s \in Sessions, Publish(s) PROVE BusInv'
  BY <1>0, <1>1, PublishSound
<1>2. ASSUME NEW c \in Streams, NEW d \in Streams, d # c,
             \/ RejectStream(c) \/ Subscribe(c) \/ Receive(c)
             \/ Write(c) \/ ContextDone(c) \/ Cancel(c)
      PROVE  Sound(d)'
  <2>1. StreamView(d)' = StreamView(d) /\ UNCHANGED published
    <3>1. chan'[d] = chan[d] /\ stream'[d] = stream[d]
      BY <1>2 DEF RejectStream, Subscribe, Receive, Write, ContextDone, Cancel, TypeOK
    <3>2. buf'[d] = buf[d] /\ taken'[d] = taken[d]
      BY <1>2 DEF RejectStream, Subscribe, Receive, Write, ContextDone, Cancel, TypeOK
    <3>3. since'[d] = since[d] /\ last'[d] = last[d]
      BY <1>2 DEF RejectStream, Subscribe, Receive, Write, ContextDone, Cancel, TypeOK
    <3>4. UNCHANGED <<target, dropped, published>>
      BY <1>2 DEF RejectStream, Subscribe, Receive, Write, ContextDone, Cancel
    <3> QED
      BY <3>1, <3>2, <3>3, <3>4 DEF StreamView
  <2>2. ASSUME NEW s \in Sessions PROVE d \in subs'[s] <=> d \in subs[s]
    <3>1. CASE Subscribe(c)
      BY <1>2, <3>1 DEF Subscribe, TypeOK
    <3>2. CASE Cancel(c)
      BY <1>2, <3>2 DEF Cancel, TypeOK
    <3>3. CASE RejectStream(c) \/ Receive(c) \/ Write(c) \/ ContextDone(c)
      BY <3>3 DEF RejectStream, Receive, Write, ContextDone
    <3> QED
      BY <1>2, <3>1, <3>2, <3>3
  <2> QED
    BY <2>1, <2>2, UntouchedIsSound, BusInvIsPerStream
<1>3. ASSUME NEW c \in Streams,
             \/ RejectStream(c) \/ Subscribe(c) \/ Receive(c)
             \/ Write(c) \/ ContextDone(c) \/ Cancel(c)
      PROVE  BusInv'
  <2>1. Sound(c)'
    BY <1>3, ReceiveSound, JoinLeaveSound
  <2>2. \A d \in Streams : Sound(d)'
    BY <1>2, <1>3, <2>1
  <2> QED
    BY <1>0, <2>2
<1>4. CASE UNCHANGED vars
  BY <1>4 DEF vars, BusInv, ListedIffOpen, EveryEventAccounted,
     BufferInOrder, Lifetimes
<1> QED
  BY <1>1, <1>3, <1>4 DEF Next

\* The invariant holds at the start.
LEMMA InitBusInv == Init => BusInv
<1> SUFFICES ASSUME Init PROVE BusInv
  OBVIOUS
<1>1. \A c \in Streams : Len(buf[c]) = 0
  BY DEF Init
<1>2. BufferInOrder
  BY <1>1, BusAssumption DEF BufferInOrder
<1>3. ListedIffOpen /\ EveryEventAccounted
  BY DEF Init, ListedIffOpen, EveryEventAccounted
<1>4. Lifetimes
  BY DEF Init, Lifetimes
<1> QED
  BY <1>2, <1>3, <1>4 DEF BusInv

\* The inductive invariant of the bus.
LEMMA BusInvariant == Spec => [](TypeOK /\ BusInv)
BY InitType, NextType, InitBusInv, NextBusInv, PTL DEF Spec

\* No send ever meets a closed channel, so Publish never panics, and every
\* open channel gets the events of its own session and of no other.
THEOREM NoSendOnClosed == Spec => []ListedIffOpen
BY BusInvariant, PTL DEF BusInv

\* Every event published while a stream is open was taken, is waiting or was
\* counted as dropped, for that stream.
THEOREM NothingLostSilently == Spec => []EveryEventAccounted
BY BusInvariant, PTL DEF BusInv

\* Channels are bounded and keep the order of publication.
THEOREM ChannelsKeepOrder == Spec => []BufferInOrder
BY BusInvariant, PTL DEF BusInv

-----------------------------------------------------------------------------
(* What totalDrops counts.                                                 *)

\* A refused event is a channel and a number up to its drops.
LEMMA RefusedIs ==
  ASSUME TypeOK
  PROVE  \A p : p \in Refused <=> \E c \in Streams : \E n \in 1 .. dropped[c] : p = <<c, n>>
BY DEF Refused

\* A publish adds one refused event for every full channel of its session.
LEMMA PublishRefuses ==
  ASSUME TypeOK, NEW s \in Sessions, Publish(s),
         IsFiniteSet(Refused), totalDrops = Cardinality(Refused)
  PROVE  IsFiniteSet(Refused') /\ totalDrops' = Cardinality(Refused')
<1> DEFINE F == Full(s)
           New == {<<c, dropped[c] + 1>> : c \in F}
           Old == Refused
           add == [c \in F |-> <<c, dropped[c] + 1>>]
<1>1. F \subseteq Streams /\ IsFiniteSet(F) /\ Cardinality(F) \in Nat
  <2>1. Full(s) \subseteq Streams
    BY DEF Full, TypeOK
  <2>2. IsFiniteSet(Full(s))
    BY <2>1, BusAssumption, FS_Subset
  <2> QED
    BY <2>1, <2>2, FullIsFinite
<1>2. dropped' = [c \in Streams |-> IF c \in F THEN dropped[c] + 1 ELSE dropped[c]]
      /\ totalDrops' = totalDrops + Cardinality(F)
  BY DEF Publish
<1> HIDE DEF F
<1>3. IsFiniteSet(New) /\ Cardinality(New) = Cardinality(F)
  <2>1. add \in Bijection(F, New)
    BY DEF Bijection, Injection, Surjection, IsInjective
  <2>2. ExistsBijection(F, New)
    BY <2>1 DEF ExistsBijection
  <2> QED
    BY <1>1, <2>2, FS_Bijection
<1>4. New \cap Old = {}
  <2> SUFFICES ASSUME NEW p, p \in New, p \in Old PROVE FALSE
    OBVIOUS
  <2>1. PICK c \in F : p = <<c, dropped[c] + 1>>
    OBVIOUS
  <2>2. PICK d \in Streams, n \in Nat : n \in 1 .. dropped[d] /\ p = <<d, n>>
    BY RefusedIs
  <2>3. d = c /\ n = dropped[c] + 1
    BY <2>1, <2>2
  <2> QED
    BY <1>1, <2>2, <2>3 DEF TypeOK
<1>5. TypeOK'
  BY NextType DEF Next
<1>6. Refused' = Old \cup New
  <2>1. \A p : p \in Refused' <=> \E c \in Streams : \E n \in 1 .. dropped'[c] : p = <<c, n>>
    BY DEF Refused
  <2>2. ASSUME NEW p, p \in Refused' PROVE p \in Old \cup New
    <3>1. PICK c \in Streams, n \in Nat : n \in 1 .. dropped'[c] /\ p = <<c, n>>
      BY <2>1, <2>2
    <3>2. CASE n \in 1 .. dropped[c]
      BY <3>1, <3>2, RefusedIs
    <3>3. CASE n \notin 1 .. dropped[c]
      <4>1. c \in F /\ n = dropped[c] + 1
        BY <1>2, <3>1, <3>3 DEF TypeOK
      <4> QED
        BY <3>1, <4>1
    <3> QED
      BY <3>2, <3>3
  <2>3. ASSUME NEW p, p \in Old PROVE p \in Refused'
    <3>1. PICK c \in Streams, n \in Nat : n \in 1 .. dropped[c] /\ p = <<c, n>>
      BY <2>3, RefusedIs
    <3>2. n \in 1 .. dropped'[c]
      BY <1>2, <3>1 DEF TypeOK
    <3> QED
      BY <2>1, <3>1, <3>2
  <2>4. ASSUME NEW p, p \in New PROVE p \in Refused'
    <3>1. PICK c \in F : p = <<c, dropped[c] + 1>>
      BY <2>4
    <3>2. c \in Streams /\ dropped[c] + 1 \in 1 .. dropped'[c]
      BY <1>1, <1>2, <3>1 DEF TypeOK
    <3> QED
      BY <2>1, <3>1, <3>2
  <2> HIDE DEF New, Old
  <2> QED
    BY <2>2, <2>3, <2>4
<1> HIDE DEF New, Old
<1>7. IsFiniteSet(Old \cup New)
      /\ Cardinality(Old \cup New) = Cardinality(Old) + Cardinality(New) - Cardinality(Old \cap New)
  BY <1>3, FS_Union DEF Old
<1>8. Cardinality(Old \cap New) = 0
  <2>1. Old \cap New = {}
    BY <1>4
  <2> QED
    BY <2>1, FS_EmptySet
<1>9. Cardinality(Old) \in Nat /\ totalDrops = Cardinality(Old)
  BY FS_CardinalityType DEF Old
<1> QED
  BY <1>1, <1>2, <1>3, <1>6, <1>7, <1>8, <1>9

\* For any finite set of streams and any capacity, the counter the server logs
\* is exact: every refused event is counted once, by whichever publish and on
\* whichever channel it was refused.
THEOREM DropsAreCounted == Spec => []DropsCounted
<1> DEFINE Counted == IsFiniteSet(Refused) /\ totalDrops = Cardinality(Refused)
<1>1. Init => Counted
  <2> SUFFICES ASSUME Init PROVE Counted
    OBVIOUS
  <2>1. Refused = {}
    BY RefusedIs, InitType DEF Init
  <2> QED
    BY <2>1, FS_EmptySet DEF Init
<1>2. TypeOK /\ Counted /\ [Next]_vars => Counted'
  <2> SUFFICES ASSUME TypeOK, Counted, [Next]_vars PROVE Counted'
    OBVIOUS
  <2>1. CASE \E s \in Sessions : Publish(s)
    BY <2>1, PublishRefuses
  <2>2. CASE UNCHANGED <<dropped, totalDrops>>
    BY <2>2 DEF Refused
  <2>3. (\E s \in Sessions : Publish(s)) \/ UNCHANGED <<dropped, totalDrops>>
    BY DEF Next, RejectStream, Subscribe, Receive, Write, ContextDone, Cancel, vars, busVars, histVars
  <2> QED
    BY <2>1, <2>2, <2>3
<1>3. Counted => DropsCounted
  BY DEF DropsCounted
<1> QED
  BY <1>1, <1>2, <1>3, TypeCorrect, PTL DEF Spec

-----------------------------------------------------------------------------
(* Refinement: the bus and its streams implement SessionFeed.              *)

\* The initial states of the bus are initial states of the feed.
LEMMA InitFeed == Init => Feed!Init
BY DEF Init, Feed!Init, Joined

\* Every step of the bus is a step of the feed, or leaves the feed alone.
LEMMA StepFeed ==
  TypeOK /\ BusInv /\ [Next]_vars => [Feed!Next]_Feed!vars
<1> SUFFICES ASSUME TypeOK, BusInv, [Next]_vars
             PROVE  [Feed!Next]_Feed!vars
  OBVIOUS
<1> USE DEF busVars, streamVars, histVars
<1> DEFINE J == [c \in Streams |-> Joined(c)]
<1>1. ASSUME NEW s \in Sessions, Publish(s) PROVE Feed!Publish(s)
  BY <1>1 DEF Publish, Feed!Publish, TypeOK, Joined
<1>2. ASSUME NEW c \in Streams, RejectStream(c) \/ Cancel(c)
      PROVE  Feed!Leave(c)
  <2>1. J[c] # "gone"
    BY <1>2 DEF RejectStream, Cancel, Joined
  <2>2. J' = [J EXCEPT ![c] = "gone"]
    BY <1>2 DEF RejectStream, Cancel, Joined, TypeOK
  <2> QED
    BY <1>2, <2>1, <2>2 DEF RejectStream, Cancel, Feed!Leave
<1>3. ASSUME NEW c \in Streams, Subscribe(c) PROVE Feed!Join(c)
  <2>1. J[c] = "out"
    BY <1>3 DEF Subscribe, Joined
  <2>2. J' = [J EXCEPT ![c] = "in"]
    BY <1>3 DEF Subscribe, Joined, TypeOK
  <2> QED
    BY <1>3, <2>1, <2>2 DEF Subscribe, Feed!Join
<1>4. ASSUME NEW c \in Streams, Receive(c)
      PROVE  \E n \in 1 .. published[target[c]] : Feed!Show(c, n)
  <2> DEFINE n == Head(buf[c])
  <2>1. J[c] = "in"
    BY <1>4 DEF Receive, Joined
  <2>2. J' = J
    BY <1>4 DEF Receive, Joined, TypeOK
  <2>3. 1 \in 1 .. Len(buf[c]) /\ n = buf[c][1] /\ n \in Nat
    BY <1>4 DEF Receive, TypeOK
  <2>4. n > last[c] /\ n <= published[target[c]]
    BY <2>3 DEF BusInv, BufferInOrder
  <2>5. n \in 1 .. published[target[c]]
    BY <2>3, <2>4 DEF TypeOK
  <2>6. Feed!Show(c, n)
    BY <1>4, <2>1, <2>2, <2>4 DEF Receive, Feed!Show
  <2> QED
    BY <2>5, <2>6
<1>5. ASSUME NEW c \in Streams, Write(c) \/ ContextDone(c)
      PROVE  UNCHANGED Feed!vars
  <2>1. J' = J
    BY <1>5 DEF Write, ContextDone, Joined, TypeOK
  <2> QED
    BY <1>5, <2>1 DEF Write, ContextDone, Feed!vars
<1>6. CASE UNCHANGED vars
  BY <1>6 DEF vars, Feed!vars, Joined
<1> QED
  BY <1>1, <1>2, <1>3, <1>4, <1>5, <1>6 DEF Next, Feed!Next

\* The bus with its streams implements the feed the browser is promised.
THEOREM BusImplementsFeed == Spec => ImplementsFeed
BY BusInvariant, InitFeed, StepFeed, PTL DEF Spec, ImplementsFeed, Feed!Spec
=============================================================================
