----------------------------- MODULE SessionFeed -----------------------------
(***************************************************************************)
(* What an SSE stream promises to the browser behind it, whatever bus is   *)
(* used: the stream of a session shows events of that session only, only   *)
(* events published after it joined, in the order of publication and each  *)
(* one at most once.  Events may be skipped, never repeated or reordered.  *)
(*                                                                         *)
(* An event is identified by its place in the publication order of its     *)
(* session: the n-th event published to s is the number n.                 *)
(***************************************************************************)
EXTENDS Integers

CONSTANTS Sessions, Streams

VARIABLES
  published,   \* session -> how many events were published to it
  joined,      \* stream -> "out", "in" or "gone"
  target,      \* stream -> the session it shows
  last         \* stream -> the last event it showed

vars == <<published, joined, target, last>>

Init ==
  /\ published = [s \in Sessions |-> 0]
  /\ joined = [c \in Streams |-> "out"]
  /\ target \in [Streams -> Sessions]
  /\ last = [c \in Streams |-> 0]

Publish(s) ==
  /\ published' = [published EXCEPT ![s] = @ + 1]
  /\ UNCHANGED <<joined, target, last>>

Join(c) ==
  /\ joined[c] = "out"
  /\ joined' = [joined EXCEPT ![c] = "in"]
  /\ last' = [last EXCEPT ![c] = published[target[c]]]
  /\ UNCHANGED <<published, target>>

Show(c, n) ==
  /\ joined[c] = "in"
  /\ n > last[c] /\ n <= published[target[c]]
  /\ last' = [last EXCEPT ![c] = n]
  /\ UNCHANGED <<published, joined, target>>

Leave(c) ==
  /\ joined[c] # "gone"
  /\ joined' = [joined EXCEPT ![c] = "gone"]
  /\ UNCHANGED <<published, target, last>>

Next ==
  \/ \E s \in Sessions : Publish(s)
  \/ \E c \in Streams : Join(c)
  \/ \E c \in Streams : \E n \in 1 .. published[target[c]] : Show(c, n)
  \/ \E c \in Streams : Leave(c)

Spec == Init /\ [][Next]_vars
=============================================================================
