----------------------------- MODULE LossyFifo ------------------------------
(***************************************************************************)
(* What the event path of HalProxy promises to the framework: a FIFO of    *)
(* events that may lose some of them, but only                             *)
(*   - the end of a batch that comes when the FIFO is nearly full;         *)
(*   - one FMQ's worth of events behind a full FMQ, when the framework     *)
(*     does not read;                                                      *)
(*   - everything, from the front, while the proxy is stopped.             *)
(* Events are identified by their position in the order of posting.        *)
(***************************************************************************)
EXTENDS Integers, Sequences

CONSTANTS
  FmqSize,      \* events the FMQ holds
  Limit,        \* events that may wait for room in the FMQ
  LargestBatch  \* events in one batch

VARIABLES
  transit,      \* the events on their way to the framework
  last,         \* the event it read last
  next,         \* the position of the next event
  running       \* whether the proxy is running

vars == <<transit, last, next, running>>

Init ==
  /\ transit = <<>>
  /\ last = 0
  /\ next = 1
  /\ running \in BOOLEAN

\* A batch of n events of which the first k get in: all, if there is room,
\* where the writer may still count one FMQ's worth of events it has written.
Post ==
  /\ \E n \in 1 .. LargestBatch : \E k \in 0 .. n :
       /\ k < n => Len(transit) + n + FmqSize > Limit
       /\ transit' = transit \o [i \in 1 .. k |-> next + i - 1]
       /\ next' = next + n
  /\ UNCHANGED <<last, running>>

Deliver ==
  /\ \E k \in 1 .. Len(transit) :
       /\ transit' = SubSeq(transit, k + 1, Len(transit))
       /\ last' = transit[k]
  /\ UNCHANGED <<next, running>>

\* At most FmqSize events starting inside, and ending outside, the FMQ.
LoseChunk ==
  /\ \E i \in 2 .. FmqSize + 1 : \E j \in FmqSize + 1 .. Len(transit) :
       /\ j - i < FmqSize
       /\ transit' = SubSeq(transit, 1, i - 1) \o SubSeq(transit, j + 1, Len(transit))
  /\ UNCHANGED <<last, next, running>>

Stop ==
  /\ running' = FALSE
  /\ UNCHANGED <<transit, last, next>>

LoseStopped ==
  /\ ~running
  /\ \E k \in 1 .. Len(transit) : transit' = SubSeq(transit, k + 1, Len(transit))
  /\ UNCHANGED <<last, next, running>>

\* A proxy that is started again delivers no event from before.
Start ==
  /\ ~running
  /\ transit = <<>>
  /\ running' = TRUE
  /\ UNCHANGED <<transit, last, next>>

Next == Post \/ Deliver \/ LoseChunk \/ Stop \/ LoseStopped \/ Start

Spec == Init /\ [][Next]_vars
=============================================================================
