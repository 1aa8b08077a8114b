----------------------------- MODULE EventQueue -----------------------------
(***************************************************************************)
(* The way of a sensor event through HalProxy (sensors/HalProxy.cpp): the  *)
(* event FMQ the framework reads, the queue of batches that did not fit    *)
(* into it, and the thread that moves these batches on when there is room. *)
(*                                                                         *)
(* mEventQueueWriteMutex protects the pending queue and the direct writes  *)
(* of the posting threads.  The thread below holds it except while it      *)
(* waits on mEventQueueWriteCV and while it writes into the FMQ:           *)
(*   "check"     wants the mutex, to evaluate its loop again;              *)
(*   "blocking"  holds it, between finding nothing to do and blocking;     *)
(*   "blocked"   is on the condition variable's wait list;                 *)
(*   "writing"   is in writeBlocking with the front of the pending queue;  *)
(*   "finish"    is back from it and wants the mutex, to remove the front. *)
(***************************************************************************)
EXTENDS Wakelock, FiniteSets

CONSTANTS
  QueueSize,    \* mEventQueue->getQuantumCount()
  MaxPending    \* kMaxSizePendingWriteEventsQueue

ASSUME EventQueueAssumption ==
  /\ QueueSize \in Nat \ {0}
  /\ MaxPending \in Nat

VARIABLES
  eventQueue,       \* the event FMQ
  pending,          \* mPendingWriteEventsQueue
  sizePending,      \* mSizePendingWriteEventsQueue
  writerPc          \* where mPendingWritesThread is in handlePendingWrites

eventVars == <<eventQueue, pending, sizePending, writerPc>>

\* An event: the position at which it was posted, and whether its sensor is
\* a WAKE_UP sensor.  The payload plays no part.
Event == [stamp : Nat, wake : BOOLEAN]

\* A pending batch and the WAKE_UP events of the postEvents call it is from.
Batch == [events : Seq(Event), wakeups : Nat]

WriterPcs == {"off", "check", "blocking", "blocked", "writing", "finish", "exited"}

EventQueueTypeOK ==
  /\ eventQueue \in Seq(Event)
  /\ pending \in Seq(Batch)
  /\ sizePending \in Int
  /\ writerPc \in WriterPcs

EventQueueInit ==
  /\ eventQueue = <<>>
  /\ pending = <<>>
  /\ sizePending = 0
  /\ writerPc = "off"

-----------------------------------------------------------------------------

Available == QueueSize - Len(eventQueue)

\* The number of WAKE_UP events among the first n.
CountNumWakeupEvents(events, n) == Cardinality({i \in 1 .. n : events[i].wake})

\* Mutant: write into the FMQ although earlier events are pending.
DirectWriteAlways(events) == Smaller(Len(events), Available)

(***************************************************************************)
(* postEventsToMessageQueue, once the caller has the mutex and has counted *)
(* the batch: straight into the FMQ what fits, but only when no earlier    *)
(* event is pending, and the rest to the pending queue, unless that would  *)
(* exceed its limit - then the rest is lost.                               *)
(***************************************************************************)
DirectWrite(events) == IF pending = <<>> THEN Smaller(Len(events), Available) ELSE 0

\* Mutant: the limit itself is not allowed.
FitsPendingStrictly(left) == sizePending + left < MaxPending

FitsPending(left) == sizePending + left <= MaxPending

\* Mutant: the writer thread is not told of the batch.
WriteOrQueueSilently(events, wakeups) ==
  LET written == DirectWrite(events)
      left == Len(events) - written
      fits == left > 0 /\ FitsPending(left)
      rest == [events |-> SubSeq(events, written + 1, Len(events)), wakeups |-> wakeups]
  IN /\ eventQueue' = eventQueue \o SubSeq(events, 1, written)
     /\ pending' = IF fits THEN Append(pending, rest) ELSE pending
     /\ sizePending' = IF fits THEN sizePending + left ELSE sizePending
     /\ writerPc' = writerPc

WriteOrQueue(events, wakeups) ==
  LET written == DirectWrite(events)
      left == Len(events) - written
  IN /\ eventQueue' = eventQueue \o SubSeq(events, 1, written)
     /\ IF left > 0 /\ FitsPending(left)
          THEN /\ pending' = Append(pending,
                    [events |-> SubSeq(events, written + 1, Len(events)), wakeups |-> wakeups])
               /\ sizePending' = sizePending + left
               /\ writerPc' = Notified(writerPc)
          ELSE UNCHANGED <<pending, sizePending, writerPc>>

-----------------------------------------------------------------------------
(***************************************************************************)
(* handlePendingWrites.                                                    *)
(***************************************************************************)

FrontBatch == Head(pending)

\* numToWrite: what one writeBlocking call moves of the front batch.
Chunk == Smaller(Len(FrontBatch.events), QueueSize)

\* Where the thread goes when it holds the mutex at the head of its loop.
LoopHead(batches) ==
  IF ~threadsRun THEN "exited" ELSE IF batches = <<>> THEN "blocking" ELSE "writing"

WriterCheck ==
  /\ writerPc = "check"
  /\ writerPc' = LoopHead(pending)
  /\ UNCHANGED <<eventQueue, pending, sizePending, wakelockVars>>

WriterBlock ==
  /\ writerPc = "blocking"
  /\ writerPc' = "blocked"
  /\ UNCHANGED <<eventQueue, pending, sizePending, wakelockVars>>

WriterSpurious ==
  /\ writerPc = "blocked"
  /\ writerPc' = "check"
  /\ UNCHANGED <<eventQueue, pending, sizePending, wakelockVars>>

\* writeBlocking succeeds: it writes the whole chunk or nothing.
WriterWrite ==
  /\ writerPc = "writing"
  /\ Chunk <= Available
  /\ eventQueue' = eventQueue \o SubSeq(FrontBatch.events, 1, Chunk)
  /\ writerPc' = "finish"
  /\ UNCHANGED <<pending, sizePending, wakelockVars>>

(***************************************************************************)
(* The count the thread gives up for a chunk it could not write: of a      *)
(* batch with more to come the WAKE_UP events in the chunk, otherwise all  *)
(* those of the postEvents call, whatever became of the others.            *)
(***************************************************************************)
DropCount ==
  IF FrontBatch.wakeups = 0 THEN 0
  ELSE IF Len(FrontBatch.events) > QueueSize THEN CountNumWakeupEvents(FrontBatch.events, QueueSize)
  ELSE FrontBatch.wakeups

\* writeBlocking gives up after kPendingWriteTimeoutNs without enough room.
WriterDrop ==
  /\ writerPc = "writing"
  /\ Chunk > Available
  /\ DecrementRefCount(DropCount, FALSE)
  /\ writerPc' = "finish"
  /\ UNCHANGED <<eventQueue, pending, sizePending,
                 threadsRun, elapsed, scoped, wakeQueue, wakelockPc>>

\* Mutant: the size of the whole batch is subtracted for each of its chunks.
WriterFinishWhole ==
  /\ writerPc = "finish"
  /\ sizePending' = sizePending - Len(FrontBatch.events)
  /\ pending' =
       IF Len(FrontBatch.events) > QueueSize
         THEN [pending EXCEPT ![1].events = SubSeq(@, QueueSize + 1, Len(@))]
         ELSE Tail(pending)
  /\ writerPc' = LoopHead(pending')
  /\ UNCHANGED <<eventQueue, wakelockVars>>

\* Remove the chunk, written or not, and go back to the head of the loop.
WriterFinish ==
  /\ writerPc = "finish"
  /\ sizePending' = sizePending - Chunk
  /\ pending' =
       IF Len(FrontBatch.events) > QueueSize
         THEN [pending EXCEPT ![1].events = SubSeq(@, QueueSize + 1, Len(@))]
         ELSE Tail(pending)
  /\ writerPc' = LoopHead(pending')
  /\ UNCHANGED <<eventQueue, wakelockVars>>
=============================================================================
