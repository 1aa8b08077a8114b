--------------------------- MODULE HalProxyProofs ---------------------------
(***************************************************************************)
(* Safety of HalProxy, for any sub-HALs, batches, queue sizes and bounds:  *)
(* first that its variables keep their types, then HeldIffCounted,         *)
(* SingleFmqWriter, AssertionsHold and ClearedSafely.                      *)
(***************************************************************************)
EXTENDS HalProxy, FiniteSetTheorems, SequenceTheorems, TLAPS

USE WakelockAssumption, EventQueueAssumption, HalProxyAssumption

-----------------------------------------------------------------------------
(***************************************************************************)
(* The operators the actions are built from.                               *)
(***************************************************************************)

\* Smaller is the minimum of two numbers.
LEMMA SmallerIsMin ==
  ASSUME NEW a \in Int, NEW b \in Int
  PROVE  /\ Smaller(a, b) = a \/ Smaller(a, b) = b
         /\ Smaller(a, b) \in Int
         /\ Smaller(a, b) <= a
         /\ Smaller(a, b) <= b
BY DEF Smaller

\* Counting WAKE_UP events gives a natural number.
LEMMA CountIsNat ==
  ASSUME NEW events, NEW n \in Nat
  PROVE  CountNumWakeupEvents(events, n) \in Nat
<1> DEFINE S == {i \in 1 .. n : events[i].wake}
<1>1. IsFiniteSet(1 .. n)
  BY FS_Interval
<1>2. IsFiniteSet(S)
  BY <1>1, FS_Subset
<1>3. Cardinality(S) \in Nat
  BY <1>2, FS_CardinalityType
<1> QED
  BY <1>3 DEF CountNumWakeupEvents

LEMMA NumWakeupsIsNat ==
  ASSUME NEW flags \in Seq(BOOLEAN)
  PROVE  NumWakeups(flags) \in Nat
<1> DEFINE S == {i \in 1 .. Len(flags) : flags[i]}
<1>1. IsFiniteSet(1 .. Len(flags))
  BY FS_Interval
<1>2. IsFiniteSet(S)
  BY <1>1, FS_Subset
<1>3. Cardinality(S) \in Nat
  BY <1>2, FS_CardinalityType
<1> QED
  BY <1>3 DEF NumWakeups

\* A part of a sequence is a sequence over the same set.
LEMMA SubSeqIsSeq ==
  ASSUME NEW S, NEW s \in Seq(S), NEW m \in 1 .. Len(s) + 1, NEW n \in 0 .. Len(s)
  PROVE  /\ SubSeq(s, m, n) \in Seq(S)
         /\ Len(SubSeq(s, m, n)) = IF m <= n THEN n - m + 1 ELSE 0
BY SubSeqProperties

LEMMA StampedIsSeq ==
  ASSUME NEW flags \in Seq(BOOLEAN), nextStamp \in Nat
  PROVE  Stamped(flags) \in Seq(Event) /\ Len(Stamped(flags)) = Len(flags)
BY DEF Stamped, Event

-----------------------------------------------------------------------------
(***************************************************************************)
(* Type correctness.  It is not inductive by itself: that the writer finds *)
(* a batch at the front of the pending queue after writing without the     *)
(* mutex needs that only the writer takes batches out while it lives, and  *)
(* that a chunk of this batch is within its bounds needs that the FMQ never*)
(* holds more than it can.                                                 *)
(***************************************************************************)

FmqBounded == Len(eventQueue) <= QueueSize

WriterHasBatch == writerPc \in {"writing", "finish"} => pending # <<>>

\* From the join in stopThreads until new threads start there are none.
StoppedAfterJoin ==
  binderPc \in {"reset", "disable", "clear", "start", "spawn"} =>
    writerPc \in {"off", "exited"} /\ wakelockPc \in {"off", "exited"}

TypeInv == TypeOK /\ FmqBounded /\ WriterHasBatch /\ StoppedAfterJoin

LEMMA TypeInit == Init => TypeInv
<1> SUFFICES ASSUME Init PROVE TypeInv
  OBVIOUS
<1> USE DEF Init, WakelockInit, EventQueueInit
<1>1. WakelockTypeOK
  <2>1. elapsed \in 0 .. WakelockTimeout + 1
    OBVIOUS
  <2>2. scoped \in [SubHals -> ScopedStates]
    BY DEF ScopedStates
  <2>3. wakeQueue \in Seq(Nat) /\ Len(wakeQueue) <= WakeQueueSize
    OBVIOUS
  <2>4. threadsRun \in BOOLEAN /\ held \in BOOLEAN
    OBVIOUS
  <2> QED
    BY <2>1, <2>2, <2>3, <2>4 DEF WakelockTypeOK, WakelockPcs
<1>2. EventQueueTypeOK
  BY DEF EventQueueTypeOK, WriterPcs
<1>3. TypeOK
  <2>1. batch \in [SubHals -> Seq(BOOLEAN)]
    OBVIOUS
  <2>2. posterPc \in [SubHals -> PosterPcs] /\ enabled \in [SubHals -> BOOLEAN]
    BY DEF PosterPcs
  <2> QED
    BY <1>1, <1>2, <2>1, <2>2 DEF TypeOK, BinderPcs
<1>4. FmqBounded /\ WriterHasBatch /\ StoppedAfterJoin
  BY DEF FmqBounded, WriterHasBatch, StoppedAfterJoin
<1> QED
  BY <1>3, <1>4 DEF TypeInv

\* IncrementRefCount keeps the wake lock's types.
LEMMA IncrementType ==
  ASSUME TypeInv, NEW delta \in Nat, IncrementRefCount(delta)
  PROVE  /\ refCount' \in Nat
         /\ held' \in BOOLEAN
         /\ elapsed' \in 0 .. WakelockTimeout + 1
         /\ wakelockPc' \in WakelockPcs
         /\ wakelockPc \in {"off", "exited"} => wakelockPc' = wakelockPc
BY DEF TypeInv, TypeOK, WakelockTypeOK, IncrementRefCount, Notified, WakelockPcs

\* So does DecrementRefCount, as it never goes below zero.
LEMMA DecrementType ==
  ASSUME TypeInv, NEW delta \in Nat, NEW stale, DecrementRefCount(delta, stale)
  PROVE  refCount' \in Nat /\ held' \in BOOLEAN
<1> refCount \in Nat
  BY DEF TypeInv, TypeOK, WakelockTypeOK
<1>1. Smaller(refCount, delta) \in Nat /\ Smaller(refCount, delta) <= refCount
  BY DEF Smaller
<1>2. refCount' \in Nat
  BY <1>1 DEF TypeInv, TypeOK, WakelockTypeOK, DecrementRefCount
<1>3. held' \in BOOLEAN
  BY Zenon DEF TypeInv, TypeOK, WakelockTypeOK, DecrementRefCount
<1> QED
  BY <1>2, <1>3

LEMMA ResetType ==
  ASSUME TypeInv, ResetSharedWakelock
  PROVE  refCount' \in Nat /\ held' \in BOOLEAN /\ scoped' \in [SubHals -> ScopedStates]
<1>1. refCount \in Nat /\ scoped \in [SubHals -> ScopedStates]
  BY DEF TypeInv, TypeOK, WakelockTypeOK
<1>2. refCount' \in Nat /\ held' \in BOOLEAN
  BY <1>1, DecrementType DEF ResetSharedWakelock
<1> QED
  BY <1>1, <1>2 DEF ResetSharedWakelock, ScopedStates

\* WriteOrQueue keeps the types of the queues and the bound of the FMQ.
LEMMA WriteOrQueueType ==
  ASSUME TypeInv, NEW events \in Seq(Event), NEW wakeups \in Nat,
         WriteOrQueue(events, wakeups)
  PROVE  /\ EventQueueTypeOK'
         /\ FmqBounded'
         /\ WriterHasBatch'
         /\ writerPc \in {"off", "exited"} => writerPc' = writerPc
<1> DEFINE written == DirectWrite(events)
           left == Len(events) - written
           rest == [events |-> SubSeq(events, written + 1, Len(events)), wakeups |-> wakeups]
<1> USE DEF TypeInv, TypeOK, EventQueueTypeOK
<1>1. Len(events) \in Nat /\ Available \in Nat /\ eventQueue \in Seq(Event)
  BY DEF FmqBounded, Available
<1>2. written \in Nat /\ written <= Len(events) /\ written <= Available
  BY <1>1 DEF DirectWrite, Smaller
<1>3. /\ SubSeq(events, 1, written) \in Seq(Event)
      /\ Len(SubSeq(events, 1, written)) = written
  BY <1>1, <1>2, SubSeqIsSeq
<1>4. rest \in Batch
  <2>1. SubSeq(events, written + 1, Len(events)) \in Seq(Event)
    BY <1>1, <1>2, SubSeqIsSeq
  <2> QED
    BY <2>1 DEF Batch
<1>5. eventQueue' = eventQueue \o SubSeq(events, 1, written)
  BY DEF WriteOrQueue
<1>6. eventQueue' \in Seq(Event) /\ FmqBounded'
  BY <1>1, <1>2, <1>3, <1>5 DEF FmqBounded, Available
<1> HIDE DEF written, rest
<1>7. CASE left > 0 /\ FitsPending(left)
  <2>1. /\ pending' = Append(pending, rest)
        /\ sizePending' = sizePending + left
        /\ writerPc' = Notified(writerPc)
    BY <1>7 DEF WriteOrQueue, written, rest
  <2>2. pending' \in Seq(Batch) /\ pending' # <<>>
    BY <2>1, <1>4
  <2>3. sizePending' \in Int
    BY <2>1, <1>1, <1>2
  <2> QED
    BY <1>6, <2>1, <2>2, <2>3 DEF Notified, WriterPcs, WriterHasBatch
<1>8. CASE ~(left > 0 /\ FitsPending(left))
  <2>1. UNCHANGED <<pending, sizePending, writerPc>>
    BY <1>8 DEF WriteOrQueue, written
  <2> QED
    BY <1>6, <2>1 DEF WriterHasBatch
<1> QED
  BY <1>7, <1>8

\* What is left of TypeOK without the two components.
ProxyTypeOK ==
  /\ posterPc \in [SubHals -> PosterPcs]
  /\ batch \in [SubHals -> Seq(BOOLEAN)]
  /\ enabled \in [SubHals -> BOOLEAN]
  /\ binderPc \in BinderPcs
  /\ unacked \in Nat /\ lastRead \in Nat /\ nextStamp \in Nat
  /\ posts \in Nat /\ inits \in Nat
  /\ timedOut \in BOOLEAN /\ overDropped \in BOOLEAN /\ missed \in BOOLEAN

EventInv == EventQueueTypeOK /\ FmqBounded /\ WriterHasBatch

LEMMA TypeInvParts ==
  ASSUME TypeInv
  PROVE  WakelockTypeOK /\ EventInv /\ ProxyTypeOK /\ StoppedAfterJoin
BY DEF TypeInv, TypeOK, EventInv, ProxyTypeOK

LEMMA TypeInvNext ==
  ASSUME WakelockTypeOK', EventInv', ProxyTypeOK', StoppedAfterJoin'
  PROVE  TypeInv'
BY DEF TypeInv, TypeOK, EventInv, ProxyTypeOK

LEMMA WakelockUntouched ==
  ASSUME TypeInv, UNCHANGED wakelockVars PROVE WakelockTypeOK'
BY DEF TypeInv, TypeOK, WakelockTypeOK, wakelockVars

LEMMA EventsUntouched ==
  ASSUME TypeInv, UNCHANGED eventVars PROVE EventInv'
BY DEF TypeInv, TypeOK, EventInv, EventQueueTypeOK, FmqBounded, WriterHasBatch, eventVars

LEMMA ThreadsUntouched ==
  ASSUME TypeInv, UNCHANGED <<binderPc, wakelockPc, writerPc>> PROVE StoppedAfterJoin'
BY DEF TypeInv, StoppedAfterJoin

\* Steps of a sub-HAL's posting thread.
LEMMA PosterType ==
  ASSUME TypeInv, NEW s \in SubHals, PostBegin(s) \/ PosterStep(s)
  PROVE  TypeInv'
<1> USE DEF posterRest, binderVars, frameworkVars, historyVars
<1>0. /\ WakelockTypeOK /\ EventInv /\ ProxyTypeOK /\ StoppedAfterJoin
      /\ posterPc \in [SubHals -> PosterPcs] /\ batch[s] \in Seq(BOOLEAN)
  BY TypeInvParts DEF ProxyTypeOK
<1>g. ASSUME NEW pc \in PosterPcs, Goto(s, pc) PROVE posterPc' \in [SubHals -> PosterPcs]
  BY <1>0, <1>g DEF Goto
<1>1. CASE PostBegin(s)
  <2>1. WakelockTypeOK' /\ EventInv' /\ StoppedAfterJoin'
    BY <1>1, WakelockUntouched, EventsUntouched, ThreadsUntouched
       DEF PostBegin, wakelockVars, eventVars
  <2>2. PICK b \in Batches :
          /\ batch' = [batch EXCEPT ![s] = b]
          /\ Goto(s, IF NumWakeups(b) > 0 THEN "create" ELSE "post")
    BY <1>1 DEF PostBegin
  <2>3. posterPc' \in [SubHals -> PosterPcs]
    BY <2>2, <1>g DEF PosterPcs
  <2>4. batch' \in [SubHals -> Seq(BOOLEAN)]
    BY <2>2, <1>0 DEF ProxyTypeOK
  <2> QED
    BY <1>1, <1>0, <2>1, <2>3, <2>4, TypeInvNext DEF PostBegin, ProxyTypeOK
<1>2. CASE CreateScoped(s)
  <2>1. WakelockTypeOK' /\ EventInv' /\ StoppedAfterJoin'
    BY <1>2, WakelockUntouched, EventsUntouched, ThreadsUntouched
       DEF CreateScoped, wakelockVars, eventVars
  <2>2. posterPc' \in [SubHals -> PosterPcs]
    BY <1>2, <1>g DEF CreateScoped, PosterPcs
  <2> QED
    BY <1>2, <1>0, <2>1, <2>2, TypeInvNext DEF CreateScoped, ProxyTypeOK
<1>3. CASE CreateScopedLocked(s)
  <2>1. EventInv'
    BY <1>3, EventsUntouched DEF CreateScopedLocked
  <2>2. posterPc' \in [SubHals -> PosterPcs]
    BY <1>3, <1>g DEF CreateScopedLocked, PosterPcs
  <2>3. scoped' \in [SubHals -> ScopedStates]
    BY <1>3, <1>0 DEF CreateScopedLocked, WakelockTypeOK, ScopedStates
  <2>4. WakelockTypeOK' /\ (wakelockPc \in {"off", "exited"} => wakelockPc' = wakelockPc)
    BY <1>3, <1>0, <2>3, IncrementType DEF CreateScopedLocked, WakelockTypeOK
  <2> QED
    BY <1>3, <1>0, <2>1, <2>2, <2>4, TypeInvNext
       DEF CreateScopedLocked, ProxyTypeOK, StoppedAfterJoin, eventVars
<1>4. CASE PostEvents(s)
  <2>1. WakelockTypeOK' /\ EventInv' /\ StoppedAfterJoin'
    BY <1>4, WakelockUntouched, EventsUntouched, ThreadsUntouched
       DEF PostEvents, wakelockVars, eventVars
  <2>2. posterPc' \in [SubHals -> PosterPcs]
    BY <1>4, <1>g DEF PostEvents, PosterPcs
  <2> QED
    BY <1>4, <1>0, <2>1, <2>2, TypeInvNext DEF PostEvents, ProxyTypeOK
<1>5. CASE LockWriteMutex(s)
  <2>1. WakelockTypeOK' /\ EventInv' /\ StoppedAfterJoin'
    BY <1>5, WakelockUntouched, EventsUntouched, ThreadsUntouched
       DEF LockWriteMutex, wakelockVars, eventVars
  <2>2. posterPc' \in [SubHals -> PosterPcs]
    BY <1>5, <1>g DEF LockWriteMutex, PosterPcs
  <2> QED
    BY <1>5, <1>0, <2>1, <2>2, TypeInvNext DEF LockWriteMutex, ProxyTypeOK
<1>6. CASE CountBatch(s)
  <2>1. WakelockTypeOK' /\ EventInv' /\ StoppedAfterJoin'
    BY <1>6, WakelockUntouched, EventsUntouched, ThreadsUntouched
       DEF CountBatch, wakelockVars, eventVars
  <2>2. posterPc' \in [SubHals -> PosterPcs]
    BY <1>6, <1>g DEF CountBatch, PosterPcs
  <2> QED
    BY <1>6, <1>0, <2>1, <2>2, TypeInvNext DEF CountBatch, ProxyTypeOK
<1>7. CASE CountBatchLocked(s)
  <2>1. EventInv'
    BY <1>7, EventsUntouched DEF CountBatchLocked
  <2>2. posterPc' \in [SubHals -> PosterPcs]
    BY <1>7, <1>g DEF CountBatchLocked, PosterPcs
  <2>3. NumWakeups(batch[s]) \in Nat
    BY <1>0, NumWakeupsIsNat
  <2>4. WakelockTypeOK' /\ (wakelockPc \in {"off", "exited"} => wakelockPc' = wakelockPc)
    BY <1>7, <1>0, <2>3, IncrementType DEF CountBatchLocked, WakelockTypeOK
  <2> QED
    BY <1>7, <1>0, <2>1, <2>2, <2>4, TypeInvNext
       DEF CountBatchLocked, ProxyTypeOK, StoppedAfterJoin, eventVars
<1>8. CASE WriteEvents(s)
  <2>1. WakelockTypeOK'
    BY <1>8, WakelockUntouched DEF WriteEvents
  <2>2. posterPc' \in [SubHals -> PosterPcs]
    BY <1>8, <1>g DEF WriteEvents, PosterPcs
  <2>3. NumWakeups(batch[s]) \in Nat /\ Stamped(batch[s]) \in Seq(Event)
    BY <1>0, NumWakeupsIsNat, StampedIsSeq DEF ProxyTypeOK
  <2>4. EventInv' /\ (writerPc \in {"off", "exited"} => writerPc' = writerPc)
    BY <1>8, <2>3, WriteOrQueueType DEF WriteEvents, EventInv
  <2> QED
    BY <1>8, <1>0, <2>1, <2>2, <2>4, TypeInvNext
       DEF WriteEvents, ProxyTypeOK, StoppedAfterJoin, wakelockVars
<1>9. CASE ReleaseScoped(s)
  <2>1. EventInv' /\ StoppedAfterJoin'
    BY <1>9, EventsUntouched, ThreadsUntouched DEF ReleaseScoped, eventVars
  <2>2. posterPc' \in [SubHals -> PosterPcs]
    BY <1>9, <1>g DEF ReleaseScoped, PosterPcs
  <2>3. scoped' \in [SubHals -> ScopedStates]
    BY <1>9, <1>0 DEF ReleaseScoped, WakelockTypeOK, ScopedStates
  <2>4. refCount' \in Nat /\ held' \in BOOLEAN
    BY <1>9, <1>0, DecrementType DEF ReleaseScoped, WakelockTypeOK
  <2>5. WakelockTypeOK'
    BY <1>9, <1>0, <2>3, <2>4 DEF ReleaseScoped, WakelockTypeOK
  <2>6. batch' \in [SubHals -> Seq(BOOLEAN)]
    BY <1>9, <1>0 DEF ReleaseScoped, ProxyTypeOK
  <2> QED
    BY <1>9, <1>0, <2>1, <2>2, <2>5, <2>6, TypeInvNext DEF ReleaseScoped, ProxyTypeOK
<1> QED
  BY <1>1, <1>2, <1>3, <1>4, <1>5, <1>6, <1>7, <1>8, <1>9 DEF PosterStep

\* The writer's chunk lies within the batch at the front.
LEMMA ChunkInFront ==
  ASSUME TypeInv, writerPc \in {"writing", "finish"}
  PROVE  /\ FrontBatch \in Batch
         /\ Chunk \in Nat
         /\ Chunk <= Len(FrontBatch.events)
         /\ Chunk <= QueueSize
<1>1. pending \in Seq(Batch) /\ pending # <<>>
  BY DEF TypeInv, TypeOK, EventQueueTypeOK, WriterHasBatch
<1>2. FrontBatch \in Batch
  BY <1>1 DEF FrontBatch
<1>3. Len(FrontBatch.events) \in Nat
  BY <1>2 DEF Batch
<1> QED
  BY <1>2, <1>3 DEF Chunk, Smaller

LEMMA DropCountIsNat ==
  ASSUME TypeInv, writerPc = "writing" PROVE DropCount \in Nat
<1>1. FrontBatch.wakeups \in Nat
  BY ChunkInFront DEF Batch
<1>2. CountNumWakeupEvents(FrontBatch.events, QueueSize) \in Nat
  BY CountIsNat
<1> QED
  BY <1>1, <1>2 DEF DropCount

LEMMA WriterFinishType ==
  ASSUME TypeInv, WriterFinish PROVE EventInv'
<1> USE DEF WriterFinish
<1>1. /\ FrontBatch \in Batch
      /\ Chunk \in Nat
  BY ChunkInFront
<1>2. pending \in Seq(Batch) /\ pending # <<>> /\ sizePending \in Int
  BY DEF TypeInv, TypeOK, EventQueueTypeOK, WriterHasBatch
<1>3. pending' \in Seq(Batch)
  <2>1. CASE Len(FrontBatch.events) > QueueSize
    <3> DEFINE rest == SubSeq(FrontBatch.events, QueueSize + 1, Len(FrontBatch.events))
    <3>1. FrontBatch.events \in Seq(Event)
      BY <1>1 DEF Batch
    <3>2. rest \in Seq(Event)
      BY <2>1, <3>1, SubSeqIsSeq
    <3>3. [FrontBatch EXCEPT !.events = rest] \in Batch
      BY <1>1, <3>2 DEF Batch
    <3>4. 1 \in DOMAIN pending /\ pending[1] = FrontBatch
      BY <1>2 DEF FrontBatch
    <3> HIDE DEF rest
    <3>5. pending' = [pending EXCEPT ![1] = [FrontBatch EXCEPT !.events = rest]]
      BY <2>1, <3>4 DEF rest
    <3>6. \A b \in Batch : [pending EXCEPT ![1] = b] \in Seq(Batch)
      BY <1>2
    <3> QED
      BY <3>3, <3>5, <3>6
  <2>2. CASE ~(Len(FrontBatch.events) > QueueSize)
    BY <1>2, <2>2
  <2> QED
    BY <2>1, <2>2
<1>4. writerPc' \in WriterPcs /\ WriterHasBatch'
  BY DEF LoopHead, WriterPcs, WriterHasBatch
<1> QED
  BY <1>1, <1>2, <1>3, <1>4 DEF EventInv, EventQueueTypeOK, FmqBounded, TypeInv, TypeOK

LEMMA WriterWriteType ==
  ASSUME TypeInv, WriterWrite PROVE EventInv'
<1> USE DEF WriterWrite
<1> DEFINE written == SubSeq(FrontBatch.events, 1, Chunk)
<1>1. FrontBatch.events \in Seq(Event) /\ Chunk \in Nat /\ Chunk <= Len(FrontBatch.events)
  BY ChunkInFront DEF Batch
<1>2. written \in Seq(Event) /\ Len(written) = Chunk
  BY <1>1, SubSeqIsSeq
<1>3. eventQueue \in Seq(Event) /\ Len(eventQueue) \in Nat
  BY DEF TypeInv, TypeOK, EventQueueTypeOK
<1>4. eventQueue' \in Seq(Event) /\ Len(eventQueue') = Len(eventQueue) + Chunk
  BY <1>1, <1>2, <1>3
<1> HIDE DEF written
<1>5. FmqBounded'
  BY <1>1, <1>3, <1>4 DEF FmqBounded, Available
<1>6. writerPc' \in WriterPcs /\ WriterHasBatch'
  BY DEF WriterPcs, WriterHasBatch, TypeInv
<1> QED
  BY <1>4, <1>5, <1>6 DEF EventInv, EventQueueTypeOK, TypeInv, TypeOK

\* Steps of mPendingWritesThread.
LEMMA WriterType ==
  ASSUME TypeInv, WriterStep \/ (WriterSpurious /\ UNCHANGED <<historyVars, proxyRest>>)
  PROVE  TypeInv'
<1> USE DEF proxyRest, posterVars, binderVars, frameworkVars, historyVars
<1>0. WakelockTypeOK /\ EventInv /\ ProxyTypeOK /\ StoppedAfterJoin
  BY TypeInvParts
<1>1. CASE WriterCheck /\ UNCHANGED <<historyVars, proxyRest>>
  <2>1. EventInv' /\ StoppedAfterJoin'
    BY <1>1, <1>0 DEF WriterCheck, LoopHead, EventInv, EventQueueTypeOK, WriterPcs, FmqBounded,
                      WriterHasBatch, StoppedAfterJoin, wakelockVars
  <2> QED
    BY <1>1, <1>0, <2>1, WakelockUntouched, TypeInvNext DEF WriterCheck, ProxyTypeOK
<1>2. CASE WriterFinish /\ UNCHANGED <<historyVars, proxyRest>>
  <2>1. StoppedAfterJoin'
    BY <1>2, <1>0 DEF WriterFinish, StoppedAfterJoin, wakelockVars
  <2> QED
    BY <1>2, <1>0, <2>1, WriterFinishType, WakelockUntouched, TypeInvNext
       DEF WriterFinish, ProxyTypeOK
<1>3. CASE (WriterBlock \/ WriterSpurious) /\ UNCHANGED <<historyVars, proxyRest>>
  <2>1. EventInv' /\ StoppedAfterJoin'
    BY <1>3, <1>0 DEF WriterBlock, WriterSpurious, EventInv, EventQueueTypeOK, WriterPcs, FmqBounded,
                      WriterHasBatch, StoppedAfterJoin, wakelockVars
  <2> QED
    BY <1>3, <1>0, <2>1, WakelockUntouched, TypeInvNext DEF WriterBlock, WriterSpurious, ProxyTypeOK
<1>4. CASE WriterWriting /\ UNCHANGED proxyRest
  <2>1. EventInv'
    BY <1>4, WriterWriteType DEF WriterWriting
  <2>2. StoppedAfterJoin'
    BY <1>4, <1>0 DEF WriterWriting, WriterWrite, StoppedAfterJoin, wakelockVars
  <2> QED
    BY <1>4, <1>0, <2>1, <2>2, WakelockUntouched, TypeInvNext
       DEF WriterWriting, WriterWrite, ProxyTypeOK
<1>5. CASE WriterDropping /\ UNCHANGED proxyRest
  <2>1. refCount' \in Nat /\ held' \in BOOLEAN
    BY <1>5, DropCountIsNat, DecrementType DEF WriterDropping, WriterDrop
  <2>2. WakelockTypeOK'
    BY <1>5, <1>0, <2>1 DEF WriterDropping, WriterDrop, WakelockTypeOK
  <2>3. EventInv' /\ StoppedAfterJoin'
    BY <1>5, <1>0 DEF WriterDropping, WriterDrop, EventInv, EventQueueTypeOK, WriterPcs, FmqBounded,
                      WriterHasBatch, StoppedAfterJoin
  <2>4. overDropped' \in BOOLEAN
    BY <1>5, Zenon DEF WriterDropping
  <2> QED
    BY <1>5, <1>0, <2>2, <2>3, <2>4, TypeInvNext DEF WriterDropping, ProxyTypeOK
<1> QED
  BY <1>1, <1>2, <1>3, <1>4, <1>5 DEF WriterStep, WriterLocking

\* Steps of mWakelockThread.
LEMMA WakelockType ==
  ASSUME TypeInv,
         \/ WakelockStep
         \/ WakelockThreadSpurious /\ UNCHANGED <<eventVars, historyVars, proxyRest>>
  PROVE  TypeInv'
<1> USE DEF proxyRest, posterVars, binderVars, frameworkVars
<1>0. WakelockTypeOK /\ EventInv /\ ProxyTypeOK /\ StoppedAfterJoin
  BY TypeInvParts
<1>1. EventInv' /\ UNCHANGED <<binderPc, writerPc>>
  BY EventsUntouched DEF WakelockStep, eventVars
<1>2. ProxyTypeOK'
  BY <1>0, Zenon DEF WakelockStep, ProxyTypeOK, historyVars
<1>3. CASE WakelockThreadExit
  BY <1>0, <1>1, <1>2, <1>3, ResetType, TypeInvNext
     DEF WakelockThreadExit, WakelockTypeOK, WakelockPcs, StoppedAfterJoin
<1>4. CASE WakelockThreadIdle \/ WakelockThreadBlock \/ WakelockThreadSpurious
           \/ WakelockThreadWait \/ WakelockThreadReadTimeout
  BY <1>0, <1>1, <1>2, <1>4, TypeInvNext
     DEF WakelockThreadIdle, WakelockThreadBlock, WakelockThreadSpurious, WakelockThreadWait,
         WakelockThreadReadTimeout, WakelockTypeOK, WakelockPcs, StoppedAfterJoin
<1>5. CASE WakelockThreadTimeout
  BY <1>0, <1>1, <1>2, <1>5, ResetType, TypeInvNext
     DEF WakelockThreadTimeout, WakelockTypeOK, StoppedAfterJoin
<1>6. CASE WakelockThreadRead
  <2>1. wakeQueue \in Seq(Nat) /\ wakeQueue # <<>>
    BY <1>0, <1>6 DEF WakelockThreadRead, WakelockTypeOK
  <2>2. Head(wakeQueue) \in Nat /\ Tail(wakeQueue) \in Seq(Nat)
        /\ Len(Tail(wakeQueue)) <= Len(wakeQueue)
    BY <2>1
  <2>3. refCount' \in Nat /\ held' \in BOOLEAN
    BY <1>6, <2>2, DecrementType DEF WakelockThreadRead
  <2>4. WakelockTypeOK' /\ StoppedAfterJoin'
    BY <1>0, <1>1, <1>6, <2>1, <2>2, <2>3
       DEF WakelockThreadRead, WakelockTypeOK, WakelockPcs, StoppedAfterJoin
  <2> QED
    BY <1>1, <1>2, <2>4, TypeInvNext
<1> QED
  BY <1>3, <1>4, <1>5, <1>6 DEF WakelockStep, WakelockThreadStep

LEMMA ClockType == ASSUME TypeInv, Clock PROVE TypeInv'
<1> USE DEF proxyRest, posterVars, binderVars, frameworkVars, historyVars
<1>0. WakelockTypeOK /\ ProxyTypeOK /\ StoppedAfterJoin
  BY TypeInvParts
<1>1. elapsed' \in 0 .. WakelockTimeout + 1
  BY <1>0 DEF Clock, Tick, WakelockTypeOK, Smaller
<1>2. scoped' \in [SubHals -> ScopedStates]
  BY <1>0 DEF Clock, Tick, WakelockTypeOK, ScopedStates
<1>3. WakelockTypeOK'
  BY <1>0, <1>1, <1>2 DEF Clock, Tick, WakelockTypeOK
<1> QED
  BY <1>0, <1>3, EventsUntouched, ThreadsUntouched, TypeInvNext
     DEF Clock, Tick, ProxyTypeOK, eventVars

\* Steps of initialize on the binder thread.
LEMMA InitializeType == ASSUME TypeInv, InitializeBegin \/ InitializeStep PROVE TypeInv'
<1> USE DEF binderRest, posterVars, frameworkVars, historyVars
<1>0. WakelockTypeOK /\ EventInv /\ ProxyTypeOK /\ StoppedAfterJoin
  BY TypeInvParts
<1>1. CASE InitializeBegin
  <2>1. WakelockTypeOK' /\ EventInv'
    BY <1>0, <1>1, EventsUntouched DEF InitializeBegin, WakelockTypeOK
  <2>2. ProxyTypeOK' /\ StoppedAfterJoin'
    BY <1>0, <1>1 DEF InitializeBegin, Binder, ProxyTypeOK, BinderPcs, StoppedAfterJoin
  <2> QED
    BY <2>1, <2>2, TypeInvNext
<1>2. CASE StopDrain
  <2>1. EventInv'
    BY <1>0, <1>2 DEF StopDrain, EventInv, EventQueueTypeOK, FmqBounded, WriterHasBatch
  <2> QED
    BY <1>0, <1>2, <2>1, WakelockUntouched, TypeInvNext
       DEF StopDrain, Binder, ProxyTypeOK, BinderPcs, StoppedAfterJoin, wakelockVars
<1>3. CASE StopPoke
  <2>1. wakeQueue' \in Seq(Nat) /\ Len(wakeQueue') <= WakeQueueSize
    BY <1>0, <1>3 DEF StopPoke, WakelockTypeOK
  <2> QED
    BY <1>0, <1>3, <2>1, EventsUntouched, TypeInvNext
       DEF StopPoke, Binder, WakelockTypeOK, ProxyTypeOK, BinderPcs, StoppedAfterJoin, eventVars
<1>4. CASE StopNotifyWakelock
  <2>1. missed' \in BOOLEAN
    BY <1>4, Zenon DEF StopNotifyWakelock
  <2>2. WakelockTypeOK' /\ StoppedAfterJoin'
    BY <1>0, <1>4 DEF StopNotifyWakelock, Binder, Notified, WakelockTypeOK, WakelockPcs,
                      StoppedAfterJoin
  <2> QED
    BY <1>0, <1>4, <2>1, <2>2, EventsUntouched, TypeInvNext
       DEF StopNotifyWakelock, Binder, ProxyTypeOK, BinderPcs
<1>5. CASE StopNotifyWriter
  <2>1. missed' \in BOOLEAN
    BY <1>5, Zenon DEF StopNotifyWriter
  <2>2. EventInv' /\ StoppedAfterJoin'
    BY <1>0, <1>5 DEF StopNotifyWriter, Binder, Notified, EventInv, EventQueueTypeOK, WriterPcs,
                      FmqBounded, WriterHasBatch, StoppedAfterJoin
  <2> QED
    BY <1>0, <1>5, <2>1, <2>2, WakelockUntouched, TypeInvNext
       DEF StopNotifyWriter, Binder, ProxyTypeOK, BinderPcs
<1>6. CASE StopJoin
  BY <1>0, <1>6, WakelockUntouched, EventsUntouched, TypeInvNext
     DEF StopJoin, Binder, ProxyTypeOK, BinderPcs, StoppedAfterJoin, wakelockVars, eventVars
<1>7. CASE InitializeReset
  <2>1. WakelockTypeOK'
    BY <1>0, <1>7, ResetType DEF InitializeReset, WakelockTypeOK
  <2> QED
    BY <1>0, <1>7, <2>1, EventsUntouched, TypeInvNext
       DEF InitializeReset, Binder, ProxyTypeOK, BinderPcs, StoppedAfterJoin, eventVars
<1>8. ASSUME NEW s \in SubHals, DisableSensor(s) PROVE TypeInv'
  BY <1>0, <1>8, WakelockUntouched, EventsUntouched, ThreadsUntouched, TypeInvNext
     DEF DisableSensor, Deactivate, ProxyTypeOK, wakelockVars, eventVars
<1>9. CASE DisableAllSensorsDone
  BY <1>0, <1>9, WakelockUntouched, EventsUntouched, TypeInvNext
     DEF DisableAllSensorsDone, Binder, ProxyTypeOK, BinderPcs, StoppedAfterJoin,
         wakelockVars, eventVars
<1>10. CASE InitializeQueues
  <2>1. EventInv'
    <3>1. /\ eventQueue' \in Seq(Event) /\ Len(eventQueue') <= QueueSize
          /\ pending' \in Seq(Batch) /\ sizePending' \in Int
      BY <1>10 DEF InitializeQueues
    <3>2. writerPc' \in {"off", "exited"}
      BY <1>0, <1>10 DEF InitializeQueues, Binder, StoppedAfterJoin
    <3> QED
      BY <3>1, <3>2 DEF EventInv, EventQueueTypeOK, WriterPcs, FmqBounded, WriterHasBatch
  <2>2. wakeQueue' \in Seq(Nat) /\ Len(wakeQueue') <= WakeQueueSize
    BY <1>10 DEF InitializeQueues
  <2>3. WakelockTypeOK'
    BY <1>0, <1>10, <2>2 DEF InitializeQueues, WakelockTypeOK
  <2> QED
    BY <1>0, <1>10, <2>1, <2>3, TypeInvNext
       DEF InitializeQueues, Binder, ProxyTypeOK, BinderPcs, StoppedAfterJoin
<1>11. CASE StartThreads
  BY <1>0, <1>11, EventsUntouched, TypeInvNext
     DEF StartThreads, Binder, WakelockTypeOK, ProxyTypeOK, BinderPcs, StoppedAfterJoin, eventVars
<1>12. CASE SpawnThreads
  <2>1. WakelockTypeOK' /\ EventInv'
    BY <1>0, <1>12 DEF SpawnThreads, WakelockTypeOK, WakelockPcs, EventInv, EventQueueTypeOK,
                       WriterPcs, FmqBounded, WriterHasBatch
  <2> QED
    BY <1>0, <1>12, <2>1, TypeInvNext
       DEF SpawnThreads, Binder, ProxyTypeOK, BinderPcs, StoppedAfterJoin
<1> QED
  BY <1>1, <1>2, <1>3, <1>4, <1>5, <1>6, <1>7, <1>8, <1>9, <1>10, <1>11, <1>12 DEF InitializeStep

\* Steps of the framework.
LEMMA FrameworkType ==
  ASSUME TypeInv, (\E s \in SubHals : Activate(s)) \/ FrameworkRead \/ FrameworkAck
  PROVE  TypeInv'
<1> USE DEF binderRest, binderVars, posterVars, frameworkVars, historyVars
<1>0. WakelockTypeOK /\ EventInv /\ ProxyTypeOK /\ StoppedAfterJoin
  BY TypeInvParts
<1>1. ASSUME NEW s \in SubHals, Activate(s) PROVE TypeInv'
  <2>1. enabled' \in [SubHals -> BOOLEAN]
    BY <1>0, <1>1 DEF Activate, Deactivate, ProxyTypeOK
  <2> QED
    BY <1>0, <1>1, <2>1, WakelockUntouched, EventsUntouched, ThreadsUntouched, TypeInvNext
       DEF Activate, ProxyTypeOK, wakelockVars, eventVars
<1>2. CASE FrameworkRead
  <2>1. PICK n \in 1 .. Len(eventQueue) :
          /\ eventQueue' = SubSeq(eventQueue, n + 1, Len(eventQueue))
          /\ unacked' = unacked + CountNumWakeupEvents(eventQueue, n)
          /\ lastRead' = eventQueue[n].stamp
    BY <1>2 DEF FrameworkRead
  <2>2. eventQueue \in Seq(Event) /\ Len(eventQueue) \in Nat /\ eventQueue[n] \in Event
    BY <1>0 DEF EventInv, EventQueueTypeOK
  <2>3. eventQueue' \in Seq(Event) /\ Len(eventQueue') <= Len(eventQueue)
    BY <2>1, <2>2, SubSeqIsSeq
  <2>4. unacked' \in Nat /\ lastRead' \in Nat
    <3>1. n \in Nat
      BY <2>2
    <3>2. CountNumWakeupEvents(eventQueue, n) \in Nat
      BY <3>1, CountIsNat
    <3> QED
      BY <1>0, <2>1, <2>2, <3>2 DEF ProxyTypeOK, Event
  <2>5. EventInv'
    BY <1>0, <1>2, <2>2, <2>3
       DEF FrameworkRead, EventInv, EventQueueTypeOK, FmqBounded, WriterHasBatch
  <2> QED
    BY <1>0, <1>2, <2>4, <2>5, WakelockUntouched, ThreadsUntouched, TypeInvNext
       DEF FrameworkRead, ProxyTypeOK, wakelockVars
<1>3. CASE FrameworkAck
  <2>1. PICK n \in 1 .. unacked :
          /\ unacked' = unacked - n
          /\ wakeQueue' = IF Len(wakeQueue) < WakeQueueSize
                           THEN Append(wakeQueue, n) ELSE wakeQueue
    BY <1>3 DEF FrameworkAck
  <2>2. wakeQueue' \in Seq(Nat) /\ Len(wakeQueue') <= WakeQueueSize
    BY <1>0, <2>1 DEF WakelockTypeOK, ProxyTypeOK
  <2>3. unacked' \in Nat
    BY <1>0, <2>1 DEF ProxyTypeOK
  <2>4. WakelockTypeOK'
    BY <1>0, <1>3, <2>2 DEF FrameworkAck, WakelockTypeOK
  <2> QED
    BY <1>0, <1>3, <2>3, <2>4, EventsUntouched, ThreadsUntouched, TypeInvNext
       DEF FrameworkAck, ProxyTypeOK, eventVars
<1> QED
  BY <1>1, <1>2, <1>3

LEMMA TypeNext == TypeInv /\ [Next]_vars => TypeInv'
<1> SUFFICES ASSUME TypeInv, [Next]_vars PROVE TypeInv'
  OBVIOUS
<1>1. CASE Framework
  BY <1>1, InitializeType, FrameworkType, PosterType DEF Framework
<1>2. CASE InitializeStep
  BY <1>2, InitializeType
<1>3. CASE \E s \in SubHals : PosterStep(s)
  BY <1>3, PosterType
<1>4. CASE WriterStep
  BY <1>4, WriterType
<1>5. CASE WakelockStep
  BY <1>5, WakelockType
<1>6. CASE SpuriousWakeup
  <2>1. CASE WriterSpurious /\ UNCHANGED <<historyVars, proxyRest>>
    BY <2>1, WriterType
  <2>2. CASE WakelockThreadSpurious /\ UNCHANGED <<eventVars, historyVars, proxyRest>>
    BY <2>2, WakelockType
  <2> QED
    BY <1>6, <2>1, <2>2 DEF SpuriousWakeup
<1>7. CASE Clock
  BY <1>7, ClockType
<1>8. CASE UNCHANGED vars
  BY <1>8, TypeInvParts, WakelockUntouched, EventsUntouched, ThreadsUntouched, TypeInvNext
     DEF vars, ProxyTypeOK, posterVars, binderVars, frameworkVars, historyVars, eventVars,
         wakelockVars
<1> QED
  BY <1>1, <1>2, <1>3, <1>4, <1>5, <1>6, <1>7, <1>8 DEF Next

LEMMA TypeInvariant == Spec => []TypeInv
<1>1. Init => TypeInv
  BY TypeInit
<1>2. TypeInv /\ [Next]_vars => TypeInv'
  BY TypeNext
<1> QED
  BY <1>1, <1>2, PTL DEF Spec

(***************************************************************************)
(* Every variable keeps its type: in particular the unsigned reference     *)
(* count of the wake lock never goes below zero, whatever is counted down. *)
(***************************************************************************)
THEOREM TypeCorrect == Spec => []TypeOK
<1>1. TypeInv => TypeOK
  BY DEF TypeInv
<1> QED
  BY <1>1, TypeInvariant, PTL

-----------------------------------------------------------------------------
(***************************************************************************)
(* The inductive invariant: what is known of a posting thread from where   *)
(* it is in its call.                                                      *)
(***************************************************************************)

\* A ScopedWakelock is locked between its creation and its release, and
\* only for a batch with WAKE_UP events.
TokenInv ==
  \A s \in SubHals :
    /\ posterPc[s] \in {"idle", "create", "createLocked"} => scoped[s] = "none"
    /\ posterPc[s] \in {"create", "createLocked"} => NumWakeups(batch[s]) > 0
    /\ scoped[s] # "none" => NumWakeups(batch[s]) > 0
    /\ posterPc[s] \in {"inc", "incLocked"} => scoped[s] # "none"

\* A batch with WAKE_UP events and no locked ScopedWakelock does not get past
\* postEvents, since the threads are still stopped.
StoppedInv ==
  \A s \in SubHals :
    posterPc[s] = "post" /\ NumWakeups(batch[s]) > 0 /\ scoped[s] = "none" => ~threadsRun

\* initialize starts the threads when no sub-HAL is posting.
QuietInv ==
  \A s \in SubHals :
    /\ ~enabled[s] => posterPc[s] = "idle"
    /\ binderPc \in {"clear", "start", "spawn"} => ~enabled[s]

\* mEventQueueWriteMutex has one owner.
MutexInv ==
  /\ \A s, t \in SubHals : InSection(s) /\ InSection(t) => s = t
  /\ writerPc = "blocking" => \A s \in SubHals : ~InSection(s)

PosterInv == TokenInv /\ StoppedInv /\ QuietInv /\ MutexInv /\ AssertionsHold

LEMMA PosterInit == Init => PosterInv
BY DEF Init, WakelockInit, EventQueueInit, PosterInv, TokenInv, StoppedInv, QuietInv, MutexInv,
       AssertionsHold, InSection

\* Being locked or not is all PosterInv knows of a ScopedWakelock.
SameLocks == \A s \in SubHals : scoped'[s] = "none" <=> scoped[s] = "none"

LEMMA PosterInvKept ==
  ASSUME PosterInv, SameLocks, UNCHANGED <<posterPc, batch, enabled>>,
         threadsRun' = threadsRun \/ ~threadsRun' \/ \A s \in SubHals : posterPc[s] = "idle",
         binderPc' \in {"clear", "start", "spawn"} => \A s \in SubHals : ~enabled[s],
         writerPc' = "blocking" => \A s \in SubHals : ~InSection(s)
  PROVE  PosterInv'
<1> USE DEF PosterInv, SameLocks
<1>1. TokenInv'
  BY DEF TokenInv
<1>2. StoppedInv'
  BY DEF StoppedInv
<1>3. QuietInv'
  BY DEF QuietInv
<1>4. MutexInv'
  BY DEF MutexInv, InSection
<1>5. AssertionsHold'
  BY DEF AssertionsHold
<1> QED
  BY <1>1, <1>2, <1>3, <1>4, <1>5

LEMMA ResetSameLocks ==
  ASSUME TypeInv, ResetSharedWakelock PROVE SameLocks
BY DEF ResetSharedWakelock, SameLocks, TypeInv, TypeOK, WakelockTypeOK, ScopedStates

\* One thread moves on and leaves the others alone.
LEMMA GotoOne ==
  ASSUME TypeInv, NEW s \in SubHals, NEW pc, Goto(s, pc)
  PROVE  /\ posterPc'[s] = pc
         /\ \A t \in SubHals \ {s} : posterPc'[t] = posterPc[t]
BY DEF Goto, TypeInv, TypeOK

-----------------------------------------------------------------------------
(***************************************************************************)
(* The steps of a posting thread.                                          *)
(***************************************************************************)

\* What a step of thread s leaves as it is for the others.
OthersKept(s) ==
  /\ \A t \in SubHals \ {s} :
       posterPc'[t] = posterPc[t] /\ batch'[t] = batch[t] /\ scoped'[t] = scoped[t]
  /\ UNCHANGED <<threadsRun, enabled, binderPc>>

\* PosterInv for one thread.
PosterInvAt(s) ==
  /\ posterPc[s] \in {"idle", "create", "createLocked"} => scoped[s] = "none"
  /\ posterPc[s] \in {"create", "createLocked"} => NumWakeups(batch[s]) > 0
  /\ scoped[s] # "none" => NumWakeups(batch[s]) > 0
  /\ posterPc[s] \in {"inc", "incLocked"} => scoped[s] # "none"
  /\ posterPc[s] = "post" /\ NumWakeups(batch[s]) > 0 /\ scoped[s] = "none" => ~threadsRun
  /\ ~enabled[s] => posterPc[s] = "idle"
  /\ binderPc \in {"clear", "start", "spawn"} => ~enabled[s]
  /\ posterPc[s] \in {"lock", "inc", "incLocked", "write"} =>
       (NumWakeups(batch[s]) > 0 <=> scoped[s] # "none")

LEMMA PosterInvByThread == PosterInv <=> MutexInv /\ \A s \in SubHals : PosterInvAt(s)
BY DEF PosterInv, PosterInvAt, TokenInv, StoppedInv, QuietInv, AssertionsHold

LEMMA PosterInvNext ==
  ASSUME PosterInv, NEW s \in SubHals, OthersKept(s), PosterInvAt(s)', MutexInv'
  PROVE  PosterInv'
<1>1. ASSUME NEW t \in SubHals \ {s} PROVE PosterInvAt(t)'
  BY PosterInvByThread DEF OthersKept, PosterInvAt
<1> QED
  BY <1>1 DEF PosterInv, PosterInvAt, TokenInv, StoppedInv, QuietInv, AssertionsHold

\* The mutex stays with its owner, is taken when free, or is given back.
LEMMA MutexKept ==
  ASSUME MutexInv, NEW s \in SubHals,
         \A t \in SubHals \ {s} : posterPc'[t] = posterPc[t],
         writerPc' = "blocking" => writerPc = "blocking",
         InSection(s)' => InSection(s) \/ WriteMutexFree
  PROVE  MutexInv'
BY DEF MutexInv, InSection, WriteMutexFree

LEMMA PosterStepInv ==
  ASSUME TypeInv, PosterInv, NEW s \in SubHals, PostBegin(s) \/ PosterStep(s)
  PROVE  PosterInv'
<1> USE DEF posterRest, binderVars, wakelockVars, eventVars
<1>0. /\ MutexInv /\ PosterInvAt(s)
      /\ posterPc \in [SubHals -> PosterPcs]
      /\ batch \in [SubHals -> Seq(BOOLEAN)]
      /\ scoped \in [SubHals -> ScopedStates]
  BY PosterInvByThread DEF TypeInv, TypeOK, WakelockTypeOK
<1>1. CASE PostBegin(s)
  <2>1. PICK b \in Batches :
          /\ batch' = [batch EXCEPT ![s] = b]
          /\ Goto(s, IF NumWakeups(b) > 0 THEN "create" ELSE "post")
    BY <1>1 DEF PostBegin
  <2>2. OthersKept(s)
    BY <1>0, <1>1, <2>1, GotoOne DEF PostBegin, OthersKept
  <2>3. batch'[s] = b /\ posterPc'[s] = (IF NumWakeups(b) > 0 THEN "create" ELSE "post")
    BY <1>0, <2>1, GotoOne
  <2>4. PosterInvAt(s)'
    BY <1>0, <1>1, <2>3 DEF PostBegin, PosterInvAt
  <2>5. MutexInv'
    BY <1>0, <1>1, <2>2, <2>3, MutexKept DEF PostBegin, OthersKept, InSection
  <2> QED
    BY <2>2, <2>4, <2>5, PosterInvNext
<1>2. CASE CreateScoped(s)
  <2>1. OthersKept(s)
    BY <1>0, <1>2, GotoOne DEF CreateScoped, OthersKept
  <2>2. PosterInvAt(s)'
    BY <1>0, <1>2, GotoOne DEF CreateScoped, PosterInvAt
  <2>3. MutexInv'
    BY <1>0, <1>2, <2>1, GotoOne, MutexKept DEF CreateScoped, OthersKept, InSection
  <2> QED
    BY <2>1, <2>2, <2>3, PosterInvNext
<1>3. CASE CreateScopedLocked(s)
  <2>1. OthersKept(s)
    BY <1>0, <1>3, GotoOne DEF CreateScopedLocked, OthersKept
  <2>2. PosterInvAt(s)'
    BY <1>0, <1>3, GotoOne DEF CreateScopedLocked, PosterInvAt
  <2>3. MutexInv'
    <3>1. posterPc'[s] = "post" /\ \A t \in SubHals \ {s} : posterPc'[t] = posterPc[t]
      BY <1>3, GotoOne DEF CreateScopedLocked
    <3>2. writerPc' = writerPc
      BY <1>3 DEF CreateScopedLocked, eventVars
    <3> QED
      BY <1>0, <3>1, <3>2, MutexKept DEF InSection
  <2> QED
    BY <2>1, <2>2, <2>3, PosterInvNext
<1>4. CASE PostEvents(s)
  <2>1. OthersKept(s)
    BY <1>0, <1>4, GotoOne DEF PostEvents, OthersKept
  <2>2. PosterInvAt(s)'
    BY <1>0, <1>4, GotoOne DEF PostEvents, PosterInvAt
  <2>3. MutexInv'
    BY <1>0, <1>4, <2>1, GotoOne, MutexKept DEF PostEvents, OthersKept, InSection
  <2> QED
    BY <2>1, <2>2, <2>3, PosterInvNext
<1>5. CASE LockWriteMutex(s)
  <2>1. OthersKept(s)
    BY <1>0, <1>5, GotoOne DEF LockWriteMutex, OthersKept
  <2>2. PosterInvAt(s)'
    BY <1>0, <1>5, GotoOne DEF LockWriteMutex, PosterInvAt
  <2>3. MutexInv'
    BY <1>0, <1>5, <2>1, GotoOne, MutexKept DEF LockWriteMutex, OthersKept, InSection
  <2> QED
    BY <2>1, <2>2, <2>3, PosterInvNext
<1>6. CASE CountBatch(s)
  <2>1. OthersKept(s)
    BY <1>0, <1>6, GotoOne DEF CountBatch, OthersKept
  <2>2. PosterInvAt(s)'
    BY <1>0, <1>6, GotoOne DEF CountBatch, PosterInvAt
  <2>3. MutexInv'
    BY <1>0, <1>6, <2>1, GotoOne, MutexKept DEF CountBatch, OthersKept, InSection
  <2> QED
    BY <2>1, <2>2, <2>3, PosterInvNext
<1>7. CASE CountBatchLocked(s)
  <2>1. OthersKept(s)
    BY <1>0, <1>7, GotoOne DEF CountBatchLocked, OthersKept
  <2>2. PosterInvAt(s)'
    BY <1>0, <1>7, GotoOne DEF CountBatchLocked, PosterInvAt
  <2>3. MutexInv'
    BY <1>0, <1>7, <2>1, GotoOne, MutexKept DEF CountBatchLocked, OthersKept, InSection
  <2> QED
    BY <2>1, <2>2, <2>3, PosterInvNext
<1>8. CASE WriteEvents(s)
  <2>1. OthersKept(s)
    BY <1>0, <1>8, GotoOne DEF WriteEvents, OthersKept
  <2>2. PosterInvAt(s)'
    BY <1>0, <1>8, GotoOne DEF WriteEvents, PosterInvAt
  <2>3. MutexInv'
    BY <1>0, <1>8, <2>1, GotoOne, MutexKept DEF WriteEvents, OthersKept, InSection, WriteOrQueue, Notified
  <2> QED
    BY <2>1, <2>2, <2>3, PosterInvNext
<1>9. CASE ReleaseScoped(s)
  <2>1. OthersKept(s)
    BY <1>0, <1>9, GotoOne DEF ReleaseScoped, OthersKept
  <2>2. PosterInvAt(s)'
    BY <1>0, <1>9, GotoOne DEF ReleaseScoped, PosterInvAt
  <2>3. MutexInv'
    <3>1. posterPc'[s] = "idle" /\ writerPc' = writerPc
      BY <1>0, <1>9, GotoOne DEF ReleaseScoped
    <3>2. ~InSection(s)'
      BY <3>1 DEF InSection
    <3> QED
      BY <1>0, <2>1, <3>1, <3>2, MutexKept DEF OthersKept
  <2> QED
    BY <2>1, <2>2, <2>3, PosterInvNext
<1> QED
  BY <1>1, <1>2, <1>3, <1>4, <1>5, <1>6, <1>7, <1>8, <1>9 DEF PosterStep

-----------------------------------------------------------------------------
(***************************************************************************)
(* All other steps leave posting threads where they are.                   *)
(***************************************************************************)

LEMMA WriterStepInv ==
  ASSUME TypeInv, PosterInv,
         WriterStep \/ (WriterSpurious /\ UNCHANGED <<historyVars, proxyRest>>)
  PROVE  PosterInv'
<1> USE DEF proxyRest, posterVars, binderVars
<1>1. UNCHANGED <<posterPc, batch, enabled, binderPc>>
  BY DEF WriterStep
<1>2. threadsRun' = threadsRun /\ scoped' = scoped
  BY DEF WriterStep, WriterLocking, WriterCheck, WriterFinish, WriterBlock, WriterWriting, WriterWrite,
         WriterDropping, WriterDrop, WriterSpurious, wakelockVars
<1>3. ASSUME writerPc' = "blocking" PROVE \A s \in SubHals : ~InSection(s)
  BY <1>3 DEF WriterStep, WriterLocking, WriteMutexFree, WriterBlock, WriterWriting, WriterWrite,
              WriterDropping, WriterDrop, WriterSpurious
<1>4. binderPc' \in {"clear", "start", "spawn"} => \A s \in SubHals : ~enabled[s]
  BY <1>1 DEF PosterInv, QuietInv
<1> QED
  BY <1>1, <1>2, <1>3, <1>4, PosterInvKept DEF SameLocks

LEMMA WakelockStepInv ==
  ASSUME TypeInv, PosterInv,
         \/ WakelockStep
         \/ WakelockThreadSpurious /\ UNCHANGED <<eventVars, historyVars, proxyRest>>
         \/ Clock
  PROVE  PosterInv'
<1> USE DEF proxyRest, posterVars, binderVars, eventVars
<1>1. UNCHANGED <<posterPc, batch, enabled, binderPc, writerPc>>
  BY DEF WakelockStep, Clock
<1>2. threadsRun' = threadsRun
  BY DEF WakelockStep, Clock, Tick, WakelockThreadStep, WakelockThreadExit, WakelockThreadIdle,
         WakelockThreadBlock, WakelockThreadSpurious, WakelockThreadTimeout, WakelockThreadWait,
         WakelockThreadRead, WakelockThreadReadTimeout
<1>3. SameLocks
  <2>1. CASE ResetSharedWakelock
    BY <2>1, ResetSameLocks
  <2>2. CASE scoped' = scoped
    BY <2>2 DEF SameLocks
  <2>3. CASE Tick
    BY <2>3 DEF Tick, SameLocks, TypeInv, TypeOK, WakelockTypeOK, ScopedStates
  <2> QED
    BY <2>1, <2>2, <2>3
       DEF WakelockStep, Clock, WakelockThreadStep, WakelockThreadExit, WakelockThreadIdle,
           WakelockThreadBlock, WakelockThreadSpurious, WakelockThreadTimeout, WakelockThreadWait,
           WakelockThreadRead, WakelockThreadReadTimeout
<1>4. /\ binderPc' \in {"clear", "start", "spawn"} => \A s \in SubHals : ~enabled[s]
      /\ writerPc' = "blocking" => \A s \in SubHals : ~InSection(s)
  BY <1>1 DEF PosterInv, QuietInv, MutexInv
<1> QED
  BY <1>1, <1>2, <1>3, <1>4, PosterInvKept

LEMMA InitializeStepInv ==
  ASSUME TypeInv, PosterInv, InitializeBegin \/ InitializeStep
  PROVE  PosterInv'
<1> USE DEF binderRest, posterVars, eventVars, wakelockVars, Binder
<1>0. /\ binderPc \in {"clear", "start", "spawn"} =>
           \A s \in SubHals : ~enabled[s] /\ posterPc[s] = "idle"
      /\ writerPc = "blocking" => \A s \in SubHals : ~InSection(s)
  BY DEF PosterInv, QuietInv, MutexInv
<1>1. CASE InitializeBegin
  BY <1>0, <1>1, PosterInvKept DEF InitializeBegin, SameLocks
<1>2. CASE StopDrain \/ StopPoke \/ StopJoin \/ DisableAllSensorsDone \/ InitializeQueues
  BY <1>0, <1>2, PosterInvKept
     DEF StopDrain, StopPoke, StopJoin, DisableAllSensorsDone, InitializeQueues, SameLocks
<1>3. CASE StopNotifyWakelock \/ StopNotifyWriter
  BY <1>0, <1>3, PosterInvKept DEF StopNotifyWakelock, StopNotifyWriter, Notified, SameLocks
<1>4. CASE InitializeReset
  BY <1>0, <1>4, PosterInvKept, ResetSameLocks DEF InitializeReset
<1>5. ASSUME NEW s \in SubHals, DisableSensor(s) PROVE PosterInv'
  BY <1>5 DEF DisableSensor, Deactivate, PosterInv, TokenInv, StoppedInv, QuietInv, MutexInv,
              AssertionsHold, InSection, TypeInv, TypeOK
<1>6. CASE StartThreads
  BY <1>0, <1>6, PosterInvKept DEF StartThreads, SameLocks
<1>7. CASE SpawnThreads
  BY <1>0, <1>7, PosterInvKept DEF SpawnThreads, SameLocks
<1> QED
  BY <1>1, <1>2, <1>3, <1>4, <1>5, <1>6, <1>7 DEF InitializeStep

LEMMA FrameworkStepInv ==
  ASSUME TypeInv, PosterInv,
         (\E s \in SubHals : Activate(s)) \/ FrameworkRead \/ FrameworkAck
  PROVE  PosterInv'
<1> USE DEF binderRest, posterVars, binderVars, eventVars, wakelockVars
<1>0. /\ binderPc \in {"clear", "start", "spawn"} => \A s \in SubHals : ~enabled[s]
      /\ writerPc = "blocking" => \A s \in SubHals : ~InSection(s)
  BY DEF PosterInv, QuietInv, MutexInv
<1>1. ASSUME NEW s \in SubHals, Activate(s) PROVE PosterInv'
  BY <1>1 DEF Activate, Deactivate, PosterInv, TokenInv, StoppedInv, QuietInv, MutexInv,
              AssertionsHold, InSection, TypeInv, TypeOK
<1>2. CASE FrameworkRead \/ FrameworkAck
  BY <1>0, <1>2, PosterInvKept DEF FrameworkRead, FrameworkAck, SameLocks
<1> QED
  BY <1>1, <1>2

LEMMA PosterNext == TypeInv /\ PosterInv /\ [Next]_vars => PosterInv'
<1> SUFFICES ASSUME TypeInv, PosterInv, [Next]_vars PROVE PosterInv'
  OBVIOUS
<1>1. CASE Framework
  BY <1>1, InitializeStepInv, FrameworkStepInv, PosterStepInv DEF Framework
<1>2. CASE InitializeStep
  BY <1>2, InitializeStepInv
<1>3. CASE \E s \in SubHals : PosterStep(s)
  BY <1>3, PosterStepInv
<1>4. CASE WriterStep
  BY <1>4, WriterStepInv
<1>5. CASE WakelockStep \/ Clock
  BY <1>5, WakelockStepInv
<1>6. CASE SpuriousWakeup
  <2>1. CASE WriterSpurious /\ UNCHANGED <<historyVars, proxyRest>>
    BY <2>1, WriterStepInv
  <2>2. CASE WakelockThreadSpurious /\ UNCHANGED <<eventVars, historyVars, proxyRest>>
    BY <2>2, WakelockStepInv
  <2> QED
    BY <1>6, <2>1, <2>2 DEF SpuriousWakeup
<1>7. CASE UNCHANGED vars
  BY <1>7, PosterInvKept DEF vars, posterVars, binderVars, eventVars, wakelockVars, SameLocks,
                             PosterInv, QuietInv, MutexInv
<1> QED
  BY <1>1, <1>2, <1>3, <1>4, <1>5, <1>6, <1>7 DEF Next

LEMMA PosterInvariant == Spec => []PosterInv
<1>1. TypeInv /\ PosterInv /\ [Next]_vars => PosterInv'
  BY PosterNext
<1> QED
  BY <1>1, PosterInit, TypeInvariant, PTL DEF Spec

(***************************************************************************)
(* The assertions of postEvents hold: whenever a batch is on its way into  *)
(* the queues its ScopedWakelock is locked exactly if it has WAKE_UP       *)
(* events, also if the threads were stopped and started in between.        *)
(***************************************************************************)
THEOREM AssertionsAlwaysHold == Spec => []AssertionsHold
<1>1. PosterInv => AssertionsHold
  BY DEF PosterInv
<1> QED
  BY <1>1, PosterInvariant, PTL

(***************************************************************************)
(* The writer thread and the posting threads never write into the event    *)
(* FMQ at the same time: the posting threads are kept apart by the mutex,  *)
(* and from the writer, which has none, by the batch it leaves at the front*)
(* of the pending queue while it writes.                                   *)
(***************************************************************************)
THEOREM FmqHasOneWriter == Spec => []SingleFmqWriter
<1>1. TypeInv /\ PosterInv => SingleFmqWriter
  <2> SUFFICES ASSUME TypeInv, PosterInv PROVE SingleFmqWriter
    OBVIOUS
  <2>1. \A s, t \in SubHals : WritesDirectly(s) /\ WritesDirectly(t) => s = t
    BY DEF WritesDirectly, PosterInv, MutexInv, InSection
  <2>2. ASSUME writerPc = "writing", NEW s \in SubHals PROVE ~WritesDirectly(s)
    BY <2>2 DEF WritesDirectly, DirectWrite, TypeInv, WriterHasBatch
  <2> QED
    BY <2>1, <2>2 DEF SingleFmqWriter
<1> QED
  BY <1>1, TypeInvariant, PosterInvariant, PTL

-----------------------------------------------------------------------------
(***************************************************************************)
(* The wake lock.  HeldIffCounted is inductive given that the count only   *)
(* goes up by a positive number, which PosterInv provides.                 *)
(***************************************************************************)

LEMMA IncrementHeld ==
  ASSUME TypeInv, HeldIffCounted, NEW delta \in Nat, delta > 0, IncrementRefCount(delta)
  PROVE  HeldIffCounted'
<1>1. refCount \in Nat /\ refCount' = refCount + delta
  BY DEF TypeInv, TypeOK, WakelockTypeOK, IncrementRefCount
<1>2. refCount' > 0
  BY <1>1
<1>3. held \/ refCount = 0
  BY <1>1 DEF HeldIffCounted
<1>4. held' = TRUE
  BY <1>3, Zenon DEF IncrementRefCount
<1> QED
  BY <1>2, <1>4 DEF HeldIffCounted

LEMMA DecrementHeld ==
  ASSUME TypeInv, HeldIffCounted, NEW delta \in Nat, NEW stale, DecrementRefCount(delta, stale)
  PROVE  HeldIffCounted'
<1>1. refCount \in Nat /\ held \in BOOLEAN
  BY DEF TypeInv, TypeOK, WakelockTypeOK
<1>2. refCount' \in Nat
  BY DecrementType
<1>3. CASE ~threadsRun \/ refCount = 0 \/ stale
  <2>1. UNCHANGED <<refCount, held>>
    BY <1>3 DEF DecrementRefCount
  <2> QED
    BY <2>1 DEF HeldIffCounted
<1>4. CASE ~(~threadsRun \/ refCount = 0 \/ stale)
  <2>1. held = TRUE
    BY <1>1, <1>4 DEF HeldIffCounted
  <2>2. held' <=> refCount' # 0
    BY <1>4, <2>1, Zenon DEF DecrementRefCount
  <2>3. refCount' # 0 <=> refCount' > 0
    BY <1>2
  <2> QED
    BY <2>2, <2>3, Zenon DEF HeldIffCounted
<1> QED
  BY <1>3, <1>4

LEMMA ResetHeld ==
  ASSUME TypeInv, HeldIffCounted, ResetSharedWakelock PROVE HeldIffCounted'
<1>1. refCount \in Nat
  BY DEF TypeInv, TypeOK, WakelockTypeOK
<1> QED
  BY <1>1, DecrementHeld DEF ResetSharedWakelock

LEMMA HeldKept ==
  ASSUME HeldIffCounted, UNCHANGED <<held, refCount>> PROVE HeldIffCounted'
BY DEF HeldIffCounted

LEMMA HeldNext == TypeInv /\ PosterInv /\ HeldIffCounted /\ [Next]_vars => HeldIffCounted'
<1> SUFFICES ASSUME TypeInv, PosterInv, HeldIffCounted, [Next]_vars PROVE HeldIffCounted'
  OBVIOUS
<1> USE DEF wakelockVars
<1>1. ASSUME NEW s \in SubHals, PosterStep(s) PROVE HeldIffCounted'
  <2>1. CASE CreateScopedLocked(s)
    BY <2>1, IncrementHeld DEF CreateScopedLocked
  <2>2. CASE CountBatchLocked(s)
    <3>1. batch[s] \in Seq(BOOLEAN)
      BY DEF TypeInv, TypeOK
    <3>2. NumWakeups(batch[s]) \in Nat /\ NumWakeups(batch[s]) > 0
      BY <2>2, <3>1, NumWakeupsIsNat DEF CountBatchLocked, PosterInv, TokenInv
    <3> QED
      BY <2>2, <3>2, IncrementHeld DEF CountBatchLocked
  <2>3. CASE ReleaseScoped(s)
    BY <2>3, HeldKept, DecrementHeld DEF ReleaseScoped
  <2>4. CASE CreateScoped(s) \/ PostEvents(s) \/ LockWriteMutex(s) \/ CountBatch(s) \/ WriteEvents(s)
    BY <2>4, HeldKept DEF CreateScoped, PostEvents, LockWriteMutex, CountBatch, WriteEvents
  <2> QED
    BY <1>1, <2>1, <2>2, <2>3, <2>4 DEF PosterStep
<1>2. CASE WriterStep
  <2>1. CASE WriterDropping
    BY <2>1, DropCountIsNat, DecrementHeld DEF WriterDropping, WriterDrop
  <2>2. CASE WriterLocking \/ WriterBlock \/ WriterWriting
    BY <2>2, HeldKept DEF WriterLocking, WriterCheck, WriterFinish, WriterBlock, WriterWriting, WriterWrite
  <2> QED
    BY <1>2, <2>1, <2>2 DEF WriterStep
<1>3. CASE WakelockStep
  <2>1. CASE WakelockThreadRead
    <3>1. Head(wakeQueue) \in Nat
      BY <2>1 DEF WakelockThreadRead, TypeInv, TypeOK, WakelockTypeOK
    <3> QED
      BY <2>1, <3>1, DecrementHeld DEF WakelockThreadRead
  <2>2. CASE WakelockThreadExit \/ WakelockThreadTimeout
    BY <2>2, ResetHeld DEF WakelockThreadExit, WakelockThreadTimeout
  <2>3. CASE WakelockThreadIdle \/ WakelockThreadBlock \/ WakelockThreadWait \/ WakelockThreadReadTimeout
    BY <2>3, HeldKept DEF WakelockThreadIdle, WakelockThreadBlock, WakelockThreadWait,
                          WakelockThreadReadTimeout
  <2> QED
    BY <1>3, <2>1, <2>2, <2>3 DEF WakelockStep, WakelockThreadStep
<1>4. CASE SpuriousWakeup \/ Clock
  BY <1>4, HeldKept DEF SpuriousWakeup, Clock, WriterSpurious, WakelockThreadSpurious, Tick
<1>5. CASE InitializeStep
  <2>1. CASE InitializeReset
    BY <2>1, ResetHeld DEF InitializeReset
  <2>2. ASSUME NEW s \in SubHals, DisableSensor(s) PROVE HeldIffCounted'
    BY <2>2, HeldKept DEF DisableSensor
  <2>3. CASE \/ StopDrain \/ StopPoke \/ StopNotifyWakelock \/ StopNotifyWriter \/ StopJoin
             \/ DisableAllSensorsDone \/ InitializeQueues \/ StartThreads \/ SpawnThreads
    BY <2>3, HeldKept DEF StopDrain, StopPoke, StopNotifyWakelock, StopNotifyWriter, StopJoin,
       DisableAllSensorsDone, InitializeQueues, StartThreads, SpawnThreads
  <2> QED
    BY <1>5, <2>1, <2>2, <2>3 DEF InitializeStep
<1>6. CASE Framework
  BY <1>6, HeldKept DEF Framework, InitializeBegin, Activate, PostBegin, FrameworkRead, FrameworkAck
<1>7. CASE UNCHANGED vars
  BY <1>7, HeldKept DEF vars
<1> QED
  BY <1>1, <1>2, <1>3, <1>4, <1>5, <1>6, <1>7 DEF Next

(***************************************************************************)
(* The kernel's wake lock is held exactly while the reference count is     *)
(* positive, so that no release is lost and none comes too early for the   *)
(* count, over all interleavings of posting, drop, report, timeout, stop   *)
(* and restart.                                                            *)
(***************************************************************************)
THEOREM WakeLockHeldIffCounted == Spec => []HeldIffCounted
<1>1. Init => HeldIffCounted
  BY DEF Init, WakelockInit, HeldIffCounted
<1>2. TypeInv /\ PosterInv /\ HeldIffCounted /\ [Next]_vars => HeldIffCounted'
  BY HeldNext
<1> QED
  BY <1>1, <1>2, TypeInvariant, PosterInvariant, PTL DEF Spec

-----------------------------------------------------------------------------
(***************************************************************************)
(* What initialize finds when it clears the queues.                        *)
(***************************************************************************)

\* Between the joins and the start of the threads there are none, and the new
\* queues stay empty until the threads start.
JoinedInv ==
  /\ binderPc \in {"reset", "disable", "clear", "start", "spawn"} =>
       {writerPc, wakelockPc} \subseteq {"off", "exited"}
  /\ binderPc \in {"start", "spawn"} => eventQueue = <<>> /\ pending = <<>> /\ wakeQueue = <<>>

LEMMA JoinedByPosters ==
  ASSUME PosterInv, JoinedInv, NEW s \in SubHals, PosterStep(s)
  PROVE  JoinedInv'
<1> USE DEF posterRest, binderVars, eventVars, wakelockVars
<1>1. binderPc' = binderPc
  BY DEF PosterStep, CreateScoped, CreateScopedLocked, PostEvents, LockWriteMutex, CountBatch,
         CountBatchLocked, WriteEvents, ReleaseScoped
<1>2. wakeQueue' = wakeQueue
  BY DEF PosterStep, CreateScoped, CreateScopedLocked, PostEvents, LockWriteMutex, CountBatch,
         CountBatchLocked, WriteEvents, ReleaseScoped
<1>3. wakelockPc' = wakelockPc \/ wakelockPc = "blocked"
  BY DEF PosterStep, CreateScoped, CreateScopedLocked, PostEvents, LockWriteMutex, CountBatch,
         CountBatchLocked, WriteEvents, ReleaseScoped, IncrementRefCount, Notified
<1>4. writerPc' = writerPc \/ writerPc = "blocked"
  BY DEF PosterStep, CreateScoped, CreateScopedLocked, PostEvents, LockWriteMutex, CountBatch,
         CountBatchLocked, WriteEvents, ReleaseScoped, WriteOrQueue, Notified
<1>5. UNCHANGED <<eventQueue, pending>> \/ posterPc[s] = "write"
  BY DEF PosterStep, CreateScoped, CreateScopedLocked, PostEvents, LockWriteMutex, CountBatch,
         CountBatchLocked, WriteEvents, ReleaseScoped
<1>6. binderPc \in {"start", "spawn"} => posterPc[s] = "idle"
  BY DEF PosterInv, QuietInv
<1> QED
  BY <1>1, <1>2, <1>3, <1>4, <1>5, <1>6 DEF JoinedInv

LEMMA JoinedByThreads ==
  ASSUME JoinedInv, WriterStep \/ WakelockStep \/ SpuriousWakeup \/ Clock
  PROVE  JoinedInv'
<1> USE DEF proxyRest, binderVars, eventVars, wakelockVars
<1>1. binderPc' = binderPc
  BY DEF WriterStep, WakelockStep, SpuriousWakeup, Clock
<1>2. CASE WriterStep
  BY <1>1, <1>2 DEF JoinedInv, WriterStep, WriterLocking, WriterCheck, WriterFinish, WriterBlock,
                    WriterWriting, WriterWrite, WriterDropping, WriterDrop
<1>3. CASE WakelockStep
  <2>1. /\ wakelockPc \notin {"off", "exited"}
        /\ UNCHANGED eventVars
        /\ wakeQueue' = wakeQueue \/ wakeQueue # <<>>
    BY <1>3 DEF WakelockStep, WakelockThreadStep, WakelockThreadExit, WakelockThreadIdle,
                WakelockThreadBlock, WakelockThreadTimeout, WakelockThreadWait, WakelockThreadRead,
                WakelockThreadReadTimeout
  <2> QED
    BY <1>1, <2>1 DEF JoinedInv
<1>4. CASE SpuriousWakeup
  BY <1>1, <1>4 DEF JoinedInv, SpuriousWakeup, WriterSpurious, WakelockThreadSpurious
<1>5. CASE Clock
  BY <1>1, <1>5 DEF JoinedInv, Clock, Tick
<1> QED
  BY <1>2, <1>3, <1>4, <1>5

LEMMA JoinedByInitialize == ASSUME JoinedInv, InitializeStep PROVE JoinedInv'
<1> USE DEF JoinedInv, Binder, binderRest, eventVars, wakelockVars
<1>1. CASE StopDrain \/ StopPoke
  BY <1>1 DEF StopDrain, StopPoke
<1>2. CASE StopNotifyWakelock \/ StopNotifyWriter
  BY <1>2 DEF StopNotifyWakelock, StopNotifyWriter
<1>3. CASE StopJoin
  BY <1>3 DEF StopJoin
<1>4. CASE InitializeReset
  BY <1>4 DEF InitializeReset
<1>5. ASSUME NEW s \in SubHals, DisableSensor(s) PROVE JoinedInv'
  BY <1>5 DEF DisableSensor
<1>6. CASE DisableAllSensorsDone
  BY <1>6 DEF DisableAllSensorsDone
<1>7. CASE InitializeQueues
  BY <1>7 DEF InitializeQueues
<1>8. CASE StartThreads \/ SpawnThreads
  BY <1>8 DEF StartThreads, SpawnThreads
<1> QED
  BY <1>1, <1>2, <1>3, <1>4, <1>5, <1>6, <1>7, <1>8 DEF InitializeStep

LEMMA JoinedByFramework == ASSUME JoinedInv, Framework PROVE JoinedInv'
<1> USE DEF JoinedInv, Binder, binderRest, binderVars, eventVars, wakelockVars
<1>1. CASE InitializeBegin
  BY <1>1 DEF InitializeBegin
<1>2. ASSUME NEW s \in SubHals, Activate(s) \/ PostBegin(s) PROVE JoinedInv'
  BY <1>2 DEF Activate, PostBegin
<1>3. CASE FrameworkRead \/ FrameworkAck
  BY <1>3 DEF FrameworkRead, FrameworkAck
<1> QED
  BY <1>1, <1>2, <1>3 DEF Framework

LEMMA JoinedNext == PosterInv /\ JoinedInv /\ [Next]_vars => JoinedInv'
<1> SUFFICES ASSUME PosterInv, JoinedInv, [Next]_vars PROVE JoinedInv'
  OBVIOUS
<1>1. CASE UNCHANGED vars
  BY <1>1 DEF vars, JoinedInv, binderVars, eventVars, wakelockVars
<1> QED
  BY <1>1, JoinedByPosters, JoinedByThreads, JoinedByInitialize, JoinedByFramework DEF Next

LEMMA NothingInTransit ==
  ASSUME eventQueue = <<>>, pending = <<>> PROVE InTransit = <<>>
<1> DEFINE rest == [i \in DOMAIN pending |-> pending[i].events]
<1>1. rest = <<>>
  OBVIOUS
<1>2. FlattenSeq(rest) = <<>>
  BY <1>1 DEF FlattenSeq
<1>3. NotYetWritten = <<>>
  BY <1>2 DEF NotYetWritten
<1> QED
  BY <1>3 DEF InTransit

(***************************************************************************)
(* The comment in initializeCommon holds: the queues are cleared when no   *)
(* thread of the proxy runs and no sub-HAL is in a call, and no event gets *)
(* into them before the threads start again, whenever initialize comes.    *)
(***************************************************************************)
THEOREM QueuesClearedSafely == Spec => []ClearedSafely
<1>1. Init => JoinedInv
  BY DEF Init, JoinedInv
<1>2. PosterInv /\ JoinedInv /\ [Next]_vars => JoinedInv'
  BY JoinedNext
<1>3. PosterInv /\ JoinedInv => ClearedSafely
  BY NothingInTransit DEF PosterInv, QuietInv, JoinedInv, ClearedSafely
<1> QED
  BY <1>1, <1>2, <1>3, PosterInvariant, PTL DEF Spec
=============================================================================
