------------------------------ MODULE HalProxy ------------------------------
(***************************************************************************)
(* The multi-HAL proxy of sensors/HalProxy.cpp as a concurrent program.    *)
(* Its threads are                                                         *)
(*   - one posting thread per sub-HAL, in HalProxyCallbackBase::postEvents *)
(*     and HalProxy::postEventsToMessageQueue;                             *)
(*   - mPendingWritesThread and mWakelockThread, see the modules           *)
(*     EventQueue and Wakelock;                                            *)
(*   - the single binder thread of service.cpp, which runs the calls of    *)
(*     the framework one after the other: activate, and initialize, which  *)
(*     a restarted framework calls again on the living service.            *)
(* The framework itself reads the event FMQ and writes the wake lock FMQ.  *)
(*                                                                         *)
(* What is not in this tree is modelled from how this code uses it:        *)
(*   - a sub-HAL asks for a locked ScopedWakelock exactly for the batches  *)
(*     with a WAKE_UP event, which the ALOG_ASSERTs of postEvents demand;  *)
(*   - activate(handle, false) of a sub-HAL returns when its posting thread*)
(*     is out of postEvents.  initializeCommon needs it: it clears queues  *)
(*     without mEventQueueWriteMutex after disableAllSensors.              *)
(***************************************************************************)
EXTENDS EventQueue, SequencesExt

CONSTANTS
  Batches,      \* the batches sub-HALs post: for each event, is it WAKE_UP?
  MaxPosts,     \* bound: calls of postEvents
  MaxInits      \* bound: calls of initialize

ASSUME HalProxyAssumption ==
  /\ IsFiniteSet(Batches)
  /\ \A b \in Batches : b \in Seq(BOOLEAN)
  /\ MaxPosts \in Nat
  /\ MaxInits \in Nat

VARIABLES
  posterPc,     \* where each sub-HAL's thread is in its postEvents call
  batch,        \* the events argument of that call
  enabled,      \* whether the sub-HAL has an active sensor
  binderPc,     \* where the binder thread is in initialize
  unacked,      \* WAKE_UP events the framework has read and not yet reported
  lastRead,     \* history: position of the last event the framework read
  nextStamp,    \* history: position of the next event to be posted
  posts, inits, \* how often postEvents and initialize were called
  timedOut,     \* history: the wake lock timed out since initialize
  overDropped,  \* history: a drop gave up more than the dropped chunk's count
  missed        \* history: stopThreads notified a thread about to block

posterVars == <<posterPc, batch, posts>>
frameworkVars == <<unacked, lastRead>>
historyVars == <<timedOut, overDropped, missed>>
binderVars == <<enabled, binderPc, inits>>

vars == <<wakelockVars, eventVars, posterVars, binderVars, frameworkVars,
          nextStamp, historyVars>>

PosterPcs ==
  {"idle", "create", "createLocked", "post", "lock", "inc", "incLocked", "write", "release"}

BinderPcs ==
  {"idle", "drain", "poke", "notifyWakelock", "notifyWriter", "join", "reset",
   "disable", "clear", "start", "spawn"}

TypeOK ==
  /\ WakelockTypeOK
  /\ EventQueueTypeOK
  /\ posterPc \in [SubHals -> PosterPcs]
  /\ batch \in [SubHals -> Seq(BOOLEAN)]
  /\ enabled \in [SubHals -> BOOLEAN]
  /\ binderPc \in BinderPcs
  /\ unacked \in Nat
  /\ lastRead \in Nat
  /\ nextStamp \in Nat
  /\ posts \in Nat
  /\ inits \in Nat
  /\ timedOut \in BOOLEAN
  /\ overDropped \in BOOLEAN
  /\ missed \in BOOLEAN

Init ==
  /\ WakelockInit
  /\ EventQueueInit
  /\ posterPc = [s \in SubHals |-> "idle"]
  /\ batch = [s \in SubHals |-> <<>>]
  /\ enabled = [s \in SubHals |-> FALSE]
  /\ binderPc = "idle"
  /\ unacked = 0
  /\ lastRead = 0
  /\ nextStamp = 1
  /\ posts = 0
  /\ inits = 0
  /\ timedOut = FALSE
  /\ overDropped = FALSE
  /\ missed = FALSE

\* mEventQueueFlag # nullptr: initialize has been here before.
Initialized == writerPc # "off"

-----------------------------------------------------------------------------
(***************************************************************************)
(* A sub-HAL's posting thread.                                             *)
(***************************************************************************)

\* The WAKE_UP events processEvents counts.
NumWakeups(flags) == Cardinality({i \in 1 .. Len(flags) : flags[i]})

InSection(s) == posterPc[s] \in {"inc", "incLocked", "write"}

WriteMutexFree == writerPc # "blocking" /\ \A s \in SubHals : ~InSection(s)

Goto(s, pc) == posterPc' = [posterPc EXCEPT ![s] = pc]

posterRest == <<batch, posts, binderVars, frameworkVars, historyVars>>

\* The sub-HAL has a batch to post: first createScopedWakelock, then postEvents.
PostBegin(s) ==
  /\ posterPc[s] = "idle"
  /\ enabled[s]
  /\ posts < MaxPosts
  /\ posts' = posts + 1
  /\ \E b \in Batches :
       /\ batch' = [batch EXCEPT ![s] = b]
       /\ Goto(s, IF NumWakeups(b) > 0 THEN "create" ELSE "post")
  /\ UNCHANGED <<wakelockVars, eventVars, binderVars, frameworkVars, nextStamp, historyVars>>

\* The ScopedWakelock's constructor: count 1, unless the threads are stopped.
CreateScoped(s) ==
  /\ posterPc[s] = "create"
  /\ Goto(s, IF threadsRun THEN "createLocked" ELSE "post")
  /\ UNCHANGED <<wakelockVars, eventVars, nextStamp, posterRest>>

CreateScopedLocked(s) ==
  /\ posterPc[s] = "createLocked"
  /\ IncrementRefCount(1)
  /\ scoped' = [scoped EXCEPT ![s] = "now"]
  /\ Goto(s, "post")
  /\ UNCHANGED <<threadsRun, wakeQueue, eventVars, nextStamp, posterRest>>

\* postEvents ignores empty batches and, while the threads are stopped, all.
PostEvents(s) ==
  /\ posterPc[s] = "post"
  /\ Goto(s, IF batch[s] = <<>> \/ ~threadsRun THEN "release" ELSE "lock")
  /\ UNCHANGED <<wakelockVars, eventVars, nextStamp, posterRest>>

\* postEventsToMessageQueue takes mEventQueueWriteMutex.
LockWriteMutex(s) ==
  /\ posterPc[s] = "lock"
  /\ WriteMutexFree
  /\ Goto(s, IF scoped[s] # "none" THEN "inc" ELSE "write")
  /\ UNCHANGED <<wakelockVars, eventVars, nextStamp, posterRest>>

\* incrementRefCountAndMaybeAcquireWakelock tests mThreadsRun ...
CountBatch(s) ==
  /\ posterPc[s] = "inc"
  /\ Goto(s, IF threadsRun THEN "incLocked" ELSE "write")
  /\ UNCHANGED <<wakelockVars, eventVars, nextStamp, posterRest>>

\* Mutant: the batch counts as one event.
CountBatchOnce(s) ==
  /\ posterPc[s] = "incLocked"
  /\ IncrementRefCount(1)
  /\ Goto(s, "write")
  /\ UNCHANGED <<threadsRun, scoped, wakeQueue, eventVars, nextStamp, posterRest>>

\* ... and then takes mWakelockMutex.
CountBatchLocked(s) ==
  /\ posterPc[s] = "incLocked"
  /\ IncrementRefCount(NumWakeups(batch[s]))
  /\ Goto(s, "write")
  /\ UNCHANGED <<threadsRun, scoped, wakeQueue, eventVars, nextStamp, posterRest>>

\* The events of a call, in the order in which they get hold of the queues.
Stamped(flags) ==
  [i \in 1 .. Len(flags) |-> [stamp |-> nextStamp + i - 1, wake |-> flags[i]]]

\* Write or queue the events, and return, which frees the mutex.
WriteEvents(s) ==
  /\ posterPc[s] = "write"
  /\ WriteOrQueue(Stamped(batch[s]), NumWakeups(batch[s]))
  /\ nextStamp' = nextStamp + Len(batch[s])
  /\ Goto(s, "release")
  /\ UNCHANGED <<wakelockVars, posterRest>>

\* The ScopedWakelock's destructor gives its count of 1 back.
ReleaseScoped(s) ==
  /\ posterPc[s] = "release"
  /\ IF scoped[s] = "none"
       THEN UNCHANGED <<refCount, held, scoped>>
       ELSE /\ DecrementRefCount(1, scoped[s] = "stale")
            /\ scoped' = [scoped EXCEPT ![s] = "none"]
  /\ batch' = [batch EXCEPT ![s] = <<>>]
  /\ Goto(s, "idle")
  /\ UNCHANGED <<threadsRun, elapsed, wakeQueue, wakelockPc, eventVars, nextStamp,
                 posts, binderVars, frameworkVars, historyVars>>

PosterStep(s) ==
  \/ CreateScoped(s) \/ CreateScopedLocked(s) \/ PostEvents(s) \/ LockWriteMutex(s)
  \/ CountBatch(s) \/ CountBatchLocked(s) \/ WriteEvents(s) \/ ReleaseScoped(s)

-----------------------------------------------------------------------------
(***************************************************************************)
(* The two threads of HalProxy.  The writer needs mEventQueueWriteMutex to *)
(* get to the head of its loop.                                            *)
(***************************************************************************)

proxyRest == <<posterVars, binderVars, frameworkVars, nextStamp>>

WriterLocking == WriteMutexFree /\ (WriterCheck \/ WriterFinish) /\ UNCHANGED historyVars

WriterWriting == WriterWrite /\ UNCHANGED historyVars

WriterDropping ==
  /\ WriterDrop
  /\ overDropped' = (overDropped \/ DropCount > CountNumWakeupEvents(FrontBatch.events, Chunk))
  /\ UNCHANGED <<timedOut, missed>>

WriterStep ==
  /\ \/ WriterLocking
     \/ WriterBlock /\ UNCHANGED historyVars
     \/ WriterWriting
     \/ WriterDropping
  /\ UNCHANGED proxyRest

WakelockStep ==
  /\ WakelockThreadStep
  /\ timedOut' = (timedOut \/ (wakelockPc = "check" /\ threadsRun /\ refCount > 0 /\ DidTimeout))
  /\ UNCHANGED <<eventVars, overDropped, missed, proxyRest>>

\* Wake-ups of either thread that nobody asked for.
SpuriousWakeup ==
  /\ \/ WriterSpurious
     \/ WakelockThreadSpurious /\ UNCHANGED eventVars
  /\ UNCHANGED <<historyVars, proxyRest>>

Clock ==
  /\ Tick
  /\ UNCHANGED <<eventVars, historyVars, proxyRest>>

-----------------------------------------------------------------------------
(***************************************************************************)
(* initialize, on the binder thread: stopThreads (up to "join"),           *)
(* resetSharedWakelock, disableAllSensors, and the rest of                 *)
(* initializeCommon.  Its failures (no event flag, a sub-HAL's error) only *)
(* change the result it returns.                                           *)
(***************************************************************************)

Binder(from, to) == binderPc = from /\ binderPc' = to

binderRest == <<posterVars, nextStamp>>

\* mThreadsRun is cleared without holding either mutex.
InitializeBegin ==
  /\ Binder("idle", "drain")
  /\ inits < MaxInits
  /\ inits' = inits + 1
  /\ threadsRun' = FALSE
  /\ UNCHANGED <<refCount, held, elapsed, scoped, wakeQueue, wakelockPc, eventVars,
                 enabled, frameworkVars, historyVars, binderRest>>

\* Read all events to make room for the writer.
StopDrain ==
  /\ Binder("drain", "poke")
  /\ eventQueue' = IF Initialized THEN <<>> ELSE eventQueue
  /\ UNCHANGED <<wakelockVars, pending, sizePending, writerPc,
                 enabled, inits, frameworkVars, historyVars, binderRest>>

\* Write a zero for the wake lock thread; the write fails on a full queue.
StopPoke ==
  /\ Binder("poke", "notifyWakelock")
  /\ wakeQueue' =
       IF Initialized /\ Len(wakeQueue) < WakeQueueSize THEN Append(wakeQueue, 0) ELSE wakeQueue
  /\ UNCHANGED <<threadsRun, refCount, held, elapsed, scoped, wakelockPc, eventVars,
                 enabled, inits, frameworkVars, historyVars, binderRest>>

StopNotifyWakelock ==
  /\ Binder("notifyWakelock", "notifyWriter")
  /\ wakelockPc' = Notified(wakelockPc)
  /\ missed' = (missed \/ wakelockPc = "blocking")
  /\ UNCHANGED <<threadsRun, refCount, held, elapsed, scoped, wakeQueue, eventVars,
                 enabled, inits, frameworkVars, timedOut, overDropped, binderRest>>

\* Mutant: the writer thread is not told to stop.
StopWithoutNotify ==
  /\ Binder("notifyWriter", "join")
  /\ UNCHANGED <<wakelockVars, eventVars,
                 enabled, inits, frameworkVars, historyVars, binderRest>>

StopNotifyWriter ==
  /\ Binder("notifyWriter", "join")
  /\ writerPc' = Notified(writerPc)
  /\ missed' = (missed \/ writerPc = "blocking")
  /\ UNCHANGED <<wakelockVars, eventQueue, pending, sizePending,
                 enabled, inits, frameworkVars, timedOut, overDropped, binderRest>>

\* Mutant: the writer thread is not joined.
StopJoinWakelockOnly ==
  /\ Binder("join", "reset")
  /\ wakelockPc \in {"off", "exited"}
  /\ UNCHANGED <<wakelockVars, eventVars,
                 enabled, inits, frameworkVars, historyVars, binderRest>>

\* Join both threads, if there are any.
StopJoin ==
  /\ Binder("join", "reset")
  /\ writerPc \in {"off", "exited"}
  /\ wakelockPc \in {"off", "exited"}
  /\ UNCHANGED <<wakelockVars, eventVars,
                 enabled, inits, frameworkVars, historyVars, binderRest>>

InitializeReset ==
  /\ Binder("reset", "disable")
  /\ ResetSharedWakelock
  /\ UNCHANGED <<threadsRun, elapsed, wakeQueue, wakelockPc, eventVars,
                 enabled, inits, frameworkVars, historyVars, binderRest>>

\* The call of a sub-HAL's activate(handle, false), see above.
Deactivate(s) ==
  /\ posterPc[s] = "idle"
  /\ enabled' = [enabled EXCEPT ![s] = FALSE]

DisableSensor(s) ==
  /\ binderPc = "disable"
  /\ enabled[s]
  /\ Deactivate(s)
  /\ UNCHANGED <<wakelockVars, eventVars,
                 binderPc, inits, frameworkVars, historyVars, binderRest>>

\* Mutant: initialize goes on with sensors active.
DisableNoSensors ==
  /\ Binder("disable", "clear")
  /\ UNCHANGED <<wakelockVars, eventVars,
                 enabled, inits, frameworkVars, historyVars, binderRest>>

DisableAllSensorsDone ==
  /\ Binder("disable", "clear")
  /\ \A s \in SubHals : ~enabled[s]
  /\ UNCHANGED <<wakelockVars, eventVars,
                 enabled, inits, frameworkVars, historyVars, binderRest>>

\* Clear the pending queue and take the new, empty FMQs of a new framework.
InitializeQueues ==
  /\ Binder("clear", "start")
  /\ pending' = <<>>
  /\ sizePending' = 0
  /\ eventQueue' = <<>>
  /\ wakeQueue' = <<>>
  /\ unacked' = 0
  /\ timedOut' = FALSE
  /\ overDropped' = FALSE
  /\ missed' = FALSE
  /\ UNCHANGED <<threadsRun, refCount, held, elapsed, scoped, wakelockPc, writerPc,
                 enabled, inits, lastRead, binderRest>>

StartThreads ==
  /\ Binder("start", "spawn")
  /\ threadsRun' = TRUE
  /\ UNCHANGED <<refCount, held, elapsed, scoped, wakeQueue, wakelockPc, eventVars,
                 enabled, inits, frameworkVars, historyVars, binderRest>>

\* Both threads start; the sub-HALs' initialize leaves all sensors inactive.
SpawnThreads ==
  /\ Binder("spawn", "idle")
  /\ writerPc' = "check"
  /\ wakelockPc' = "check"
  /\ UNCHANGED <<threadsRun, refCount, held, elapsed, scoped, wakeQueue,
                 eventQueue, pending, sizePending,
                 enabled, inits, frameworkVars, historyVars, binderRest>>

InitializeStep ==
  \/ StopDrain \/ StopPoke \/ StopNotifyWakelock \/ StopNotifyWriter \/ StopJoin
  \/ InitializeReset
  \/ \E s \in SubHals : DisableSensor(s)
  \/ DisableAllSensorsDone \/ InitializeQueues \/ StartThreads \/ SpawnThreads

-----------------------------------------------------------------------------
(***************************************************************************)
(* The framework: activate calls between calls of initialize, reads of the *)
(* event FMQ, and reports of handled WAKE_UP events.                       *)
(***************************************************************************)

Activate(s) ==
  /\ binderPc = "idle"
  /\ Initialized
  /\ \/ ~enabled[s] /\ enabled' = [enabled EXCEPT ![s] = TRUE]
     \/ enabled[s] /\ Deactivate(s)
  /\ UNCHANGED <<wakelockVars, eventVars,
                 binderPc, inits, frameworkVars, historyVars, binderRest>>

FrameworkRead ==
  /\ binderPc = "idle"
  /\ \E n \in 1 .. Len(eventQueue) :
       /\ eventQueue' = SubSeq(eventQueue, n + 1, Len(eventQueue))
       /\ unacked' = unacked + CountNumWakeupEvents(eventQueue, n)
       /\ lastRead' = eventQueue[n].stamp
  /\ UNCHANGED <<wakelockVars, pending, sizePending, writerPc,
                 binderVars, historyVars, binderRest>>

\* A report that does not fit into the wake lock FMQ is lost.
FrameworkAck ==
  /\ binderPc = "idle"
  /\ \E n \in 1 .. unacked :
       /\ unacked' = unacked - n
       /\ wakeQueue' =
            IF Len(wakeQueue) < WakeQueueSize THEN Append(wakeQueue, n) ELSE wakeQueue
  /\ UNCHANGED <<threadsRun, refCount, held, elapsed, scoped, wakelockPc, eventVars,
                 lastRead, binderVars, historyVars, binderRest>>

Framework ==
  \/ InitializeBegin
  \/ \E s \in SubHals : Activate(s) \/ PostBegin(s)
  \/ FrameworkRead
  \/ FrameworkAck

-----------------------------------------------------------------------------

Next ==
  \/ Framework
  \/ InitializeStep
  \/ \E s \in SubHals : PosterStep(s)
  \/ WriterStep
  \/ WakelockStep
  \/ SpuriousWakeup
  \/ Clock

Spec == Init /\ [][Next]_vars

-----------------------------------------------------------------------------
(***************************************************************************)
(* Safety.                                                                 *)
(***************************************************************************)

(***************************************************************************)
(* The kernel wake lock is held exactly while the reference count is       *)
(* positive: acquire_wake_lock and release_wake_lock never get out of step *)
(* with mWakelockRefCount, whichever threads count up and down and         *)
(* whatever timeout, stop or restart comes between.                        *)
(***************************************************************************)
HeldIffCounted == held <=> refCount > 0

\* A posting thread that writes into the event FMQ, not only the pending queue.
WritesDirectly(s) == posterPc[s] = "write" /\ DirectWrite(batch[s]) > 0

(***************************************************************************)
(* The event FMQ has room for one writer only.  The writer thread writes   *)
(* without mEventQueueWriteMutex, posting threads with it, and yet no two  *)
(* of them are ever writing into the FMQ at once.                          *)
(***************************************************************************)
SingleFmqWriter ==
  /\ \A s, t \in SubHals : WritesDirectly(s) /\ WritesDirectly(t) => s = t
  /\ writerPc = "writing" => \A s \in SubHals : ~WritesDirectly(s)

\* The pending events that are not in the FMQ or dropped yet: between its
\* write and the removal of what it wrote, the writer's chunk is in both.
NotYetWritten ==
  LET rest == [i \in DOMAIN pending |-> pending[i].events]
  IN IF writerPc = "finish" /\ pending # <<>>
       THEN SubSeq(FrontBatch.events, Chunk + 1, Len(FrontBatch.events)) \o FlattenSeq(Tail(rest))
       ELSE FlattenSeq(rest)

\* What is on its way to the framework, in the order in which it will get it.
InTransit == eventQueue \o NotYetWritten

(***************************************************************************)
(* The framework sees events in the order in which they were posted: what  *)
(* is in transit is in order, and later than what was read, although       *)
(* posting threads overtake the pending queue when it is empty.            *)
(***************************************************************************)
InOrder ==
  /\ \A i \in 1 .. Len(InTransit) - 1 : InTransit[i].stamp < InTransit[i + 1].stamp
  /\ \A i \in 1 .. Len(InTransit) : lastRead < InTransit[i].stamp

\* The event path as a FIFO that may lose events: see LossyFifo.
Fifo == INSTANCE LossyFifo WITH
  transit <- [i \in 1 .. Len(InTransit) |-> InTransit[i].stamp],
  last <- lastRead,
  next <- nextStamp,
  running <- threadsRun,
  FmqSize <- QueueSize,
  Limit <- MaxPending,
  LargestBatch <- Max({Len(b) : b \in Batches})

(***************************************************************************)
(* The event path implements that FIFO: no event overtakes another or is   *)
(* read twice, none is lost while there is room for it and the framework   *)
(* reads, and none survives a restart - although an event the writer is    *)
(* moving is in both queues for a while, and in neither of them is the     *)
(* end of a batch that was cut off.                                        *)
(***************************************************************************)
ImplementsLossyFifo == Fifo!Spec

(***************************************************************************)
(* mSizePendingWriteEventsQueue counts the pending events, so that the     *)
(* unsigned subtraction of handlePendingWrites never wraps, and keeps      *)
(* their number within its limit.                                          *)
(***************************************************************************)
SizeAccounting ==
  /\ sizePending = Len(FlattenSeq([i \in DOMAIN pending |-> pending[i].events]))
  /\ sizePending <= MaxPending

WakeupsIn(events) == CountNumWakeupEvents(events, Len(events))

LiveTokens == {s \in SubHals : scoped[s] # "none"}

(***************************************************************************)
(* While the threads run the reference count covers everything that still  *)
(* has to keep the device awake: WAKE_UP events in transit, read but not   *)
(* reported, or reported but not counted down yet, and ScopedWakelocks.    *)
(* Two things break it by design or by an over-count: a wake lock timeout, *)
(* and the drop of the rest of a batch some events of which were written.  *)
(***************************************************************************)
CountCoversOutstanding ==
  threadsRun /\ ~timedOut /\ ~overDropped =>
    refCount >= WakeupsIn(InTransit) + unacked + FoldSeq(+, 0, wakeQueue)
                  + Cardinality(LiveTokens)

(***************************************************************************)
(* The ALOG_ASSERTs of postEvents: a batch gets to the message queue with  *)
(* a locked ScopedWakelock exactly if it has WAKE_UP events, also when its *)
(* ScopedWakelock was created around a stop and restart of the threads.    *)
(***************************************************************************)
AssertionsHold ==
  \A s \in SubHals :
    posterPc[s] \in {"lock", "inc", "incLocked", "write"} =>
      (NumWakeups(batch[s]) > 0 <=> scoped[s] # "none")

(***************************************************************************)
(* What initializeCommon promises in its comment: it clears the queues     *)
(* when nobody uses them, and from then until it returns no new events get *)
(* in.                                                                     *)
(***************************************************************************)
ClearedSafely ==
  binderPc \in {"clear", "start", "spawn"} =>
    /\ writerPc \in {"off", "exited"}
    /\ wakelockPc \in {"off", "exited"}
    /\ \A s \in SubHals : posterPc[s] = "idle"
    /\ binderPc # "clear" => InTransit = <<>> /\ wakeQueue = <<>>

-----------------------------------------------------------------------------
(***************************************************************************)
(* Liveness.  Every thread of the process gets to run.  A mutex that is    *)
(* free again and again is not denied to a waiting thread for ever, hence  *)
(* strong fairness for the threads that take one.  Nothing makes the       *)
(* framework read or report, a sub-HAL post, or a wake-up spurious.        *)
(***************************************************************************)
Fairness ==
  /\ \A s \in SubHals : SF_vars(PosterStep(s))
  /\ SF_vars(WriterStep)
  /\ SF_vars(WakelockStep)
  /\ SF_vars(InitializeStep)
  /\ WF_vars(Clock)

FairSpec == Spec /\ Fairness

(***************************************************************************)
(* initialize returns, even with events pending, a framework that does not *)
(* read and posting threads under way.  The one exception is "missed":     *)
(* stopThreads clears mThreadsRun and notifies without the mutexes, so a   *)
(* thread between its look at mThreadsRun and its wait misses both, and    *)
(* neither it nor the binder thread that joins it ever wakes again.        *)
(***************************************************************************)
InitializeReturns == binderPc # "idle" ~> (binderPc = "idle" \/ missed)

(***************************************************************************)
(* "... and when we start threads again" (the comment in initializeCommon):*)
(* the threads that initialize stops are started again.  The code does not *)
(* live up to this, see InitializeReturns.                                 *)
(***************************************************************************)
ThreadsStartAgain == binderPc # "idle" ~> threadsRun

\* A WAKE_UP post starts the timeout at this instant.
TimeoutRestarted == elapsed = 0

(***************************************************************************)
(* Whatever the framework does or does not do, a wake lock the clock runs  *)
(* against is given up, unless one more WAKE_UP post starts the timeout    *)
(* anew (line 701): a framework that stays silent and sub-HALs that post   *)
(* more often than the timeout keep the device awake for ever.  The other  *)
(* exceptions are a stopThreads that hangs, see InitializeReturns, and a   *)
(* wake lock thread that got to its wait at the very instant of the limit. *)
(***************************************************************************)
WakeLockReleased ==
  held /\ ~TimeoutRestarted ~>
    (~held \/ TimeoutRestarted \/ missed \/ wakelockPc = "readingForever")

(***************************************************************************)
(* No batch stays in the pending queue: it is written, or dropped when the *)
(* framework does not read, or the proxy is stopped.                       *)
(***************************************************************************)
PendingDrained == pending # <<>> ~> (pending = <<>> \/ ~threadsRun)
=============================================================================
