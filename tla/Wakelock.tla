------------------------------ MODULE Wakelock ------------------------------
(***************************************************************************)
(* The wake lock that HalProxy shares among its sub-HALs                   *)
(* (sensors/HalProxy.cpp): a reference count protected by mWakelockMutex,  *)
(* the kernel wake lock it stands for, the thread that gives it up when    *)
(* the framework stays silent for too long, and the wake lock FMQ on which *)
(* the framework reports how many WAKE_UP events it has handled.           *)
(*                                                                         *)
(* Each operator below is one critical section of mWakelockMutex, so it is *)
(* one atomic step.  The only step boundary inside a critical section is   *)
(* the one a condition variable has between evaluating its predicate and   *)
(* blocking: wakelockPc = "blocking" holds the mutex.                      *)
(*                                                                         *)
(* Time enters the code through two comparisons only, and is kept only as  *)
(* far as they can tell it apart:                                          *)
(*   - now - mWakelockTimeoutStartTime > kWakelockTimeoutNs: "elapsed"     *)
(*     counts ticks since the start time and stops one tick past the limit;*)
(*   - timeoutStart < mWakelockTimeoutResetTime, for the creation time of  *)
(*     a ScopedWakelock: "scoped" records whether the clock has moved since*)
(*     its creation ("now", "past") and whether a reset came after that    *)
(*     ("stale").                                                          *)
(***************************************************************************)
EXTENDS Integers, Sequences

CONSTANTS
  SubHals,          \* the sub-HALs, one posting thread each
  WakelockTimeout,  \* kWakelockTimeoutNs, in ticks
  WakeQueueSize     \* capacity of the wake lock FMQ

ASSUME WakelockAssumption ==
  /\ WakelockTimeout \in Nat \ {0}
  /\ WakeQueueSize \in Nat \ {0}

VARIABLES
  threadsRun,       \* mThreadsRun
  refCount,         \* mWakelockRefCount
  held,             \* whether the kernel holds the wake lock kWakelockName
  elapsed,          \* ticks since mWakelockTimeoutStartTime
  scoped,           \* the ScopedWakelock of each sub-HAL's postEvents call
  wakeQueue,        \* the wake lock FMQ: counts of handled WAKE_UP events
  wakelockPc        \* where mWakelockThread is in handleWakelocks

wakelockVars ==
  <<threadsRun, refCount, held, elapsed, scoped, wakeQueue, wakelockPc>>

ScopedStates == {"none", "now", "past", "stale"}

WakelockPcs ==
  {"off", "check", "blocking", "blocked", "reading", "readingForever", "exited"}

WakelockTypeOK ==
  /\ threadsRun \in BOOLEAN
  /\ refCount \in Nat
  /\ held \in BOOLEAN
  /\ elapsed \in 0 .. WakelockTimeout + 1
  /\ scoped \in [SubHals -> ScopedStates]
  /\ wakeQueue \in Seq(Nat)
  /\ Len(wakeQueue) <= WakeQueueSize
  /\ wakelockPc \in WakelockPcs

(***************************************************************************)
(* HalProxy.h gives mThreadsRun its first value and is not in this tree,   *)
(* so both are possible.  No thread exists before the first initialize().  *)
(***************************************************************************)
WakelockInit ==
  /\ threadsRun \in BOOLEAN
  /\ refCount = 0
  /\ held = FALSE
  /\ elapsed = 0
  /\ scoped = [s \in SubHals |-> "none"]
  /\ wakeQueue = <<>>
  /\ wakelockPc = "off"

-----------------------------------------------------------------------------

Smaller(a, b) == IF a < b THEN a ELSE b

WakelockMutexFree == wakelockPc # "blocking"

\* notify_one on mWakelockCV: it reaches the thread only if it is waiting.
Notified(pc) == IF pc = "blocked" THEN "check" ELSE pc

\* Mutant: the wake lock thread is not told of the first count.
IncrementWithoutNotify(delta) ==
  /\ WakelockMutexFree
  /\ held' = (held \/ refCount = 0)
  /\ wakelockPc' = wakelockPc
  /\ elapsed' = 0
  /\ refCount' = refCount + delta

(***************************************************************************)
(* The part of incrementRefCountAndMaybeAcquireWakelock under the mutex.   *)
(* Its test of mThreadsRun precedes the mutex and is a step of the caller. *)
(***************************************************************************)
IncrementRefCount(delta) ==
  /\ WakelockMutexFree
  /\ held' = (held \/ refCount = 0)
  /\ wakelockPc' = IF refCount = 0 THEN Notified(wakelockPc) ELSE wakelockPc
  /\ elapsed' = 0
  /\ refCount' = refCount + delta

\* Mutant: count down without std::min.
DecrementWithoutMin(delta, stale) ==
  /\ WakelockMutexFree
  /\ IF ~threadsRun \/ refCount = 0 \/ stale
       THEN UNCHANGED <<refCount, held>>
       ELSE /\ refCount' = refCount - delta
            /\ held' = (held /\ refCount' # 0)

(***************************************************************************)
(* decrementRefCountAndMaybeReleaseWakelock; "stale" is the comparison     *)
(* timeoutStart < mWakelockTimeoutResetTime.  Its test of mThreadsRun also *)
(* precedes the mutex, but a decrement overtaken by a stop acts as one made*)
(* just before the stop, so the two are one step here.                     *)
(***************************************************************************)
DecrementRefCount(delta, stale) ==
  /\ WakelockMutexFree
  /\ IF ~threadsRun \/ refCount = 0 \/ stale
       THEN UNCHANGED <<refCount, held>>
       ELSE /\ refCount' = refCount - Smaller(refCount, delta)
            /\ held' = (held /\ refCount' # 0)

\* Mutant: the count is cleared, and the wake lock forgotten.
ResetWithoutRelease ==
  /\ WakelockMutexFree
  /\ refCount' = IF threadsRun THEN 0 ELSE refCount
  /\ held' = held
  /\ scoped' = [s \in SubHals |-> IF scoped[s] = "past" THEN "stale" ELSE scoped[s]]

(***************************************************************************)
(* resetSharedWakelock: give up the whole count (only while the threads    *)
(* run, see DecrementRefCount) and move mWakelockTimeoutResetTime to now,  *)
(* which outdates every ScopedWakelock created at an earlier instant.      *)
(***************************************************************************)
ResetSharedWakelock ==
  /\ DecrementRefCount(refCount, FALSE)
  /\ scoped' = [s \in SubHals |-> IF scoped[s] = "past" THEN "stale" ELSE scoped[s]]

\* sharedWakelockDidTimeout, and the time it leaves for the next read.
DidTimeout == elapsed > WakelockTimeout
TimeLeft == WakelockTimeout - elapsed

-----------------------------------------------------------------------------
(***************************************************************************)
(* handleWakelocks.  The thread holds the mutex except while it waits on   *)
(* mWakelockCV or on the wake lock FMQ.                                    *)
(***************************************************************************)

\* mThreadsRun is down: leave the loop, reset once more and end.
WakelockThreadExit ==
  /\ wakelockPc = "check"
  /\ ~threadsRun
  /\ ResetSharedWakelock
  /\ wakelockPc' = "exited"
  /\ UNCHANGED <<threadsRun, elapsed, wakeQueue>>

\* Nobody holds the wake lock: the wait's predicate is false, still locked...
WakelockThreadIdle ==
  /\ wakelockPc = "check"
  /\ threadsRun
  /\ refCount = 0
  /\ wakelockPc' = "blocking"
  /\ UNCHANGED <<threadsRun, refCount, held, elapsed, scoped, wakeQueue>>

\* ... and then the thread is on the wait list and the mutex free.
WakelockThreadBlock ==
  /\ wakelockPc = "blocking"
  /\ wakelockPc' = "blocked"
  /\ UNCHANGED <<threadsRun, refCount, held, elapsed, scoped, wakeQueue>>

\* A condition variable may also return without having been notified.
WakelockThreadSpurious ==
  /\ wakelockPc = "blocked"
  /\ wakelockPc' = "check"
  /\ UNCHANGED <<threadsRun, refCount, held, elapsed, scoped, wakeQueue>>

WakelockThreadTimeout ==
  /\ wakelockPc = "check"
  /\ threadsRun
  /\ refCount > 0
  /\ DidTimeout
  /\ ResetSharedWakelock
  /\ UNCHANGED <<threadsRun, elapsed, wakeQueue, wakelockPc>>

(***************************************************************************)
(* Otherwise wait on the FMQ for the time that is left.  libfmq reads a    *)
(* timeout of 0 as "no timeout", so a thread that gets here at the exact   *)
(* instant of the limit waits until somebody writes.                       *)
(***************************************************************************)
WakelockThreadWait ==
  /\ wakelockPc = "check"
  /\ threadsRun
  /\ refCount > 0
  /\ ~DidTimeout
  /\ wakelockPc' = IF TimeLeft = 0 THEN "readingForever" ELSE "reading"
  /\ UNCHANGED <<threadsRun, refCount, held, elapsed, scoped, wakeQueue>>

\* readBlocking returns a count: that many WAKE_UP events were handled.
WakelockThreadRead ==
  /\ wakelockPc \in {"reading", "readingForever"}
  /\ wakeQueue # <<>>
  /\ DecrementRefCount(Head(wakeQueue), FALSE)
  /\ wakeQueue' = Tail(wakeQueue)
  /\ wakelockPc' = "check"
  /\ UNCHANGED <<threadsRun, elapsed, scoped>>

\* readBlocking gives up.  The model lets it do so at any time: an early
\* return only makes the thread look at the clock again.
WakelockThreadReadTimeout ==
  /\ wakelockPc = "reading"
  /\ wakelockPc' = "check"
  /\ UNCHANGED <<threadsRun, refCount, held, elapsed, scoped, wakeQueue>>

WakelockThreadStep ==
  \/ WakelockThreadExit
  \/ WakelockThreadIdle
  \/ WakelockThreadBlock
  \/ WakelockThreadTimeout
  \/ WakelockThreadWait
  \/ WakelockThreadRead
  \/ WakelockThreadReadTimeout

-----------------------------------------------------------------------------
(***************************************************************************)
(* The clock getTimeNow reads.  The start time is looked at only while the *)
(* count is positive, and set again whenever it leaves zero, so "elapsed"  *)
(* need not move while the count is zero.                                  *)
(***************************************************************************)
Tick ==
  /\ elapsed' = IF refCount > 0 THEN Smaller(elapsed + 1, WakelockTimeout + 1) ELSE elapsed
  /\ scoped' = [s \in SubHals |-> IF scoped[s] = "now" THEN "past" ELSE scoped[s]]
  /\ <<elapsed, scoped>>' # <<elapsed, scoped>>
  /\ UNCHANGED <<threadsRun, refCount, held, wakeQueue, wakelockPc>>
=============================================================================
