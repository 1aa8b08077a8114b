# Verification of the RMX3031 device tree

`src/` is the Android device tree of the realme RMX3031 (MT6893).  Most of it is
declarative: product makefiles, sepolicy, overlays, blob lists, init scripts.  The
program with state, threads and failure in it is the *sensors multi-HAL proxy*
(`sensors/HalProxy.cpp`), which merges several sensor HALs of the vendor ("sub-HALs")
into the one HAL the Android framework talks to.  Smaller programs sit beside it: the
lights HAL, the rules that assemble the USB gadget, and two tools that rewrite the list of
vendor files.  This directory holds TLA+ modules of
that program, the TLC runs that check them on small instances, and theorems about them
that TLAPS checks for all values of the constants.

    tlc -workers 2 -config Core.cfg MCHalProxy.tla      # a run
    tlapm HalProxyProofs.tla                            # the proofs

## 1. Inventory

### 1.1 The sensors proxy

Threads: one posting thread per sub-HAL (a library this tree does not hold), the
*writer* `mPendingWritesThread`, the *wake lock thread* `mWakelockThread`, and one binder
thread (`sensors/service.cpp` configures a pool of one and joins it) that runs all calls
of the framework, one after the other.  The framework is another process; it reads the
event FMQ (a ring in shared memory) and writes the wake lock FMQ.

| part | state | operations | hard about it | correct when |
|---|---|---|---|---|
| event path | event FMQ, `mPendingWriteEventsQueue`, `mSizePendingWriteEventsQueue` | `postEvents`, `postEventsToMessageQueue`, `handlePendingWrites` | posting threads and writer interleave; the writer lets go of `mEventQueueWriteMutex` while it writes the front batch; batches are torn between FMQ and queue, cut into chunks, dropped after a timeout or when the queue is at its limit | events arrive in order, at most once, and get lost only at the limits; the FMQ has one writer at a time; the size counter is exact |
| shared wake lock | `mWakelockRefCount`, the kernel wake lock, `mWakelockTimeoutStartTime`, `mWakelockTimeoutResetTime`, wake lock FMQ | increment, decrement, reset, `handleWakelocks`, `ScopedWakelock` | five places count it, on four kinds of threads; timeouts race late reports; a reset outdates the `ScopedWakelock`s that exist | the kernel lock is held iff the count is positive; the count covers every WAKE_UP event under way; a silent framework cannot keep the device awake unless sub-HALs go on posting |
| life cycle | `mThreadsRun`, the two threads | `initialize`, `stopThreads`, `disableAllSensors` | a restarted framework calls `initialize` on the living service at any time; `mThreadsRun` is an atomic that is tested and cleared outside the mutexes; `join` waits for threads that may be waiting themselves | nothing of the old life gets into the new one; `initialize` returns |
| sensor table | `mSensors`, `mSubHalList`, `mDirectChannelSubHal` | loading from hals.conf, `initializeSensorList`, `setDirectChannelFlags`, handle arithmetic, `configDirectReport` | signed shifts; only the first sub-HAL with direct channels may keep its flags | handles of different sub-HALs never collide and lead back to their sub-HAL |
| operation mode | `mCurrentOperationMode`, each sub-HAL's own | `setOperationMode`, `injectSensorData` | one sub-HAL of several fails, and so may the rollback | after a failure every sub-HAL is in the old mode |
| dynamic sensors | `mDynamicSensors`, `mDynamicSensorsCallback` | `onDynamicSensorsConnected`, `onDynamicSensorsDisconnected` | the callback is called outside the mutex; `initialize` clears the map without it | what the framework was told is what the map holds |
| routed calls | none | `batch`, `flush`, `registerDirectChannel`, `unregisterDirectChannel`, `getSensorsList`, `debug` | any number may come in as a handle; `debug` reads what other threads write | a call gets to the sub-HAL whose sensor it names, and never past the list |

How they interact: a posting thread creates a `ScopedWakelock` (wake lock), calls
`postEvents` (event path), which counts the batch (wake lock) and writes or queues it;
the writer gives the count of what it drops back; the wake lock thread counts down what
the framework reports and everything on a timeout; `initialize` stops both threads,
resets the wake lock, deactivates all sensors, replaces both FMQs and starts anew.

### 1.2 Everything else

| component | state and operations | hard about it | module |
|---|---|---|---|
| Lights HAL (`lights/`) | the number in the driver's file; `setLightState` scales the backlight's brightness, `getLights` lists the one light | three roundings in unsigned arithmetic, a maximum of 0 that wraps, a file that cannot be opened | `Lights` |
| USB gadget script (`rootdir/etc/init.mt6893.usb.rc`) | properties, links in configfs, the gadget's binding; rules triggered by properties | init queues events while other processes go on setting properties; rules set what triggers rules; `${...}` is read late | `UsbGadget` |
| blob list tools (`reorder-blobs.py`, `update-sha1sums.py`) | the list of vendor files; sorting of sections, hashes under headers | a comparator by directory and by text at once; what stands above a file decides over its hash | `BlobList` |
| health HAL, libinit, DisableHWOverlaysService | straight-line start-up code | - | not modelled: no state after start-up |
| other init scripts, fstab, OTA scripts, extract/setup scripts | straight-line | - | not modelled |
| makefiles, sepolicy, overlays, configs, prebuilt kernel | data for other programs | - | not modelled |

`PROJECT.json` lists all of them with their files, and under `hazards` every line that is
hard to test, with the properties that cover it or the reason there is none.

## 2. Plan

1. **Done**: `Wakelock`, `EventQueue`, `HalProxy`, `LossyFifo`, `MCHalProxy`, and the
   proofs `HalProxyProofs` - the concurrent core.
2. **Done**: `SensorHandle`, `SensorTable`, `OperationMode` and `DynamicSensors` with their
   proofs - the rest of the proxy's state.
3. **Done**: `Lights` and `BlobList` with their proofs, `UsbGadget` - the other programs.
4. **Done**: `ClearedSafely`, and the types of all modules with proofs; liveness of the
   dynamic sensors' mutex.
5. **Done**: `EventPathProofs` - the exact size counter, the refinement of `LossyFifo`, the
   order of events, and what the wake lock's count covers.
6. **Done**: `SensorNotices`, an abstract specification of dynamic sensors, and that
   `DynamicSensors` implements it; `BlobListProofs`.  With them every safety property the
   runs check is a theorem, but for those of `UsbGadget`.
7. Left: the ATM rules of the USB script.

## 3. The modules

`Wakelock` <- `EventQueue` <- `HalProxy` <- `MCHalProxy` extend one another in this
order; `HalProxy` instantiates `LossyFifo`; `HalProxy` <- `HalProxyProofs` <-
`EventPathProofs` carry the theorems.  `SensorHandle` is extended by `SensorTable` and
`DynamicSensors`, which instantiates `SensorNotices`; these and `OperationMode` touch no variable of the event path.  They
meet it in two places only, the join before `disableAllSensors` and the threads'
start after it, and are checked on their own.  `LightsProofs` extends `Lights`, `MCBlobList`
and `BlobListProofs` extend `BlobList`; these and `UsbGadget`, with `MCUsbGadget`,
are programs of their own.  Definitions whose comment starts with "Mutant:" are
plausible slips in the definition that follows them; no behaviour of the specification
uses them.

### `Wakelock`: the shared wake lock

| variable | code |
|---|---|
| `threadsRun` | `mThreadsRun` |
| `refCount` | `mWakelockRefCount` |
| `held` | what `acquire_wake_lock` / `release_wake_lock` made of the kernel wake lock |
| `elapsed` | now - `mWakelockTimeoutStartTime`, in ticks, stopped one past the limit |
| `scoped[s]` | the `ScopedWakelock` of sub-HAL s: none; created at this instant; earlier; outdated by a reset |
| `wakeQueue` | the wake lock FMQ |
| `wakelockPc` | the thread in `handleWakelocks` |

Every operator is one critical section of `mWakelockMutex`: `IncrementRefCount`,
`DecrementRefCount`, `ResetSharedWakelock`, and the steps of `handleWakelocks` between its
two waits.  Two features of condition variables are kept: a notification reaches only a
thread that is on the wait list, and between the evaluation of the predicate and the wait
list there is a moment ("blocking") in which the thread holds the mutex.  Spurious
wake-ups are possible.  A timeout of 0 means "none" to libfmq: `WakelockThreadWait` keeps
that case apart.

Time is kept as far as the two comparisons in the code can tell it apart (module comment).

### `EventQueue`: the event path

`eventQueue`, `pending`, `sizePending` are the FMQ, `mPendingWriteEventsQueue` and
`mSizePendingWriteEventsQueue`; `writerPc` is the thread in `handlePendingWrites`.
`WriteOrQueue` is the body of `postEventsToMessageQueue` under the mutex; `WriterCheck`,
`WriterWrite`, `WriterDrop` and `WriterFinish` are the steps of the loop, split where the
mutex is let go.  An event is its position in the order of posting and whether its sensor
is a WAKE_UP sensor.  `sizePending` is an integer: that it never goes below zero, where
the unsigned counter of the code would wrap, is part of `SizeAccounting`.

### `HalProxy`: the composition

Adds the posting threads (`posterPc`, one step per shared access: create the
ScopedWakelock, test `mThreadsRun`, lock, test again, count, write, release), the binder
thread (`binderPc`, one step per statement of `stopThreads` and `initializeCommon` that
touches shared state) and the framework (`FrameworkRead`, `FrameworkAck`).  Tests of
`mThreadsRun` outside the mutexes are steps of their own wherever something can come in
between that matters.  History variables, which no guard reads: `lastRead`, `nextStamp`
(order), `timedOut`, `overDropped`, `missed` (the exceptions the properties name).

### `LossyFifo`: what the event path promises

A FIFO with permission to lose events in three named ways: the rest of a batch when the
FIFO is nearly full, one FMQ's worth behind a full FMQ when the framework does not read,
and everything while stopped.  `HalProxy!Fifo` maps the two queues and the writer's place
to its single queue: a chunk the writer has written and not yet removed counts once.

### `SensorHandle`, `SensorTable`: whose sensor is it

A handle is an `int32_t` with the sub-HAL's position in its top byte.  `SensorHandle` keeps
that byte and the rest apart, as no operation mixes them; `IndexValues` is 256 in the
code and a parameter here, so that the signed shift of `extractSubHalIndex` is visible in
small instances: the upper half of the values comes back negative.

| variable | code |
|---|---|
| `toLoad`, `subHalCount` | the lines of hals.conf still to be read, `mSubHalList.size()` |
| `listing`, `toList` | the loops of `initializeSensorList` |
| `sensors` | `mSensors`, reduced to its keys and whether the direct channel flags are set |
| `directSubHal` | `mDirectChannelSubHal` as a position |
| `asked` | the last call that was passed on: to which sub-HAL, for which handle |
| `reported` | history: what the sub-HALs listed |

`LoadSubHal` may fail for each library, `AskSubHal` and `ListSensor` are the outer and the
inner loop.  A sensor reported twice overwrites its entry, as in the map.
`ConfigDirectReport` is called for sensors whose listed flags allow it: that is what the
flags are for, and the proxy itself does not look at them again.  `CallSensor` is `batch`
and `flush`, with any handle at all, as `activate` and `injectSensorData` route theirs;
`DirectChannelCall` the calls about direct channels that name no sensor.  hals.conf is taken to
name fewer than 128 libraries (it names two).

### `OperationMode`: one mode for all sub-HALs

`currentMode` is `mCurrentOperationMode`, `modes[s]` what each sub-HAL believes, `call`,
`wanted`, `subHalIndex` and `i` the call that is running and its loops.  Each call of a
sub-HAL is a step that may fail: `SubHalRefuses` leads to the loop of `ResetSubHal`, whose
results nobody looks at.  A sub-HAL that refuses keeps its mode, and one whose
`initialize` succeeds is in NORMAL.  `unreliable` is history: a reset or an
initialization failed since the last success of `setOperationMode`.

### `DynamicSensors`: what the framework is told

| variable | code |
|---|---|
| `pc[s]`, `arg[s]` | sub-HAL s's thread in `onDynamicSensorsConnected` or `onDynamicSensorsDisconnected`; the list it was called with, then the local `sensors` / `sensorHandles` |
| `dynamicSensors` | the keys of `mDynamicSensors` |
| `sensors` | the keys of `mSensors` |
| `known` | what the framework behind `mDynamicSensorsCallback` was told |
| `connected`, `active` | the sub-HALs' own view, external |
| `binderPc`, `toDisable` | the binder thread between `disableAllSensors` and the start of the threads |
| `swapped` | history: the callback was changed amid a report |

The body under `mDynamicSensorsMutex` is one step, the call of the framework another.
`initialize` is split where the code leaves the mutex free: `mDynamicSensors.clear()` and
the assignment of the callback are steps of their own.  That both race the sub-HALs'
threads is undefined behaviour in C++; the model gives it each order of whole
operations and nothing worse.  `CountDroppedEvent` is what `countNumWakeupEvents` does to
`mSensors` on the side.  A sub-HAL makes its reports from one thread, one after the other;
with two threads the framework could hear of a disconnect before the connect.

### `SensorNotices`: what is promised about dynamic sensors

A set of sensors, and notices of its changes: a sensor that is added is noted as arriving,
one that is taken out as leaving, and what the framework knows changes by the delivery of
notices only.  Of one sensor there is never more than one notice under way, so that its
changes are told in the order they were made.  Two steps have no notice: the set is
emptied when a new framework is to come, and that framework knows of no sensor.
`DynamicSensors!Notices` maps `mDynamicSensors` to the set, and the reports that have left
the mutex and not reached the framework (`Telling`) to the notices.

### `Lights`: the brightness of the panel

`maxBrightness` and `brightness` are the driver's two files, `color` the state the latter
was last written for.  `ScaleByAlpha`, `GetBrightness` and `ScaleBrightness` are the
three steps of the computation, with every product and difference taken modulo `Word`
where it could exceed it; a maximum of 0 stands for a file that cannot be opened.  The
assumption is that 254 * (max - 1) fits into a word, which is true of any maximum up to
16 million.  `set` opens the file for every write and does nothing but log if that fails,
while `setLightState` answers "ok" all the same: in the model such a call leaves both
variables alone, and the answer, which says nothing about the panel, is left out.  Calls
for other lights are refused.  `getLights` reads a constant.  An empty `max_brightness`, after which the local variable has no value, is
taken to be impossible, as sysfs always has a number there.

### `UsbGadget`: rules that assemble the gadget

The upper half of the module is the script as data: each rule has its triggers and its
commands, and the eleven main functions differ in what `MainFunctions` says.  The lower
half is the machine that runs it:

| variable | stands for |
|---|---|
| `props` | the properties the rules read or wait for; `config` is `sys.usb.config`, `adbReady` is `sys.usb.ffs.ready` |
| `queue`, `script` | init's event queue, and the commands of the rules it is executing |
| `links`, `product` | `configs/b.1/f1` to `f5` and `idProduct` in configfs |
| `host` | what the gadget was bound with, and the host therefore sees |
| `adbd`, `framework`, `asked`, `left` | the other processes, what they last wanted, and how often they still may |
| `hasty` | whether those who ask do not wait for each other; it never changes |

init takes one event at a time, evaluates the triggers of all rules at that moment, and
executes their commands one by one, while adbd, the mtp and ptp services, the framework
and vendor processes set properties.  The property an event is about has the event's
value in the triggers, all others their present one.  These rules of init, and of configfs
(a slot that is taken refuses a link, a function is linked once, unlinking unbinds), are
external, and so is the rule for "none" in `init.usb.configfs.rc`, which unlinks f1 to f3,
stops adbd and sets `sys.usb.state`.  `sys.usb.configfs` and `sys.boot_completed` are
always 1 and left out.

Requests wait until nothing is under way (`Quiet`), and then may be for anything; or they
are `hasty`, come at any moment, whatever `sys.usb.state` is, and are those of the constant
`Hasty`.  What a hasty run asks for last is not determined, only that nothing is torn.  The
two are told apart by a variable and not by a constant, so that one run has both.  The mtp
and ptp services get ready only where a link rule waits for them (`Awaited`).

### `BlobList`: sorting and pinning vendor files

`file` is proprietary-files.txt as a sequence of sections, each a sequence of headers and
files; `last` is the tool that ended last, or "updating".  The place of a line is its section and its
position there.  `Before` is the comparator of
`reorder-blobs.py`: subdirectories first, else by text, where the order of the texts is a
constant.  `Reorder` may return every arrangement in which no line stands before a
neighbour it belongs after.  `update` of `update-sha1sums.py` is a loop over the lines it
has read: `UpdateBegin` reads them, `UpdateLine` is one turn, at the first place of `todo`,
with the hashes set in `lines` and `needSHA1` carried on, and `UpdateEnd` writes the file.
`UpdateFails` is the end at a file that is missing, or at one above every header, where
`needSHA1` has no value: nothing is written.  `Cleanup` is the script with -c.  `NeedSHA1`
and `Hash`, by contrast, say without a loop what the list asks for.

In the list as it is today no header says " - from", so that an update hashes nothing; the
hashes that are there stand under headers "# Pin ...", and `-c` drops them for good.

### Code that is not in this tree

`HalProxy.h`, `ScopedWakelock`, libfmq and the sub-HALs are modelled from how
`HalProxy.cpp` and `HalProxyCallback.cpp` use them:

- A sub-HAL locks its ScopedWakelock iff its batch has a WAKE_UP event: the
  `ALOG_ASSERT`s of `postEvents` demand it.  The assertions are then checked where they
  are not trivial, across a stop and restart (`AssertionsHold`).
- `activate(handle, false)` returns when the sub-HAL's thread is out of `postEvents`, and
  `initialize` of a sub-HAL leaves its sensors inactive.  `initializeCommon` relies on it,
  as its comment says: it clears queues without a mutex afterwards.
- `writeBlocking` writes all or nothing, and fails only when there is not enough room at
  that moment; `readBlocking` of the wake lock FMQ may return without data at any moment.
- The first value of `mThreadsRun` is in the missing header: both are allowed.

## 4. The runs

| run | instance | question | shows |
|---|---|---|---|
| `core` | 2 sub-HALs, FMQ of 1, pending limit 3, 2 posts of batches of 1 to 3 events, with and without WAKE_UP; 1.3 M states | do counter, wake lock, queues and writer agree in every interleaving? | `TypeOK`, `HeldIffCounted`, `SingleFmqWriter`, `SizeAccounting`, `CountCoversOutstanding` |
| `events` | FMQ of 2, pending limit 6, 3 posts of 1 or 3 events; 83 k states | is the event path a FIFO that loses only what it may? | `InOrder`, `ImplementsLossyFifo` |
| `restart` | 2 sub-HALs, 2 posts, `initialize` twice, pending limit 2; 4.9 M states | can anything of the old life get into the new one? | `AssertionsHold`, `ClearedSafely` |
| `liveness` | 1 sub-HAL, 2 posts of one WAKE_UP event, `initialize` twice, with fairness; 0.2 M states | does what must happen, happen? | `InitializeReturns`, `WakeLockReleased`, `PendingDrained` |
| `lost_wakeup` | 1 sub-HAL, no posts, `initialize` twice; 244 states | do the threads start again, as the comment at HalProxy.cpp:219 says? | no: see section 7 |
| `sensor_table` | 3 libraries that may fail to load, lists of 1 or 2 of 8 sensors, with flags, with the top byte set, or twice the same; 35 k states | does every handle lead to the sensor it was made for, and every call home? | `TypeOK`, `HandlesLeadHome`, `DirectChannelOfOne`, `DirectReportsGoHome`, `CallsGoHome` |
| `operation_mode` | 3 sub-HALs; 3 k states | when do the modes differ? | `TypeOK`, `ModesAgree`, `NoDataInNormalMode` |
| `dynamic` | 2 sub-HALs, 3 reports, `initialize` three times, with fairness; 1.4 M states | does the framework know what the map holds, across restarts, and do all sides get past each other's mutex? | `TypeOK`, `FrameworkInformed`, `DisconnectsKnown`, `InactiveWhenCleared`, `EverybodyGetsOn`, `ImplementsNotices` |
| `phantom` | as `dynamic`, with one report and two calls of `initialize` | does `mSensors` hold non-dynamic sensors only, as `debug` says? | no: see section 7 |
| `lights` | bytes 0, 1, 2, 128, 254, 255 in all four components, maxima at and around 1 and 255, a missing file, words of 16 bits; 9 k states | what does rounding do to a colour? | `TypeOK`, `AsBrightAsAsked`, `GreyEnds`, `NeverDarker` |
| `usb` | all main functions, all ACM requests under all names, charging, vendor and test requests, 3 in a row that wait for each other, with fairness; and mtp,adb, rndis, gs0 and gs1, gs2, and no ports, 3 of them at any moment; 1.6 M states | does the host see what was asked for, and ever a mixture? | `TypeOK`, `AsAsked`, `AnnouncedWhenBound`, `NeverMixed`, `Settles` |
| `blob_list` | 3 sections of up to 4 lines, each in every order, with and without hashes; 11 k states | do the tools keep each other's work, and does the loop write what the list says? | `TypeOK`, `OrderSettles`, `PinsStay`, `UpdateHashes` |

Bounds, and why they are enough.  `MaxPosts` and `MaxInits` bound the calls of the
environment.  With two posts by two sub-HALs both can be in `postEvents` at once, or one
after the other with the writer at any step of the first batch; three events against an
FMQ of one give a direct write, a queued rest and two chunks; the pending limit is below,
at and above what two such batches need.  `events` uses three posts for a pending queue
of several batches while the writer is in the middle of the first, and no WAKE_UP events,
which play no part in the order.  A timeout of one tick has all three cases: before, at
and after the limit.  In `liveness` the second post comes in at each of these, with the
first counted, counted down or timed out, and starts the timeout anew; more posts would
only do so again.  Its FMQ has room for one of the two events, so that the other goes
through the pending queue.  Two calls of `initialize` are the first start and a restart in
every state of the first life; `core` has the first start only, and that `CountCoversOutstanding`
holds across restarts as well is proved.  `SYMMETRY` is used in runs of invariants only; no action
tells the sub-HALs apart.  Deadlock is not checked: with the bounds used up, or a
framework that stays silent, the system rightly stops; the liveness run checks that it
does not stop in the wrong place.

Three libraries give a direct channel sub-HAL with one before it and one after it, and a
gap left by one that failed.  Three sub-HALs give a rollback of two, of which either may
fail.  Three reports are a connect, a disconnect and one by the other sub-HAL; three calls
of `initialize` are the first start, a restart amid reports, and a restart that finds
what the last one left behind.  `operation_mode` has no bound and checks for deadlock.

The colours of `lights` are the ends of a byte, where rounding and the special case of 0
meet, and the middle; the proofs cover the rest.  Three requests to the gadget are a main
function, something to change about it, and something to change about that: every rule
that undoes a link is met by every rule that makes one.  `hasty` separates two questions.
When requests wait for each other the outcome is determined.  When they do not it is
still true that nothing is torn: three requests are two that overtake one that is under way,
and `MCHasty` is chosen so that a mixture cannot pass for something whole - of the two
main functions neither is part of the other, one has two parts, and the port requests share
no port and have one, two and none.  The vendor and test properties, which set
`sys.usb.config` in turn, are in this run asked through only by those who wait.  `blob_list` has a directory, its subdirectory,
and a directory whose name begins alike, so that the two criteria of the comparator pull
apart, and a section without a header before and after one that pins.  A deadlock is not
looked for where clients may stop asking (`usb`, `sensor_table`); `lights` and `blob_list`
check for it.

Each property has a mutant in `PROJECT.json` that TLC must refute under the same
configuration: a bound too small for the interesting case would let its mutant live.

Fairness (`FairSpec`).  Strong fairness for each posting thread, the writer, the wake lock
thread and the `initialize` call: each can be ready again and again only to find a mutex
taken, and a mutex that is free infinitely often is in the end given to a thread that
waits for it.  The kernel schedules all threads of a process, so weak fairness would be
justified for steps that take no mutex; strong fairness on the whole thread adds nothing
to those, as they stay enabled.  The clock advances.  Nothing is assumed of the framework
(it may never read or report, nor call again), of sub-HALs (they may never post) or of
spurious wake-ups.  In `DynamicSensors` a report that has begun and an `initialize` that
has begun go on (weak fairness: the mutex is held across steps by `initialize` only, which
itself goes on); this assumes that `activate` of a sub-HAL returns and that the framework's
callback does.  In `UsbGadget` init works off its queue, adbd and the services become ready,
and the framework goes on with what it began (weak fairness for each); nobody has to ask
for anything.  Where requests are `hasty` nothing is claimed in the end and no fairness is
assumed.

## 5. What is proved

For all sets of sub-HALs, queue sizes, limits, batches and bounds, from
`WakelockAssumption`, `EventQueueAssumption` and `HalProxyAssumption` only (sizes are
positive numbers; batches are sequences, and there are finitely many of them, so that one
is the longest - as `size_t` and the libraries' buffers see to; the set of sub-HALs need not even
be finite):

| theorem | module | property |
|---|---|---|
| `TypeCorrect` | `HalProxyProofs` | `Spec => []TypeOK` |
| `AssertionsAlwaysHold` | `HalProxyProofs` | `Spec => []AssertionsHold` |
| `FmqHasOneWriter` | `HalProxyProofs` | `Spec => []SingleFmqWriter` |
| `WakeLockHeldIffCounted` | `HalProxyProofs` | `Spec => []HeldIffCounted` |
| `QueuesClearedSafely` | `HalProxyProofs` | `Spec => []ClearedSafely` |
| `SizeIsAccounted` | `EventPathProofs` | `Spec => []SizeAccounting` |
| `EventPathIsLossyFifo` | `EventPathProofs` | `Spec => ImplementsLossyFifo`, the refinement |
| `EventsInOrder` | `EventPathProofs` | `Spec => []InOrder` |
| `CountAlwaysCovers` | `EventPathProofs` | `Spec => []CountCoversOutstanding` |
| `AwakeWhileNeeded` | `EventPathProofs` | the kernel wake lock is held while an event or a ScopedWakelock needs it |

*Types.*  `TypeOK` is not inductive: `WriterWrite` takes the head of `pending`, and the
types of `eventQueue` and `refCount` depend on it.  `TypeInv` adds that a writer in
"writing" or "finish" has a batch (`WriterHasBatch`), that the FMQ is not over-full
(`FmqBounded`), and - because `initialize` empties `pending` and would break the former -
that both threads are gone from the join until they are spawned (`StoppedAfterJoin`).
The invariant has to say where the binder thread is for a fact about a queue's type: that
is the join at work.

*Posting threads.*  `PosterInv` says where in `postEvents` a ScopedWakelock may be locked
(`TokenInv`), that no thread is inside while the proxy is being reinitialized
(`StoppedInv`, `QuietInv`: the sensors are deactivated and stay so), and that at most one
party holds `mEventQueueWriteMutex` (`MutexInv`).  `AssertionsHold` is a conjunct of it.
`SingleFmqWriter` follows without a further induction: two posting threads exclude each
other by `MutexInv`, and against the writer, which writes without the mutex, a posting
thread is protected by the batch that stays at the front of `pending` during the write
(`WriterHasBatch`), as `DirectWrite` is 0 unless `pending` is empty.

*Wake lock.*  `HeldIffCounted` is inductive relative to these two: each critical section
preserves it (`IncrementHeld`, `DecrementHeld`, `ResetHeld`), and an increment is never by
zero, because only batches with WAKE_UP events get to the counting step - that is
`AssertionsHold` again.

*Clearing.*  `JoinedInv` says that from the join until the threads are spawned both are
gone, and that all three queues stay empty once they are cleared.  It is inductive only
together with `PosterInv`: a posting thread would fill a queue or wake a thread, and
`QuietInv` keeps all of them out of `postEvents` by then.  `NothingInTransit` leads from
empty queues to what `ClearedSafely` says.

*Sums over queues.*  `SizeAccounting`, `InTransit` and `CountCoversOutstanding` flatten the
pending queue and add up the wake lock FMQ, with the recursive `FlattenSeq` and `FoldSeq`
of the community modules.  What they do to a longer queue is an induction, for which the
library's theorems cannot be used; the least counterexample does instead.  A set of
numbers has a least member and a set of subsets of a finite set a smallest one
(`LeastNumber`, `LeastSubset`, from the well-foundedness of their orders): the recursive
definition has a solution because there is no first place where it lacks one, and one
only because there is no first place where two differ.  For flattening the outcome is
`FlattenAppend` and `FlattenTail`.  `FoldSeq` adds in an order of its own, the one CHOOSE
makes of the indices; `TotalIs` shows the sum to be the cardinality of a heap of tokens,
as many for each index as its value, and the order is gone (`TotalAppend`, `TotalTail`).

*The size counter.*  `SizeInv` is `SizeAccounting` with names and inductive as it stands,
given `TypeInv`: `WriteOrQueue` adds what it appends, and `WriterFinish` takes off the
chunk that `ChunkRemoved` finds gone, be it a part of the front batch or all of it.

*The refinement.*  The FIFO's queue is the FMQ followed by what is pending and not written.
`TransitPosted`, `TransitMoved`, `TransitDropped` and `TransitTaken` say what each kind of
step does to it: appends a beginning of the batch, nothing, cuts a chunk out behind a full
FMQ, takes from the front.  From these each action of `HalProxy` is one of the FIFO or a
stutter (`FifoStep`).  That losses happen at the FIFO's limits only needs `SizeInv`, since
the code compares the counter and the FIFO its own length (`PendingInTransit`: before
the writer has removed a chunk it has written, the counter is ahead of the queue by at
most an FMQ); that the FIFO is stopped while queues are cleared needs `DownInv`, that it
starts empty `JoinedInv`.  `InOrder` then is a property of the FIFO alone: its queue rises
(`RisingInv`), whichever part gets lost.

*The count.*  `CountInv` strengthens `CountCoversOutstanding` in three ways.  Between
`incrementRefCountAndMaybeAcquireWakelock` in `postEvents` and the write, a batch is
counted and not yet in transit: `WriterCovered` says that the count covers this batch on top
of all that is outstanding, which is what the write needs.  One thread's surplus is
enough: no two are at the write at once (`MutexInv`), and one that gets there
brings its own.  Second, when the threads start nothing is owed, although the
invariant asks nothing while they are stopped.  Third, only finitely many sub-HALs hold a
ScopedWakelock, so that these can be counted.  Each action then changes what is outstanding by
no more than it changes the count (`CountKept`).  `TransitDropped` is used again: the chunk
that is dropped had as many WAKE_UP events as `countNumWakeupEvents` finds in it
(`WakeupsSplit`), unless the drop gives up the whole batch's, which is the
exception the property names.  `AwakeWhileNeeded` combines this with `HeldIffCounted`.

From `SensorHandleAssumption`, `SensorTableAssumption`, `OperationModeAssumption` and
`DynamicSensorsAssumption` (there are at most as many sub-HALs as the lower half of the
top byte can number; sensor lists are sequences of sensors):

| theorem | module | property |
|---|---|---|
| `HandleRoundTrip`, `HandleOfSubHal` | `SensorHandleProofs` | setting, reading and clearing the position are inverse to each other |
| `TableTypeCorrect` | `SensorTableProofs` | `Spec => []TypeOK` |
| `EveryHandleLeadsHome` | `SensorTableProofs` | `Spec => []HandlesLeadHome` |
| `OneSubHalHasDirectChannels` | `SensorTableProofs` | `Spec => []DirectChannelOfOne` |
| `EveryDirectReportGoesHome` | `SensorTableProofs` | `Spec => []DirectReportsGoHome` |
| `EveryCallGoesHome` | `SensorTableProofs` | `Spec => []CallsGoHome` |
| `OperationModeTypeCorrect` | `OperationModeProofs` | `Spec => []TypeOK` |
| `AllModesAgree` | `OperationModeProofs` | `Spec => []ModesAgree` |
| `NoDataInNormal` | `OperationModeProofs` | `Spec => NoDataInNormalMode` |
| `DynamicTypeCorrect` | `DynamicSensorsProofs` | `Spec => []TypeOK` |
| `FrameworkKnowsTheMap` | `DynamicSensorsProofs` | `Spec => []FrameworkInformed` |
| `OnlyKnownDisconnects` | `DynamicSensorsProofs` | `Spec => []DisconnectsKnown` |
| `NoneActiveWhenCleared` | `DynamicSensorsProofs` | `Spec => []InactiveWhenCleared` |
| `DynamicSensorsSendNotices` | `DynamicSensorsProofs` | `Spec => ImplementsNotices`, the refinement |

*Sensor table.*  The round trip makes a handle in the table determine position and local
handle.  It needs positions in the lower half of the top byte: `PositionsInv` bounds them
by the number of libraries, failed ones included.  `FlagsReported`, that a flag that is
kept was reported, together with `DirectChannelOfOne` shows where direct reports go.
`CallsGoHome` rests on `isSubHalIndexValid` comparing the signed index as an unsigned one:
a handle with the top bit set comes out negative, and negative is too large.

*Operation mode.*  `ModesAgree` speaks of no running call.  `SetInv` says that the sub-HALs
the first loop has gone through have the wanted mode, `PhaseInv` that those ahead of it,
and behind the loop of the rollback or beyond its end, still or again have the proxy's.

*Dynamic sensors.*  The map is what the framework knows, plus the connects under way,
minus the disconnects under way (`AgreeInv`).  This needs that a sub-HAL's sensors are
reported by its thread only, which is the round trip again, and one report at a time
(`ReportInv`).  `InactiveWhenCleared` is true although `activate` ignores the map, because
an active sensor is connected (`ConnectedInv`) and a connected sensor the framework knows
is in the map: `FoundInv` says where in `disableAllSensors` it will be found.

The refinement of `SensorNotices` has no exception for reports amid the change of the
callback: the steps themselves are right then, too, and what is wrong after it is only which
framework a notice reaches.  A step of one thread changes its own notices only
(`TellingOfOthers`), and they are of its own sub-HAL's sensors (`ReportInv`), so that no
other thread's notice is about the same sensor: the notices that are added are new ones, and
those delivered are gone.  Adding is `Connect`, removing `Disconnect`, the call of the
callback `Deliver`; of `initialize` the clear is `Forget`, the assignment of the callback
`NewFramework`, and all other steps stutter.

From `LightsAssumption`:

| theorem | module | property |
|---|---|---|
| `LightsTypeCorrect` | `LightsProofs` | `Spec => []TypeOK` |
| `PanelIsAsBrightAsAsked` | `LightsProofs` | `Spec => []AsBrightAsAsked` |
| `GreysReachTheEnds` | `LightsProofs` | `Spec => []GreyEnds` |
| `BrighterIsNotDarker` | `LightsProofs` | `Spec => NeverDarker` |

*Lights.*  `LightsInv` says that `brightness` is the scaled luminance of `color`, so that
each property becomes one of the three functions: each is monotone (`ScaleByAlphaMonotone`,
`LuminanceMonotone`, `ScaleMonotone`, from `TimesMonotone`), the luminance is a byte whose
greys are fixed points, and the scaled value lies between 1 and the maximum.
`LuminanceNearExact` bounds what is lost: each of the three components loses less than one
level before they are weighted and added, and the sum less than one again, so that the
luminance is the exact one, rounded down, or one below.  A colour of exact luminance 1 may
therefore come out as 0, and switches the panel off.

From `BlobListAssumption`:

| theorem | module | property |
|---|---|---|
| `BlobTypeCorrect` | `BlobListProofs` | `Spec => []TypeOK` |
| `SortingSettles` | `BlobListProofs` | `Spec => []OrderSettles` |
| `UpdateHashesAsListed` | `BlobListProofs` | `Spec => UpdateHashes` |
| `PinsNeverChange` | `BlobListProofs` | `Spec => PinsStay` |

The assumption is what `setlocale(LC_ALL, "C")` gives: texts are compared by their bytes, so
that comments ("#") come before paths, and the lines of a directory and of what is below
it, which begin with the same bytes up to a "/", stand together.  The latter fails for a
path without a directory, which the comparator takes for one in a directory of its name: a,
a/b/c and a.x/q are ordered in a circle.  proprietary-files.txt has no such path, and TLC
evaluates the assumption for the instance of the run.

*Blob list.*  That subdirectories come first and texts decide otherwise is an order:
`BeforeTransitive` goes through the ways three directories can contain each other, and in
each of them `Together` places the third line where it must be.  Then two sorted
arrangements of a set of lines are equal, as there is no first place where they differ
(`SortedPairs`, `SortedOnce`).  `FileInv` says that sections consist of the lines of the original
file but for their hashes, each once, with at most one header, in front.  Sorting keeps
it there because of `HeaderBefore`.  Hence `NeedSHA1`, which looks for the last header above a
line, depends on nothing but the sets of lines of the sections (`NeedIsGoverned`), which
sorting keeps, and on their kinds, which hashing keeps (`NeedByKinds`).

`LoopInv` is the invariant of update's loop: the places still to do are all those from the
next one on, the lines before it are as `Hash` has them and the others as they were
(`Partly`), and `needSHA1` is what the last header among the former says (`SaysFrom`), or
unassigned when there is none.  At a file the headers passed are the headers above it
(`SeenIsAbove`), which makes the carried variable and `NeedSHA1` agree; at a header the new
one is below all others.  When nothing is left to do the lines are `Hash(file)`
(`LoopEnds`).

## 6. What is only model-checked

- The liveness properties (`InitializeReturns`, `WakeLockReleased`, `PendingDrained`,
  `EverybodyGetsOn`, `Settles`): fairness and ENABLED are out of the prover's reach.
- `UsbGadget`, all of it: its rules are given data, put together with folds, and a run of all of them
  is exhaustive as far as the rules go.  `NeverMixed` and the others hold for this
  script and not for every set of rules.  What the run bounds is the number of requests,
  and of hasty ones their kinds.

## 7. Findings

**`initialize` can hang for ever in `stopThreads`** (run `lost_wakeup`).  `stopThreads`
stores `mThreadsRun = false` and calls `notify_one` on both condition variables without
holding the mutexes of the waits.  A thread that has found its predicate false
and is not yet on the wait list misses the store and the notification, and `join` waits
for it.  An idle writer is in this state for a moment after each batch.  Of two further
ways out none works: the zero written into the wake lock FMQ wakes a reader only, and no
sub-HAL posts into a stopped proxy.  Taking each mutex around the store would close the
gap.  `InitializeReturns`, which excuses exactly this case by the history variable
`missed`, holds: there is no other way to hang.

**Dynamic sensors get into `mSensors`** (run `phantom`).  `countNumWakeupEvents` looks up
`mSensors[sensorHandle]`, and that inserts a default entry for a handle that is not there.
When a chunk of a batch with WAKE_UP events is dropped, dynamic sensors with events in it
are entered, for good: `debug` counts them as "non-dynamic sensors", and `getSensorsList`
hands a restarted framework an empty sensor.  The insertion is on the writer thread and
unprotected.  `mSensors.find` would do.

More weaknesses are part of properties that hold because they name them.
`WakeLockReleased` excuses a wake lock that another WAKE_UP post has started the timeout of
anew (HalProxy.cpp:701): there is one timeout for all events, so that under a framework
that never reports, posts more frequent than the timeout keep the device awake for ever.
It also excuses a wake lock thread whose remaining time is exactly 0
(HalProxy.cpp:632), and `CountCoversOutstanding` the over-count of the drop of a torn
batch (HalProxy.cpp:597), and the properties of
dynamic sensors a report amid the change of the callback (HalProxy.cpp:228-230): a
sensor added between the clear and the assignment is told to the old framework only, and a
report computed before the clear reaches the new one.

The others are in the USB script.  `Settles` excuses one by `hasty`: adding a serial port
can keep the gadget unbound for ever.  The ACM rules set `sys.usb.config` to none and back
to `${sys.usb.state}` (init.mt6893.usb.rc:594-595), which they take for the main function.
The link rule of mtp,adb waits for two ready properties and may run once for the event of
each; its last command sets `sys.usb.state` to what `sys.usb.config` is by then (246).  A
process that sets `sys.usb.config` to acm_gs0 during the second run - the framework has
seen its state, and all seems done - gets acm_gs0 into `sys.usb.state`.  From then on the
rule for acm_gs0 triggers itself, and each round the rule for none unlinks everything.
TLC shows this behaviour for `[]<>Quiet`, when those two are hasty and the fairness extends
to them.  A process that waits until nothing is under way never meets it.

`AsAsked` and `AnnouncedWhenBound` speak of requests that wait, for the same reason. When
requests overlap, two things can be wrong and stay so. `sys.usb.state` can name another
main function than the one the host sees, as TLC shows when `<<"test", "rndis">>`, a
request through `vendor.usb.test`, is added to `MCHasty`: every `${sys.usb.config}`, that
of the rule for none in `init.usb.configfs.rc` included, is read when its command runs.
And the noted ports can be half of what a request for two ports asked for, with the
product id of two, as TLC shows for `MCHasty`: the rule for the product id of one port
also clears the second port (220), and may run after the next request has noted its own.
What the host never sees then, `NeverMixed` says.

## 8. What is not modelled

Of the proxy: the failure of `createEventFlag` (it fails for a bad pointer only), the
destructor (the service never destroys the proxy),
`mMostEventsObservedPendingWriteEventsQueue` (a statistic for `debug`), logging, the
conversion between versions 2.0 and 2.1 of an event, `getSensorsList` and `debug`, which
change nothing - `debug` reads the pending queue without its mutex, which is undefined
behaviour without a trace in the proxy's state - and the locks of the sub-HALs: whether
`disableAllSensors`, which calls `activate` with `mDynamicSensorsMutex` held, can deadlock
with a report depends on them too.

Of the USB script: the charger mode with its HID function (another boot mode, one rule),
cdp, the ATM rules (init.mt6893.usb.rc:692-772, a factory test that leaves `sys.usb.state`
alone), midi, accessory and audio_source, whose links are made in `init.usb.configfs.rc`,
and what is written to sysfs, which no rule reads.  Of the blob list tools: hashes
themselves, paths with destinations, and the shell scripts, which call the extract_utils of
the Android tree.

Health HAL, libinit, DisableHWOverlaysService, the other init scripts and the OTA scripts
run once, in one thread, from top to bottom: there is no step to come in between.  The
rest of the tree is discussed in section 1.2.
