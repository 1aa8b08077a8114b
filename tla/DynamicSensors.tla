--------------------------- MODULE DynamicSensors ---------------------------
(***************************************************************************)
(* Dynamic sensors in HalProxy (sensors/HalProxy.cpp): each sub-HAL has a  *)
(* thread that reports sensors as connected or disconnected, the proxy     *)
(* keeps those that are connected in mDynamicSensors and passes the report *)
(* on to the framework, and initialize, on the binder thread, forgets them *)
(* and takes the callback of a new framework.                              *)
(*                                                                         *)
(* mDynamicSensorsMutex protects the map in the reports and while          *)
(* initialize deactivates the sensors.  It protects neither the call of the*)
(* framework nor what initialize does afterwards.                          *)
(*                                                                         *)
(* Sub-HALs are external.  A sub-HAL reports from one thread, and a sensor *)
(* that is not connected cannot be active.  It has a callback once it has  *)
(* been initialized.                                                       *)
(***************************************************************************)
EXTENDS SensorHandle, FiniteSets

CONSTANTS
  SubHalCount,    \* mSubHalList.size()
  StaticSensors,  \* the handles initializeSensorList has put into mSensors
  Reportables,    \* the sets of sensors a report may name
  MaxReports,     \* bound: reports of the sub-HALs
  MaxInits        \* bound: calls of initialize

ASSUME DynamicSensorsAssumption ==
  /\ SubHalCount \in Nat
  /\ SubHalCount <= IndexValues \div 2
  /\ StaticSensors \subseteq Handle
  /\ Reportables \subseteq SUBSET Handle
  /\ MaxReports \in Nat
  /\ MaxInits \in Nat

SubHals == 0 .. SubHalCount - 1

VARIABLES
  connected,       \* the dynamic sensors of each sub-HAL that are connected
  active,          \* the dynamic sensors that are active
  pc,              \* where each sub-HAL's thread is in its report
  arg,             \* the sensors it reports, then those it passes on
  sensors,         \* the handles in mSensors
  dynamicSensors,  \* the handles in mDynamicSensors
  known,           \* what the framework takes for connected
  binderPc,        \* where the binder thread is in initialize
  toDisable,       \* the handles disableAllSensors has yet to deactivate
  inits, reports,  \* how often initialize was called, and reports were made
  swapped          \* history: the callback changed amid reports

reportVars == <<connected, pc, arg, reports>>
binderVars == <<binderPc, toDisable, inits>>
vars == <<reportVars, binderVars, active, sensors, dynamicSensors, known, swapped>>

TypeOK ==
  /\ connected \in [SubHals -> SUBSET Handle]
  /\ active \subseteq Handle
  /\ pc \in [SubHals -> {"idle", "add", "remove", "tellConnected", "tellDisconnected"}]
  /\ arg \in [SubHals -> SUBSET Handle]
  /\ sensors \subseteq Handle
  /\ dynamicSensors \subseteq Handle
  /\ known \subseteq Handle
  /\ binderPc \in {"idle", "lock", "disable", "clear", "swap", "start"}
  /\ toDisable \subseteq Handle
  /\ inits \in 0 .. MaxInits
  /\ reports \in 0 .. MaxReports
  /\ swapped \in BOOLEAN

Init ==
  /\ connected = [s \in SubHals |-> {}]
  /\ active = {}
  /\ pc = [s \in SubHals |-> "idle"]
  /\ arg = [s \in SubHals |-> {}]
  /\ sensors = StaticSensors
  /\ dynamicSensors = {}
  /\ known = {}
  /\ binderPc = "idle"
  /\ toDisable = {}
  /\ inits = 0
  /\ reports = 0
  /\ swapped = FALSE

\* mDynamicSensorsMutex; a report takes and frees it within one step.
MutexFree == binderPc # "disable"

\* The sub-HALs have the proxy for a callback.
HasCallback == inits > 1 \/ (inits = 1 /\ binderPc = "idle")

\* Mutant: the handles stay as the sub-HAL reports them.
HandlesAsReported(s, handles) == {h \in handles : SubHalIndexIsClear(h)}

\* The handles the framework uses for sensors of a sub-HAL; a sensor reported
\* with its top byte set is passed over.
HandlesOf(s, handles) == {SetSubHalIndex(h, s) : h \in {g \in handles : SubHalIndexIsClear(g)}}

Goto(s, to) == pc' = [pc EXCEPT ![s] = to]

-----------------------------------------------------------------------------
(***************************************************************************)
(* A sub-HAL's thread.                                                     *)
(***************************************************************************)

\* Sensors are connected, or reported to be so once more.
ReportConnected(s, handles) ==
  /\ pc[s] = "idle"
  /\ HasCallback
  /\ reports < MaxReports
  /\ reports' = reports + 1
  /\ connected' = [connected EXCEPT ![s] = @ \union handles]
  /\ arg' = [arg EXCEPT ![s] = handles]
  /\ Goto(s, "add")
  /\ UNCHANGED <<binderVars, active, sensors, dynamicSensors, known, swapped>>

ReportDisconnected(s, handles) ==
  /\ pc[s] = "idle"
  /\ HasCallback
  /\ reports < MaxReports
  /\ reports' = reports + 1
  /\ connected' = [connected EXCEPT ![s] = @ \ handles]
  /\ active' = active \ HandlesOf(s, handles)
  /\ arg' = [arg EXCEPT ![s] = handles]
  /\ Goto(s, "remove")
  /\ UNCHANGED <<binderVars, sensors, dynamicSensors, known, swapped>>

\* onDynamicSensorsConnected under the mutex.
AddDynamicSensors(s) ==
  /\ pc[s] = "add"
  /\ MutexFree
  /\ arg' = [arg EXCEPT ![s] = HandlesOf(s, @)]
  /\ dynamicSensors' = dynamicSensors \union arg'[s]
  /\ Goto(s, "tellConnected")
  /\ UNCHANGED <<connected, reports, binderVars, active, sensors, known, swapped>>

\* Mutant: the sensors are passed on, but stay in the map.
RemoveNothing(s) ==
  /\ pc[s] = "remove"
  /\ MutexFree
  /\ arg' = [arg EXCEPT ![s] = HandlesOf(s, @) \intersect dynamicSensors]
  /\ dynamicSensors' = dynamicSensors
  /\ Goto(s, "tellDisconnected")
  /\ UNCHANGED <<connected, reports, binderVars, active, sensors, known, swapped>>

\* Mutant: sensors that are not in the map are passed on, too.
RemoveUnknown(s) ==
  /\ pc[s] = "remove"
  /\ MutexFree
  /\ arg' = [arg EXCEPT ![s] = HandlesOf(s, @)]
  /\ dynamicSensors' = dynamicSensors \ arg'[s]
  /\ Goto(s, "tellDisconnected")
  /\ UNCHANGED <<connected, reports, binderVars, active, sensors, known, swapped>>

\* onDynamicSensorsDisconnected under the mutex: only what is in the map counts.
RemoveDynamicSensors(s) ==
  /\ pc[s] = "remove"
  /\ MutexFree
  /\ arg' = [arg EXCEPT ![s] = HandlesOf(s, @) \intersect dynamicSensors]
  /\ dynamicSensors' = dynamicSensors \ arg'[s]
  /\ Goto(s, "tellDisconnected")
  /\ UNCHANGED <<connected, reports, binderVars, active, sensors, known, swapped>>

\* The call of whatever callback mDynamicSensorsCallback is by now.
TellFramework(s) ==
  /\ \/ pc[s] = "tellConnected" /\ known' = known \union arg[s]
     \/ pc[s] = "tellDisconnected" /\ known' = known \ arg[s]
  /\ arg' = [arg EXCEPT ![s] = {}]
  /\ Goto(s, "idle")
  /\ UNCHANGED <<connected, reports, binderVars, active, sensors, dynamicSensors, swapped>>

SubHalStep(s) ==
  \/ \E handles \in Reportables : ReportConnected(s, handles) \/ ReportDisconnected(s, handles)
  \/ AddDynamicSensors(s)
  \/ RemoveDynamicSensors(s)
  \/ TellFramework(s)

-----------------------------------------------------------------------------
(***************************************************************************)
(* The framework activates sensors it knows.  activate looks at the sub-HAL*)
(* index of the handle only; it is the sub-HAL that knows its sensors.     *)
(***************************************************************************)
Activate(h) ==
  /\ binderPc = "idle"
  /\ ExtractSubHalIndex(h) \in SubHals
  /\ ClearSubHalIndex(h) \in connected[ExtractSubHalIndex(h)]
  /\ active' = active \union {h}
  /\ UNCHANGED <<reportVars, binderVars, sensors, dynamicSensors, known, swapped>>

(***************************************************************************)
(* countNumWakeupEvents, called by the writer thread for a chunk it drops  *)
(* of a batch with WAKE_UP events, looks up the sensor of each event by    *)
(* mSensors[sensorHandle], which puts handles that are not there, those of *)
(* dynamic sensors, into the map.                                          *)
(***************************************************************************)
CountDroppedEvent(h) ==
  /\ binderPc = "idle"
  /\ sensors' = sensors \union {h}
  /\ UNCHANGED <<reportVars, binderVars, active, dynamicSensors, known, swapped>>

-----------------------------------------------------------------------------
(***************************************************************************)
(* initialize as far as dynamic sensors see it.                            *)
(***************************************************************************)

Binder(from, to) == binderPc = from /\ binderPc' = to

\* disableAllSensors first deactivates what is in mSensors.
DisableSensors ==
  /\ Binder("idle", "lock")
  /\ inits < MaxInits
  /\ inits' = inits + 1
  /\ active' = active \ sensors
  /\ UNCHANGED <<reportVars, toDisable, sensors, dynamicSensors, known, swapped>>

LockDynamicSensors ==
  /\ Binder("lock", "disable")
  /\ toDisable' = dynamicSensors
  /\ UNCHANGED <<reportVars, inits, active, sensors, dynamicSensors, known, swapped>>

DisableDynamicSensor(h) ==
  /\ binderPc = "disable"
  /\ active' = active \ {h}
  /\ toDisable' = toDisable \ {h}
  /\ UNCHANGED <<reportVars, binderPc, inits, sensors, dynamicSensors, known, swapped>>

\* Mutant: the dynamic sensors stay active.
UnlockEarly ==
  /\ Binder("disable", "clear")
  /\ toDisable' = {}
  /\ UNCHANGED <<reportVars, inits, active, sensors, dynamicSensors, known, swapped>>

\* Mutant: with the mutex held, the sensors' disconnects are waited for.
UnlockWhenEmpty ==
  /\ Binder("disable", "clear")
  /\ toDisable = {} /\ dynamicSensors = {}
  /\ UNCHANGED <<reportVars, toDisable, inits, active, sensors, dynamicSensors, known, swapped>>

UnlockDynamicSensors ==
  /\ Binder("disable", "clear")
  /\ toDisable = {}
  /\ UNCHANGED <<reportVars, toDisable, inits, active, sensors, dynamicSensors, known, swapped>>

ClearDynamicSensors ==
  /\ Binder("clear", "swap")
  /\ dynamicSensors' = {}
  /\ UNCHANGED <<reportVars, toDisable, inits, active, sensors, known, swapped>>

\* Reports that have reached the map, but not the framework.
Reporting(s) == pc[s] \in {"tellConnected", "tellDisconnected"}

(***************************************************************************)
(* The new framework knows of no sensor yet.  "swapped" notes whether that *)
(* is wrong, or about to be, or whether a sensor is still active from the  *)
(* last time it was.                                                       *)
(***************************************************************************)
SwapCallback ==
  /\ Binder("swap", "start")
  /\ known' = {}
  /\ swapped' = \/ dynamicSensors # {}
                \/ \E s \in SubHals : Reporting(s)
                \/ swapped /\ active # {}
  /\ UNCHANGED <<reportVars, toDisable, inits, active, sensors, dynamicSensors>>

StartAgain ==
  /\ Binder("start", "idle")
  /\ UNCHANGED <<reportVars, toDisable, inits, active, sensors, dynamicSensors, known, swapped>>

InitializeStep ==
  \/ DisableSensors
  \/ LockDynamicSensors
  \/ \E h \in toDisable : DisableDynamicSensor(h)
  \/ UnlockDynamicSensors
  \/ ClearDynamicSensors
  \/ SwapCallback
  \/ StartAgain

Next ==
  \/ \E s \in SubHals : SubHalStep(s)
  \/ \E h \in known : Activate(h)
  \/ \E h \in sensors \union dynamicSensors : CountDroppedEvent(h)
  \/ InitializeStep

Spec == Init /\ [][Next]_vars

\* Threads go on with what they have begun, and activate returns.
FairSpec ==
  /\ Spec
  /\ \A s \in SubHals :
       WF_vars(AddDynamicSensors(s) \/ RemoveDynamicSensors(s) \/ TellFramework(s))
  /\ WF_vars(InitializeStep /\ binderPc # "idle")

-----------------------------------------------------------------------------

(***************************************************************************)
(* What the framework takes for connected is what mDynamicSensors holds,   *)
(* whenever no report is on its way to it, although the framework is told  *)
(* outside the mutex and initialize clears the map without it.  The one    *)
(* exception is a report amid the change of the callback: the new framework*)
(* gets to know a sensor that was cleared, or does not get to know one that*)
(* was added after that, and the two never agree again.                    *)
(***************************************************************************)
FrameworkInformed ==
  ~swapped /\ binderPc # "swap" /\ (\A s \in SubHals : ~Reporting(s)) =>
    known = dynamicSensors

(***************************************************************************)
(* The framework is told of a disconnect only for sensors it takes for     *)
(* connected, with the same exception.                                     *)
(***************************************************************************)
DisconnectsKnown ==
  ~swapped /\ binderPc # "swap" =>
    \A s \in SubHals : pc[s] = "tellDisconnected" => arg[s] \subseteq known

\* The sensors in reports of a kind that have reached the map, but not the framework.
Telling(report) == UNION {arg[s] : s \in {t \in SubHals : pc[t] = report}}

\* The map and the framework as a set and the notices of its changes: see SensorNotices.
Notices == INSTANCE SensorNotices WITH
  present <- dynamicSensors,
  arriving <- Telling("tellConnected"),
  leaving <- Telling("tellDisconnected"),
  renewing <- binderPc = "swap"

(***************************************************************************)
(* Reports implement those notices: although the framework is called       *)
(* outside mDynamicSensorsMutex, by several threads at once, no two calls  *)
(* about one sensor overlap or overtake each other, each tells what the    *)
(* map has gone through, and nothing else changes what either side holds - *)
(* with no exception for reports amid the change of the callback.          *)
(***************************************************************************)
ImplementsNotices == Notices!Spec

(***************************************************************************)
(* "So that the pending write events queue can be cleared safely": when    *)
(* disableAllSensors is done no dynamic sensor is active, although         *)
(* activate itself never looks at mDynamicSensors, and sensors come and go *)
(* while it runs.  A sensor the framework knows only because of the        *)
(* exception above stays active.                                           *)
(***************************************************************************)
InactiveWhenCleared == binderPc = "clear" /\ ~swapped => active = {}

(***************************************************************************)
(* "# of non-dynamic sensors across all subhals" in debug: mSensors holds  *)
(* the sensors of initializeSensorList and no others.  The code does not   *)
(* live up to this, see CountDroppedEvent.                                 *)
(***************************************************************************)
OnlyStaticSensors == sensors = StaticSensors

(***************************************************************************)
(* Reports reach the framework and initialize returns, although both take  *)
(* mDynamicSensorsMutex and initialize calls the sub-HALs under it.        *)
(***************************************************************************)
EverybodyGetsOn ==
  /\ \A s \in SubHals : []<>(pc[s] = "idle")
  /\ []<>(binderPc = "idle")
=============================================================================
