------------------------ MODULE DynamicSensorsProofs ------------------------
(***************************************************************************)
(* Proofs about DynamicSensors, for every number of sub-HALs the handles   *)
(* can tell apart, every set of sensors and any number of restarts.        *)
(***************************************************************************)
EXTENDS DynamicSensors, SensorHandleProofs

-----------------------------------------------------------------------------
(***************************************************************************)
(* The handles of a sub-HAL's sensors.                                     *)
(***************************************************************************)

LEMMA HandlesOfSubHal ==
  ASSUME NEW s \in SubHals, NEW handles \in SUBSET Handle
  PROVE  \A h \in HandlesOf(s, handles) :
           h \in Handle /\ ExtractSubHalIndex(h) = s /\ ClearSubHalIndex(h) \in handles
<1>1. s \in Nat /\ s < IndexValues \div 2
  BY DynamicSensorsAssumption, SensorHandleAssumption DEF SubHals
<1> SUFFICES ASSUME NEW g \in handles, SubHalIndexIsClear(g)
             PROVE  /\ SetSubHalIndex(g, s) \in Handle
                    /\ ExtractSubHalIndex(SetSubHalIndex(g, s)) = s
                    /\ ClearSubHalIndex(SetSubHalIndex(g, s)) \in handles
  BY DEF HandlesOf
<1> QED
  BY <1>1, HandleRoundTrip

LEMMA AllHandlesOfSubHal ==
  ASSUME NEW s \in SubHals, NEW handles \in SUBSET Handle,
         NEW h \in Handle, ExtractSubHalIndex(h) = s, ClearSubHalIndex(h) \in handles
  PROVE  h \in HandlesOf(s, handles)
<1>1. s \in Nat /\ s < IndexValues \div 2
  BY DynamicSensorsAssumption, SensorHandleAssumption DEF SubHals
<1>2. SubHalIndexIsClear(ClearSubHalIndex(h)) /\ SetSubHalIndex(ClearSubHalIndex(h), s) = h
  BY <1>1, HandleOfSubHal
<1> QED
  BY <1>2 DEF HandlesOf

-----------------------------------------------------------------------------
(***************************************************************************)
(* The inductive invariant.                                                *)
(***************************************************************************)

\* What a thread carries through its report: sensors of its own sub-HAL, and
\* in a disconnect sensors that are not connected any more.
ReportInv ==
  \A s \in SubHals :
    /\ Reporting(s) => \A h \in arg[s] : ExtractSubHalIndex(h) = s
    /\ pc[s] = "remove" => arg[s] \intersect connected[s] = {}
    /\ pc[s] = "tellDisconnected" => \A h \in arg[s] : ClearSubHalIndex(h) \notin connected[s]

Arriving(h) == \E s \in SubHals : pc[s] = "tellConnected" /\ h \in arg[s]
Leaving(h) == \E s \in SubHals : pc[s] = "tellDisconnected" /\ h \in arg[s]

\* The map is what the framework knows, corrected by the reports under way.
AgreeInv ==
  ~swapped /\ binderPc # "swap" =>
    \A h \in Handle :
      /\ h \in dynamicSensors <=> (h \in known \/ Arriving(h)) /\ ~Leaving(h)
      /\ Leaving(h) => h \in known

\* An active sensor is connected, and where initialize can find it.
ConnectedInv ==
  \A h \in active :
    ExtractSubHalIndex(h) \in SubHals /\ ClearSubHalIndex(h) \in connected[ExtractSubHalIndex(h)]

FoundInv ==
  ~swapped =>
    /\ binderPc \in {"idle", "lock", "disable", "start"} => active \subseteq dynamicSensors
    /\ binderPc = "disable" => active \subseteq toDisable
    /\ binderPc \in {"clear", "swap"} => active = {}

DynamicInv == TypeOK /\ ReportInv /\ AgreeInv /\ ConnectedInv /\ FoundInv

LEMMA DynamicInit == Init => DynamicInv
<1> SUFFICES ASSUME Init PROVE DynamicInv
  OBVIOUS
<1> USE DEF Init
<1>1. inits \in 0 .. MaxInits /\ reports \in 0 .. MaxReports /\ sensors \subseteq Handle
  BY DynamicSensorsAssumption
<1>2. connected \in [SubHals -> SUBSET Handle] /\ arg \in [SubHals -> SUBSET Handle]
  OBVIOUS
<1>3. TypeOK
  BY <1>1, <1>2 DEF TypeOK
<1>4. ReportInv /\ ConnectedInv /\ FoundInv
  BY DEF ReportInv, ConnectedInv, FoundInv, Reporting
<1>5. \A s \in SubHals : pc[s] = "idle"
  OBVIOUS
<1>6. AgreeInv
  BY <1>5 DEF AgreeInv, Arriving, Leaving
<1> QED
  BY <1>3, <1>4, <1>6 DEF DynamicInv

-----------------------------------------------------------------------------
(***************************************************************************)
(* The steps of a sub-HAL's thread.                                        *)
(***************************************************************************)

LEMMA ReportConnectedInv ==
  ASSUME DynamicInv, NEW s \in SubHals, NEW handles \in SUBSET Handle, ReportConnected(s, handles)
  PROVE  DynamicInv'
<1> USE DEF DynamicInv
<1>1. /\ pc \in [SubHals -> {"idle", "add", "remove", "tellConnected", "tellDisconnected"}]
      /\ arg \in [SubHals -> SUBSET Handle] /\ connected \in [SubHals -> SUBSET Handle]
  BY DEF TypeOK
<1>2. /\ pc[s] = "idle" /\ pc' = [pc EXCEPT ![s] = "add"]
      /\ arg' = [arg EXCEPT ![s] = handles]
      /\ connected' = [connected EXCEPT ![s] = @ \union handles]
      /\ UNCHANGED <<binderPc, toDisable, inits, active, sensors, dynamicSensors, known, swapped>>
  BY DEF ReportConnected, Goto, binderVars
<1>3. TypeOK'
  <2>1. reports' \in 0 .. MaxReports
    BY DynamicSensorsAssumption DEF ReportConnected, TypeOK
  <2> QED
    BY <1>1, <1>2, <2>1 DEF TypeOK
<1>4. ReportInv'
  BY <1>1, <1>2 DEF ReportInv, Reporting
<1>5. \A h \in Handle : (Arriving(h)' <=> Arriving(h)) /\ (Leaving(h)' <=> Leaving(h))
  BY <1>1, <1>2 DEF Arriving, Leaving
<1>6. AgreeInv'
  BY <1>2, <1>5 DEF AgreeInv
<1>7. ConnectedInv'
  BY <1>1, <1>2 DEF ConnectedInv
<1>8. FoundInv'
  BY <1>2 DEF FoundInv
<1> QED
  BY <1>3, <1>4, <1>6, <1>7, <1>8

\* A sensor of the sub-HAL that stays active was not in the report.
LEMMA ReportDisconnectedInv ==
  ASSUME DynamicInv, NEW s \in SubHals, NEW handles \in SUBSET Handle,
         ReportDisconnected(s, handles)
  PROVE  DynamicInv'
<1> USE DEF DynamicInv
<1>1. /\ pc \in [SubHals -> {"idle", "add", "remove", "tellConnected", "tellDisconnected"}]
      /\ arg \in [SubHals -> SUBSET Handle] /\ connected \in [SubHals -> SUBSET Handle]
      /\ active \subseteq Handle
  BY DEF TypeOK
<1>2. /\ pc[s] = "idle" /\ pc' = [pc EXCEPT ![s] = "remove"]
      /\ arg' = [arg EXCEPT ![s] = handles]
      /\ connected' = [connected EXCEPT ![s] = @ \ handles]
      /\ active' = active \ HandlesOf(s, handles)
      /\ UNCHANGED <<binderPc, toDisable, inits, sensors, dynamicSensors, known, swapped>>
  BY DEF ReportDisconnected, Goto, binderVars
<1>3. TypeOK'
  <2>1. reports' \in 0 .. MaxReports
    BY DynamicSensorsAssumption DEF ReportDisconnected, TypeOK
  <2> QED
    BY <1>1, <1>2, <2>1 DEF TypeOK
<1>4. ReportInv'
  BY <1>1, <1>2 DEF ReportInv, Reporting
<1>5. \A h \in Handle : (Arriving(h)' <=> Arriving(h)) /\ (Leaving(h)' <=> Leaving(h))
  BY <1>1, <1>2 DEF Arriving, Leaving
<1>6. AgreeInv'
  BY <1>2, <1>5 DEF AgreeInv
<1>7. ConnectedInv'
  <2> SUFFICES ASSUME NEW h \in active'
               PROVE  /\ ExtractSubHalIndex(h) \in SubHals
                      /\ ClearSubHalIndex(h) \in connected'[ExtractSubHalIndex(h)]
    BY DEF ConnectedInv
  <2>1. h \in active /\ h \in Handle /\ h \notin HandlesOf(s, handles)
    BY <1>1, <1>2
  <2>2. ExtractSubHalIndex(h) \in SubHals
        /\ ClearSubHalIndex(h) \in connected[ExtractSubHalIndex(h)]
    BY <2>1 DEF ConnectedInv
  <2>3. ExtractSubHalIndex(h) = s => ClearSubHalIndex(h) \notin handles
    BY <2>1, AllHandlesOfSubHal
  <2> QED
    BY <1>1, <1>2, <2>2, <2>3
<1>8. FoundInv'
  BY <1>2 DEF FoundInv
<1> QED
  BY <1>3, <1>4, <1>6, <1>7, <1>8

\* A sensor that arrives is not on its way out: its thread has done one report
\* before it begins the next.
LEMMA AddInv ==
  ASSUME DynamicInv, NEW s \in SubHals, AddDynamicSensors(s)
  PROVE  DynamicInv'
<1> USE DEF DynamicInv
<1>1. /\ pc \in [SubHals -> {"idle", "add", "remove", "tellConnected", "tellDisconnected"}]
      /\ arg \in [SubHals -> SUBSET Handle] /\ connected \in [SubHals -> SUBSET Handle]
      /\ dynamicSensors \subseteq Handle
  BY DEF TypeOK
<1> DEFINE added == HandlesOf(s, arg[s])
<1>2. \A h \in added : h \in Handle /\ ExtractSubHalIndex(h) = s
  BY <1>1, HandlesOfSubHal
<1>3. /\ pc[s] = "add" /\ pc' = [pc EXCEPT ![s] = "tellConnected"]
      /\ arg' = [arg EXCEPT ![s] = added]
      /\ dynamicSensors' = dynamicSensors \union added
      /\ UNCHANGED <<connected, reports, binderPc, toDisable, inits, active, sensors, known, swapped>>
  BY <1>1 DEF AddDynamicSensors, Goto, binderVars
<1> HIDE DEF added
<1>4. TypeOK'
  BY <1>1, <1>2, <1>3 DEF TypeOK
<1>5. ReportInv'
  BY <1>1, <1>2, <1>3 DEF ReportInv, Reporting
<1>6. AgreeInv'
  <2>1. \A h \in Handle : Leaving(h)' <=> Leaving(h)
    BY <1>1, <1>3 DEF Leaving
  <2>2. \A h \in Handle : Arriving(h)' <=> Arriving(h) \/ h \in added
    BY <1>1, <1>3 DEF Arriving
  <2>3. \A h \in added : ~Leaving(h)
    BY <1>1, <1>2, <1>3 DEF Leaving, ReportInv, Reporting
  <2> QED
    BY <1>3, <2>1, <2>2, <2>3 DEF AgreeInv
<1>7. ConnectedInv' /\ FoundInv'
  BY <1>3 DEF ConnectedInv, FoundInv
<1> QED
  BY <1>4, <1>5, <1>6, <1>7

\* What leaves the map is neither active nor still on its way in.
LEMMA RemoveInv ==
  ASSUME DynamicInv, NEW s \in SubHals, RemoveDynamicSensors(s)
  PROVE  DynamicInv'
<1> USE DEF DynamicInv
<1>1. /\ pc \in [SubHals -> {"idle", "add", "remove", "tellConnected", "tellDisconnected"}]
      /\ arg \in [SubHals -> SUBSET Handle] /\ connected \in [SubHals -> SUBSET Handle]
      /\ dynamicSensors \subseteq Handle
  BY DEF TypeOK
<1> DEFINE removed == HandlesOf(s, arg[s]) \intersect dynamicSensors
<1>2. \A h \in removed : /\ h \in dynamicSensors /\ h \in Handle
                        /\ ExtractSubHalIndex(h) = s /\ ClearSubHalIndex(h) \in arg[s]
  BY <1>1, HandlesOfSubHal
<1>3. /\ pc[s] = "remove" /\ pc' = [pc EXCEPT ![s] = "tellDisconnected"]
      /\ arg' = [arg EXCEPT ![s] = removed]
      /\ dynamicSensors' = dynamicSensors \ removed
      /\ UNCHANGED <<connected, reports, binderPc, toDisable, inits, active, sensors, known, swapped>>
  BY <1>1 DEF RemoveDynamicSensors, Goto, binderVars
<1> HIDE DEF removed
<1>4. TypeOK'
  BY <1>1, <1>2, <1>3 DEF TypeOK
<1>5. \A h \in removed : ClearSubHalIndex(h) \notin connected[s]
  BY <1>2, <1>3 DEF ReportInv
<1>6. ReportInv'
  BY <1>1, <1>2, <1>3, <1>5 DEF ReportInv, Reporting
<1>7. AgreeInv'
  <2>1. \A h \in Handle : Leaving(h)' <=> Leaving(h) \/ h \in removed
    BY <1>1, <1>3 DEF Leaving
  <2>2. \A h \in Handle : Arriving(h)' <=> Arriving(h)
    BY <1>1, <1>3 DEF Arriving
  <2>3. \A h \in removed : ~Arriving(h)
    BY <1>1, <1>2, <1>3 DEF Arriving, ReportInv, Reporting
  <2> QED
    BY <1>2, <1>3, <2>1, <2>2, <2>3 DEF AgreeInv
<1>8. ConnectedInv'
  BY <1>3 DEF ConnectedInv
<1>9. active \intersect removed = {}
  BY <1>2, <1>5 DEF ConnectedInv
<1>10. FoundInv'
  BY <1>3, <1>9 DEF FoundInv
<1> QED
  BY <1>4, <1>6, <1>7, <1>8, <1>10

\* The framework is told, and the correction is gone.
LEMMA TellInv ==
  ASSUME DynamicInv, NEW s \in SubHals, TellFramework(s)
  PROVE  DynamicInv'
<1> USE DEF DynamicInv
<1>1. /\ pc \in [SubHals -> {"idle", "add", "remove", "tellConnected", "tellDisconnected"}]
      /\ arg \in [SubHals -> SUBSET Handle] /\ known \subseteq Handle
  BY DEF TypeOK
<1>2. /\ pc' = [pc EXCEPT ![s] = "idle"]
      /\ arg' = [arg EXCEPT ![s] = {}]
      /\ UNCHANGED <<connected, reports, binderPc, toDisable, inits, active, sensors,
                     dynamicSensors, swapped>>
  BY DEF TellFramework, Goto, binderVars
<1>3. TypeOK'
  <2>1. known' \subseteq Handle
    BY <1>1 DEF TellFramework
  <2>2. /\ pc' \in [SubHals -> {"idle", "add", "remove", "tellConnected", "tellDisconnected"}]
        /\ arg' \in [SubHals -> SUBSET Handle]
    BY <1>1, <1>2
  <2> QED
    BY <1>2, <2>1, <2>2 DEF TypeOK
<1>4. ReportInv'
  BY <1>1, <1>2 DEF ReportInv, Reporting
<1>5. ConnectedInv' /\ FoundInv'
  BY <1>2 DEF ConnectedInv, FoundInv
<1>6. \A t \in SubHals : \A h \in arg[t] : t # s /\ Reporting(t) /\ Reporting(s) => h \notin arg[s]
  BY DEF ReportInv
<1>7. CASE pc[s] = "tellConnected"
  <2>1. known' = known \union arg[s]
    BY <1>7 DEF TellFramework
  <2>2. \A h \in Handle : Leaving(h)' <=> Leaving(h)
    BY <1>1, <1>2, <1>7 DEF Leaving
  <2>3. \A h \in Handle : Arriving(h) <=> Arriving(h)' \/ h \in arg[s]
    BY <1>1, <1>2, <1>7 DEF Arriving
  <2>4. AgreeInv'
    BY <1>2, <2>1, <2>2, <2>3 DEF AgreeInv
  <2> QED
    BY <1>3, <1>4, <1>5, <2>4
<1>8. CASE pc[s] = "tellDisconnected"
  <2>1. known' = known \ arg[s]
    BY <1>8 DEF TellFramework
  <2>2. \A h \in Handle : Leaving(h) <=> Leaving(h)' \/ h \in arg[s]
    BY <1>1, <1>2, <1>8 DEF Leaving
  <2>3. \A h \in Handle : Arriving(h)' <=> Arriving(h)
    BY <1>1, <1>2, <1>8 DEF Arriving
  <2>4. \A h \in arg[s] : ~Arriving(h) /\ ~Leaving(h)'
    BY <1>1, <1>2, <1>6, <1>8 DEF Arriving, Leaving, Reporting
  <2>5. AgreeInv'
    BY <1>2, <2>1, <2>2, <2>3, <2>4 DEF AgreeInv
  <2> QED
    BY <1>3, <1>4, <1>5, <2>5
<1> QED
  BY <1>7, <1>8 DEF TellFramework

-----------------------------------------------------------------------------
(***************************************************************************)
(* The framework, the writer thread and initialize leave reports alone.    *)
(***************************************************************************)

LEMMA ReportsKept ==
  ASSUME DynamicInv, UNCHANGED reportVars
  PROVE  /\ ReportInv'
         /\ \A h \in Handle : (Arriving(h)' <=> Arriving(h)) /\ (Leaving(h)' <=> Leaving(h))
  BY DEF DynamicInv, ReportInv, Reporting, Arriving, Leaving, reportVars

\* A sensor the framework knows and that is connected is in the map.
LEMMA ActivateInv ==
  ASSUME DynamicInv, NEW h \in known, Activate(h)
  PROVE  DynamicInv'
<1> USE DEF DynamicInv
<1>1. h \in Handle
  BY DEF TypeOK
<1>2. UNCHANGED <<reportVars, binderVars, sensors, dynamicSensors, known, swapped>>
      /\ active' = active \union {h} /\ binderPc = "idle"
  BY DEF Activate
<1>3. TypeOK'
  BY <1>1, <1>2 DEF TypeOK, reportVars, binderVars
<1>4. ReportInv' /\ AgreeInv'
  BY <1>2, ReportsKept DEF AgreeInv, binderVars
<1>5. ConnectedInv'
  BY <1>2 DEF ConnectedInv, Activate, reportVars
<1>6. ~Leaving(h)
  BY DEF Leaving, ReportInv, Reporting, Activate
<1>7. ~swapped => h \in dynamicSensors
  BY <1>1, <1>2, <1>6 DEF AgreeInv
<1>8. FoundInv'
  BY <1>2, <1>7 DEF FoundInv, binderVars
<1> QED
  BY <1>3, <1>4, <1>5, <1>8

LEMMA CountInv ==
  ASSUME DynamicInv, NEW h \in Handle, CountDroppedEvent(h)
  PROVE  DynamicInv'
<1> USE DEF DynamicInv
<1>1. UNCHANGED <<reportVars, binderVars, active, dynamicSensors, known, swapped>>
      /\ sensors' = sensors \union {h}
  BY DEF CountDroppedEvent
<1>2. TypeOK'
  BY <1>1 DEF TypeOK, reportVars, binderVars
<1>3. ReportInv' /\ AgreeInv'
  BY <1>1, ReportsKept DEF AgreeInv, binderVars
<1> QED
  BY <1>1, <1>2, <1>3 DEF ConnectedInv, FoundInv, reportVars, binderVars

(***************************************************************************)
(* initialize.  The callback is changed while active is empty, unless a    *)
(* sensor was left from an earlier exception, and then "swapped" says so.  *)
(***************************************************************************)
LEMMA InitializeInv ==
  ASSUME DynamicInv, InitializeStep
  PROVE  DynamicInv'
<1> USE DEF DynamicInv, Binder
<1>1. UNCHANGED reportVars
  BY DEF InitializeStep, DisableSensors, LockDynamicSensors, DisableDynamicSensor,
    UnlockDynamicSensors, ClearDynamicSensors, SwapCallback, StartAgain
<1>2. ReportInv'
      /\ \A h \in Handle : (Arriving(h)' <=> Arriving(h)) /\ (Leaving(h)' <=> Leaving(h))
  BY <1>1, ReportsKept
<1>3. active' \subseteq active
  BY DEF InitializeStep, DisableSensors, LockDynamicSensors, DisableDynamicSensor,
    UnlockDynamicSensors, ClearDynamicSensors, SwapCallback, StartAgain
<1>4. ConnectedInv'
  BY <1>1, <1>3 DEF ConnectedInv, reportVars
<1>5. TypeOK' /\ AgreeInv' /\ FoundInv'
  <2>1. CASE DisableSensors
    <3>1. inits' \in 0 .. MaxInits
      BY <2>1, DynamicSensorsAssumption DEF DisableSensors, TypeOK
    <3> QED
      BY <1>2, <2>1, <3>1 DEF DisableSensors, TypeOK, reportVars, AgreeInv, FoundInv
  <2>2. CASE LockDynamicSensors
    BY <1>2, <2>2 DEF LockDynamicSensors, TypeOK, reportVars, AgreeInv, FoundInv
  <2>3. ASSUME NEW h \in toDisable, DisableDynamicSensor(h) PROVE TypeOK' /\ AgreeInv' /\ FoundInv'
    BY <1>2, <2>3 DEF DisableDynamicSensor, TypeOK, reportVars, AgreeInv, FoundInv
  <2>4. CASE UnlockDynamicSensors
    BY <1>2, <2>4 DEF UnlockDynamicSensors, TypeOK, reportVars, AgreeInv, FoundInv
  <2>5. CASE ClearDynamicSensors
    BY <1>2, <2>5 DEF ClearDynamicSensors, TypeOK, reportVars, AgreeInv, FoundInv
  <2>6. CASE SwapCallback
    <3>1. /\ known' = {} /\ binderPc = "swap" /\ binderPc' = "start"
          /\ UNCHANGED <<reportVars, toDisable, inits, active, sensors, dynamicSensors>>
          /\ ~swapped' => /\ dynamicSensors = {}
                          /\ \A s \in SubHals : ~Reporting(s)
                          /\ swapped => active = {}
      BY <2>6 DEF SwapCallback
    <3>2. TypeOK'
      <4>1. swapped' \in BOOLEAN
        BY <2>6 DEF SwapCallback
      <4> QED
        BY <3>1, <4>1 DEF TypeOK, reportVars
    <3>3. ~swapped' => \A h \in Handle : ~Arriving(h) /\ ~Leaving(h)
      BY <3>1 DEF Arriving, Leaving, Reporting
    <3>4. AgreeInv'
      BY <1>2, <3>1, <3>3 DEF AgreeInv
    <3>5. FoundInv'
      BY <3>1 DEF FoundInv, TypeOK
    <3> QED
      BY <3>2, <3>4, <3>5
  <2>7. CASE StartAgain
    BY <1>2, <2>7 DEF StartAgain, TypeOK, reportVars, AgreeInv, FoundInv
  <2> QED
    BY <2>1, <2>2, <2>3, <2>4, <2>5, <2>6, <2>7 DEF InitializeStep
<1> QED
  BY <1>2, <1>4, <1>5

-----------------------------------------------------------------------------

LEMMA DynamicNext == DynamicInv /\ [Next]_vars => DynamicInv'
<1> SUFFICES ASSUME DynamicInv, [Next]_vars PROVE DynamicInv'
  OBVIOUS
<1>1. ASSUME NEW s \in SubHals, SubHalStep(s) PROVE DynamicInv'
  <2>1. ASSUME NEW handles \in Reportables,
               ReportConnected(s, handles) \/ ReportDisconnected(s, handles)
        PROVE  DynamicInv'
    <3>1. handles \in SUBSET Handle
      BY DynamicSensorsAssumption
    <3> QED
      BY <2>1, <3>1, ReportConnectedInv, ReportDisconnectedInv
  <2> QED
    BY <1>1, <2>1, AddInv, RemoveInv, TellInv DEF SubHalStep
<1>2. ASSUME NEW h \in sensors \union dynamicSensors, CountDroppedEvent(h) PROVE DynamicInv'
  <2>1. h \in Handle
    BY DEF DynamicInv, TypeOK
  <2> QED
    BY <1>2, <2>1, CountInv
<1>3. CASE UNCHANGED vars
  <2>1. UNCHANGED reportVars
    BY <1>3 DEF vars
  <2>2. /\ ReportInv'
        /\ \A h \in Handle : (Arriving(h)' <=> Arriving(h)) /\ (Leaving(h)' <=> Leaving(h))
    BY <2>1, ReportsKept
  <2> QED
    BY <1>3, <2>2 DEF vars, reportVars, binderVars, DynamicInv, TypeOK, AgreeInv,
      ConnectedInv, FoundInv
<1> QED
  BY <1>1, <1>2, <1>3, ActivateInv, InitializeInv DEF Next

LEMMA DynamicInvariant == Spec => []DynamicInv
  BY DynamicInit, DynamicNext, PTL DEF Spec

(***************************************************************************)
(* Both maps hold handles only: the position that is put into a dynamic    *)
(* sensor's handle never spills over, for any number of sub-HALs allowed.  *)
(***************************************************************************)
THEOREM DynamicTypeCorrect == Spec => []TypeOK
<1>1. DynamicInv => TypeOK
  BY DEF DynamicInv
<1> QED
  BY <1>1, DynamicInvariant, PTL

(***************************************************************************)
(* Whenever no report is on its way the framework takes exactly those      *)
(* sensors for connected that mDynamicSensors holds, unless the callback   *)
(* was changed amid a report.                                              *)
(***************************************************************************)
THEOREM FrameworkKnowsTheMap == Spec => []FrameworkInformed
<1>1. DynamicInv => FrameworkInformed
  <2> SUFFICES ASSUME DynamicInv, ~swapped, binderPc # "swap", \A s \in SubHals : ~Reporting(s)
               PROVE  known = dynamicSensors
    BY DEF FrameworkInformed
  <2>1. \A h \in Handle : ~Arriving(h) /\ ~Leaving(h)
    BY DEF Arriving, Leaving, Reporting
  <2>2. \A h \in Handle : h \in known <=> h \in dynamicSensors
    BY <2>1 DEF DynamicInv, AgreeInv
  <2> QED
    BY <2>2 DEF DynamicInv, TypeOK
<1> QED
  BY <1>1, DynamicInvariant, PTL

(***************************************************************************)
(* The framework is never told of the disconnect of a sensor it does not   *)
(* know, with the same exception.                                          *)
(***************************************************************************)
THEOREM OnlyKnownDisconnects == Spec => []DisconnectsKnown
<1>1. DynamicInv => DisconnectsKnown
  BY DEF DynamicInv, TypeOK, AgreeInv, Leaving, DisconnectsKnown
<1> QED
  BY <1>1, DynamicInvariant, PTL

(***************************************************************************)
(* disableAllSensors leaves no dynamic sensor active, however sensors come *)
(* and go meanwhile, in any number of restarts, with the same exception.   *)
(***************************************************************************)
THEOREM NoneActiveWhenCleared == Spec => []InactiveWhenCleared
<1>1. DynamicInv => InactiveWhenCleared
  BY DEF DynamicInv, FoundInv, InactiveWhenCleared
<1> QED
  BY <1>1, DynamicInvariant, PTL

-----------------------------------------------------------------------------
(***************************************************************************)
(* The refinement of SensorNotices: what each step does to the notices     *)
(* under way, given that a thread reports sensors of its own sub-HAL only. *)
(***************************************************************************)

NoticesKept == Telling("tellConnected")' = Telling("tellConnected")
                 /\ Telling("tellDisconnected")' = Telling("tellDisconnected")

LEMMA TellingIs ==
  ASSUME NEW report
  PROVE  \A h : h \in Telling(report) <=> \E s \in SubHals : pc[s] = report /\ h \in arg[s]
BY DEF Telling

LEMMA TellingIsNext ==
  ASSUME NEW report
  PROVE  \A h : h \in Telling(report)' <=> \E s \in SubHals : pc'[s] = report /\ h \in arg'[s]
BY DEF Telling

\* The other threads' reports stay as they are.
OthersKept(s) == \A t \in SubHals \ {s} : pc'[t] = pc[t] /\ arg'[t] = arg[t]

\* A step of one thread changes its own notices only.
LEMMA TellingOfOthers ==
  ASSUME NEW s \in SubHals, OthersKept(s), NEW report
  PROVE  /\ pc[s] # report /\ pc'[s] # report => Telling(report)' = Telling(report)
         /\ pc[s] # report /\ pc'[s] = report => Telling(report)' = Telling(report) \union arg'[s]
         /\ pc[s] = report /\ pc'[s] # report =>
              \A h : h \in Telling(report)' <=>
                       \E t \in SubHals \ {s} : pc[t] = report /\ h \in arg[t]
<1>1. \A t \in SubHals \ {s} : pc'[t] = pc[t] /\ arg'[t] = arg[t]
  BY DEF OthersKept
<1>2. \A h : h \in Telling(report) <=> \E t \in SubHals : pc[t] = report /\ h \in arg[t]
  BY TellingIs
<1>3. \A h : h \in Telling(report)' <=> \E t \in SubHals : pc'[t] = report /\ h \in arg'[t]
  BY TellingIsNext
<1>4. CASE pc[s] # report /\ pc'[s] # report
  BY <1>1, <1>2, <1>3, <1>4
<1>5. CASE pc[s] # report /\ pc'[s] = report
  BY <1>1, <1>2, <1>3, <1>5
<1>6. CASE pc[s] = report /\ pc'[s] # report
  BY <1>1, <1>3, <1>6
<1> QED
  BY <1>4, <1>5, <1>6

LEMMA NoticesStart ==
  ASSUME TypeOK, NEW s \in SubHals, NEW handles,
         ReportConnected(s, handles) \/ ReportDisconnected(s, handles)
  PROVE  UNCHANGED Notices!vars
<1>1. /\ pc[s] = "idle" /\ arg' = [arg EXCEPT ![s] = handles]
      /\ pc' = [pc EXCEPT ![s] = "add"] \/ pc' = [pc EXCEPT ![s] = "remove"]
      /\ UNCHANGED <<binderPc, dynamicSensors, known>>
  BY DEF ReportConnected, ReportDisconnected, Goto, binderVars
<1>2. OthersKept(s) /\ pc'[s] \in {"add", "remove"}
  BY <1>1 DEF TypeOK, OthersKept
<1>3. NoticesKept
  BY <1>1, <1>2, TellingOfOthers DEF NoticesKept
<1> QED
  BY <1>1, <1>3 DEF Notices!vars, NoticesKept

LEMMA NoticesConnect ==
  ASSUME DynamicInv, NEW s \in SubHals, AddDynamicSensors(s)
  PROVE  Notices!Connect
<1> DEFINE added == HandlesOf(s, arg[s])
<1>1. /\ pc[s] = "add" /\ pc' = [pc EXCEPT ![s] = "tellConnected"]
      /\ arg' = [arg EXCEPT ![s] = added]
      /\ dynamicSensors' = dynamicSensors \union added
      /\ UNCHANGED <<binderPc, known>>
  BY DEF AddDynamicSensors, Goto, binderVars, DynamicInv, TypeOK
<1>2. \A h \in added : ExtractSubHalIndex(h) = s
  BY HandlesOfSubHal DEF DynamicInv, TypeOK
<1> HIDE DEF added
<1>3. /\ Telling("tellConnected")' = Telling("tellConnected") \union added
      /\ Telling("tellDisconnected")' = Telling("tellDisconnected")
  <2>1. pc'[s] = "tellConnected" /\ arg'[s] = added /\ OthersKept(s)
    BY <1>1 DEF DynamicInv, TypeOK, OthersKept
  <2> QED
    BY <1>1, <2>1, TellingOfOthers
<1>4. \A h \in added : h \notin Telling("tellConnected") /\ h \notin Telling("tellDisconnected")
  BY <1>1, <1>2, TellingIs DEF DynamicInv, ReportInv, Reporting
<1>5. Telling("tellConnected")' \ Telling("tellConnected") = added
  BY <1>3, <1>4
<1> QED
  BY <1>1, <1>3, <1>4, <1>5 DEF Notices!Connect

LEMMA NoticesDisconnect ==
  ASSUME DynamicInv, NEW s \in SubHals, RemoveDynamicSensors(s)
  PROVE  Notices!Disconnect
<1> DEFINE removed == HandlesOf(s, arg[s]) \intersect dynamicSensors
<1>1. /\ pc[s] = "remove" /\ pc' = [pc EXCEPT ![s] = "tellDisconnected"]
      /\ arg' = [arg EXCEPT ![s] = removed]
      /\ dynamicSensors' = dynamicSensors \ removed
      /\ UNCHANGED <<binderPc, known>>
  BY DEF RemoveDynamicSensors, Goto, binderVars, DynamicInv, TypeOK
<1>2. \A h \in removed : ExtractSubHalIndex(h) = s /\ h \in dynamicSensors
  BY HandlesOfSubHal DEF DynamicInv, TypeOK
<1> HIDE DEF removed
<1>3. /\ Telling("tellDisconnected")' = Telling("tellDisconnected") \union removed
      /\ Telling("tellConnected")' = Telling("tellConnected")
  <2>1. pc'[s] = "tellDisconnected" /\ arg'[s] = removed /\ OthersKept(s)
    BY <1>1 DEF DynamicInv, TypeOK, OthersKept
  <2> QED
    BY <1>1, <2>1, TellingOfOthers
<1>4. \A h \in removed : h \notin Telling("tellConnected") /\ h \notin Telling("tellDisconnected")
  BY <1>1, <1>2, TellingIs DEF DynamicInv, ReportInv, Reporting
<1>5. Telling("tellDisconnected")' \ Telling("tellDisconnected") = removed
  BY <1>3, <1>4
<1> QED
  BY <1>1, <1>2, <1>3, <1>4, <1>5 DEF Notices!Disconnect

LEMMA NoticesDeliver ==
  ASSUME DynamicInv, NEW s \in SubHals, TellFramework(s)
  PROVE  Notices!Deliver
<1>1. /\ pc' = [pc EXCEPT ![s] = "idle"] /\ arg' = [arg EXCEPT ![s] = {}]
      /\ UNCHANGED <<binderPc, dynamicSensors>>
      /\ \/ pc[s] = "tellConnected" /\ known' = known \union arg[s]
         \/ pc[s] = "tellDisconnected" /\ known' = known \ arg[s]
  BY DEF TellFramework, Goto, binderVars
<1>2. \A h \in arg[s] : ExtractSubHalIndex(h) = s
  BY <1>1 DEF DynamicInv, ReportInv, Reporting
<1>0. pc'[s] = "idle" /\ OthersKept(s)
  BY <1>1 DEF DynamicInv, TypeOK, OthersKept
<1>3. ASSUME NEW report, pc[s] = report, report \in {"tellConnected", "tellDisconnected"}
      PROVE  /\ Telling(report)' = Telling(report) \ arg[s]
             /\ arg[s] \subseteq Telling(report)
  <2>1. \A h : h \in Telling(report)' <=>
                 \E t \in SubHals \ {s} : pc[t] = report /\ h \in arg[t]
    BY <1>0, <1>3, TellingOfOthers
  <2>2. \A h : h \in Telling(report) <=> \E t \in SubHals : pc[t] = report /\ h \in arg[t]
    BY TellingIs
  <2>3. \A t \in SubHals \ {s} : pc[t] = report => \A h \in arg[t] : h \notin arg[s]
    BY <1>2, <1>3 DEF DynamicInv, ReportInv, Reporting
  <2> QED
    BY <1>3, <2>1, <2>2, <2>3
<1>4. CASE pc[s] = "tellConnected"
  <2>1. known' = known \union arg[s]
    BY <1>1, <1>4
  <2>2. Telling("tellDisconnected")' = Telling("tellDisconnected")
    BY <1>0, <1>4, TellingOfOthers
  <2>3. /\ Telling("tellConnected")' = Telling("tellConnected") \ arg[s]
        /\ arg[s] \subseteq Telling("tellConnected")
    BY <1>3, <1>4
  <2> QED
    BY <1>1, <2>1, <2>2, <2>3 DEF Notices!Deliver
<1>5. CASE pc[s] = "tellDisconnected"
  <2>1. known' = known \ arg[s]
    BY <1>1, <1>5
  <2>2. Telling("tellConnected")' = Telling("tellConnected")
    BY <1>0, <1>5, TellingOfOthers
  <2>3. /\ Telling("tellDisconnected")' = Telling("tellDisconnected") \ arg[s]
        /\ arg[s] \subseteq Telling("tellDisconnected")
    BY <1>3, <1>5
  <2> QED
    BY <1>1, <2>1, <2>2, <2>3 DEF Notices!Deliver
<1> QED
  BY <1>1, <1>4, <1>5

LEMMA TellingUnchanged ==
  ASSUME UNCHANGED <<pc, arg>> PROVE NoticesKept
BY DEF NoticesKept, Telling

\* Of initialize the framework sees two steps, of the rest nothing.
LEMMA NoticesRenewed ==
  ASSUME InitializeStep
  PROVE  Notices!Next \/ UNCHANGED Notices!vars
<1>1. NoticesKept
  BY TellingUnchanged DEF InitializeStep, DisableSensors, LockDynamicSensors, DisableDynamicSensor,
    UnlockDynamicSensors, ClearDynamicSensors, SwapCallback, StartAgain, reportVars
<1>2. CASE ClearDynamicSensors
  BY <1>1, <1>2 DEF ClearDynamicSensors, Binder, NoticesKept, Notices!Forget, Notices!Next
<1>3. CASE SwapCallback
  BY <1>1, <1>3 DEF SwapCallback, Binder, NoticesKept, Notices!NewFramework, Notices!Next
<1>4. CASE \/ DisableSensors \/ LockDynamicSensors \/ UnlockDynamicSensors \/ StartAgain
           \/ \E h \in toDisable : DisableDynamicSensor(h)
  <2>1. UNCHANGED <<dynamicSensors, known>> /\ binderPc # "swap" /\ binderPc' # "swap"
    BY <1>4 DEF DisableSensors, LockDynamicSensors, UnlockDynamicSensors, StartAgain,
      DisableDynamicSensor, Binder
  <2> QED
    BY <1>1, <2>1 DEF NoticesKept, Notices!vars
<1> QED
  BY <1>2, <1>3, <1>4 DEF InitializeStep

LEMMA NoticesStep == DynamicInv /\ [Next]_vars => [Notices!Next]_(Notices!vars)
<1> SUFFICES ASSUME DynamicInv, [Next]_vars PROVE Notices!Next \/ UNCHANGED Notices!vars
  OBVIOUS
<1>1. ASSUME NEW s \in SubHals, SubHalStep(s) PROVE Notices!Next \/ UNCHANGED Notices!vars
  BY <1>1, NoticesStart, NoticesConnect, NoticesDisconnect, NoticesDeliver
    DEF SubHalStep, DynamicInv, Notices!Next
<1>2. CASE \/ \E h \in known : Activate(h)
           \/ \E h \in sensors \union dynamicSensors : CountDroppedEvent(h)
           \/ UNCHANGED vars
  <2>1. UNCHANGED <<pc, arg, binderPc, dynamicSensors, known>>
    BY <1>2 DEF Activate, CountDroppedEvent, vars, reportVars, binderVars
  <2> QED
    BY <2>1, TellingUnchanged DEF NoticesKept, Notices!vars
<1> QED
  BY <1>1, <1>2, NoticesRenewed DEF Next

(***************************************************************************)
(* Every behaviour of the dynamic sensors is one of a set and the notices  *)
(* of its changes, for every number of sub-HALs: the calls of the framework*)
(* outside the mutex never overlap or overtake each other for one sensor,  *)
(* also across restarts amid reports.                                      *)
(***************************************************************************)
THEOREM DynamicSensorsSendNotices == Spec => ImplementsNotices
<1>1. Init => Notices!Init
  BY DEF Init, Telling, Notices!Init
<1>2. DynamicInv /\ [Next]_vars => [Notices!Next]_(Notices!vars)
  BY NoticesStep
<1> QED
  BY <1>1, <1>2, DynamicInvariant, PTL DEF Spec, ImplementsNotices, Notices!Spec
=============================================================================
