------------------------- MODULE SensorTableProofs --------------------------
(***************************************************************************)
(* Proofs about SensorTable, for every number of libraries up to half the  *)
(* range of the top byte, and every list of sensors they may report.       *)
(***************************************************************************)
EXTENDS SensorTable, SensorHandleProofs, SequenceTheorems

-----------------------------------------------------------------------------
(***************************************************************************)
(* The inductive invariant.  The positions handed out stay below the number*)
(* of libraries; no call is passed on before the table is complete; and a  *)
(* flag that is kept was reported.                                         *)
(***************************************************************************)

PositionsInv ==
  /\ toLoad + subHalCount <= Libraries
  /\ toList # <<>> => listing > 0
  /\ asked.call = "sensor" => Constructed

FlagsReported ==
  \A h \in DOMAIN sensors :
    sensors[h] =>
      [subHal |-> ExtractSubHalIndex(h), handle |-> ClearSubHalIndex(h), direct |-> TRUE]
        \in reported

TableInv ==
  /\ TypeOK
  /\ PositionsInv
  /\ HandlesLeadHome
  /\ DirectChannelOfOne
  /\ FlagsReported
  /\ DirectReportsGoHome
  /\ CallsGoHome

LEMMA TableInit == Init => TableInv
  BY SensorTableAssumption DEF Init, TableInv, TypeOK, PositionsInv, Constructed, HandlesLeadHome,
    DirectChannelOfOne, FlagsReported, DirectReportsGoHome, CallsGoHome, NoRequest, Asked, Sensor,
    Constructed

\* One more sub-HAL makes no handle invalid, and no request lead elsewhere.
LEMMA LoadInv == TableInv /\ LoadSubHal => TableInv'
<1> SUFFICES ASSUME TableInv, LoadSubHal PROVE TableInv'
  OBVIOUS
<1> USE DEF TableInv, LoadSubHal
<1>1. toLoad' = toLoad - 1 /\ toLoad \in Nat /\ subHalCount \in Nat
      /\ subHalCount' \in {subHalCount, subHalCount + 1}
  BY SensorTableAssumption DEF TypeOK
<1>2. TypeOK' /\ PositionsInv'
  BY <1>1, SensorTableAssumption, SMTT(30) DEF TypeOK, PositionsInv, Constructed
<1>3. HandlesLeadHome'
  BY <1>1 DEF HandlesLeadHome, IsSubHalIndexValid
<1> QED
  BY <1>1, <1>2, <1>3 DEF DirectChannelOfOne, FlagsReported, DirectReportsGoHome, CallsGoHome

LEMMA AskInv == TableInv /\ AskSubHal => TableInv'
<1> SUFFICES ASSUME TableInv, AskSubHal PROVE TableInv'
  OBVIOUS
<1> USE DEF TableInv, AskSubHal
<1>1. toList' \in Seq(Sensor)
  <2>1. toList' \in Reports \/ toList' = <<>>
    OBVIOUS
  <2>2. Reports \subseteq Seq(Sensor) /\ <<>> \in Seq(Sensor)
    BY SensorTableAssumption, EmptySeq
  <2> QED
    BY <2>1, <2>2
<1>2. TypeOK' /\ PositionsInv'
  BY <1>1, SensorTableAssumption DEF TypeOK, PositionsInv, Constructed
<1> QED
  BY <1>2 DEF HandlesLeadHome, IsSubHalIndexValid, DirectChannelOfOne, FlagsReported,
    DirectReportsGoHome, CallsGoHome

(***************************************************************************)
(* A listed sensor: its new handle leads back to the sub-HAL that is being *)
(* listed, and it keeps a direct flag only if that sub-HAL is, or becomes, *)
(* the one with the direct channels.                                       *)
(***************************************************************************)
LEMMA ListInv == TableInv /\ ListSensor => TableInv'
<1> SUFFICES ASSUME TableInv, ListSensor PROVE TableInv'
  OBVIOUS
<1> USE DEF TableInv
<1> DEFINE sensor == Head(toList)
           subHal == listing - 1
           handle == SetSubHalIndex(sensor.handle, subHal)
<1>1. sensor \in Sensor /\ toList' \in Seq(Sensor) /\ sensor.handle \in Handle
      /\ sensor.direct \in BOOLEAN
  <2>1. toList \in Seq(Sensor) /\ toList # <<>> /\ toList' = Tail(toList)
    BY DEF TypeOK, ListSensor
  <2>2. sensor \in Sensor /\ toList' \in Seq(Sensor)
    BY <2>1, HeadTailProperties
  <2> QED
    BY <2>2 DEF Sensor
<1>2. subHal \in Nat /\ subHal < subHalCount /\ subHal < IndexValues \div 2
      /\ subHalCount \in Nat /\ listing \in Nat
  BY SensorTableAssumption, SensorHandleAssumption, SMTT(30)
    DEF TypeOK, PositionsInv, Constructed, ListSensor
<1>3. CASE ~SubHalIndexIsClear(sensor.handle)
  <2>1. UNCHANGED <<sensors, directSubHal, reported, toLoad, subHalCount, listing, asked>>
    BY <1>3 DEF ListSensor
  <2>2. TypeOK' /\ PositionsInv'
    BY <1>1, <2>1, <1>2 DEF TypeOK, PositionsInv, Constructed, ListSensor
  <2> QED
    BY <2>1, <2>2 DEF HandlesLeadHome, IsSubHalIndexValid, DirectChannelOfOne,
      FlagsReported, DirectReportsGoHome, CallsGoHome
<1>4. CASE SubHalIndexIsClear(sensor.handle)
  <2> DEFINE report == [subHal |-> subHal, handle |-> sensor.handle, direct |-> sensor.direct]
  <2>1. /\ sensors' = [h \in DOMAIN sensors \union {handle} |->
              IF h = handle THEN KeepsDirectFlag(sensor.direct, subHal) ELSE sensors[h]]
        /\ directSubHal' = DirectSubHalAfter(sensor.direct, subHal)
        /\ reported' = reported \union {report}
        /\ UNCHANGED <<toLoad, subHalCount, listing, asked>>
    BY <1>4 DEF ListSensor
  <2>2. /\ handle \in Handle
        /\ ExtractSubHalIndex(handle) = subHal
        /\ ClearSubHalIndex(handle) = sensor.handle
    BY <1>1, <1>2, <1>4, HandleRoundTrip
  <2>3. /\ DOMAIN sensors' = DOMAIN sensors \union {handle}
        /\ sensors'[handle] = KeepsDirectFlag(sensor.direct, subHal)
        /\ \A h \in DOMAIN sensors : h # handle => sensors'[h] = sensors[h]
    BY <2>1
  <2> HIDE DEF handle, sensor, subHal
  <2>4. KeepsDirectFlag(sensor.direct, subHal) \in BOOLEAN
    BY <1>1 DEF KeepsDirectFlag
  <2>5. TypeOK'
    <3>1. DOMAIN sensors' \subseteq Handle /\ sensors' \in [DOMAIN sensors' -> BOOLEAN]
      BY <2>1, <2>2, <2>3, <2>4 DEF TypeOK
    <3>2. directSubHal' \in -1 .. subHalCount' - 1
      BY <2>1, <1>2 DEF DirectSubHalAfter, TypeOK
    <3>3. report \in [subHal : 0 .. subHalCount - 1, handle : Handle, direct : BOOLEAN]
      BY <1>1, <1>2
    <3>4. reported' \subseteq [subHal : 0 .. subHalCount' - 1, handle : Handle, direct : BOOLEAN]
      BY <2>1, <3>3 DEF TypeOK
    <3> QED
      BY <1>1, <2>1, <3>1, <3>2, <3>4 DEF TypeOK
  <2>6. PositionsInv'
    BY <2>1, <1>2 DEF PositionsInv, Constructed, ListSensor, subHal
  <2>7. HandlesLeadHome'
    <3>1. \A h \in DOMAIN sensors' : IsSubHalIndexValid(h)'
      BY <1>2, <2>1, <2>2, <2>3 DEF HandlesLeadHome, IsSubHalIndexValid
    <3>2. \A h \in DOMAIN sensors' : \E r \in reported' :
            r.subHal = ExtractSubHalIndex(h) /\ r.handle = ClearSubHalIndex(h)
      <4>1. report \in reported' /\ report.subHal = subHal /\ report.handle = sensor.handle
        BY <2>1
      <4> QED
        BY <4>1, <2>1, <2>2, <2>3 DEF HandlesLeadHome
    <3>3. \A r \in reported' : \E h \in DOMAIN sensors' :
            r.subHal = ExtractSubHalIndex(h) /\ r.handle = ClearSubHalIndex(h)
      BY <2>1, <2>2, <2>3 DEF HandlesLeadHome
    <3> QED
      BY <3>1, <3>2, <3>3 DEF HandlesLeadHome
  <2>8. \A h \in DOMAIN sensors : sensors[h] => directSubHal' = directSubHal /\ directSubHal # -1
    BY <2>1 DEF DirectChannelOfOne, HandlesLeadHome, IsSubHalIndexValid, DirectSubHalAfter, TypeOK
  <2>9. sensors'[handle] => sensor.direct /\ directSubHal' = subHal
    BY <2>1, <2>3 DEF KeepsDirectFlag, DirectSubHalAfter
  <2>10. DirectChannelOfOne'
    BY <2>2, <2>3, <2>8, <2>9 DEF DirectChannelOfOne
  <2>11. FlagsReported'
    <3>1. sensors'[handle] => [subHal |-> ExtractSubHalIndex(handle),
             handle |-> ClearSubHalIndex(handle), direct |-> TRUE] \in reported'
      BY <1>1, <2>1, <2>2, <2>9
    <3> QED
      BY <3>1, <2>1, <2>3 DEF FlagsReported
  <2>12. DirectReportsGoHome'
    BY <2>1 DEF DirectReportsGoHome
  <2>13. CallsGoHome'
    BY <2>1, <1>4 DEF CallsGoHome, ListSensor, PositionsInv, Constructed
  <2> QED
    BY <2>5, <2>6, <2>7, <2>10, <2>11, <2>12, <2>13
<1> QED
  BY <1>3, <1>4

\* A direct report: the sensor's sub-HAL is the one that is asked.
LEMMA DirectInv ==
  TableInv /\ ((\E h \in DOMAIN sensors : ConfigDirectReport(h)) \/ DirectChannelCall) => TableInv'
<1> SUFFICES ASSUME TableInv,
                    (\E h \in DOMAIN sensors : ConfigDirectReport(h)) \/ DirectChannelCall
             PROVE  TableInv'
  OBVIOUS
<1> USE DEF TableInv
<1>1. PICK handles \in SUBSET Handle, named \in SUBSET Handle :
        /\ asked' = Asked("direct", directSubHal, handles, named)
        /\ \A h \in handles :
             [subHal |-> directSubHal, handle |-> h, direct |-> TRUE] \in reported
  <2>1. CASE DirectChannelCall
    BY <2>1 DEF DirectChannelCall
  <2>2. ASSUME NEW h \in DOMAIN sensors, ConfigDirectReport(h)
        PROVE  \E handles \in SUBSET Handle, named \in SUBSET Handle :
                 /\ asked' = Asked("direct", directSubHal, handles, named)
                 /\ \A g \in handles :
                      [subHal |-> directSubHal, handle |-> g, direct |-> TRUE] \in reported
    <3>1. asked' = Asked("direct", directSubHal, {ClearSubHalIndex(h)}, {h}) /\ sensors[h]
      BY <2>2 DEF ConfigDirectReport
    <3>2. h \in Handle /\ ClearSubHalIndex(h) \in Handle
      BY SensorHandleAssumption DEF TypeOK, ClearSubHalIndex, Handle
    <3>3. [subHal |-> directSubHal, handle |-> ClearSubHalIndex(h), direct |-> TRUE] \in reported
      BY <3>1 DEF DirectChannelOfOne, FlagsReported
    <3> {ClearSubHalIndex(h)} \in SUBSET Handle /\ {h} \in SUBSET Handle
      BY <3>2
    <3> WITNESS {ClearSubHalIndex(h)} \in SUBSET Handle, {h} \in SUBSET Handle
    <3> QED
      BY <3>1, <3>3
  <2> QED
    BY <2>1, <2>2
<1>2. UNCHANGED <<toLoad, subHalCount, listing, toList, sensors, directSubHal, reported>>
  BY DEF ConfigDirectReport, DirectChannelCall
<1>3. TypeOK'
  BY <1>1, <1>2 DEF TypeOK, Asked
<1>4. DirectReportsGoHome' /\ CallsGoHome'
  BY <1>1, <1>2 DEF DirectReportsGoHome, CallsGoHome, Asked
<1> QED
  BY <1>2, <1>3, <1>4 DEF PositionsInv, Constructed, CallSensor, ConfigDirectReport, DirectChannelCall, Asked, HandlesLeadHome, IsSubHalIndexValid,
    DirectChannelOfOne, FlagsReported

\* Any other call: the handle leads to a sub-HAL, and a listed handle leads home.
LEMMA CallInv == ASSUME TableInv, NEW h \in Handle, CallSensor(h) PROVE TableInv'
<1> USE DEF TableInv
<1>1. /\ UNCHANGED <<toLoad, subHalCount, listing, toList, sensors, directSubHal, reported>>
      /\ asked' = Asked("sensor", ExtractSubHalIndex(h), {ClearSubHalIndex(h)}, {h})
      /\ ExtractSubHalIndex(h) \in 0 .. subHalCount - 1
  BY DEF CallSensor, IsSubHalIndexValid
<1>2. TypeOK'
  <2>1. ClearSubHalIndex(h) \in Handle
    BY SensorHandleAssumption DEF ClearSubHalIndex, Handle
  <2>2. ExtractSubHalIndex(h) \in -1 .. subHalCount - 1
    BY <1>1 DEF TypeOK
  <2>3. asked' \in [call : {"none", "sensor", "direct"}, subHal : -1 .. subHalCount - 1,
                    handles : SUBSET Handle, named : SUBSET Handle]
    BY <1>1, <2>1, <2>2 DEF Asked
  <2> QED
    BY <1>1, <2>3 DEF TypeOK
<1>3. CallsGoHome'
  BY <1>1 DEF CallsGoHome, Asked, HandlesLeadHome
<1>4. DirectReportsGoHome'
  BY <1>1 DEF DirectReportsGoHome, Asked
<1> QED
  BY <1>1, <1>2, <1>3, <1>4 DEF PositionsInv, Constructed, CallSensor, ConfigDirectReport, DirectChannelCall, Asked, HandlesLeadHome, IsSubHalIndexValid,
    DirectChannelOfOne, FlagsReported

LEMMA TableNext == TableInv /\ [Next]_vars => TableInv'
<1>1. TableInv /\ UNCHANGED vars => TableInv'
  BY DEF vars, TableInv, TypeOK, PositionsInv, Constructed, HandlesLeadHome, IsSubHalIndexValid,
    DirectChannelOfOne, FlagsReported, DirectReportsGoHome, CallsGoHome
<1> QED
  BY <1>1, LoadInv, AskInv, ListInv, DirectInv, CallInv DEF Next

LEMMA TableInvariant == Spec => []TableInv
  BY TableInit, TableNext, PTL DEF Spec

(***************************************************************************)
(* The table keeps its types: every entry is a handle, whatever libraries  *)
(* load and whatever they report, and no call goes to a negative position  *)
(* but the one that stands for none.                                       *)
(***************************************************************************)
THEOREM TableTypeCorrect == Spec => []TypeOK
<1>1. TableInv => TypeOK
  BY DEF TableInv
<1> QED
  BY <1>1, TableInvariant, PTL

(***************************************************************************)
(* Handles lead back to their sub-HAL and to the sensor it reported, for   *)
(* every configuration file of up to half as many libraries as the top byte*)
(* has values, whichever of them load.                                     *)
(***************************************************************************)
THEOREM EveryHandleLeadsHome == Spec => []HandlesLeadHome
<1>1. TableInv => HandlesLeadHome
  BY DEF TableInv
<1> QED
  BY <1>1, TableInvariant, PTL

(***************************************************************************)
(* One sub-HAL at most has its direct channel flags kept, and it is the one*)
(* registerDirectChannel goes to, whichever libraries load and in whatever *)
(* order their sensors are listed.                                         *)
(***************************************************************************)
THEOREM OneSubHalHasDirectChannels == Spec => []DirectChannelOfOne
<1>1. TableInv => DirectChannelOfOne
  BY DEF TableInv
<1> QED
  BY <1>1, TableInvariant, PTL

(***************************************************************************)
(* Requests for direct reports, from a framework that respects the flags,  *)
(* only reach sensors the sub-HAL that is asked has itself reported with   *)
(* the flags, although the proxy does not look whose sensor it is.         *)
(***************************************************************************)
THEOREM EveryDirectReportGoesHome == Spec => []DirectReportsGoHome
<1>1. TableInv => DirectReportsGoHome
  BY DEF TableInv
<1> QED
  BY <1>1, TableInvariant, PTL

(***************************************************************************)
(* A call for a sensor with any number for a handle stays within           *)
(* mSubHalList, and with the handle of a listed sensor it gets to the      *)
(* sub-HAL that reported the sensor, under the handle it was reported with.*)
(***************************************************************************)
THEOREM EveryCallGoesHome == Spec => []CallsGoHome
<1>1. TableInv => CallsGoHome
  BY DEF TableInv
<1> QED
  BY <1>1, TableInvariant, PTL
=============================================================================
