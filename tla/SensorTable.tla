---------------------------- MODULE SensorTable -----------------------------
(***************************************************************************)
(* What the constructor of HalProxy builds (sensors/HalProxy.cpp): the     *)
(* list of the sub-HALs it could load, the table of their sensors under    *)
(* handles that name the sub-HAL, and the one sub-HAL that may use direct  *)
(* channels; and how the calls of the framework are routed.                *)
(* Sub-HALs are numbered from 0, as in the code.                           *)
(***************************************************************************)
EXTENDS SensorHandle, Sequences

CONSTANTS
  Libraries,     \* the number of libraries hals.conf names
  Reports        \* the sensor lists sub-HALs may return

Sensor == [handle : Handle, direct : BOOLEAN]

(***************************************************************************)
(* hals.conf of this device names two libraries, far from the 128 that the *)
(* signed shift can read back.                                             *)
(***************************************************************************)
ASSUME SensorTableAssumption ==
  /\ Libraries \in Nat
  /\ Libraries <= IndexValues \div 2
  /\ Reports \subseteq Seq(Sensor)

VARIABLES
  toLoad,        \* how many libraries of hals.conf are still to be loaded
  subHalCount,   \* mSubHalList.size()
  listing,       \* how many sub-HALs initializeSensorList has asked
  toList,        \* what the last of them reported and is still to be listed
  sensors,       \* mSensors: whether a sensor keeps its direct channel flags
  directSubHal,  \* mDirectChannelSubHal, -1 for nullptr
  asked,         \* the last call that was passed on to a sub-HAL
  reported       \* history: the sensors the sub-HALs have reported

vars == <<toLoad, subHalCount, listing, toList, sensors, directSubHal, asked, reported>>

(***************************************************************************)
(* A call that was passed on: for a sensor or for direct channels, to which*)
(* sub-HAL, for which of its handles, and what the framework called them.  *)
(***************************************************************************)
Asked(call, subHal, handles, named) ==
  [call |-> call, subHal |-> subHal, handles |-> handles, named |-> named]

NoRequest == Asked("none", -1, {}, {})

TypeOK ==
  /\ toLoad \in 0 .. Libraries
  /\ subHalCount \in 0 .. Libraries
  /\ listing \in 0 .. subHalCount
  /\ toList \in Seq(Sensor)
  /\ DOMAIN sensors \subseteq Handle
  /\ sensors \in [DOMAIN sensors -> BOOLEAN]
  /\ directSubHal \in -1 .. subHalCount - 1
  /\ asked \in [call : {"none", "sensor", "direct"}, subHal : -1 .. subHalCount - 1,
                handles : SUBSET Handle, named : SUBSET Handle]
  /\ reported \subseteq [subHal : 0 .. subHalCount - 1, handle : Handle, direct : BOOLEAN]

Init ==
  /\ toLoad = Libraries
  /\ subHalCount = 0
  /\ listing = 0
  /\ toList = <<>>
  /\ sensors = [h \in {} |-> FALSE]
  /\ directSubHal = -1
  /\ asked = NoRequest
  /\ reported = {}

\* Mutant: the index is compared as the signed number the shift yields.
SubHalIndexBelow(h) == ExtractSubHalIndex(h) < subHalCount

IsSubHalIndexValid(h) == ExtractSubHalIndex(h) \in 0 .. subHalCount - 1

-----------------------------------------------------------------------------

(***************************************************************************)
(* One turn of initializeSubHalListFromConfigFile.  A library that is not  *)
(* found, lacks the symbol or has the wrong version is left out, and those *)
(* after it move up.                                                       *)
(***************************************************************************)
LoadSubHal ==
  /\ toLoad > 0
  /\ toLoad' = toLoad - 1
  /\ subHalCount' \in {subHalCount, subHalCount + 1}
  /\ UNCHANGED <<listing, toList, sensors, directSubHal, asked, reported>>

\* initializeSensorList asks the next sub-HAL; a call that fails lists nothing.
AskSubHal ==
  /\ toLoad = 0
  /\ toList = <<>>
  /\ listing < subHalCount
  /\ listing' = listing + 1
  /\ toList' \in Reports \union {<<>>}
  /\ UNCHANGED <<toLoad, subHalCount, sensors, directSubHal, asked, reported>>

\* Mutant: every sub-HAL keeps its flags.
KeepAnyDirectFlag(direct, subHal) == direct

\* setDirectChannelFlags keeps the flags of one sub-HAL only ...
KeepsDirectFlag(direct, subHal) == direct /\ directSubHal \in {-1, subHal}

\* Mutant: the last sub-HAL that has any.
LastDirectSubHal(direct, subHal) == IF direct THEN subHal ELSE directSubHal

\* ... the first that has any.
DirectSubHalAfter(direct, subHal) ==
  IF directSubHal = -1 /\ direct THEN subHal ELSE directSubHal

\* The next sensor of the list gets into mSensors, if its top byte is clear.
ListSensor ==
  /\ toList # <<>>
  /\ toList' = Tail(toList)
  /\ LET sensor == Head(toList)
         subHal == listing - 1
         handle == SetSubHalIndex(sensor.handle, subHal)
     IN IF SubHalIndexIsClear(sensor.handle)
          THEN /\ sensors' = [h \in DOMAIN sensors \union {handle} |->
                    IF h = handle THEN KeepsDirectFlag(sensor.direct, subHal) ELSE sensors[h]]
               /\ directSubHal' = DirectSubHalAfter(sensor.direct, subHal)
               /\ reported' = reported \union
                    {[subHal |-> subHal, handle |-> sensor.handle, direct |-> sensor.direct]}
          ELSE UNCHANGED <<sensors, directSubHal, reported>>
  /\ UNCHANGED <<toLoad, subHalCount, listing, asked>>

Constructed == toLoad = 0 /\ toList = <<>> /\ listing = subHalCount

(***************************************************************************)
(* configDirectReport, for a sensor whose listed flags allow it.  Without  *)
(* a sub-HAL for direct channels it is refused.                            *)
(***************************************************************************)
ConfigDirectReport(h) ==
  /\ Constructed
  /\ sensors[h]
  /\ directSubHal # -1
  /\ asked' = Asked("direct", directSubHal, {ClearSubHalIndex(h)}, {h})
  /\ UNCHANGED <<toLoad, subHalCount, listing, toList, sensors, directSubHal, reported>>

(***************************************************************************)
(* registerDirectChannel, unregisterDirectChannel, and configDirectReport  *)
(* with handle -1 and rate STOP, which is passed on as it is: calls that   *)
(* name no sensor.                                                         *)
(***************************************************************************)
DirectChannelCall ==
  /\ Constructed
  /\ directSubHal # -1
  /\ asked' = Asked("direct", directSubHal, {}, {})
  /\ UNCHANGED <<toLoad, subHalCount, listing, toList, sensors, directSubHal, reported>>

(***************************************************************************)
(* batch and flush, and likewise activate and injectSensorData, with any   *)
(* handle: of a sensor in the list, of a dynamic one, or of none at all.   *)
(* Only its top byte is looked at, and a bad one is refused.               *)
(***************************************************************************)
CallSensor(h) ==
  /\ Constructed
  /\ IsSubHalIndexValid(h)
  /\ asked' = Asked("sensor", ExtractSubHalIndex(h), {ClearSubHalIndex(h)}, {h})
  /\ UNCHANGED <<toLoad, subHalCount, listing, toList, sensors, directSubHal, reported>>

Next ==
  \/ LoadSubHal
  \/ AskSubHal
  \/ ListSensor
  \/ \E h \in DOMAIN sensors : ConfigDirectReport(h)
  \/ DirectChannelCall
  \/ \E h \in Handle : CallSensor(h)

Spec == Init /\ [][Next]_vars

-----------------------------------------------------------------------------

(***************************************************************************)
(* Every handle in mSensors leads back to the sub-HAL and the handle it was*)
(* reported under, and every sensor that was reported is there: sensors of *)
(* different sub-HALs never collide, also when libraries failed to load.   *)
(***************************************************************************)
HandlesLeadHome ==
  /\ \A h \in DOMAIN sensors :
       /\ IsSubHalIndexValid(h)
       /\ \E r \in reported : r.subHal = ExtractSubHalIndex(h) /\ r.handle = ClearSubHalIndex(h)
  /\ \A r \in reported : \E h \in DOMAIN sensors :
       r.subHal = ExtractSubHalIndex(h) /\ r.handle = ClearSubHalIndex(h)

(***************************************************************************)
(* "disable direct channel capability for sensors in subHals that are not  *)
(* the only one we will enable": the sensors with direct channel flags all *)
(* belong to mDirectChannelSubHal, and without one there are none.         *)
(***************************************************************************)
DirectChannelOfOne ==
  \A h \in DOMAIN sensors : sensors[h] => ExtractSubHalIndex(h) = directSubHal

(***************************************************************************)
(* configDirectReport drops the sub-HAL from the handle and asks           *)
(* mDirectChannelSubHal, whosever sensor it is.  Yet a framework that      *)
(* respects the flags it was given only gets through to sensors that the   *)
(* sub-HAL asked has reported, with the flags set.                         *)
(***************************************************************************)
DirectReportsGoHome ==
  asked.call = "direct" =>
    \A h \in asked.handles :
      [subHal |-> asked.subHal, handle |-> h, direct |-> TRUE] \in reported

(***************************************************************************)
(* A call of batch, flush, activate or injectSensorData with any number for*)
(* a handle never reaches past mSubHalList, and with the handle of a listed*)
(* sensor it gets to the sub-HAL that reported it, under the handle it was *)
(* reported with.                                                          *)
(***************************************************************************)
CallsGoHome ==
  asked.call = "sensor" =>
    /\ asked.subHal \in 0 .. subHalCount - 1
    /\ \A h \in asked.named \intersect DOMAIN sensors :
         \E r \in reported : r.subHal = asked.subHal /\ asked.handles = {r.handle}
=============================================================================
