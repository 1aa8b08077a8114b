------------------------- MODULE SensorHandleProofs -------------------------
(***************************************************************************)
(* What the arithmetic of sensor handles does, for every range of the top  *)
(* byte: the lemma that SensorTableProofs and DynamicSensorsProofs rest on.*)
(***************************************************************************)
EXTENDS SensorHandle, TLAPS

(***************************************************************************)
(* Every position that fits into the lower half of the top byte can be read*)
(* back from a handle it was put into, and so can the sub-HAL's own handle.*)
(***************************************************************************)
THEOREM HandleRoundTrip ==
  ASSUME NEW h \in Handle, SubHalIndexIsClear(h), NEW i \in Nat, i < IndexValues \div 2
  PROVE  /\ SetSubHalIndex(h, i) \in Handle
         /\ ExtractSubHalIndex(SetSubHalIndex(h, i)) = i
         /\ ClearSubHalIndex(SetSubHalIndex(h, i)) = h
<1>1. IndexValues \in Nat \ {0} /\ IndexValues \div 2 <= IndexValues /\ IndexValues \div 2 \in Nat
  BY SensorHandleAssumption
<1>2. i % IndexValues = i
  BY <1>1, Z3
<1>3. SetSubHalIndex(h, i) = [h EXCEPT !.index = i]
  BY <1>2 DEF SetSubHalIndex
<1>4. h = [index |-> 0, local |-> h.local] /\ h.local \in Locals
  BY DEF Handle, SubHalIndexIsClear
<1>5. SetSubHalIndex(h, i) = [index |-> i, local |-> h.local]
  BY <1>3, <1>4
<1> QED
  BY <1>1, <1>4, <1>5 DEF Handle, ExtractSubHalIndex, ClearSubHalIndex

(***************************************************************************)
(* The other way round: a handle that leads to the sub-HAL i is the one    *)
(* that i's own handle gets.                                               *)
(***************************************************************************)
THEOREM HandleOfSubHal ==
  ASSUME NEW h \in Handle, NEW i \in Nat, i < IndexValues \div 2, ExtractSubHalIndex(h) = i
  PROVE  /\ ClearSubHalIndex(h) \in Handle
         /\ SubHalIndexIsClear(ClearSubHalIndex(h))
         /\ SetSubHalIndex(ClearSubHalIndex(h), i) = h
<1>1. IndexValues \in Nat \ {0} /\ IndexValues \div 2 <= IndexValues /\ IndexValues \div 2 \in Nat
  BY SensorHandleAssumption
<1>2. i % IndexValues = i
  BY <1>1, Z3
<1>3. h = [index |-> h.index, local |-> h.local] /\ h.index \in 0 .. IndexValues - 1
      /\ h.local \in Locals
  BY DEF Handle
<1>4. h.index = i
  BY <1>1, <1>3 DEF ExtractSubHalIndex
<1>5. ClearSubHalIndex(h) = [index |-> 0, local |-> h.local]
  BY <1>3 DEF ClearSubHalIndex
<1>6. SetSubHalIndex(ClearSubHalIndex(h), i) = [index |-> i, local |-> h.local]
  BY <1>2, <1>5 DEF SetSubHalIndex
<1> QED
  BY <1>1, <1>3, <1>4, <1>5, <1>6 DEF Handle, SubHalIndexIsClear
=============================================================================
