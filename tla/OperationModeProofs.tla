------------------------ MODULE OperationModeProofs -------------------------
(***************************************************************************)
(* Proofs about OperationMode, for every number of sub-HALs.               *)
(***************************************************************************)
EXTENDS OperationMode, TLAPS

(***************************************************************************)
(* Where the loops have got to, while no reset or initialization failed:   *)
(* each phase splits the sub-HALs into those that are in the old mode and  *)
(* those that are in the new one.  A setOperationMode that gets to its end *)
(* has set them all, whatever happened before.                             *)
(***************************************************************************)
SetInv == call = "set" => \A s \in SubHals : s < i => modes[s] = wanted

PhaseInv ==
  ~unreliable =>
    /\ call = "none" => \A s \in SubHals : modes[s] = currentMode
    /\ call = "set" => \A s \in SubHals : s >= i => modes[s] = currentMode
    /\ call = "reset" => \A s \in SubHals : s < i \/ s >= subHalIndex => modes[s] = currentMode
    /\ call = "initialize" =>
         \A s \in SubHals : modes[s] = IF s < i THEN "NORMAL" ELSE currentMode

ModeInv == TypeOK /\ SetInv /\ PhaseInv

LEMMA ModeInit == Init => ModeInv
<1> SUFFICES ASSUME Init PROVE ModeInv
  OBVIOUS
<1> USE OperationModeAssumption DEF Init, SubHals, Modes
<1>1. TypeOK
  <2>1. unreliable \in BOOLEAN /\ accepted \subseteq Modes
    OBVIOUS
  <2>2. modes \in [SubHals -> Modes]
    OBVIOUS
  <2> QED
    BY <2>1, <2>2 DEF TypeOK
<1>2. SetInv /\ PhaseInv
  BY DEF SetInv, PhaseInv
<1> QED
  BY <1>1, <1>2 DEF ModeInv

LEMMA ModeNext == ModeInv /\ [Next]_vars => ModeInv'
<1> SUFFICES ASSUME ModeInv, [Next]_vars PROVE ModeInv'
  OBVIOUS
<1> USE OperationModeAssumption DEF ModeInv, TypeOK, SubHals, Modes
<1>1. ASSUME NEW mode \in Modes, SetOperationMode(mode) PROVE ModeInv'
  BY <1>1 DEF SetOperationMode, SetInv, PhaseInv
<1>2. CASE SetSubHal
  <2>1. TypeOK'
    BY <1>2 DEF SetSubHal
  <2>2. SetInv'
    BY <1>2 DEF SetSubHal, SetInv
  <2>3. PhaseInv'
    BY <1>2 DEF SetSubHal, SetInv, PhaseInv
  <2> QED
    BY <2>1, <2>2, <2>3
<1>3. CASE SubHalRefuses
  <2>1. TypeOK'
    BY <1>3 DEF SubHalRefuses
  <2>2. SetInv'
    BY <1>3 DEF SubHalRefuses, SetInv
  <2>3. PhaseInv'
    BY <1>3 DEF SubHalRefuses, SetInv, PhaseInv
  <2> QED
    BY <2>1, <2>2, <2>3
<1>4. CASE SetDone
  <2>1. TypeOK'
    BY <1>4 DEF SetDone
  <2>2. SetInv'
    BY <1>4 DEF SetDone, SetInv
  <2>3. PhaseInv'
    BY <1>4 DEF SetDone, SetInv, PhaseInv
  <2> QED
    BY <2>1, <2>2, <2>3
<1>5. CASE ResetSubHal
  <2>1. TypeOK'
    <3>1. unreliable' \in BOOLEAN
      BY <1>5 DEF ResetSubHal
    <3>2. modes' \in [SubHals -> Modes] /\ i' \in 0 .. SubHalCount
      BY <1>5 DEF ResetSubHal
    <3> QED
      BY <1>5, <3>1, <3>2 DEF ResetSubHal
  <2>2. SetInv'
    BY <1>5 DEF ResetSubHal, SetInv
  <2>3. PhaseInv'
    BY <1>5 DEF ResetSubHal, SetInv, PhaseInv
  <2> QED
    BY <2>1, <2>2, <2>3
<1>6. CASE ResetDone
  <2>1. TypeOK'
    BY <1>6 DEF ResetDone
  <2>2. SetInv'
    BY <1>6 DEF ResetDone, SetInv
  <2>3. PhaseInv'
    BY <1>6 DEF ResetDone, SetInv, PhaseInv
  <2> QED
    BY <2>1, <2>2, <2>3
<1>7. CASE Initialize
  <2>1. TypeOK'
    BY <1>7 DEF Initialize
  <2>2. SetInv'
    BY <1>7 DEF Initialize, SetInv
  <2>3. PhaseInv'
    BY <1>7 DEF Initialize, SetInv, PhaseInv
  <2> QED
    BY <2>1, <2>2, <2>3
<1>8. CASE InitializeSubHal
  <2>1. TypeOK'
    <3>1. unreliable' \in BOOLEAN
      BY <1>8 DEF InitializeSubHal
    <3>2. modes' \in [SubHals -> Modes] /\ i' \in 0 .. SubHalCount
      BY <1>8 DEF InitializeSubHal
    <3> QED
      BY <1>8, <3>1, <3>2 DEF InitializeSubHal
  <2>2. SetInv'
    BY <1>8 DEF InitializeSubHal, SetInv
  <2>3. PhaseInv'
    BY <1>8 DEF InitializeSubHal, SetInv, PhaseInv
  <2> QED
    BY <2>1, <2>2, <2>3
<1>9. CASE InitializeDone
  <2>1. TypeOK'
    BY <1>9 DEF InitializeDone
  <2>2. SetInv'
    BY <1>9 DEF InitializeDone, SetInv
  <2>3. PhaseInv'
    BY <1>9 DEF InitializeDone, SetInv, PhaseInv
  <2> QED
    BY <2>1, <2>2, <2>3
<1>10. ASSUME NEW s \in SubHals, InjectSensorData(s) PROVE ModeInv'
  BY <1>10 DEF InjectSensorData, SetInv, PhaseInv
<1>11. CASE UNCHANGED vars
  BY <1>11 DEF vars, SetInv, PhaseInv
<1> QED
  BY <1>1, <1>2, <1>3, <1>4, <1>5, <1>6, <1>7, <1>8, <1>9, <1>10, <1>11 DEF Next

LEMMA ModeInvariant == Spec => []ModeInv
  BY ModeInit, ModeNext, PTL DEF Spec

(***************************************************************************)
(* The loops over mSubHalList stay within it, the one of a rollback too,   *)
(* and every mode is one a sub-HAL was told.                               *)
(***************************************************************************)
THEOREM OperationModeTypeCorrect == Spec => []TypeOK
<1>1. ModeInv => TypeOK
  BY DEF ModeInv
<1> QED
  BY <1>1, ModeInvariant, PTL

(***************************************************************************)
(* Between calls all sub-HALs are in the mode of the proxy, also when a    *)
(* call failed half-way, for any number of sub-HALs - as long as none of   *)
(* them failed to be reset or initialized.                                 *)
(***************************************************************************)
THEOREM AllModesAgree == Spec => []ModesAgree
<1>1. ModeInv => ModesAgree
  BY DEF ModeInv, PhaseInv, ModesAgree
<1> QED
  BY <1>1, ModeInvariant, PTL

(***************************************************************************)
(* No sub-HAL in mode NORMAL is given sensor data to inject.               *)
(***************************************************************************)
THEOREM NoDataInNormal == Spec => NoDataInNormalMode
<1>1. ModeInv /\ [Next]_vars
        => [("NORMAL" \in accepted') /\ ~unreliable => "NORMAL" \in accepted]_vars
  <2> SUFFICES ASSUME ModeInv, Next, "NORMAL" \in accepted', ~unreliable
               PROVE  "NORMAL" \in accepted
    OBVIOUS
  <2>1. CASE \E s \in SubHals : InjectSensorData(s)
    BY <2>1 DEF ModeInv, PhaseInv, InjectSensorData
  <2>2. CASE UNCHANGED accepted
    BY <2>2
  <2> QED
    BY <2>1, <2>2 DEF Next, SetOperationMode, SetSubHal, SubHalRefuses, SetDone, ResetSubHal,
      ResetDone, Initialize, InitializeSubHal, InitializeDone
<1> QED
  BY <1>1, ModeInvariant, PTL DEF Spec, NoDataInNormalMode
=============================================================================
