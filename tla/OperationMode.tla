--------------------------- MODULE OperationMode ----------------------------
(***************************************************************************)
(* The operation mode of HalProxy (sensors/HalProxy.cpp): the proxy has one*)
(* of its own, by which it decides whether the framework may inject sensor *)
(* data, and every sub-HAL has one, which the proxy sets in turn and can   *)
(* only hope to set back when a sub-HAL refuses.                           *)
(*                                                                         *)
(* A sub-HAL that refuses a mode keeps the one it has; initialize puts it  *)
(* in mode NORMAL if it succeeds.  Every call runs on the one binder       *)
(* thread; each call of a sub-HAL is a step.                               *)
(***************************************************************************)
EXTENDS Integers

CONSTANT SubHalCount     \* mSubHalList.size()

ASSUME OperationModeAssumption == SubHalCount \in Nat

Modes == {"NORMAL", "DATA_INJECTION"}

SubHals == 0 .. SubHalCount - 1

VARIABLES
  modes,        \* the mode of each sub-HAL
  currentMode,  \* mCurrentOperationMode
  call,         \* the call that is under way, and the phase it is in
  wanted,       \* the mode setOperationMode was called with
  subHalIndex,  \* how many sub-HALs its first loop has gone through
  i,            \* how many sub-HALs the loop that is running has gone through
  unreliable,   \* history: a sub-HAL was not set back, or not initialized
  accepted      \* history: modes of sub-HALs that were given sensor data

vars == <<modes, currentMode, call, wanted, subHalIndex, i, unreliable, accepted>>

TypeOK ==
  /\ modes \in [SubHals -> Modes]
  /\ currentMode \in Modes
  /\ call \in {"none", "set", "reset", "initialize"}
  /\ wanted \in Modes
  /\ subHalIndex \in 0 .. SubHalCount
  /\ i \in 0 .. SubHalCount
  /\ unreliable \in BOOLEAN
  /\ accepted \subseteq Modes

Init ==
  /\ modes = [s \in SubHals |-> "NORMAL"]
  /\ currentMode = "NORMAL"
  /\ call = "none"
  /\ wanted = "NORMAL"
  /\ subHalIndex = 0
  /\ i = 0
  /\ unreliable = FALSE
  /\ accepted = {}

-----------------------------------------------------------------------------

SetOperationMode(mode) ==
  /\ call = "none"
  /\ call' = "set"
  /\ wanted' = mode
  /\ i' = 0
  /\ UNCHANGED <<modes, currentMode, subHalIndex, unreliable, accepted>>

\* Mutant: the loop runs one sub-HAL too far.
SetOneTooMany ==
  /\ call = "set"
  /\ i <= SubHalCount
  /\ modes' = [s \in SubHals |-> IF s = i THEN wanted ELSE modes[s]]
  /\ i' = i + 1
  /\ UNCHANGED <<currentMode, call, wanted, subHalIndex, unreliable, accepted>>

SetSubHal ==
  /\ call = "set"
  /\ i < SubHalCount
  /\ modes' = [modes EXCEPT ![i] = wanted]
  /\ i' = i + 1
  /\ UNCHANGED <<currentMode, call, wanted, subHalIndex, unreliable, accepted>>

\* A sub-HAL refuses: those before it are to be reset.
SubHalRefuses ==
  /\ call = "set"
  /\ i < SubHalCount
  /\ call' = "reset"
  /\ subHalIndex' = i
  /\ i' = 0
  /\ UNCHANGED <<modes, currentMode, wanted, unreliable, accepted>>

SetDone ==
  /\ call = "set"
  /\ i = SubHalCount
  /\ call' = "none"
  /\ currentMode' = wanted
  /\ unreliable' = FALSE
  /\ UNCHANGED <<modes, wanted, subHalIndex, i, accepted>>

\* Mutant: the sub-HALs that were flipped are set to the mode they have.
ResetToWanted ==
  /\ call = "reset"
  /\ i < subHalIndex
  /\ \/ modes' = [modes EXCEPT ![i] = wanted] /\ UNCHANGED unreliable
     \/ UNCHANGED modes /\ unreliable' = TRUE
  /\ i' = i + 1
  /\ UNCHANGED <<currentMode, call, wanted, subHalIndex, accepted>>

\* The reset, whose result nobody looks at.
ResetSubHal ==
  /\ call = "reset"
  /\ i < subHalIndex
  /\ \/ modes' = [modes EXCEPT ![i] = currentMode] /\ UNCHANGED unreliable
     \/ UNCHANGED modes /\ unreliable' = TRUE
  /\ i' = i + 1
  /\ UNCHANGED <<currentMode, call, wanted, subHalIndex, accepted>>

ResetDone ==
  /\ call = "reset"
  /\ i = subHalIndex
  /\ call' = "none"
  /\ UNCHANGED <<modes, currentMode, wanted, subHalIndex, i, unreliable, accepted>>

-----------------------------------------------------------------------------
(***************************************************************************)
(* The end of initializeCommon: a sub-HAL that fails stops nothing.        *)
(***************************************************************************)
Initialize ==
  /\ call = "none"
  /\ call' = "initialize"
  /\ i' = 0
  /\ UNCHANGED <<modes, currentMode, wanted, subHalIndex, unreliable, accepted>>

InitializeSubHal ==
  /\ call = "initialize"
  /\ i < SubHalCount
  /\ \/ modes' = [modes EXCEPT ![i] = "NORMAL"] /\ UNCHANGED unreliable
     \/ UNCHANGED modes /\ unreliable' = TRUE
  /\ i' = i + 1
  /\ UNCHANGED <<currentMode, call, wanted, subHalIndex, accepted>>

\* Mutant: the proxy keeps the mode the old framework has set.
InitializeKeepsMode ==
  /\ call = "initialize"
  /\ i = SubHalCount
  /\ call' = "none"
  /\ UNCHANGED <<modes, currentMode, wanted, subHalIndex, i, unreliable, accepted>>

InitializeDone ==
  /\ call = "initialize"
  /\ i = SubHalCount
  /\ call' = "none"
  /\ currentMode' = "NORMAL"
  /\ UNCHANGED <<modes, wanted, subHalIndex, i, unreliable, accepted>>

-----------------------------------------------------------------------------
(***************************************************************************)
(* injectSensorData for a sensor of sub-HAL s.  ADDITIONAL_INFO events get *)
(* through in every mode, so only the others matter.                       *)
(***************************************************************************)
InjectSensorData(s) ==
  /\ call = "none"
  /\ currentMode # "NORMAL"
  /\ accepted' = accepted \union {modes[s]}
  /\ UNCHANGED <<modes, currentMode, call, wanted, subHalIndex, i, unreliable>>

Next ==
  \/ \E mode \in Modes : SetOperationMode(mode)
  \/ SetSubHal
  \/ SubHalRefuses
  \/ SetDone
  \/ ResetSubHal
  \/ ResetDone
  \/ Initialize
  \/ InitializeSubHal
  \/ InitializeDone
  \/ \E s \in SubHals : InjectSensorData(s)

Spec == Init /\ [][Next]_vars

-----------------------------------------------------------------------------

(***************************************************************************)
(* Between calls all sub-HALs are in the proxy's mode, also after a call   *)
(* that failed half-way ("Reset the subhal operation modes that have been  *)
(* flipped") - unless a sub-HAL failed in initialize or could not be reset,*)
(* and then only until the next setOperationMode succeeds.                 *)
(***************************************************************************)
ModesAgree ==
  call = "none" /\ ~unreliable => \A s \in SubHals : modes[s] = currentMode

(***************************************************************************)
(* A sub-HAL in mode NORMAL is not given sensor data to inject, although   *)
(* the proxy only looks at a mode of its own: the same failures excepted.  *)
(***************************************************************************)
NoDataInNormalMode ==
  [][("NORMAL" \in accepted') /\ ~unreliable => "NORMAL" \in accepted]_vars
=============================================================================
