---------------------------- MODULE SensorHandle ----------------------------
(***************************************************************************)
(* Sensor handles of HalProxy (sensors/HalProxy.cpp and                    *)
(* HalProxyCallback.cpp).  A handle is an int32_t.  A sub-HAL leaves its   *)
(* top byte clear, and the proxy puts the sub-HAL's position there.        *)
(*                                                                         *)
(* A handle is kept as that byte and the rest, because the rest plays no   *)
(* part in any arithmetic.  IndexValues is 256 in the code.  The shift     *)
(* that reads the byte is signed: its upper half comes out negative, and as*)
(* a size_t beyond every list.                                             *)
(***************************************************************************)
EXTENDS Integers

CONSTANTS
  Locals,        \* the lower 24 bits of the handles sub-HALs use
  IndexValues    \* values of a handle's top byte

ASSUME SensorHandleAssumption == IndexValues \in Nat \ {0}

Handle == [index : 0 .. IndexValues - 1, local : Locals]

SubHalIndexIsClear(h) == h.index = 0

ClearSubHalIndex(h) == [h EXCEPT !.index = 0]

\* Mutant: the position is shifted by a byte too many.
ShiftTooFar(h, subHal) == [h EXCEPT !.index = subHal * IndexValues]

\* Mutant: the sub-HAL's position is lost.
SetNoSubHalIndex(h, subHal) == [h EXCEPT !.index = 0]

\* For a handle whose top byte is clear; all callers but processEvents test it.
SetSubHalIndex(h, subHal) == [h EXCEPT !.index = subHal % IndexValues]

ExtractSubHalIndex(h) == IF h.index < IndexValues \div 2 THEN h.index ELSE h.index - IndexValues
=============================================================================
