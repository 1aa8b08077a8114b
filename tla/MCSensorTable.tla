--------------------------- MODULE MCSensorTable ----------------------------
(***************************************************************************)
(* An instance of SensorTable for TLC: sub-HALs report one or two sensors, *)
(* perhaps one twice, or with its top byte set.                            *)
(***************************************************************************)
EXTENDS SensorTable

SensorReports ==
  LET reportable == [handle : [index : {0, 1}, local : Locals], direct : BOOLEAN]
  IN [1 .. 1 -> reportable] \union [1 .. 2 -> reportable]
=============================================================================
