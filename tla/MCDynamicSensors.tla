-------------------------- MODULE MCDynamicSensors --------------------------
(***************************************************************************)
(* Instances of DynamicSensors for TLC: a report names one or two sensors, *)
(* or one whose top byte is set.                                           *)
(***************************************************************************)
EXTENDS DynamicSensors

CONSTANTS l1, l2, l3   \* local handles

AllLocals == {l1, l2, l3}

First == [index |-> 0, local |-> l1]
Second == [index |-> 0, local |-> l2]
Malformed == [index |-> 1, local |-> l1]

Reported == {{First}, {First, Second}, {Second, Malformed}}

\* One sensor of the first sub-HAL that is always there.
Static == {[index |-> 0, local |-> l3]}
=============================================================================
