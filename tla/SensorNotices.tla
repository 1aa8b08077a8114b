---------------------------- MODULE SensorNotices ----------------------------
(***************************************************************************)
(* What HalProxy promises the framework about dynamic sensors: it keeps a  *)
(* set of sensors, and sends the framework a notice of every change of it. *)
(*   - What the framework takes for connected changes by a notice only.    *)
(*   - Of one sensor there is one notice under way at a time, so that the  *)
(*     framework learns the changes of a sensor in their order.            *)
(*   - A disconnect is sent for a sensor in the set only, and once.        *)
(* The one change without a notice is made on the way to a new framework,  *)
(* which knows of no sensor yet.                                           *)
(*                                                                         *)
(* How many sensors change at once, and which, is left open: the actions   *)
(* say what follows from the notices that are added or taken away.         *)
(***************************************************************************)

VARIABLES
  present,    \* the sensors that are connected
  arriving,   \* the sensors a notice of connection is under way for
  leaving,    \* likewise of disconnection
  known,      \* the sensors the framework takes for connected
  renewing    \* whether a new framework is to come

vars == <<present, arriving, leaving, known, renewing>>

Init ==
  /\ present = {} /\ arriving = {} /\ leaving = {} /\ known = {}
  /\ renewing = FALSE

\* Also of a sensor that is connected already.
Connect ==
  /\ arriving \subseteq arriving'
  /\ LET new == arriving' \ arriving
     IN /\ new \intersect leaving = {}
        /\ present' = present \union new
  /\ UNCHANGED <<leaving, known, renewing>>

Disconnect ==
  /\ leaving \subseteq leaving'
  /\ LET gone == leaving' \ leaving
     IN /\ gone \subseteq present \ arriving
        /\ present' = present \ gone
  /\ UNCHANGED <<arriving, known, renewing>>

Deliver ==
  /\ arriving' \subseteq arriving /\ leaving' \subseteq leaving
  /\ known' = (known \union (arriving \ arriving')) \ (leaving \ leaving')
  /\ UNCHANGED <<present, renewing>>

Forget ==
  /\ ~renewing
  /\ renewing' = TRUE
  /\ present' = {}
  /\ UNCHANGED <<arriving, leaving, known>>

NewFramework ==
  /\ renewing
  /\ renewing' = FALSE
  /\ known' = {}
  /\ UNCHANGED <<present, arriving, leaving>>

Next == Connect \/ Disconnect \/ Deliver \/ Forget \/ NewFramework

Spec == Init /\ [][Next]_vars
=============================================================================
