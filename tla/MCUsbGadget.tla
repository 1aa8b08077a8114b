---------------------------- MODULE MCUsbGadget -----------------------------
(***************************************************************************)
(* An instance of UsbGadget for TLC: the requests that overtake each other.*)
(* Neither main function is part of the other, nor one request for ports   *)
(* part of the other, so that a part of one is told apart.                 *)
(***************************************************************************)
EXTENDS UsbGadget

MCHasty == {<<"config", "mtp,adb">>, <<"config", "rndis">>,
            <<"config", "acm_gs0gs1">>, <<"config", "acm_gs2">>, <<"portIndex", "0">>}
=============================================================================
