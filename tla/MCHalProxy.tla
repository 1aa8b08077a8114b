----------------------------- MODULE MCHalProxy -----------------------------
(***************************************************************************)
(* Instances of HalProxy for TLC: the batches the sub-HALs post, and the   *)
(* symmetry of the sub-HALs.                                               *)
(***************************************************************************)
EXTENDS HalProxy

\* Events of both kinds; batches that can be torn between the FMQ and the
\* pending queue, one of them longer than the FMQ.
MixedBatches == {<<FALSE>>, <<TRUE, TRUE>>, <<FALSE, TRUE, TRUE>>}

TornBatches == {<<TRUE, TRUE>>}

\* WAKE_UP events one at a time, as many posts as there is room for.
SingleBatches == {<<TRUE>>}

\* No WAKE_UP events: only the event path is at work.
PlainBatches == {<<FALSE>>, <<FALSE, FALSE, FALSE>>}

SubHalSymmetry == Permutations(SubHals)
=============================================================================
