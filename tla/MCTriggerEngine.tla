--------------------------- MODULE MCTriggerEngine ---------------------------
(* Instances of TriggerEngine for TLC.                                     *)
EXTENDS TriggerEngine, TLC

\* Ticks are interchangeable invocations of runTick.
AnyTick == Permutations(Ticks)
=============================================================================
