----------------------------- MODULE MCActionQueue -----------------------------
(* Instances of ActionQueue for TLC.                                       *)
EXTENDS ActionQueue, TLC

\* Actions of the same kind (idempotent or not, linked or not) are interchangeable.
Interchangeable == Permutations(Actions)
=============================================================================
