----------------------------- MODULE MCGoalWakes -----------------------------
(* Instances of GoalWakes for TLC.                                         *)
EXTENDS GoalWakes

\* Enough for every run and pass of the instance.
Ample == {<<2, 2>>}
=============================================================================
