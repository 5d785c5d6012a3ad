----------------------------- MODULE MCWorkflow -----------------------------
(* Programs for the runs of Workflow. *)
EXTENDS Workflow

Parallel == [r1 |-> <<"skill", "state">>, r2 |-> <<"emit", "state">>]
Approved == <<"act">>
Waits == [r1 |-> <<"sleep", "wait", "skill">>]
Reads == <<"pure", "read">>
ReadThenAct == [r1 |-> <<"read", "act">>]
OneChild == [k \in Kinds |-> IF k = "skill" THEN 1 ELSE 2]
ActTwice == [k \in Kinds |-> IF k = "act" THEN 2 ELSE 1]
=============================================================================
