------------------------------ MODULE MCAgentRun ------------------------------
(* Plans for AgentRun: `deps' are indices into the plan, `sig' names the call. *)
EXTENDS AgentRun

Step(sig, deps) == [sig |-> sig, deps |-> deps]

\* Two steps that wait for the first; a repeated call; nothing to do.
Fan == {<<>>, <<Step("a", {}), Step("b", {1}), Step("c", {1})>>,
        <<Step("d", {}), Step("d", {})>>}

\* One step that waits for another.
Pair == {<<Step("a", {}), Step("b", {1})>>, <<Step("c", {})>>}
===============================================================================
