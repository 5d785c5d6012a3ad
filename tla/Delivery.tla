------------------------------ MODULE Delivery ------------------------------
(* What the durable action queue promises an owner about each action, without *)
(* tables, leases, attempts, workers or crashes: when its tool may be asked,  *)
(* how often the world can change because of it, and when it may be reported  *)
(* as done.  ActionQueue is shown to implement this.                          *)
EXTENDS Naturals

CONSTANTS Actions,     \* proposed actions
          Idempotent   \* those whose provider performs a repeated request once

VARIABLES sent,      \* the requests of each action that may still take effect
          effects,   \* how often each action has taken effect
          revoked,   \* actions the owner has rejected
          reported   \* actions reported as done

vars == <<sent, effects, revoked, reported>>

Init ==
  /\ sent = [a \in Actions |-> {}]
  /\ effects = [a \in Actions |-> 0]
  /\ revoked = {}
  /\ reported = {}

\* A tool is asked unless the owner said no.  If it would perform the request a
\* second time, it is asked only when nothing was done and nothing is under way.
Request(a) ==
  /\ a \notin revoked
  /\ a \in Idempotent \/ (sent[a] = {} /\ effects[a] = 0)
  /\ \E n \in sent'[a] \ sent[a] : sent' = [sent EXCEPT ![a] = @ \cup {n}]
  /\ UNCHANGED <<effects, revoked, reported>>

\* The provider acts on a request, or finds that it already has.
Act(a) ==
  /\ \E n \in sent[a] : sent' = [sent EXCEPT ![a] = @ \ {n}]
  /\ effects' = [effects EXCEPT ![a] = IF a \in Idempotent /\ @ > 0 THEN @ ELSE @ + 1]
  /\ UNCHANGED <<revoked, reported>>

\* The owner rejects.
Revoke(a) == revoked' = revoked \cup {a} /\ UNCHANGED <<sent, effects, reported>>

\* A request that had no effect is given up.  An action is reported as done only
\* when it is; a later answer may take the report back.
Answer(a) ==
  /\ \E given \in SUBSET sent[a] : sent' = [sent EXCEPT ![a] = @ \ given]
  /\ \/ effects[a] > 0 /\ reported' = reported \cup {a}
     \/ reported' = reported \ {a}
  /\ UNCHANGED <<effects, revoked>>

Next == \E a \in Actions : Request(a) \/ Act(a) \/ Revoke(a) \/ Answer(a)

Spec == Init /\ [][Next]_vars
=============================================================================
