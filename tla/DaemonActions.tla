--------------------------- MODULE DaemonActions ---------------------------
(* Majordomo's action executor (majordomo/src/actions): the actions and        *)
(* action_attempts tables, the transition table that alone says what is legal, *)
(* the workers that lease and execute, recovery of expired leases, and the     *)
(* owner's commands.                                                           *)
(*                                                                             *)
(* Every operation of the store is one immediate transaction, so threads and   *)
(* processes interleave between operations and a crash falls between them.     *)
(* Time is abstract: a lease is live or lapsed, and a retry may be leased at   *)
(* any time.                                                                   *)
(*                                                                             *)
(* A definition named D_Mutant is D with a plausible mistake in it; no         *)
(* specification uses it.                                                      *)
EXTENDS Naturals, Sequences, FiniteSets

CONSTANTS Actions,        \* idempotency keys of submitted actions
          Idempotent,     \* those whose capability honours the key
          Consequential,  \* those submitted as consequential
          Workers,        \* threads that execute
          WorkerId,       \* the worker_id each thread signs leases with
          None,           \* no action, no owner
          MaxAttempts,    \* RetryPolicy.max_attempts
          MaxAgain        \* bound: owner commands that put an action back

ASSUME DaemonActionsAssumption ==
  /\ Idempotent \subseteq Actions /\ Consequential \subseteq Actions
  /\ None \notin Actions /\ \A w \in Workers : WorkerId[w] # None
  /\ MaxAttempts \in Nat \ {0} /\ MaxAgain \in Nat

VARIABLES
  row,       \* actions
  attempts,  \* action_attempts of each action, in order; attempt_count is their number
  thread,    \* what each worker is at
  wire,      \* attempts whose request may still take effect
  \* History of what the properties are about:
  again,     \* how often the owner put the action back
  effects    \* effects by action and the owner's commands it had had

vars == <<row, attempts, thread, wire, again, effects>>
-----------------------------------------------------------------------------
\* Classes the code tells apart: "terminal" is any other.
Classes == {"retryable", "outcome_uncertain", "recovery_review_required", "terminal"}

TRANSITIONS == {
  <<"awaiting_approval", "approve", "queued">>,
  <<"awaiting_approval", "reject", "cancelled">>,
  <<"awaiting_approval", "cancel", "cancelled">>,
  <<"queued", "cancel", "cancelled">>,
  <<"retry_wait", "cancel", "cancelled">>,
  <<"queued", "lease", "leased">>,
  <<"retry_wait", "lease", "leased">>,
  <<"leased", "expire_lease", "queued">>,
  <<"leased", "begin_attempt", "executing">>,
  <<"leased", "stop_failed", "failed">>,
  <<"leased", "stop_cancelled", "cancelled">>,
  <<"leased", "stop_dead_letter", "dead_letter">>,
  <<"executing", "complete", "completed">>,
  <<"executing", "fail_retry", "retry_wait">>,
  <<"executing", "fail_dead_letter", "dead_letter">>,
  <<"executing", "fail_terminal", "failed">>,
  <<"executing", "mark_uncertain", "outcome_uncertain">>,
  <<"executing", "expire_lease", "outcome_uncertain">>,
  <<"failed", "requeue", "queued">>,
  <<"cancelled", "requeue", "queued">>,
  <<"outcome_uncertain", "resolve_done", "completed">>,
  <<"outcome_uncertain", "resolve_not_done", "queued">>}

Status == {t[1] : t \in TRANSITIONS} \cup {t[3] : t \in TRANSITIONS} \cup {"none"}

Legal(from, trigger) == \E t \in TRANSITIONS : t[1] = from /\ t[2] = trigger
After(from, trigger) == (CHOOSE t \in TRANSITIONS : t[1] = from /\ t[2] = trigger)[3]

NoRow == [st |-> "none", lease |-> "none", owner |-> None, review |-> FALSE, approved |-> FALSE]
Idle == [at |-> "idle", a |-> None, n |-> 0]

\* The shapes of an actions row, an action_attempts row and a worker's place.
ActionRow == [st : Status, lease : {"none", "live", "lapsed"},
  owner : {WorkerId[w] : w \in Workers} \cup {None}, review : BOOLEAN, approved : BOOLEAN]
Attempt == [st : {"executing", "completed", "failed", "uncertain"},
  owner : {WorkerId[w] : w \in Workers}, gen : 0..MaxAgain]
Frame == [at : {"idle", "lease", "gate", "call"}, a : Actions \cup {None}, n : Nat]

\* The variables hold values of these shapes.
TypeOK ==
  /\ row \in [Actions -> ActionRow]
  /\ attempts \in [Actions -> Seq(Attempt)]
  /\ thread \in [Workers -> Frame]
  /\ wire \in [Actions -> SUBSET Nat]
  /\ again \in [Actions -> 0..MaxAgain]
  /\ effects \in [Actions \X (0..MaxAgain) -> Nat]

Init ==
  /\ row = [a \in Actions |-> NoRow]
  /\ attempts = [a \in Actions |-> <<>>]
  /\ thread = [w \in Workers |-> Idle]
  /\ wire = [a \in Actions |-> {}]
  /\ again = [a \in Actions |-> 0]
  /\ effects = [x \in Actions \X (0..MaxAgain) |-> 0]

\* Effects are counted by owner command only where the provider would repeat
\* them: one that honours the key performs the action once for all.
Gen(a) == IF a \in Idempotent THEN 0 ELSE again[a]
-----------------------------------------------------------------------------
(* The store.                                                                *)

\* transition: the table decides, then the caller's changes are made.
Moved(r, trigger) == [r EXCEPT !.st = After(@, trigger)]
Freed(r) == [r EXCEPT !.lease = "none", !.owner = None]

\* error_class, of which only this matters later: requeue is refused.
Classed(r, class) ==
  [r EXCEPT !.review = class \in {"outcome_uncertain", "recovery_review_required"}]

\* submit: a key that exists is returned untouched.
Submit(a) ==
  /\ row' = IF row[a].st = "none"
       THEN [row EXCEPT ![a].st = IF a \in Consequential THEN "awaiting_approval" ELSE "queued"]
       ELSE row
  /\ UNCHANGED <<attempts, thread, wire, again, effects>>

\* A command of the owner on one row.
Command(a, trigger, new) ==
  /\ Legal(row[a].st, trigger)
  /\ row' = [row EXCEPT ![a] = new]
  /\ UNCHANGED <<attempts, thread, wire, effects>>

Approve(a) ==
  Command(a, "approve", [Moved(row[a], "approve") EXCEPT !.approved = TRUE]) /\ UNCHANGED again
Reject(a) == Command(a, "reject", Classed(Moved(row[a], "reject"), "terminal")) /\ UNCHANGED again
Cancel(a) == Command(a, "cancel", Classed(Moved(row[a], "cancel"), "terminal")) /\ UNCHANGED again

PutBack(a, trigger) ==
  /\ again[a] < MaxAgain
  /\ Command(a, trigger, Classed(Freed(Moved(row[a], trigger)), "none"))
  /\ again' = [again EXCEPT ![a] = @ + 1]

MayRequeue(r, a) == ~r.review /\ (a \in Consequential => r.approved)

Requeue(a) == MayRequeue(row[a], a) /\ PutBack(a, "requeue")
ResolveNotDone(a) == PutBack(a, "resolve_not_done")
ResolveDone(a) ==
  Command(a, "resolve_done", Classed(Moved(row[a], "resolve_done"), "none")) /\ UNCHANGED again

Expired(a) == row[a].st \in {"leased", "executing"} /\ row[a].lease = "lapsed"

\* The open attempts of an action whose lease ran out.
ClosedUncertain(seq) ==
  [n \in DOMAIN seq |-> IF seq[n].st = "executing" THEN [seq[n] EXCEPT !.st = "uncertain"] ELSE seq[n]]

Recovered(r) ==
  LET m == Freed(Moved(r, "expire_lease")) IN
  IF r.st = "executing" THEN Classed(m, "outcome_uncertain") ELSE m

\* recover: every expired lease, in one transaction.
RecoverRows ==
  /\ row' = [a \in Actions |-> IF Expired(a) THEN Recovered(row[a]) ELSE row[a]]
  /\ attempts' = [a \in Actions |-> IF Expired(a) /\ row[a].st = "executing"
                                     THEN ClosedUncertain(attempts[a]) ELSE attempts[a]]
  /\ UNCHANGED <<wire, again, effects>>

\* Runtime::recover, at start-up.
Recover == RecoverRows /\ UNCHANGED thread
-----------------------------------------------------------------------------
(* A worker.                                                                 *)

At(w, place) == thread[w].at = place
Goes(w, frame) == thread' = [thread EXCEPT ![w] = frame]
GivesUp(w) == Goes(w, Idle) /\ UNCHANGED <<row, attempts, wire, again, effects>>

\* process_next, process_action: recovery comes first.
Process(w) == At(w, "idle") /\ RecoverRows /\ Goes(w, [Idle EXCEPT !.at = "lease"])

Leasable(a) ==
  row[a].st \in {"queued", "retry_wait"} /\ (a \in Consequential => row[a].approved)

Lease(w) ==
  /\ At(w, "lease")
  /\ \E a \in Actions :
       /\ Leasable(a)
       /\ row' = [row EXCEPT ![a] = [Moved(@, "lease") EXCEPT !.lease = "live", !.owner = WorkerId[w]]]
       /\ Goes(w, [at |-> "gate", a |-> a, n |-> 0])
  /\ UNCHANGED <<attempts, wire, again, effects>>

NothingDue(w) == At(w, "lease") /\ (\A a \in Actions : ~Leasable(a)) /\ GivesUp(w)

Holds(w, a) == row[a].st = "leased" /\ row[a].owner = WorkerId[w]

\* execute's checks: no capability, or changed arguments; or the authorizer
\* denies.  stop_leased does not ask whether the lease is live.
Stops == {<<"stop_failed", "terminal">>} \cup ({"stop_cancelled"} \X Classes)

StopLeased(w) ==
  LET a == thread[w].a IN
  /\ At(w, "gate") /\ Holds(w, a)
  /\ \E s \in Stops : row' = [row EXCEPT ![a] = Classed(Freed(Moved(@, s[1])), s[2])]
  /\ Goes(w, Idle)
  /\ UNCHANGED <<attempts, wire, again, effects>>

MayBegin(w, a) == Holds(w, a) /\ row[a].lease = "live"

\* begin_attempt, and the call: from here a crash means an unknown outcome.
BeginAttempt(w) ==
  LET a == thread[w].a  n == Len(attempts[a]) + 1 IN
  /\ At(w, "gate") /\ MayBegin(w, a) /\ (a \in Consequential => row[a].approved)
  /\ row' = [row EXCEPT ![a] = Moved(@, "begin_attempt")]
  /\ attempts' = [attempts EXCEPT ![a] =
       Append(@, [st |-> "executing", owner |-> WorkerId[w], gen |-> Gen(a)])]
  /\ wire' = [wire EXCEPT ![a] = @ \cup {n}]
  /\ Goes(w, [at |-> "call", a |-> a, n |-> n])
  /\ UNCHANGED <<again, effects>>

\* Whatever execute tries next is refused: the row moved on.
Refused(w) == At(w, "gate") /\ ~MayBegin(w, thread[w].a) /\ GivesUp(w)

\* failure_outcome
FailTrigger(class, n) ==
  CASE class = "retryable" /\ n < MaxAttempts -> "fail_retry"
    [] class = "retryable" -> "fail_dead_letter"
    [] class = "outcome_uncertain" -> "mark_uncertain"
    [] OTHER -> "fail_terminal"

AttemptStatus(trigger) ==
  CASE trigger = "complete" -> "completed" [] trigger = "mark_uncertain" -> "uncertain" [] OTHER -> "failed"

\* The attempt's row gets its status.
Recorded(log, n, st) == [log EXCEPT ![n].st = st]

MaySettle_Mutant(w, a, n) == row[a].st = "executing" /\ row[a].owner = WorkerId[w]

\* settle: the attempt is still open and the row still this worker's.
MaySettle(w, a, n) ==
  /\ attempts[a][n].st = "executing" /\ attempts[a][n].owner = WorkerId[w]
  /\ row[a].st = "executing" /\ row[a].owner = WorkerId[w]

\* complete_attempt, fail_attempt: a late worker only gets an error.
Settle(w, trigger, class) ==
  LET a == thread[w].a  n == thread[w].n IN
  /\ IF MaySettle(w, a, n)
     THEN /\ row' = [row EXCEPT ![a] = Classed(Freed(Moved(@, trigger)), class)]
          /\ attempts' = [attempts EXCEPT ![a] = Recorded(@, n, AttemptStatus(trigger))]
     ELSE UNCHANGED <<row, attempts>>
  /\ Goes(w, Idle)
  /\ UNCHANGED <<again, effects>>

\* The capability returns Ok: it has acted.
CallSucceeds(w) ==
  /\ At(w, "call") /\ thread[w].n \notin wire[thread[w].a]
  /\ Settle(w, "complete", "none") /\ UNCHANGED wire

EffectiveClass_Mutant(a, class, safe) == class

\* A retryable error of a tool that would repeat itself is retried only if it
\* is known to have had no effect.
EffectiveClass(a, class, safe) ==
  IF class = "retryable" /\ a \notin Idempotent /\ ~safe THEN "terminal" ELSE class

\* It returns an error or panics; it may have acted, or still act, unless it
\* says that it is safe to retry.
CallFails(w) ==
  LET a == thread[w].a  n == thread[w].n IN
  /\ At(w, "call")
  /\ \E class \in Classes, safe \in BOOLEAN :
       /\ safe => n \in wire[a]
       /\ wire' = IF safe THEN [wire EXCEPT ![a] = @ \ {n}] ELSE wire
       /\ LET c == EffectiveClass(a, class, safe) IN Settle(w, FailTrigger(c, n), c)

\* The process of the thread is killed; another takes its place.
Dies(w) == ~At(w, "idle") /\ GivesUp(w)
-----------------------------------------------------------------------------
(* Providers and time.                                                       *)

ProviderActs(a) ==
  \E n \in wire[a] :
    LET g == attempts[a][n].gen IN
    /\ wire' = [wire EXCEPT ![a] = @ \ {n}]
    /\ effects' = [effects EXCEPT ![<<a, g>>] = IF a \in Idempotent /\ @ > 0 THEN @ ELSE @ + 1]
    /\ UNCHANGED <<row, attempts, thread, again>>

LeaseLapses(a) ==
  /\ row[a].lease = "live"
  /\ row' = [row EXCEPT ![a].lease = "lapsed"]
  /\ UNCHANGED <<attempts, thread, wire, again, effects>>

OwnerStep(a) ==
  \/ Approve(a) \/ Reject(a) \/ Cancel(a) \/ Requeue(a) \/ ResolveDone(a) \/ ResolveNotDone(a)

WorkerStep(w) ==
  \/ Process(w) \/ Lease(w) \/ NothingDue(w) \/ StopLeased(w) \/ BeginAttempt(w) \/ Refused(w)
  \/ CallSucceeds(w) \/ CallFails(w) \/ Dies(w)

\* Everything but the submissions.
Execution ==
  \/ \E a \in Actions : OwnerStep(a) \/ ProviderActs(a) \/ LeaseLapses(a)
  \/ \E w \in Workers : WorkerStep(w)
  \/ Recover

Next == Execution \/ \E a \in Actions : Submit(a)

Spec == Init /\ [][Next]_vars
-----------------------------------------------------------------------------
(* Properties.                                                               *)

Last(a) == attempts[a][Len(attempts[a])]

OneStory(a) ==
  /\ \A n \in DOMAIN attempts[a] : attempts[a][n].st = "executing" =>
       n = Len(attempts[a]) /\ row[a].st = "executing"
  /\ row[a].st \in {"executing", "outcome_uncertain", "completed", "retry_wait", "dead_letter"} =>
       attempts[a] # <<>>
  /\ row[a].st = "executing" => Last(a).st = "executing"
  /\ row[a].st = "outcome_uncertain" => Last(a).st = "uncertain"
  /\ row[a].st = "completed" => Last(a).st \in {"completed", "uncertain"}

\* The row and its attempts tell one story, whoever died, stalled or answered
\* late: an attempt is open just while the row is executing, and is the last
\* one; an uncertain row has an uncertain last attempt, which only the owner
\* may call done (settle, recover, resolve_uncertain).
AttemptsMatchRow == \A a \in Actions : OneStory(a)

\* An unapproved consequential action that was turned down.
Withheld(a) == a \in Consequential /\ ~row[a].approved /\ row[a].st = "cancelled"

\* What Delivery promises holds between two commands of the owner: a request
\* repeats a possible effect only when the owner has put the action back; a
\* rejected action stays rejected; what a worker reports as done is done.
Promise == INSTANCE Delivery WITH
  Actions <- Actions \X (0..MaxAgain),
  Idempotent <- Idempotent \X (0..MaxAgain),
  sent <- [x \in Actions \X (0..MaxAgain) |-> {n \in wire[x[1]] : attempts[x[1]][n].gen = x[2]}],
  revoked <- {<<a, Gen(a)>> : a \in {b \in Actions : Withheld(b)}},
  reported <- {<<a, Gen(a)>> : a \in
                 {b \in Actions : row[b].st = "completed" /\ Last(b).st = "completed"}}
KeepsPromise == Promise!Spec
=============================================================================
