------------------------------ MODULE ActionQueue ------------------------------
(***************************************************************************)
(* The durable action queue of the Node server: the agent_actions,         *)
(* action_queue and action_attempts tables, the worker that leases and     *)
(* executes queued actions, the approval manager, run cancellation, and    *)
(* the providers the tools call.                                           *)
(*                                                                         *)
(* One server process owns a home at a time.  Its handlers run to the next *)
(* await without interference, so `section' holds the synchronous code in  *)
(* progress and every other handler waits for it; but each SQL statement   *)
(* or transaction is durable by itself, so a crash can cut a section       *)
(* between two of them.  Each step of a section is one durable write.      *)
(*                                                                         *)
(* Time is abstract: a lease is live or lapsed, a retry is due or not.     *)
(*                                                                         *)
(* A definition named D_Mutant is D with a plausible mistake in it; no     *)
(* specification uses it.  It is there to show which property notices.     *)
(***************************************************************************)
EXTENDS Naturals, Sequences

CONSTANTS Actions,      \* ids of agent_actions rows
          Idempotent,   \* actions whose tool declares supportsIdempotency
          Linked,       \* actions proposed by a step of an agent run
          None,         \* no action
          MaxAttempts,  \* maxAttempts of failActionAttempt
          MaxCrashes,   \* bound: process crashes in a behaviour
          MaxStalls     \* bound: suspensions long enough to lose a lease

ASSUME ActionQueueAssumption ==
  /\ Idempotent \subseteq Actions
  /\ Linked \subseteq Actions
  /\ None \notin Actions
  /\ MaxAttempts \in Nat \ {0}
  /\ MaxCrashes \in Nat
  /\ MaxStalls \in Nat

VARIABLES
  action,      \* agent_actions, by id
  queue,       \* action_queue, by action id
  attempts,    \* action_attempts of each queue row, in order; attempt_count,
               \* written in the same transactions, is their number
  cancelReq,   \* actions whose run has cancel_requested_at
  age,         \* how old the proposal is: 0, 1 (run deadline), 2 (stale)
  section,     \* the synchronous code in progress
  calls,       \* tool.execute promises this process awaits
  cancelling,  \* cancelRun loops between reject and cancelUnstartedAction
  wire,        \* requests a provider may still act on
  effects,     \* external effects a provider has performed
  crashes,     \* crashes so far (bound)
  stalls       \* stalls so far (bound)

durable  == <<action, queue, attempts, cancelReq, age>>
provider == <<wire, effects>>
bounds   == <<crashes, stalls>>
vars == <<action, queue, attempts, cancelReq, age, section, calls, cancelling,
          wire, effects, crashes, stalls>>

ActionStatus == {"none", "pending", "approved", "blocked", "rejected",
                 "cancelled", "executed", "failed"}
QueueStatus  == {"none", "queued", "leased", "executing", "retry_wait",
                 "completed", "failed", "dead_letter", "cancelled"}
AttemptStatus == {"executing", "completed", "failed", "lapsed"}
ErrorClass   == {"retryable", "non_retryable", "authentication_required",
                 "owner_attention_required", "outcome_uncertain"}
QueueClass   == ErrorClass \cup {"none"}

\* What policy evaluation says of a tool call at the moment it is asked.
Verdict == {"allow", "confirm", "never"}

\* The other facts a gate looks up afresh: the tool is registered, the goal of
\* the run permits it, the package holds the authority, the account is bound.
World == {"ok", "unresolved", "outOfScope", "unauthorised", "unbound"}

NoAction == [status |-> "none", approved |-> FALSE, rejected |-> FALSE,
             stale |-> FALSE, reproposed |-> None]
NoRow == [status |-> "none", due |-> FALSE, lease |-> "none", owner |-> "none",
          class |-> "none"]
Idle == [at |-> "idle", a |-> None, by |-> "request", n |-> 0,
         to |-> "none", class |-> "none", other |-> None]

Init ==
  /\ action = [a \in Actions |-> NoAction]
  /\ queue = [a \in Actions |-> NoRow]
  /\ attempts = [a \in Actions |-> <<>>]
  /\ cancelReq = {}
  /\ age = [a \in Actions |-> 0]
  /\ section = Idle
  /\ calls = {}
  /\ cancelling = {}
  /\ wire = [a \in Actions |-> {}]
  /\ effects = [a \in Actions |-> 0]
  /\ crashes = 0
  /\ stalls = 0

-----------------------------------------------------------------------------
(* Helpers.                                                                *)

At(place) == section.at = place

Enter(place, a, by) == [Idle EXCEPT !.at = place, !.a = a, !.by = by]

\* updateAgentAction: a new status; a new result, which drops the error and the
\* re-proposal link the old one held; the owner's decisions.
WithStatus(row, status) == [row EXCEPT !.status = status]
WithResult(row, status) ==
  [row EXCEPT !.status = status, !.stale = FALSE, !.reproposed = None]
StaleFailure(row) == [row EXCEPT !.status = "failed", !.stale = TRUE, !.reproposed = None]
Approved(row) == [row EXCEPT !.status = "approved", !.approved = TRUE]
Rejected(row) == [row EXCEPT !.status = "rejected", !.rejected = TRUE]
ReproposedAs(row, b) == [row EXCEPT !.reproposed = b]

\* The updates of an action_queue row.
Queued(row) == [row EXCEPT !.status = "queued", !.due = TRUE, !.lease = "none",
                           !.owner = "none", !.class = "none"]
Leased(row) == [row EXCEPT !.status = "leased", !.lease = "live", !.owner = "self"]
Executing(row) == [row EXCEPT !.status = "executing"]
Withdrawn(row) == [row EXCEPT !.status = "cancelled", !.class = "non_retryable"]
Released(row, status, class) ==
  [row EXCEPT !.status = status, !.due = (status # "retry_wait"),
              !.lease = "none", !.owner = "none", !.class = class]
Lapsed(row) == [row EXCEPT !.lease = "lapsed"]
Renewed(row) == [row EXCEPT !.lease = "live"]
Ready(row) == [row EXCEPT !.due = TRUE]
Orphaned(row) == IF row.owner = "self" THEN [row EXCEPT !.owner = "former"] ELSE row

CancelRequested(a) == a \in Linked /\ a \in cancelReq

DeadlineExpired(a) == a \in Linked /\ age[a] >= 1

Stale(a) == age[a] = 2

Revoked_Mutant(a) == FALSE

Revoked(a) == action[a].rejected \/ action[a].status = "rejected"

Leasable_Mutant(a) == queue[a].status \in {"queued", "retry_wait"} /\ queue[a].due

\* What leaseNextAction and leaseActionByActionId may claim.
Leasable(a) ==
  \/ queue[a].status \in {"queued", "retry_wait"} /\ queue[a].due
  \/ queue[a].status \in {"leased", "executing"} /\ queue[a].lease = "lapsed"

LastLapsed(a) ==
  attempts[a] # <<>> /\ attempts[a][Len(attempts[a])] = "lapsed"

Closed(log) == [i \in DOMAIN log |-> IF log[i] = "executing" THEN "lapsed" ELSE log[i]]

-----------------------------------------------------------------------------
(* Proposal: Agent.evaluateAndMaybeExecute.                                *)

DecisionStatus(v) ==
  CASE v = "never" -> "blocked" [] v = "confirm" -> "pending" [] v = "allow" -> "approved"

\* The decision, already tightened by voice, goal, account and package gates,
\* is written as the audit row.
Propose(a) ==
  /\ At("idle")
  /\ action[a].status = "none"
  /\ \E v \in Verdict :
       action' = [action EXCEPT ![a] = WithStatus(@, DecisionStatus(v))]
  /\ section' = Enter("proposed", a, "request")
  /\ UNCHANGED <<queue, attempts, cancelReq, age, calls, cancelling, provider, bounds>>

\* A cancelled run withdraws the proposal; an autonomous one is enqueued.
AfterProposal(a) ==
  /\ At("proposed") /\ section.a = a
  /\ \/ /\ CancelRequested(a)
        /\ action' = [action EXCEPT ![a] = WithResult(@, "cancelled")]
        /\ section' = Idle
     \/ /\ ~CancelRequested(a)
        /\ action[a].status # "approved"
        /\ section' = Idle
        /\ UNCHANGED action
     \/ /\ ~CancelRequested(a)
        /\ action[a].status = "approved"
        /\ section' = Enter("enqueue", a, "request")
        /\ UNCHANGED action
  /\ UNCHANGED <<queue, attempts, cancelReq, age, calls, cancelling, provider, bounds>>

\* requeueAction of a stopped row, else enqueueAction (ON CONFLICT DO NOTHING).
Enqueue(a) ==
  /\ At("enqueue") /\ section.a = a
  /\ \/ /\ queue[a].status \in {"failed", "cancelled"}
        /\ queue[a].class # "outcome_uncertain"
        /\ queue' = [queue EXCEPT ![a] = Queued(@)]
        /\ section' = Enter("claim", a, "request")
     \/ /\ queue[a].status \in {"failed", "cancelled"}
        /\ queue[a].class = "outcome_uncertain"       \* requeueAction throws
        /\ section' = Idle
        /\ UNCHANGED queue
     \/ /\ queue[a].status = "none"
        /\ queue' = [queue EXCEPT ![a] = Queued(@)]
        /\ section' = Enter("claim", a, "request")
     \/ /\ queue[a].status \notin {"none", "failed", "cancelled"}
        /\ section' = Enter("claim", a, "request")
        /\ UNCHANGED queue
  /\ UNCHANGED <<action, attempts, cancelReq, age, calls, cancelling, provider, bounds>>

-----------------------------------------------------------------------------
(* The owner: approve, reject, review again, cancel the run.               *)

\* _approveAction and approve.  A cancelled run or a decided action throws.
Approve(a) ==
  /\ At("idle")
  /\ action[a].status = "pending"
  /\ ~CancelRequested(a)
  /\ \/ /\ DeadlineExpired(a)
        /\ action' = [action EXCEPT ![a] = WithResult(@, "blocked")]
        /\ UNCHANGED section
     \/ /\ ~DeadlineExpired(a)
        /\ \/ /\ \E row \in {WithResult(action[a], "blocked"),    \* account not bound
                           WithStatus(action[a], "blocked")} :   \* policy says never
                  action' = [action EXCEPT ![a] = row]
              /\ UNCHANGED section
           \/ /\ action' = [action EXCEPT ![a] = Approved(@)]
              /\ section' = Enter("enqueue", a, "request")
  /\ UNCHANGED <<queue, attempts, cancelReq, age, calls, cancelling, provider, bounds>>

Reject(a) ==
  /\ At("idle")
  /\ action[a].status = "pending"
  /\ action' = [action EXCEPT ![a] = Rejected(@)]
  /\ UNCHANGED <<queue, attempts, cancelReq, age, section, calls, cancelling,
                 provider, bounds>>

\* repropose: a stale action becomes a fresh pending one, under a policy that
\* still asks; the link back is the second write.
Repropose(a, b) ==
  /\ At("idle")
  /\ action[a].status = "failed" /\ action[a].stale
  /\ action[a].reproposed = None
  /\ b \notin Linked /\ action[b].status = "none"
  /\ action' = [action EXCEPT ![b] = WithStatus(@, "pending")]
  /\ section' = [Enter("repropose", a, "request") EXCEPT !.other = b]
  /\ UNCHANGED <<queue, attempts, cancelReq, age, calls, cancelling, provider, bounds>>

LinkReproposal(a) ==
  /\ At("repropose") /\ section.a = a
  /\ action' = [action EXCEPT ![a] = ReproposedAs(@, section.other)]
  /\ section' = Idle
  /\ UNCHANGED <<queue, attempts, cancelReq, age, calls, cancelling, provider, bounds>>

\* cancelRun: the durable request, the rejection of a pending approval, and,
\* after the loop's await, the cancellation of what no worker has leased.
RequestCancel(a) ==
  /\ At("idle")
  /\ a \in Linked /\ action[a].status # "none"
  /\ cancelReq' = cancelReq \cup {a}
  /\ section' = Enter("cancel", a, "request")
  /\ UNCHANGED <<action, queue, attempts, age, calls, cancelling, provider, bounds>>

CancelPending(a) ==
  /\ At("cancel") /\ section.a = a
  /\ action' = [action EXCEPT ![a] = IF @.status = "pending" THEN Rejected(@) ELSE @]
  /\ cancelling' = cancelling \cup {a}
  /\ section' = Idle
  /\ UNCHANGED <<queue, attempts, cancelReq, age, calls, provider, bounds>>

cancelUnstartedAction(a) ==
  /\ At("idle")
  /\ a \in cancelling
  /\ cancelling' = cancelling \ {a}
  /\ \/ /\ queue[a].status \in {"queued", "retry_wait"}
        /\ action[a].status # "executed"
        /\ queue' = [queue EXCEPT ![a] = Withdrawn(@)]
        /\ action' = [action EXCEPT ![a] = WithStatus(@, "cancelled")]
     \/ /\ ~ (queue[a].status \in {"queued", "retry_wait"}
              /\ action[a].status # "executed")
        /\ UNCHANGED <<queue, action>>
  /\ UNCHANGED <<attempts, cancelReq, age, section, calls, provider, bounds>>

-----------------------------------------------------------------------------
(* The worker.                                                             *)

Claim(a, by) ==
  /\ queue' = [queue EXCEPT ![a] = Leased(@)]
  /\ section' = Enter("close", a, by)

\* runQueueTick is single-flight: it awaits the call of the item it leased.
Tick(a) ==
  /\ At("idle")
  /\ \A c \in calls : c.by # "tick"
  /\ Leasable(a)
  /\ Claim(a, "tick")
  /\ UNCHANGED <<action, attempts, cancelReq, age, calls, cancelling, provider, bounds>>

processAction(a) ==
  /\ At("claim") /\ section.a = a
  /\ \/ Leasable(a) /\ Claim(a, "request")
     \/ ~Leasable(a) /\ section' = Idle /\ UNCHANGED queue
  /\ UNCHANGED <<action, attempts, cancelReq, age, calls, cancelling, provider, bounds>>

CloseLapsed_Mutant(a) ==
  /\ At("close") /\ section.a = a
  /\ section' = [section EXCEPT !.at = "gate"]
  /\ UNCHANGED <<durable, calls, cancelling, provider, bounds>>

\* The second statement of a claim closes the attempt a dead owner left open.
CloseLapsed(a) ==
  /\ At("close") /\ section.a = a
  /\ attempts' = [attempts EXCEPT ![a] = Closed(@)]
  /\ section' = [section EXCEPT !.at = "gate"]
  /\ UNCHANGED <<action, queue, cancelReq, age, calls, cancelling, provider, bounds>>

Stop(row, to, class) == [row |-> row, to |-> to, class |-> class]
Go == [row |-> NoAction, to |-> "go", class |-> "none"]

\* The checks between the lease and the call, in the order of _executeLeased.
\* `row' is the agent_actions row the check leaves behind.
Refusal(a, v, w) ==
  LET row == action[a]
      attempted == attempts[a] # <<>>
  IN
  IF Revoked(a)
    THEN Stop(row, "cancelled", "owner_attention_required")
  ELSE IF CancelRequested(a) /\ attempted
    THEN Stop(row, "failed", "owner_attention_required")
  ELSE IF CancelRequested(a)
    THEN Stop(WithResult(row, "cancelled"), "cancelled", "non_retryable")
  ELSE IF DeadlineExpired(a) /\ attempted
    THEN Stop(row, "failed", "owner_attention_required")
  ELSE IF DeadlineExpired(a)
    THEN Stop(WithResult(row, "blocked"), "cancelled", "non_retryable")
  ELSE IF w = "unresolved"
    THEN Stop(row, "failed", "non_retryable")
  ELSE IF w = "outOfScope" /\ a \in Linked
    THEN Stop(WithResult(row, "blocked"), "cancelled", "owner_attention_required")
  ELSE IF v = "never" \/ w = "unauthorised"
    THEN Stop(WithResult(row, "blocked"), "cancelled", "non_retryable")
  ELSE IF Stale(a)
    THEN Stop(StaleFailure(row), "failed", "owner_attention_required")
  ELSE IF v = "confirm" /\ ~row.approved
    THEN Stop(WithStatus(row, "pending"), "failed", "owner_attention_required")
  ELSE IF w = "unbound"
    THEN Stop(WithResult(row, "failed"), "failed", "owner_attention_required")
  ELSE IF LastLapsed(a) /\ a \notin Idempotent
    THEN Stop(WithResult(row, "failed"), "failed", "outcome_uncertain")
  ELSE Go

AlreadyExecuted_Mutant(a) == action[a].status \in {"executed", "failed"}

\* An action already recorded as executed is settled without calling the tool.
AlreadyExecuted(a) == ~Revoked(a) /\ action[a].status = "executed"

beginActionAttempt(a) ==
  /\ queue[a].lease = "live"
  /\ queue' = [queue EXCEPT ![a] = Executing(@)]
  /\ attempts' = [attempts EXCEPT ![a] = Append(@, "executing")]

GateStop(a) ==
  /\ At("gate") /\ section.a = a
  /\ ~AlreadyExecuted(a)
  /\ \E v \in Verdict, w \in World :
       LET r == Refusal(a, v, w) IN
       /\ r # Go
       /\ action' = [action EXCEPT ![a] = r.row]
       /\ section' = [section EXCEPT !.at = "stop", !.to = r.to, !.class = r.class]
  /\ UNCHANGED <<queue, attempts, cancelReq, age, calls, cancelling, provider, bounds>>

GateFinish(a) ==
  /\ At("gate") /\ section.a = a
  /\ AlreadyExecuted(a)
  /\ beginActionAttempt(a)
  /\ section' = [section EXCEPT !.at = "settle", !.n = Len(attempts[a]) + 1,
                                !.to = "completed"]
  /\ UNCHANGED <<action, cancelReq, age, calls, cancelling, provider, bounds>>

GateExecute(a) ==
  /\ At("gate") /\ section.a = a
  /\ ~AlreadyExecuted(a)
  /\ \E v \in Verdict, w \in World : Refusal(a, v, w) = Go
  /\ beginActionAttempt(a)
  /\ calls' = calls \cup {[a |-> a, n |-> Len(attempts[a]) + 1, by |-> section.by]}
  /\ wire' = [wire EXCEPT ![a] = @ \cup {Len(attempts[a]) + 1}]
  /\ section' = Idle
  /\ UNCHANGED <<action, cancelReq, age, cancelling, effects, bounds>>

\* beginActionAttempt throws when the process slept through its own lease.
GateThrow(a) ==
  /\ At("gate") /\ section.a = a
  /\ queue[a].lease = "lapsed"
  /\ AlreadyExecuted(a) \/ \E v \in Verdict, w \in World : Refusal(a, v, w) = Go
  /\ section' = Idle
  /\ UNCHANGED <<durable, calls, cancelling, provider, bounds>>

stopLeasedAction(a) ==
  /\ At("stop") /\ section.a = a
  /\ queue' = [queue EXCEPT ![a] = Released(@, section.to, section.class)]
  /\ section' = Idle
  /\ UNCHANGED <<action, attempts, cancelReq, age, calls, cancelling, provider, bounds>>

\* renewActionLease, from the interval of any call of the row still awaited.
Heartbeat(a) ==
  /\ At("idle")
  /\ \E c \in calls : c.a = a
  /\ queue[a].status \in {"leased", "executing"} /\ queue[a].owner = "self"
  /\ queue[a].lease = "lapsed"
  /\ queue' = [queue EXCEPT ![a] = Renewed(@)]
  /\ UNCHANGED <<action, attempts, cancelReq, age, section, calls, cancelling,
                 provider, bounds>>

\* The executor records what the tool returned; the worker settles next.
ReturnSuccess(c) ==
  /\ At("idle") /\ c \in calls
  /\ c.n \notin wire[c.a]
  /\ calls' = calls \ {c}
  /\ action' = [action EXCEPT ![c.a] = WithResult(@, "executed")]
  /\ section' = [Enter("settle", c.a, c.by) EXCEPT !.n = c.n, !.to = "completed"]
  /\ UNCHANGED <<queue, attempts, cancelReq, age, cancelling, provider, bounds>>

EffectiveClass_Mutant(a, class, safe) == class

\* The class after the worker's own rule: a retryable error of a tool without
\* idempotency is retried only when the tool says it had no effect.
EffectiveClass(a, class, safe) ==
  IF class = "retryable" /\ a \notin Idempotent /\ ~safe
  THEN "owner_attention_required" ELSE class

FailureStatus_Mutant(n, class) == IF class = "retryable" THEN "retry" ELSE "failed"

FailureStatus(n, class) ==
  CASE class = "retryable" /\ n < MaxAttempts -> "retry_wait"
    [] class = "retryable" /\ n >= MaxAttempts -> "dead_letter"
    [] OTHER -> "failed"

ReturnError(c, raw, safe) ==
  /\ At("idle") /\ c \in calls
  /\ safe => c.n \in wire[c.a]
  /\ calls' = calls \ {c}
  /\ wire' = IF safe THEN [wire EXCEPT ![c.a] = @ \ {c.n}] ELSE wire
  /\ action' = [action EXCEPT ![c.a] = WithResult(@, "failed")]
  /\ LET class == EffectiveClass(c.a, raw, safe) IN
     section' = [Enter("settle", c.a, c.by) EXCEPT
                   !.n = c.n, !.to = FailureStatus(c.n, class), !.class = class]
  /\ UNCHANGED <<queue, attempts, cancelReq, age, cancelling, effects, bounds>>

\* settleAttempt: one transaction, refused once the lease was taken over.
settleAttempt(a) ==
  /\ At("settle") /\ section.a = a
  /\ \/ /\ attempts[a][section.n] = "executing"
        /\ queue[a].status = "executing" /\ queue[a].owner = "self"
        /\ attempts' = [attempts EXCEPT ![a][section.n] =
             IF section.to = "completed" THEN "completed" ELSE "failed"]
        /\ queue' = [queue EXCEPT ![a] = Released(@, section.to, section.class)]
     \/ /\ ~ (attempts[a][section.n] = "executing"
              /\ queue[a].status = "executing" /\ queue[a].owner = "self")
        /\ UNCHANGED <<attempts, queue>>
  /\ section' = Idle
  /\ UNCHANGED <<action, cancelReq, age, calls, cancelling, provider, bounds>>

-----------------------------------------------------------------------------
(* The environment: clock, providers, crashes.                             *)

\* A lease of a former process runs out; this process loses one only when it
\* is suspended or its event loop stalls past leaseMs.
LeaseLapses(a) ==
  /\ queue[a].lease = "live"
  /\ \/ queue[a].owner = "former" /\ UNCHANGED stalls
     \/ queue[a].owner = "self" /\ stalls < MaxStalls /\ stalls' = stalls + 1
  /\ queue' = [queue EXCEPT ![a] = Lapsed(@)]
  /\ UNCHANGED <<action, attempts, cancelReq, age, section, calls, cancelling,
                 provider, crashes>>

RetryDue(a) ==
  /\ queue[a].status = "retry_wait" /\ ~queue[a].due
  /\ queue' = [queue EXCEPT ![a] = Ready(@)]
  /\ UNCHANGED <<action, attempts, cancelReq, age, section, calls, cancelling,
                 provider, bounds>>

\* A run's deadline passes before the younger actions it proposed go stale.
GrowOlder(a) ==
  /\ action[a].status # "none" /\ age[a] < 2
  /\ age' = [age EXCEPT ![a] = @ + 1]
  /\ UNCHANGED <<action, queue, attempts, cancelReq, section, calls, cancelling,
                 provider, bounds>>

\* External.  The effect may come before or after the caller gave up or died;
\* a provider that honours the action's idempotency key performs it once.
ProviderActs(a, n) ==
  /\ n \in wire[a]
  /\ wire' = [wire EXCEPT ![a] = @ \ {n}]
  /\ effects' = [effects EXCEPT ![a] =
                   IF a \in Idempotent /\ @ > 0 THEN @ ELSE @ + 1]
  /\ UNCHANGED <<durable, section, calls, cancelling, bounds>>

\* The process dies and restarts under a new worker id; the tables remain.
Crash ==
  /\ crashes < MaxCrashes
  /\ crashes' = crashes + 1
  /\ section' = Idle
  /\ calls' = {}
  /\ cancelling' = {}
  /\ queue' = [a \in Actions |-> Orphaned(queue[a])]
  /\ UNCHANGED <<action, attempts, cancelReq, age, provider, stalls>>

-----------------------------------------------------------------------------

\* Continuations of the synchronous section in progress.
Continue(a) ==
  \/ AfterProposal(a) \/ Enqueue(a) \/ LinkReproposal(a) \/ CancelPending(a)
  \/ processAction(a) \/ CloseLapsed(a)
  \/ GateStop(a) \/ GateFinish(a) \/ GateExecute(a) \/ GateThrow(a)
  \/ stopLeasedAction(a) \/ settleAttempt(a)

Return(c) ==
  \/ ReturnSuccess(c)
  \/ \E raw \in ErrorClass, safe \in BOOLEAN : ReturnError(c, raw, safe)

Next ==
  \/ \E a \in Actions :
       \/ Propose(a) \/ Approve(a) \/ Reject(a) \/ RequestCancel(a)
       \/ cancelUnstartedAction(a) \/ Tick(a) \/ Continue(a) \/ Heartbeat(a)
       \/ LeaseLapses(a) \/ RetryDue(a) \/ GrowOlder(a)
       \/ \E b \in Actions : Repropose(a, b)
       \/ \E n \in wire[a] : ProviderActs(a, n)
  \/ \E c \in calls : Return(c)
  \/ Crash

Spec == Init /\ [][Next]_vars

-----------------------------------------------------------------------------
(* Fairness: the event loop runs a section to its end, serves timers and   *)
(* settled promises, and the tools bound their calls by deadlines; a due   *)
(* item is not passed over for ever because leaseNextAction takes the      *)
(* oldest due time first.  Owners, crashes and providers owe nothing.      *)

ReturnOf(a) == \E c \in calls : c.a = a /\ Return(c)

FormerLeaseLapses(a) == queue[a].owner = "former" /\ LeaseLapses(a)

Fairness ==
  \A a \in Actions :
    /\ WF_vars(Continue(a))
    /\ SF_vars(Tick(a))
    /\ SF_vars(ReturnOf(a))
    /\ WF_vars(RetryDue(a))
    /\ WF_vars(FormerLeaseLapses(a))

FairSpec == Spec /\ Fairness

-----------------------------------------------------------------------------
(* Properties.                                                             *)

ActionRow == [status : ActionStatus, approved : BOOLEAN, rejected : BOOLEAN,
              stale : BOOLEAN, reproposed : Actions \cup {None}]
QueueRow == [status : QueueStatus, due : BOOLEAN, lease : {"none", "live", "lapsed"},
             owner : {"none", "self", "former"}, class : QueueClass]
Place == {"idle", "proposed", "enqueue", "repropose", "cancel", "claim",
          "close", "gate", "stop", "settle"}
By == {"tick", "request"}
Section == [at : Place, a : Actions \cup {None}, by : By, n : Nat,
            to : QueueStatus, class : QueueClass, other : Actions \cup {None}]

\* The tables and the process's memory hold values of these shapes.
TypeOK ==
  /\ action \in [Actions -> ActionRow]
  /\ queue \in [Actions -> QueueRow]
  /\ attempts \in [Actions -> Seq(AttemptStatus)]
  /\ cancelReq \in SUBSET Actions
  /\ age \in [Actions -> 0..2]
  /\ section \in Section
  /\ section # Idle => section.a \in Actions
  /\ calls \in SUBSET [a : Actions, n : Nat, by : By]
  /\ cancelling \in SUBSET Actions
  /\ wire \in [Actions -> SUBSET Nat]
  /\ effects \in [Actions -> Nat]
  /\ crashes \in Nat
  /\ stalls \in Nat

\* Whatever is retried, recovered, re-approved or cancelled, and whenever the
\* process dies or stalls, an action has at most one external effect
\* (action-queue-worker.js: the recovered-attempt and safeToRetry rules).
AtMostOneEffect == \A a \in Actions : effects[a] <= 1

\* The attempt history agrees with the row, across a crash between any two
\* statements: only the newest attempt may be open, and an executing row has
\* one open.
LogMatches(a) ==
  /\ \A i \in 1..Len(attempts[a]) :
       attempts[a][i] = "executing" => i = Len(attempts[a])
  /\ queue[a].status = "executing" =>
       attempts[a] # <<>> /\ attempts[a][Len(attempts[a])] = "executing"
AttemptsMatchRow == \A a \in Actions : LogMatches(a)

\* What the tables report as delivered was delivered: a completed row, a
\* completed attempt or an executed action had its external effect.
ReportedDone(a) ==
  \/ action[a].status = "executed"
  \/ queue[a].status = "completed"
  \/ \E i \in 1..Len(attempts[a]) : attempts[a][i] = "completed"
SuccessIsReal == \A a \in Actions : ReportedDone(a) => effects[a] >= 1

\* Once the owner has rejected an action no tool call of it ever starts, even
\* when the rejection finds its row leased by a worker that died.
CallsRespectRejection ==
  \A a \in Actions : action[a].rejected => \A c \in calls' \ calls : c.a # a
NoCallAfterRejection == [][CallsRespectRejection]_vars

\* Every queued action reaches a state no worker will move it from: nothing is
\* left leased by a dead worker or waiting for a retry that never comes.
Active(a) == queue[a].status \in {"queued", "leased", "executing", "retry_wait"}
EveryDeliverySettles == \A a \in Actions : Active(a) ~> ~Active(a)

\* The promise of the queue as a whole: its tables, leases and recovery keep
\* what module Delivery says of requests, effects, rejections and reports.
Promise == INSTANCE Delivery WITH
  sent <- wire, revoked <- {a \in Actions : action[a].rejected},
  reported <- {a \in Actions : ReportedDone(a)}
KeepsPromise == Promise!Spec

-----------------------------------------------------------------------------
(* Claims of the documentation that the code does not keep.                *)

\* docs/architecture.md: cancellation only withdraws what no worker has started,
\* and never relabels a call that was made.
CancelledMeansNoEffect ==
  \A a \in Actions : action[a].status = "cancelled" => effects[a] = 0

\* action-queue-store.js: an uncertain outcome is reconciled before any fresh
\* proposal, so a re-proposed action left no attempt of unknown outcome.
NoFreshProposalWhileUncertain ==
  \A a \in Actions \ Idempotent :
    action[a].reproposed # None =>
      \A i \in 1..Len(attempts[a]) : attempts[a][i] # "lapsed"

\* docs/architecture.md: an authoritative success does not become anything else
\* because a lease expired.
ExecutedIsFinal ==
  [][\A a \in Actions : action[a].status = "executed" => action'[a].status = "executed"]_vars

-----------------------------------------------------------------------------
(* The inductive invariant behind the safety properties.                   *)

Open(a) == \E i \in 1..Len(attempts[a]) : attempts[a][i] = "executing"

\* A request of the action may still take effect, or has.
Exposed(a) == wire[a] # {} \/ effects[a] > 0

\* No path leads from here to another call of a tool without idempotency.
Barred(a) ==
  \/ attempts[a] # <<>> /\ attempts[a][Len(attempts[a])] \in {"executing", "lapsed"}
  \/ queue[a].status = "completed"
  \/ queue[a].status = "failed" /\ action[a].status \in {"failed", "executed"}

\* The rows of one action belong together, and requests to attempts on record.
RowSound(a) ==
  /\ action[a].status = "none" => queue[a].status = "none"
  /\ wire[a] \subseteq 1..Len(attempts[a])

\* A tool without idempotency has one request in flight or one effect, and
\* then no further call is possible.
OneShot(a) ==
  a \notin Idempotent =>
    /\ Exposed(a) => Barred(a)
    /\ effects[a] > 0 => wire[a] = {}
    /\ \A i, j \in wire[a] : i = j

RowsHold == \A a \in Actions : RowSound(a) /\ OneShot(a)

\* What the section in progress relies on: rows it wrote, or found, are still
\* as it left them because no other handler runs.
SectionHolds ==
  LET a == section.a IN
  /\ At("proposed") => queue[a].status = "none"
  /\ At("enqueue") => action[a].status = "approved"
  /\ section.at \in {"close", "gate", "stop"} =>
       queue[a].status = "leased" /\ queue[a].owner = "self"
  /\ section.at \in {"gate", "stop"} => ~Open(a)
  /\ At("stop") => section.to \in {"failed", "cancelled"}
  /\ At("settle") =>
       /\ section.n \in 1..Len(attempts[a])
       /\ section.to \in {"completed", "failed", "retry_wait", "dead_letter"}
       /\ section.to # "completed" => action[a].status = "failed"
       /\ section.to = "completed" => effects[a] >= 1
       /\ section.to \in {"retry_wait", "dead_letter"} /\ a \notin Idempotent
            => ~Exposed(a)

\* An awaited call is of an attempt on record, one call each, and is still on
\* the wire or had its effect.
CallsHold ==
  /\ \A c \in calls :
       /\ c.n \in 1..Len(attempts[c.a])
       /\ c.n \in wire[c.a] \/ effects[c.a] >= 1
  /\ \A c, d \in calls : c.a = d.a /\ c.n = d.n => c = d

IInv ==
  /\ TypeOK /\ AtMostOneEffect /\ AttemptsMatchRow /\ SuccessIsReal
  /\ RowsHold /\ SectionHolds /\ CallsHold

=============================================================================
