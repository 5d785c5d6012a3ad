------------------------------- MODULE AgentRun -------------------------------
(***************************************************************************)
(* One agent run of the Node server: the agent_runs row, its               *)
(* agent_run_steps, the planning loop that fills and executes them, the    *)
(* wakes that continue a waiting run (queue tick, approval, the owner's    *)
(* resume), cancellation, the run's budgets, and restart.                  *)
(*                                                                         *)
(* A process is one chain of awaits: the request that started the run, the *)
(* queue tick's wake scan (single-flight), and the owner's other requests. *)
(* `turn' is the process whose synchronous code is running; a crash may    *)
(* fall between two of its durable writes.  The action a step proposes is  *)
(* reduced to what its agent_actions and action_queue rows say together;   *)
(* how it is delivered is the subject of ActionQueue.                      *)
(*                                                                         *)
(* A definition named D_Mutant is D with a plausible mistake in it; no     *)
(* specification uses it.  It is there to show which property notices.     *)
(***************************************************************************)
EXTENDS Integers, Sequences, FiniteSets, FiniteSetsExt

CONSTANTS Owners,       \* concurrent owner requests other than the first
          None,         \* no process
          Plans,        \* plans a model may return: sequences of [deps, sig]
          StepLimit,    \* step_limit
          CallLimit,    \* MAX_MODEL_CALLS_PER_MESSAGE
          MaxSteps,     \* bound: steps recorded in a behaviour
          MaxCrashes,   \* bound: crashes in a behaviour
          Retries       \* whether some tool lets a failed call be retried

Procs == {"user", "tick"} \cup Owners

\* A step of a plan depends on earlier ones only (the plan validator sees to it).
ASSUME AgentRunAssumption ==
  /\ None \notin Procs
  /\ \A plan \in Plans : /\ Len(plan) \in Nat /\ DOMAIN plan = 1..Len(plan)
                         /\ \A i \in DOMAIN plan : plan[i].deps \subseteq 1..(i - 1)
  /\ StepLimit \in Nat /\ CallLimit \in Nat \ {0}
  /\ MaxSteps \in Nat /\ MaxCrashes \in Nat /\ Retries \in BOOLEAN

VARIABLES
  run,      \* the agent_runs row and, in run.steps, its agent_run_steps
  acts,     \* what became of the action of each step
  late,     \* the run's deadline has passed
  frame,    \* where each process is
  turn,     \* the process in a synchronous section, or None
  crashes   \* crashes so far (bound)

vars == <<run, acts, late, frame, turn, crashes>>

\* The rows of a step's action, taken together: "none" has no audit row,
\* "approved" has no queue row yet, "repending" was sent back to the owner by
\* the worker's gate, "retry" waits for its next attempt, "dead" used up its
\* attempts, "failed" and "uncertain" stopped for the owner.
ActState == {"none", "pending", "repending", "approved", "active", "retry", "executed",
             "failed", "dead", "uncertain", "blocked", "rejected", "cancelled"}

StepStatus == {"planned", "running", "waiting_dependency", "skipped", "cancelled",
               "budget_exhausted", "interrupted", "pending", "blocked", "executed",
               "failed", "dead_letter", "retry_wait", "rejected", "outcome_uncertain",
               "needs_attention", "waiting_for_action"}

RunStatus == {"none", "planning", "running", "completed", "failed", "cancelled",
              "cancelling", "interrupted", "needs_attention", "budget_exhausted",
              "waiting_for_approval", "waiting_for_dependency", "waiting_for_action",
              "ready_to_continue"}

Resting == [pc |-> "idle", in |-> "none", todo |-> {}, base |-> 0, round |-> 0, results |-> <<>>,
            tried |-> {}, cont |-> FALSE, n |-> 0, out |-> "none"]

\* A step names the steps it depends on and the call it makes; `act' says that its
\* action's id was assigned.
Sigs == UNION {{plan[i].sig : i \in DOMAIN plan} : plan \in Plans}
StepRow == [deps : SUBSET Nat, sig : Sigs, status : StepStatus, act : BOOLEAN]

RunRow == [status : RunStatus, cancel : BOOLEAN, cont : BOOLEAN, claimed : BOOLEAN,
           stop : BOOLEAN, calls : 0..CallLimit, used : 0..StepLimit, tokens : BOOLEAN,
           steps : Seq(StepRow)]

Frame == [pc : {"idle", "round", "model", "steps", "decide", "enqueue", "await", "record",
                "waking", "wake", "plan", "withdraw"},
          in : {"none", "loop", "wake", "approve"}, todo : SUBSET Nat, base : Nat, round : Nat,
          results : Seq(StepStatus), tried : SUBSET Sigs, cont : BOOLEAN, n : Nat,
          out : StepStatus \cup {"none"}]

NoRun == [status |-> "none", cancel |-> FALSE, cont |-> FALSE, claimed |-> FALSE,
          stop |-> FALSE, calls |-> 0, used |-> 0, tokens |-> FALSE, steps |-> <<>>]

Init ==
  /\ run = NoRun
  /\ acts = <<>>
  /\ late = FALSE
  /\ frame = [p \in Procs |-> Resting]
  /\ turn = None
  /\ crashes = 0

-----------------------------------------------------------------------------
(* The run store.                                                          *)

\* What a step's status is, read from its action.
currentStepStatus(step, act) ==
  IF ~step.act THEN IF step.status = "running" THEN "interrupted" ELSE step.status
  ELSE CASE act = "none" -> "interrupted"
         [] act \in {"rejected", "blocked", "executed", "pending", "cancelled"} -> act
         [] act = "uncertain" -> "outcome_uncertain"
         [] act \in {"approved", "repending", "failed"} -> "needs_attention"
         [] act \in {"active", "retry"} -> "waiting_for_action"
         [] act = "dead" -> "failed"

Underway == {"waiting_for_action", "approved", "queued", "running", "retrying"}

classifyRun_Mutant(S, cont, cancelled, stopped) ==
  IF cancelled THEN "cancelled" ELSE IF S \subseteq {"executed"} THEN "completed" ELSE "failed"

\* The run's status from the statuses of its steps.
classifyRun(S, cont, cancelled, stopped) ==
  IF cancelled
    THEN IF S \cap {"outcome_uncertain", "needs_attention", "interrupted"} # {}
           THEN "needs_attention"
         ELSE IF S \cap (Underway \cup {"pending"}) # {} THEN "cancelling"
         ELSE "cancelled"
  ELSE IF S \cap {"planning", "planned"} # {} THEN "running"
  ELSE IF "interrupted" \in S THEN "interrupted"
  ELSE IF S \cap {"needs_attention", "outcome_uncertain"} # {} THEN "needs_attention"
  ELSE IF stopped /\ S \cap Underway = {} THEN "budget_exhausted"
  ELSE IF S \cap {"waiting_for_approval", "pending"} # {} THEN "waiting_for_approval"
  ELSE IF "waiting_dependency" \in S THEN "waiting_for_dependency"
  ELSE IF S \cap Underway # {} THEN "waiting_for_action"
  ELSE IF S \cap {"blocked", "failed", "cancelled", "rejected", "skipped"} # {} THEN "failed"
  ELSE IF cont THEN "ready_to_continue" ELSE "completed"

Statuses(r) == {r.steps[i].status : i \in DOMAIN r.steps}

Classified(r) ==
  [r EXCEPT !.status = classifyRun(Statuses(r), r.cont, r.cancel, r.stop)]

\* getRun: every read brings the stored statuses up to date.
getRun(r, ac) ==
  LET fresh == [r EXCEPT !.steps =
        [i \in DOMAIN r.steps |->
           [r.steps[i] EXCEPT !.status = currentStepStatus(r.steps[i], ac[i])]]]
  IN IF ~r.cancel /\ (r.status \in {"planning", "running", "failed"} \/ r.steps = <<>>)
     THEN fresh ELSE Classified(fresh)

getBudgetStopReason_Mutant(r) == late \/ r.tokens

getBudgetStopReason(r) == late \/ r.used >= StepLimit \/ r.tokens

\* Unstarted steps of a stopped or cancelled run.
Unstarted(step) == ~step.act /\ step.status \in {"planned", "waiting_dependency"}

WithUnstarted(r, status) ==
  [r EXCEPT !.steps = [i \in DOMAIN r.steps |->
     IF Unstarted(r.steps[i]) THEN [r.steps[i] EXCEPT !.status = status] ELSE r.steps[i]]]

markBudgetExhausted(r, ac) ==
  LET s == WithUnstarted(r, "budget_exhausted") IN
  getRun(IF r.cancel THEN s
         ELSE [s EXCEPT !.stop = TRUE, !.cont = FALSE, !.claimed = FALSE,
                        !.status = "budget_exhausted"], ac)

clearContinuation(r) == [r EXCEPT !.cont = FALSE, !.claimed = FALSE]

recordRunStepOutcome(r, i, status) == [r EXCEPT !.steps[i].status = status]

beginModelCallAllowed_Mutant(r) == ~getBudgetStopReason(r) /\ r.calls < CallLimit

beginModelCallAllowed(r) ==
  /\ ~getBudgetStopReason(r) /\ r.calls < CallLimit
  /\ r.status \in {"planning", "running"} /\ ~r.cancel

Startable_Mutant(r, i) == ~getBudgetStopReason(r) /\ ~r.cancel

\* beginRunStep's transaction: the budget, the cancellation and the step's own
\* status are checked again where the action id is assigned.
Startable(r, i) ==
  /\ ~getBudgetStopReason(r) /\ ~r.cancel
  /\ r.steps[i].status \in {"planned", "waiting_dependency"}

beginRunStep(r, i) ==
  [r EXCEPT !.used = @ + 1, !.steps[i].status = "running", !.steps[i].act = TRUE]

recordRunPlan(r, plan, cont) ==
  LET base == Len(r.steps) IN
  [r EXCEPT !.status = "running", !.cont = cont /\ plan # <<>>, !.claimed = FALSE,
            !.steps = @ \o [i \in DOMAIN plan |->
               [deps |-> {base + d : d \in plan[i].deps}, sig |-> plan[i].sig,
                status |-> "planned", act |-> FALSE]]]

failRun_Mutant(r) == r

failRun(r) == [r EXCEPT !.status = "failed"]

claimContinuation_Mutant(r) == r

claimContinuation(r) == [r EXCEPT !.status = "planning", !.claimed = TRUE]

-----------------------------------------------------------------------------
(* Process bookkeeping.                                                    *)

Free == turn = None
Runs(p) == turn \in {None, p}
Goto(p, f) == frame' = [frame EXCEPT ![p] = f]
Rest(p) == Goto(p, Resting) /\ turn' = None

\* The end of _handleRunMessage, and of a resumed one inside resumeRunPlanning.
Finish(p, r) ==
  /\ run' = IF p = "user" THEN Classified(r) ELSE getRun(Classified(r), acts)
  /\ Rest(p)

Throw(p) ==
  /\ run' = IF p = "user" THEN failRun(run) ELSE getRun(failRun(run), acts)
  /\ Rest(p)

-----------------------------------------------------------------------------
(* The planning loop: handleMessage and _handleRunMessage.                 *)

handleMessage ==
  /\ Free /\ run.status = "none"
  /\ run' = [run EXCEPT !.status = "planning"]
  /\ Goto("user", [Resting EXCEPT !.pc = "round", !.in = "loop"])
  /\ UNCHANGED <<acts, late, turn, crashes>>

\* The top of a round up to the await of the model.
StartRound(p) ==
  /\ Runs(p) /\ frame[p].pc = "round"
  /\ \/ /\ run.cancel
        /\ Finish(p, clearContinuation(run))
     \/ /\ ~run.cancel /\ getBudgetStopReason(run)
        /\ Finish(p, markBudgetExhausted(run, acts))
     \/ /\ ~run.cancel /\ ~getBudgetStopReason(run)
        /\ frame[p].round > 0 /\ run.calls >= CallLimit
        /\ Finish(p, clearContinuation(run))
     \/ /\ beginModelCallAllowed(run)
        /\ run' = [run EXCEPT !.calls = @ + 1]
        /\ Goto(p, [frame[p] EXCEPT !.pc = "model"])
        /\ turn' = None
  /\ UNCHANGED <<acts, late, crashes>>

\* The provider fails: a fallback connection is a model call of its own, which
\* the budget may refuse; without one the run fails.
ModelFails(p) ==
  /\ Free /\ frame[p].pc = "model"
  /\ \/ /\ beginModelCallAllowed(run)
        /\ run' = [run EXCEPT !.calls = @ + 1]
        /\ UNCHANGED <<frame, turn>>
     \/ /\ getBudgetStopReason(run)
        /\ Finish(p, markBudgetExhausted(run, acts))
     \/ Throw(p)
  /\ UNCHANGED <<acts, late, crashes>>

\* The answer is metered (a provider may report no usage), then discarded if the
\* run was cancelled or its budget ran out meanwhile.  Metering a run that is no
\* longer planning or running is an error, which is ModelFails.
ModelDiscarded(p, metered, spent) ==
  LET r == [run EXCEPT !.tokens = @ \/ (metered /\ spent)] IN
  /\ Free /\ frame[p].pc = "model"
  /\ metered => run.status \in {"planning", "running"}
  /\ \/ (metered \/ ~run.cancel) /\ getBudgetStopReason(r) /\ Finish(p, markBudgetExhausted(r, acts))
     \/ ~metered /\ run.cancel /\ Finish(p, clearContinuation(r))
  /\ UNCHANGED <<acts, late, crashes>>

\* The observations may not be shown to the model under the privacy policy.
ModelRestricted(p) ==
  /\ Free /\ frame[p].pc = "model" /\ frame[p].round > 0
  /\ ~run.cancel /\ ~getBudgetStopReason(run)
  /\ Finish(p, clearContinuation(run))
  /\ UNCHANGED <<acts, late, crashes>>

PlanAccepted(p, plan, cont) ==
  LET base == Len(run.steps) IN
  /\ Free /\ frame[p].pc = "model"
  /\ ~run.cancel /\ ~getBudgetStopReason(run)
  /\ base + Len(plan) <= MaxSteps
  /\ run' = recordRunPlan(run, plan, cont)
  /\ acts' = acts \o [i \in DOMAIN plan |-> "none"]
  /\ Goto(p, [frame[p] EXCEPT !.pc = "steps", !.base = base, !.cont = cont,
                !.results = <<>>, !.todo = (base + 1)..(base + Len(plan))])
  /\ turn' = p
  /\ UNCHANGED <<late, crashes>>

\* Outcomes of a prerequisite that leave a dependent waiting for it.
Pending == {"pending", "waiting_dependency", "waiting_for_action", "retrying", "queued",
            "uncertain", "outcome_uncertain"}

Outcome(p, i) == frame[p].results[i - frame[p].base]

Unmet_Mutant(p, i) == {d \in run.steps[i].deps : Outcome(p, d) \notin {"executed", "pending"}}

Unmet(p, i) == {d \in run.steps[i].deps : Outcome(p, d) # "executed"}

\* A step is passed over with the outcome given.
PassOver(p, outcome) ==
  Goto(p, [frame[p] EXCEPT !.todo = @ \ {Min(@)}, !.results = Append(@, outcome)])

DoStep(p) ==
  LET i == Min(frame[p].todo)
      step == run.steps[i]
      skip == IF Unmet(p, i) = {} THEN "skipped"
              ELSE IF \E d \in Unmet(p, i) : Outcome(p, d) \in Pending
              THEN "waiting_dependency" ELSE "skipped"
  IN
  /\ Runs(p) /\ frame[p].pc = "steps" /\ frame[p].todo # {}
  /\ turn' = p
  /\ \/ /\ run.cancel
        /\ run' = recordRunStepOutcome(run, i, "cancelled")
        /\ PassOver(p, "cancelled")
     \/ /\ ~run.cancel /\ getBudgetStopReason(run)
        /\ run' = markBudgetExhausted(run, acts)
        /\ PassOver(p, "budget_exhausted")
     \/ /\ ~run.cancel /\ ~getBudgetStopReason(run)
        /\ Unmet(p, i) # {} \/ step.sig \in frame[p].tried
        /\ run' = recordRunStepOutcome(run, i, skip)
        /\ PassOver(p, skip)
     \/ /\ Startable(run, i)
        /\ Unmet(p, i) = {} /\ step.sig \notin frame[p].tried
        /\ run' = beginRunStep(run, i)
        /\ Goto(p, [frame[p] EXCEPT !.pc = "decide", !.n = i, !.tried = @ \cup {step.sig}])
  /\ UNCHANGED <<acts, late, crashes>>

Resumable == {"executed", "pending", "waiting_dependency", "waiting_for_action",
              "retrying", "queued"}

EndRound(p) ==
  LET outcomes == {frame[p].results[i] : i \in DOMAIN frame[p].results}
      done == outcomes = {"executed"}
      held == outcomes # {} /\ outcomes \subseteq Resumable
      last == frame[p].round = CallLimit - 1
  IN
  /\ Runs(p) /\ frame[p].pc = "steps" /\ frame[p].todo = {}
  /\ \/ ~frame[p].cont /\ Finish(p, run)
     \/ frame[p].cont /\ ~done /\ held /\ Finish(p, run)
     \/ frame[p].cont /\ ~done /\ ~held /\ Finish(p, clearContinuation(run))
     \/ frame[p].cont /\ done /\ last /\ Finish(p, clearContinuation(run))
     \/ /\ frame[p].cont /\ done /\ ~last
        /\ Goto(p, [frame[p] EXCEPT !.pc = "round", !.round = @ + 1])
        /\ turn' = p
        /\ UNCHANGED run
  /\ UNCHANGED <<acts, late, crashes>>

-----------------------------------------------------------------------------
(* evaluateAndMaybeExecute, for a step of the loop or of a wake.           *)

\* An exception: the loop's caller fails the run, a wake's caller logs it.
Abandon(p) ==
  \/ frame[p].in = "loop" /\ Throw(p)
  \/ frame[p].in # "loop" /\ Rest(p) /\ UNCHANGED run

\* Policy decides and the audit row is written.
Decide(p) ==
  LET i == frame[p].n IN
  /\ turn = p /\ frame[p].pc = "decide"
  /\ \/ \E o \in {"blocked", "pending"} :
          /\ acts' = [acts EXCEPT ![i] = o]
          /\ Goto(p, [frame[p] EXCEPT !.pc = "record", !.out = o])
          /\ UNCHANGED <<run, turn>>
     \/ /\ acts' = [acts EXCEPT ![i] = "approved"]
        /\ Goto(p, [frame[p] EXCEPT !.pc = "enqueue"])
        /\ UNCHANGED <<run, turn>>
     \/ Abandon(p) /\ UNCHANGED acts
  /\ UNCHANGED <<late, crashes>>

\* enqueueAction, and processAction up to its first await.
Enqueue(p) ==
  /\ turn = p /\ frame[p].pc = "enqueue"
  /\ acts' = [acts EXCEPT ![frame[p].n] = "active"]
  /\ Goto(p, [frame[p] EXCEPT !.pc = "await"])
  /\ turn' = None
  /\ UNCHANGED <<run, late, crashes>>

Awaiting(i) == {p \in Procs : frame[p].pc = "await" /\ frame[p].n = i}

Reported_Mutant(o) == "executed"

\* The status the worker returns is the queue row's.
Reported(o) ==
  CASE o \in {"executed", "failed"} -> o
    [] o = "dead" -> "dead_letter"
    [] o = "retry" -> "retry_wait"

\* How an attempt ends, and how the worker's gate stops one that a restart or a
\* retry brought to the tick, where policy or the run may have changed since.
Endings == {"executed", "failed"} \cup (IF Retries THEN {"retry", "dead"} ELSE {})
GateEndings == IF run.cancel THEN {"cancelled", "failed", "uncertain"}
               ELSE {"repending", "blocked", "failed", "uncertain"}

\* An attempt ends in the process that awaits it, or in the tick's delivery.
Settle(i, o) ==
  /\ Free /\ acts[i] = "active"
  /\ acts' = [acts EXCEPT ![i] = o]
  /\ \/ /\ Awaiting(i) = {} /\ o \in Endings \cup GateEndings
        /\ UNCHANGED <<frame, turn>>
     \/ \E p \in Awaiting(i) :
          /\ o \in Endings
          /\ Goto(p, [frame[p] EXCEPT !.pc = "record", !.out = Reported(o)])
          /\ turn' = p
  /\ UNCHANGED <<run, late, crashes>>

\* The lease was lost, so settling the attempt throws in the process awaiting
\* it; the queue delivers the action without it.
LeaseLost(p) ==
  /\ Free /\ frame[p].pc = "await" /\ acts[frame[p].n] = "active"
  /\ Abandon(p)
  /\ UNCHANGED <<acts, late, crashes>>

\* The queue tick leases an action whose retry is due.
RetryRuns(i) ==
  /\ Free /\ acts[i] = "retry" /\ ~run.cancel /\ ~late
  /\ acts' = [acts EXCEPT ![i] = "active"]
  /\ UNCHANGED <<run, late, frame, turn, crashes>>

\* The worker's gate on an action nobody awaits, once the run's deadline passed.
DeadlineGate(i) ==
  /\ Free /\ late /\ ~run.cancel
  /\ acts[i] \in {"active", "retry"} /\ Awaiting(i) = {}
  /\ run' = markBudgetExhausted(run, acts)
  /\ \E o \in {"blocked", "failed"} : acts' = [acts EXCEPT ![i] = o]
  /\ UNCHANGED <<late, frame, turn, crashes>>

\* The outcome is written to the step and the loop or the wake goes on; an
\* approved action's outcome is left to the next read of the run.
Record(p) ==
  LET f == frame[p] IN
  /\ turn = p /\ f.pc = "record"
  /\ \/ /\ f.in = "loop"
        /\ run' = recordRunStepOutcome(run, f.n, f.out)
        /\ Goto(p, [f EXCEPT !.pc = "steps", !.todo = @ \ {Min(@)}, !.results = Append(@, f.out)])
     \/ /\ f.in = "wake"
        /\ run' = recordRunStepOutcome(run, f.n, f.out)
        /\ Goto(p, [f EXCEPT !.pc = "wake", !.todo = @ \ {Min(@)}])
     \/ /\ f.in = "approve"
        /\ Goto(p, [Resting EXCEPT !.pc = "waking", !.in = "wake"])
        /\ UNCHANGED run
  /\ UNCHANGED <<acts, late, turn, crashes>>

-----------------------------------------------------------------------------
(* Wakes: resumeRunDependents, then resumeRunPlanning.                     *)

WakeCandidate ==
  /\ ~run.cancel
  /\ run.status \in {"waiting_for_action", "waiting_for_dependency", "ready_to_continue",
                     "interrupted"}

\* The queue tick scans the candidates; an owner may ask for a wake any time.
Wake(p) ==
  /\ Free /\ frame[p].pc = "idle" /\ run.status # "none"
  /\ p \in Owners \/ (p = "tick" /\ WakeCandidate)
  /\ Goto(p, [Resting EXCEPT !.pc = "waking", !.in = "wake"])
  /\ turn' = p
  /\ UNCHANGED <<run, acts, late, crashes>>

Waiting(r) == {i \in DOMAIN r.steps : r.steps[i].status = "waiting_dependency"}

\* The steps to look at are read once, before the first await.
resumeRunDependents(p) ==
  /\ turn = p /\ frame[p].pc = "waking"
  /\ \/ /\ run.status \in {"planning", "running"} \/ Waiting(run) = {}
        /\ run' = getRun(run, acts)
        /\ Goto(p, [frame[p] EXCEPT !.pc = "plan"])
     \/ /\ run.status \notin {"planning", "running"} /\ Waiting(run) # {}
        /\ Goto(p, [frame[p] EXCEPT !.pc = "wake", !.todo = Waiting(run)])
        /\ UNCHANGED run
  /\ UNCHANGED <<acts, late, turn, crashes>>

Hopeless == {"rejected", "blocked", "failed", "cancelled", "skipped", "needs_attention"}

WakeStep(p) ==
  LET i == Min(frame[p].todo)
      r == getRun(run, acts)
      Dep(S) == \E d \in r.steps[i].deps : r.steps[d].status \in S
      met == \A d \in r.steps[i].deps : r.steps[d].status = "executed"
      duplicate == \E j \in 1..(i - 1) :
        /\ r.steps[j].sig = r.steps[i].sig
        /\ r.steps[j].status \notin {"waiting_dependency", "skipped"}
      Next1 == Goto(p, [frame[p] EXCEPT !.todo = @ \ {Min(@)}])
  IN
  /\ turn = p /\ frame[p].pc = "wake" /\ frame[p].todo # {}
  /\ \/ /\ run.cancel
        /\ run' = recordRunStepOutcome(run, i, "cancelled") /\ Next1
     \/ /\ ~run.cancel /\ getBudgetStopReason(run)
        /\ run' = markBudgetExhausted(run, acts)
        /\ Goto(p, [frame[p] EXCEPT !.todo = {}])
     \/ /\ ~run.cancel /\ ~getBudgetStopReason(run)
        /\ Dep(Hopeless) \/ (met /\ duplicate)
        /\ run' = recordRunStepOutcome(r, i, "skipped") /\ Next1
     \/ /\ ~run.cancel /\ ~getBudgetStopReason(run) /\ ~Dep(Hopeless)
        /\ ~met \/ (~duplicate /\ ~Startable(r, i))
        /\ run' = r /\ Next1
     \/ /\ met /\ ~duplicate /\ Startable(r, i)
        /\ run' = beginRunStep(r, i)
        /\ Goto(p, [frame[p] EXCEPT !.pc = "decide", !.n = i])
  /\ UNCHANGED <<acts, late, turn, crashes>>

WakeEnds(p) ==
  /\ turn = p /\ frame[p].pc = "wake" /\ frame[p].todo = {}
  /\ run' = getRun(run, acts)
  /\ Goto(p, [frame[p] EXCEPT !.pc = "plan"])
  /\ UNCHANGED <<acts, late, turn, crashes>>

\* The continuation is claimed and the planning loop resumed with the
\* signatures of everything attempted before.
resumeRunPlanning(p) ==
  LET r == getRun(run, acts) IN
  /\ turn = p /\ frame[p].pc = "plan"
  /\ \/ /\ r.status # "ready_to_continue"
        /\ run' = r /\ Rest(p)
     \/ /\ r.status = "ready_to_continue" /\ getBudgetStopReason(r)
        /\ run' = markBudgetExhausted(r, acts) /\ Rest(p)
     \/ /\ r.status = "ready_to_continue" /\ ~getBudgetStopReason(r) /\ r.calls >= CallLimit
        /\ run' = getRun(Classified(clearContinuation(r)), acts) /\ Rest(p)
     \/ /\ r.status = "ready_to_continue" /\ ~getBudgetStopReason(r) /\ r.calls < CallLimit
        /\ ~r.claimed /\ r.cont /\ ~r.cancel
        /\ \A i \in DOMAIN acts : acts[i] = "executed"
        /\ run' = claimContinuation(r)
        /\ Goto(p, [Resting EXCEPT !.pc = "round", !.in = "loop", !.round = r.calls,
                      !.tried = {r.steps[i].sig : i \in DOMAIN r.steps}])
        /\ turn' = None
  /\ UNCHANGED <<acts, late, crashes>>

-----------------------------------------------------------------------------
(* The owner's other requests, time, and restart.                          *)

\* Approval is gated by the run's deadline and by policy as it is now, then
\* delivers the action and wakes the run.
Approve(o, i) ==
  /\ Free /\ frame[o].pc = "idle" /\ ~run.cancel
  /\ acts[i] \in {"pending", "repending"}
  /\ \/ /\ late
        /\ acts' = [acts EXCEPT ![i] = "blocked"]
        /\ run' = markBudgetExhausted(run, acts')
        /\ UNCHANGED <<frame, turn>>
     \/ /\ ~late
        /\ acts' = [acts EXCEPT ![i] = "blocked"]
        /\ Goto(o, [Resting EXCEPT !.pc = "waking", !.in = "wake"])
        /\ turn' = o
        /\ UNCHANGED run
     \/ /\ ~late
        /\ acts' = [acts EXCEPT ![i] = "approved"]
        /\ Goto(o, [Resting EXCEPT !.pc = "enqueue", !.in = "approve", !.n = i])
        /\ turn' = o
        /\ UNCHANGED run
  /\ UNCHANGED <<late, crashes>>

rejectAction(o, i) ==
  /\ Free /\ frame[o].pc = "idle" /\ acts[i] \in {"pending", "repending"}
  /\ acts' = [acts EXCEPT ![i] = "rejected"]
  /\ Goto(o, [Resting EXCEPT !.pc = "waking", !.in = "wake"])
  /\ turn' = o
  /\ UNCHANGED <<run, late, crashes>>

requestRunCancellation(r, ac) ==
  getRun([WithUnstarted(r, "cancelled") EXCEPT !.cancel = TRUE, !.cont = FALSE,
            !.claimed = FALSE], ac)

\* cancelRun: the request is recorded, then each step's action is withdrawn in
\* turn, with an await between them.
cancelRun(o) ==
  LET r == getRun(run, acts) IN
  /\ Free /\ frame[o].pc = "idle" /\ run.status # "none"
  /\ \/ /\ r.status \in {"completed", "failed"}
        /\ run' = r
        /\ UNCHANGED <<frame, turn>>
     \/ /\ r.status \notin {"completed", "failed"}
        /\ run' = requestRunCancellation(r, acts)
        /\ Goto(o, [Resting EXCEPT !.pc = "withdraw",
             !.todo = {i \in DOMAIN r.steps : r.steps[i].act}])
        /\ turn' = o
  /\ UNCHANGED <<acts, late, crashes>>

\* What withdrawing an action leaves of it.
Withdrawn(act) ==
  CASE act \in {"pending", "repending"} -> "rejected"
    [] act = "retry" -> "cancelled"
    [] OTHER -> act

Withdraw(o) ==
  /\ Runs(o) /\ frame[o].pc = "withdraw"
  /\ \/ /\ frame[o].todo # {}
        /\ acts' = [acts EXCEPT ![Min(frame[o].todo)] = Withdrawn(@)]
        /\ Goto(o, [frame[o] EXCEPT !.todo = @ \ {Min(@)}])
        /\ turn' = None
        /\ UNCHANGED run
     \/ /\ frame[o].todo = {}
        /\ run' = getRun(run, acts)
        /\ Rest(o)
        /\ UNCHANGED acts
  /\ UNCHANGED <<late, crashes>>

\* Any page that shows the run.
ReadRun ==
  /\ Free /\ run.status # "none"
  /\ run' = getRun(run, acts)
  /\ UNCHANGED <<acts, late, frame, turn, crashes>>

\* The run's deadline passes.
Deadline ==
  /\ Free /\ run.status # "none" /\ ~late
  /\ late' = TRUE
  /\ UNCHANGED <<run, acts, frame, turn, crashes>>

reconcileInterruptedRuns(r, ac) ==
  LET cut == [r EXCEPT !.steps = [i \in DOMAIN r.steps |->
               IF ~r.steps[i].act /\ r.steps[i].status \in {"planned", "running"}
               THEN [r.steps[i] EXCEPT !.status = "interrupted"] ELSE r.steps[i]]]
      off == IF r.status \in {"planning", "running"}
             THEN [cut EXCEPT !.status = "interrupted"] ELSE cut
      free == IF off.status = "interrupted" /\ r.cont
              THEN [off EXCEPT !.claimed = FALSE] ELSE off
  IN IF free.status \in {"interrupted", "waiting_for_action", "waiting_for_approval"}
     THEN getRun(free, ac) ELSE free

\* The process dies, between any two durable writes, and starts again.
Crash ==
  /\ crashes < MaxCrashes /\ run.status # "none"
  /\ run' = reconcileInterruptedRuns(run, acts)
  /\ frame' = [p \in Procs |-> Resting]
  /\ turn' = None
  /\ crashes' = crashes + 1
  /\ UNCHANGED <<acts, late>>

-----------------------------------------------------------------------------

Loop(p) ==
  \/ StartRound(p) \/ ModelFails(p) \/ ModelRestricted(p)
  \/ \E metered, spent \in BOOLEAN : ModelDiscarded(p, metered, spent)
  \/ \E plan \in Plans, cont \in BOOLEAN : PlanAccepted(p, plan, cont)
  \/ DoStep(p) \/ EndRound(p)

Execution(p) == Decide(p) \/ Enqueue(p) \/ LeaseLost(p) \/ Record(p)

Waking(p) ==
  \/ resumeRunDependents(p) \/ WakeStep(p) \/ WakeEnds(p) \/ resumeRunPlanning(p)

Delivery ==
  \E i \in DOMAIN acts :
    (\E o \in ActState : Settle(i, o)) \/ RetryRuns(i) \/ DeadlineGate(i)

OwnerRequest ==
  \E o \in Owners :
    \/ \E i \in DOMAIN acts : Approve(o, i) \/ rejectAction(o, i)
    \/ cancelRun(o)

Next ==
  \/ handleMessage
  \/ \E p \in Procs : Loop(p) \/ Execution(p) \/ Waking(p) \/ Wake(p)
  \/ \E o \in Owners : Withdraw(o)
  \/ Delivery \/ OwnerRequest \/ ReadRun \/ Deadline \/ Crash

Spec == Init /\ [][Next]_vars

\* The event loop serves ready callbacks in turn, so other requests cannot keep
\* one waiting for ever; a model call and a tool call end (their requests time
\* out) and the queue tick recurs.
Fairness ==
  /\ \A p \in Procs : SF_vars(Loop(p) \/ Execution(p) \/ Waking(p))
  /\ SF_vars(Wake("tick")) /\ SF_vars(Delivery)

FairSpec == Spec /\ Fairness

-----------------------------------------------------------------------------
(* Properties.                                                             *)

\* Every variable keeps its shape, and the run its budgets (agent_runs,
\* agent_run_steps and the process frames).
TypeOK ==
  /\ run \in RunRow
  /\ acts \in Seq(ActState) /\ Len(acts) = Len(run.steps)
  /\ late \in BOOLEAN
  /\ frame \in [Procs -> Frame]
  /\ turn \in Procs \cup {None}
  /\ crashes \in 0..MaxCrashes

Begun == {i \in DOMAIN run.steps : run.steps[i].act}

\* beginRunStep is the only claim on a step: each unit of the step budget paid
\* for a different step, so concurrent wakes never start one twice.
StepsBegunOnce == run.used = Cardinality(Begun)

\* A step has an action only if every step it depends on was executed, whoever
\* started it: the loop, from its own results, or a wake, from the stored ones.
DependenciesFirst ==
  \A i \in Begun : \A d \in run.steps[i].deps : acts[d] = "executed"

\* No two processes run the planning loop of the same run.
OneLoop == \A p, q \in Procs : frame[p].in = "loop" /\ frame[q].in = "loop" => p = q

\* Once cancellation is recorded no model call and no step is started, whichever
\* request was in flight.
NoStartAfterCancel ==
  [][run.cancel => run'.calls = run.calls /\ run'.used = run.used]_vars

\* A run is called completed only when every one of its actions was executed.
CompletedIsReal == run.status = "completed" => \A i \in DOMAIN acts : acts[i] = "executed"

\* A dependent step is not given up while its prerequisite is still to be
\* retried: it waits for it (agent.js's list of outcomes worth waiting for).
RetriedIsWaitedFor ==
  \A i \in DOMAIN acts : run.steps[i].status = "skipped" =>
    \A d \in run.steps[i].deps : acts[d] # "retry"

\* A run is called cancelled only when none of its actions is still waiting for
\* the owner, being delivered or due to be retried.
CancelledIsQuiet ==
  run.status = "cancelled" =>
    \A i \in DOMAIN acts : acts[i] \notin {"pending", "repending", "active", "retry"}

\* The planning loop always ends: no run stays in planning or running.
PlanningEnds ==
  (run.status \in {"planning", "running"}) ~> (run.status \notin {"planning", "running"})

\* A step whose prerequisites were all executed does not wait for ever: a wake
\* starts it or gives it up, whether or not anyone is looking.
DependentsWake ==
  LET ready == \E i \in DOMAIN run.steps :
                 /\ run.steps[i].status = "waiting_dependency"
                 /\ \A d \in run.steps[i].deps : acts[d] = "executed"
  IN ready ~> ~ready

=============================================================================
